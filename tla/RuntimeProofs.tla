---------------------------- MODULE RuntimeProofs ----------------------------
(***************************************************************************)
(* Proofs about Runtime, Registries and Heap for every set of threads,      *)
(* handlers and exit functions, every number of keys, blocks and calls and  *)
(* every interface: the second pass of an exception calls the handlers it   *)
(* should, no thread-specific value outlives its ecall, functions run once, *)
(* the registries of plugins, sealed data and ecall names stay sound, and   *)
(* the debug allocator's list leads through the blocks in use.              *)
(*                                                                          *)
(* The services share nothing but the threads, so the inductive invariant   *)
(* has a part for each, and a step of one leaves the parts of the others.   *)
(***************************************************************************)
EXTENDS Runtime, Registries, Heap, SequenceTheorems, FiniteSetTheorems, WellFoundedInduction, TLAPS

Adding == {"move", "store", "count"}
Changing == Adding \cup {"shift"}
Exiting == {"exiting", "exited"}
Running == {"func", "infunc"}
Pcs == {"idle", "check", "invoke", "aborted", "destruct", "cas", "spin", "returned"}
         \cup Changing \cup Exiting \cup Running
Slots == Handlers \cup {NoHandler}

CallsOK == pc \in [Threads -> Pcs] /\ idx \in [Threads -> Nat] /\ arg \in [Threads -> Slots]

-----------------------------------------------------------------------------
(* The registered handlers are among the slots of S. *)
Kept(S) == \A h \in registered : \E i \in S : arr[i] = h

(* Thread t is adding a handler: the slot idx[t] is the one that the array   *)
(* can spare, and the one at the count has been filled unless it is that.    *)
AddMeaning(t) ==
  /\ count < MaxHandlers /\ idx[t] \in 0 .. count /\ arg[t] \in Handlers
  /\ Kept((0 .. count) \ {idx[t]})
  /\ idx[t] < count => arr[count] \in Handlers
  /\ pc[t] = "count" => arr[idx[t]] = arg[t]

(* Thread t is removing one: again it can spare the slot idx[t]. *)
ShiftMeaning(t) == idx[t] \in 0 .. count - 1 /\ Kept((0 .. count - 1) \ {idx[t]})

HandlerTypes ==
  /\ arr \in [0 .. MaxHandlers - 1 -> Slots]
  /\ count \in 0 .. MaxHandlers
  /\ registered \subseteq Slots
  /\ hlock \in Threads \cup {NoThread}
  /\ \A i \in 0 .. count - 1 : arr[i] \in Handlers

HandlerMeaning ==
  /\ HandlerTypes
  /\ \A t \in Threads : hlock = t <=> pc[t] \in Changing
  /\ hlock = NoThread => Kept(0 .. count - 1)
  /\ \A t \in Threads : pc[t] \in Adding => AddMeaning(t)
  /\ \A t \in Threads : pc[t] = "shift" => ShiftMeaning(t)

-----------------------------------------------------------------------------
Walks == [steady : SUBSET Slots, seen : SUBSET Slots, shifted : BOOLEAN, called : SUBSET Slots]

(* A walk under which nothing moves: it has called what is below its index.  *)
Still(t) ==
  /\ ~Shifting
  /\ idx[t] <= count /\ (pc[t] = "invoke" => idx[t] < count)
  /\ \A h \in walk[t].steady : \E i \in 0 .. count - 1 : arr[i] = h
  /\ \A i \in 0 .. idx[t] - 1 : arr[i] \in walk[t].called

(* A walk has seen all that is in the array, and what it is about to call,   *)
(* even if the count has been lowered since it compared it with its index.   *)
WalkOK(t) ==
  /\ walk[t] \in Walks /\ walk[t].called \subseteq walk[t].seen
  /\ Walking(t) => Stored \subseteq walk[t].seen
  /\ pc[t] = "invoke" => idx[t] \in 0 .. MaxHandlers - 1 /\ arr[idx[t]] \in walk[t].seen
  /\ Walking(t) /\ ~walk[t].shifted => Still(t)
  /\ pc[t] = "aborted" /\ ~walk[t].shifted => walk[t].steady \subseteq walk[t].called

WalkMeaning == (\A t \in Threads : WalkOK(t)) /\ walk \in [Threads -> Walks]

-----------------------------------------------------------------------------
KeyTypes ==
  /\ used \in [Keys -> BOOLEAN]
  /\ gen \in [Keys -> Nat] /\ ses \in [Threads -> Nat]
  /\ page \in [Threads -> [Keys -> [gen : Nat, ses : Nat]]]
  /\ klock \in Threads \cup {NoThread}

(* A value is of a key the slot has had, and of this ecall if the key lives  *)
(* on; the destructors have cleared the keys below the loop's index.         *)
ValueOK(t, k) ==
  /\ page[t][k].gen <= gen[k]
  /\ used[k] /\ page[t][k] # NoValue /\ page[t][k].gen = gen[k] => page[t][k].ses = ses[t]
  /\ pc[t] = "destruct" /\ k < idx[t] /\ used[k] => page[t][k] = NoValue

KeyMeaning ==
  /\ KeyTypes
  /\ \A t \in Threads : klock = t <=> pc[t] = "destruct"
  /\ \A t \in Threads, k \in Keys : ValueOK(t, k)

-----------------------------------------------------------------------------
OnceMeaning ==
  /\ \/ once = "FUNC_NOT_INVOKED" /\ runs = 0
     \/ once = "FUNC_BEING_INVOKED" /\ runs \in 0 .. 1
     \/ once = "FUNC_INVOKED" /\ runs = 1 /\ finished
  /\ \A t \in Threads :
       /\ pc[t] = "func" => once = "FUNC_BEING_INVOKED" /\ runs = 0
       /\ pc[t] = "infunc" => once = "FUNC_BEING_INVOKED" /\ runs = 1
       /\ pc[t] = "returned" => once = "FUNC_INVOKED"
  /\ \A t, u \in Threads : pc[t] \in Running /\ pc[u] \in Running => t = u

-----------------------------------------------------------------------------
(* The functions called are the first of those that were due. *)
CalledInOrder ==
  /\ entries \in Seq(Functions) /\ called \in Seq(Functions)
  /\ due \in Nat /\ due <= Len(entries) /\ Len(called) <= due
  /\ \A i \in 1 .. Len(called) : called[i] = entries[Len(entries) - due + i]

ExitMeaning ==
  /\ CalledInOrder
  /\ \A t \in Threads : pc[t] = "exiting" => Len(called) + idx[t] = due
  /\ \A t \in Threads : pc[t] = "exited" => Len(called) = due
  /\ \A t, u \in Threads : pc[t] \in Exiting /\ pc[u] \in Exiting => t = u
  /\ (\A t \in Threads : pc[t] \notin Exiting) => called = <<>>

(* The inductive invariant. *)
IInv == CallsOK /\ HandlerMeaning /\ WalkMeaning /\ KeyMeaning /\ OnceMeaning /\ ExitMeaning

-----------------------------------------------------------------------------
(* Only thread t moves. *)
Only(t) ==
  /\ CallsOK'
  /\ \A u \in Threads \ {t} : pc'[u] = pc[u] /\ idx'[u] = idx[u] /\ arg'[u] = arg[u]

(* Neither its place before nor its place after the step is in S. *)
Outside(t, S) == pc[t] \notin S /\ pc'[t] \notin S

HandlerPcs == Changing \cup {"check", "invoke", "aborted"}

(* A step outside the changes of the array leaves what it stores.             *)
LEMMA StoredKept ==
  ASSUME NEW t \in Threads, Only(t), Outside(t, Changing), UNCHANGED <<arr, count>>
  PROVE  (Spilled' <=> Spilled) /\ Stored' = Stored /\ (Shifting' <=> Shifting)
<1>1. Spilled' <=> Spilled
  BY DEF Spilled, Only, Outside, Changing, Adding
<1>2. Shifting' <=> Shifting
  BY DEF Shifting, Only, Outside, Changing, Adding
<1> QED BY <1>1, <1>2 DEF Stored

(* A step outside the changes of the array leaves the part of the handlers.   *)
LEMMA HandlersKept ==
  ASSUME NEW t \in Threads, Only(t), Outside(t, Changing), UNCHANGED <<arr, count, hlock, registered>>,
         HandlerMeaning
  PROVE  HandlerMeaning'
<1>1. HandlerTypes'
  BY DEF HandlerMeaning, HandlerTypes
<1>2. \A u \in Threads : hlock' = u <=> pc'[u] \in Changing
  BY DEF HandlerMeaning, Only, Outside
<1>3. \A S : Kept(S)' <=> Kept(S)
  BY DEF Kept
<1>4. hlock' = NoThread => Kept(0 .. count - 1)'
  BY <1>3 DEF HandlerMeaning
<1>5. ASSUME NEW u \in Threads, pc'[u] \in Adding PROVE AddMeaning(u)'
  <2>1. pc'[u] = pc[u] /\ idx'[u] = idx[u] /\ arg'[u] = arg[u] /\ AddMeaning(u)
    BY <1>5 DEF Only, Outside, HandlerMeaning, Changing
  <2>2. PICK n : n = idx[u]
    OBVIOUS
  <2>3. Kept((0 .. count) \ {n})'
    BY <1>3, <2>1, <2>2 DEF AddMeaning
  <2>4. Kept((0 .. count) \ {idx[u]})'
    BY <2>1, <2>2, <2>3
  <2> QED BY <2>1, <2>4 DEF AddMeaning
<1>6. ASSUME NEW u \in Threads, pc'[u] = "shift" PROVE ShiftMeaning(u)'
  <2>1. pc'[u] = pc[u] /\ idx'[u] = idx[u] /\ ShiftMeaning(u)
    BY <1>6 DEF Only, Outside, HandlerMeaning, Changing
  <2>2. PICK n : n = idx[u]
    OBVIOUS
  <2>3. Kept((0 .. count - 1) \ {n})'
    BY <1>3, <2>1, <2>2 DEF ShiftMeaning
  <2>4. Kept((0 .. count - 1) \ {idx[u]})'
    BY <2>1, <2>2, <2>3
  <2> QED BY <2>1, <2>4 DEF ShiftMeaning
<1> QED BY <1>1, <1>2, <1>4, <1>5, <1>6 DEF HandlerMeaning

(* Another thread's walk goes on as it was. *)
LEMMA WalkKept ==
  ASSUME NEW t \in Threads, Only(t), Outside(t, Changing), UNCHANGED <<arr, count>>,
         NEW u \in Threads, WalkOK(u), walk'[u] = walk[u], pc'[u] = pc[u], idx'[u] = idx[u]
  PROVE  WalkOK(u)'
<1>1. Stored' = Stored /\ (Shifting' <=> Shifting)
  BY StoredKept
<1>2. Walking(u)' <=> Walking(u)
  BY DEF Walking
<1>3. Still(u)' <=> Still(u)
  BY <1>1 DEF Still
<1> QED BY <1>1, <1>2, <1>3 DEF WalkOK

(* A step outside the handlers leaves every walk good.                        *)
LEMMA WalksKept ==
  ASSUME NEW t \in Threads, Only(t), Outside(t, HandlerPcs), UNCHANGED <<arr, count, walk>>,
         WalkMeaning
  PROVE  WalkMeaning'
<1>1. Outside(t, Changing)
  BY DEF Outside, HandlerPcs
<1>2. ASSUME NEW u \in Threads PROVE WalkOK(u)'
  <2>1. CASE u # t
    BY <1>1, <2>1, WalkKept DEF WalkMeaning, Only
  <2>2. CASE u = t
    BY <2>2 DEF WalkMeaning, WalkOK, Walking, Outside, HandlerPcs
  <2> QED BY <2>1, <2>2
<1> QED BY <1>2 DEF WalkMeaning

(* A step outside the destructors leaves the part of the keys.                *)
LEMMA KeysKept ==
  ASSUME NEW t \in Threads, Only(t), Outside(t, {"destruct"}), UNCHANGED keyVars, KeyMeaning
  PROVE  KeyMeaning'
<1>1. KeyTypes' /\ \A u \in Threads : klock' = u <=> pc'[u] = "destruct"
  BY DEF KeyMeaning, KeyTypes, keyVars, Only, Outside
<1>2. ASSUME NEW u \in Threads, NEW k \in Keys PROVE ValueOK(u, k)'
  BY DEF KeyMeaning, ValueOK, keyVars, Only, Outside
<1> QED BY <1>1, <1>2 DEF KeyMeaning

(* A step outside oe_once leaves its part.                                    *)
LEMMA OnceKept ==
  ASSUME NEW t \in Threads, Only(t), Outside(t, Running \cup {"returned"}), UNCHANGED onceVars,
         OnceMeaning
  PROVE  OnceMeaning'
BY DEF OnceMeaning, onceVars, Only, Outside, Running

(* A step outside the exit functions leaves their part.                       *)
LEMMA ExitKept ==
  ASSUME NEW t \in Threads, Only(t), Outside(t, Exiting), UNCHANGED exitVars, ExitMeaning
  PROVE  ExitMeaning'
<1>1. CalledInOrder'
  BY DEF ExitMeaning, CalledInOrder, exitVars
<1> QED BY <1>1 DEF ExitMeaning, exitVars, Only, Outside, Exiting

(* How a step moves a thread. *)
LEMMA MoveTo ==
  ASSUME CallsOK, NEW t \in Threads, NEW p \in Pcs, Goto(t, p), NEW i \in Nat,
         idx' = [idx EXCEPT ![t] = i] \/ (UNCHANGED idx /\ i = idx[t]), UNCHANGED arg
  PROVE  Only(t) /\ pc'[t] = p /\ idx'[t] = i /\ arg'[t] = arg[t]
BY DEF CallsOK, Goto, Only

-----------------------------------------------------------------------------
(* A step of one service, by thread t, leaves the parts of the others.       *)

(* A step of the thread-specific data.                                        *)
LEMMA KeysOnly ==
  ASSUME IInv, NEW t \in Threads, Only(t), KeyMeaning',
         pc[t] \in {"idle", "destruct"}, pc'[t] \in {"idle", "destruct"},
         UNCHANGED <<handlerVars, onceVars, exitVars>>
  PROVE  IInv'
<1>1. /\ Outside(t, HandlerPcs) /\ Outside(t, Changing) /\ Outside(t, Exiting)
      /\ Outside(t, Running \cup {"returned"})
  BY DEF Outside, HandlerPcs, Changing, Adding, Exiting, Running
<1> QED BY <1>1, HandlersKept, WalksKept, OnceKept, ExitKept DEF IInv, handlerVars, Only

(* A step of the exception handlers.                                          *)
LEMMA HandlersOnly ==
  ASSUME IInv, NEW t \in Threads, Only(t), HandlerMeaning', WalkMeaning',
         pc[t] \in {"idle"} \cup HandlerPcs, pc'[t] \in {"idle"} \cup HandlerPcs,
         UNCHANGED <<keyVars, onceVars, exitVars>>
  PROVE  IInv'
<1>1. /\ Outside(t, {"destruct"}) /\ Outside(t, Exiting) /\ Outside(t, Running \cup {"returned"})
  BY DEF Outside, HandlerPcs, Changing, Adding, Exiting, Running
<1> QED BY <1>1, KeysKept, OnceKept, ExitKept DEF IInv, Only

(* A step of oe_once.                                                         *)
LEMMA OnceOnly ==
  ASSUME IInv, NEW t \in Threads, Only(t), OnceMeaning',
         pc[t] \in {"idle", "cas", "spin", "returned"} \cup Running,
         pc'[t] \in {"idle", "cas", "spin", "returned"} \cup Running,
         UNCHANGED <<handlerVars, keyVars, exitVars>>
  PROVE  IInv'
<1>1. /\ Outside(t, HandlerPcs) /\ Outside(t, Changing) /\ Outside(t, Exiting)
      /\ Outside(t, {"destruct"})
  BY DEF Outside, HandlerPcs, Changing, Adding, Exiting, Running
<1> QED BY <1>1, HandlersKept, WalksKept, KeysKept, ExitKept DEF IInv, handlerVars, Only

(* A step of the exit functions.                                              *)
LEMMA ExitOnly ==
  ASSUME IInv, NEW t \in Threads, Only(t), ExitMeaning',
         pc[t] \in {"idle"} \cup Exiting, pc'[t] \in {"idle"} \cup Exiting,
         UNCHANGED <<handlerVars, keyVars, onceVars>>
  PROVE  IInv'
<1>1. /\ Outside(t, HandlerPcs) /\ Outside(t, Changing) /\ Outside(t, {"destruct"})
      /\ Outside(t, Running \cup {"returned"})
  BY DEF Outside, HandlerPcs, Changing, Adding, Exiting, Running
<1> QED BY <1>1, HandlersKept, WalksKept, OnceKept, KeysKept DEF IInv, handlerVars, Only

-----------------------------------------------------------------------------
(* One-time initialization: the winner of the exchange is alone in func.     *)
LEMMA OnceInv ==
  ASSUME IInv, NEW t \in Threads,
         OnceLoad(t) \/ OnceExchange(t) \/ OnceInvoke(t) \/ OnceStore(t) \/ OnceSpin(t)
  PROVE  IInv'
<1> USE DEF OnceLoad, OnceExchange, OnceInvoke, OnceStore, OnceSpin, Call
<1>1. PICK p \in {"returned", "cas", "func", "spin", "infunc"} : Goto(t, p)
  OBVIOUS
<1>2. p \in Pcs /\ CallsOK /\ idx[t] \in Nat /\ UNCHANGED <<idx, arg>>
  BY <1>1 DEF Pcs, Running, IInv, CallsOK
<1>3. Only(t) /\ pc'[t] = p
  BY <1>1, <1>2, MoveTo
<1>4. OnceMeaning'
  <2>1. OnceMeaning /\ \A u \in Threads \ {t} : pc'[u] = pc[u]
    BY <1>3 DEF IInv, Only
  <2>2. CASE OnceLoad(t)
    BY <1>1, <1>3, <2>1, <2>2 DEF OnceMeaning, onceVars, Running, Goto, IInv, CallsOK
  <2>3. CASE OnceExchange(t)
    <3>1. \A u \in Threads : once = "FUNC_NOT_INVOKED" => pc[u] \notin Running
      BY <2>1 DEF OnceMeaning, Running
    <3>2. pc'[t] = IF once = "FUNC_NOT_INVOKED" THEN "func" ELSE "spin"
      BY <2>3 DEF Goto, IInv, CallsOK
    <3> QED BY <2>1, <2>3, <3>1, <3>2 DEF OnceMeaning, Running
  <2>4. CASE OnceInvoke(t)
    <3>1. pc'[t] = "infunc"
      BY <2>4 DEF Goto, IInv, CallsOK
    <3> QED BY <2>1, <2>4, <3>1 DEF OnceMeaning, Running
  <2>5. CASE OnceStore(t)
    <3>1. pc'[t] = "returned"
      BY <2>5 DEF Goto, IInv, CallsOK
    <3> QED BY <2>1, <2>5, <3>1 DEF OnceMeaning, Running
  <2>6. CASE OnceSpin(t)
    <3>1. pc'[t] = "returned"
      BY <2>6 DEF Goto, IInv, CallsOK
    <3> QED BY <2>1, <2>6, <3>1 DEF OnceMeaning, Running, onceVars
  <2> QED BY <2>2, <2>3, <2>4, <2>5, <2>6
<1>5. /\ pc[t] \in {"idle", "cas", "spin", "returned"} \cup Running
      /\ pc'[t] \in {"idle", "cas", "spin", "returned"} \cup Running
      /\ UNCHANGED <<handlerVars, keyVars, exitVars>>
  BY <1>3 DEF Running
<1> QED BY <1>3, <1>4, <1>5, OnceOnly

-----------------------------------------------------------------------------
(* Exit functions: the walk counts down from the end of the list, so entries *)
(* put in front of it do not matter.                                         *)
LEMMA AtExitInv ==
  ASSUME IInv, NEW t \in Threads, NEW f \in Functions, AtExit(t, f) PROVE IInv'
<1>1. CalledInOrder /\ ExitMeaning /\ UNCHANGED <<callVars, called, due>> /\ entries' = <<f>> \o entries
  BY DEF AtExit, IInv, ExitMeaning
<1>2. /\ entries' \in Seq(Functions) /\ Len(entries') = Len(entries) + 1
      /\ \A i \in 1 .. Len(entries) : entries'[i + 1] = entries[i]
  <2>1. <<f>> \in Seq(Functions) /\ Len(<<f>>) = 1 /\ entries \in Seq(Functions)
    BY <1>1 DEF CalledInOrder
  <2> QED BY <1>1, <2>1, ConcatProperties
<1>3. CalledInOrder'
  <2>1. Len(entries) \in Nat /\ Len(called) \in Nat
    BY <1>1 DEF CalledInOrder
  <2>2. ASSUME NEW i \in 1 .. Len(called) PROVE called[i] = entries'[Len(entries') - due + i]
    <3>1. due \in Nat /\ due <= Len(entries) /\ Len(called) <= due
      BY <1>1 DEF CalledInOrder
    <3>2. /\ Len(entries) - due + i \in 1 .. Len(entries)
          /\ Len(entries') - due + i = (Len(entries) - due + i) + 1
      BY <1>2, <2>1, <3>1
    <3> QED BY <1>1, <1>2, <3>2 DEF CalledInOrder
  <2> QED BY <1>1, <1>2, <2>1, <2>2 DEF CalledInOrder
<1>4. ExitMeaning'
  BY <1>1, <1>3 DEF ExitMeaning, callVars
<1>5. Only(t) /\ pc[t] = "idle" /\ pc'[t] = "idle" /\ UNCHANGED <<handlerVars, keyVars, onceVars>>
  BY <1>1 DEF AtExit, Call, Only, callVars, IInv, CallsOK
<1> QED BY <1>4, <1>5, ExitOnly

(* The start of the exit functions.                                           *)
LEMMA ExitStartInv ==
  ASSUME IInv, NEW t \in Threads, ExitStart(t) PROVE IInv'
<1> USE DEF ExitStart
<1>1. ExitMeaning /\ CalledInOrder /\ CallsOK
  BY DEF IInv, ExitMeaning
<1>2. Len(entries) \in Nat /\ called = <<>> /\ Len(called) = 0
  BY <1>1 DEF ExitMeaning, CalledInOrder, Exiting
<1>3. Only(t) /\ pc'[t] = "exiting" /\ idx'[t] = Len(entries)
  <2>1. PICK n \in Nat : n = Len(entries)
    BY <1>2
  <2>2. "exiting" \in Pcs
    BY DEF Pcs, Exiting
  <2> QED BY <1>1, <2>1, <2>2, MoveTo
<1>4. CalledInOrder'
  BY <1>1, <1>2 DEF CalledInOrder
<1>5. \A u \in Threads \ {t} : pc'[u] \notin Exiting
  BY <1>3 DEF Only, Exiting
<1>6. ExitMeaning'
  BY <1>2, <1>3, <1>4, <1>5 DEF ExitMeaning, Exiting
<1>7. pc[t] \in {"idle"} \cup Exiting /\ pc'[t] \in {"idle"} \cup Exiting
  BY <1>3 DEF Exiting
<1> QED BY <1>3, <1>6, <1>7, ExitOnly

(* A call of an exit function.                                                *)
LEMMA ExitCallInv ==
  ASSUME IInv, NEW t \in Threads, ExitCall(t) PROVE IInv'
<1> USE DEF ExitCall
<1>1. ExitMeaning /\ CalledInOrder /\ CallsOK /\ pc[t] = "exiting" /\ idx[t] \in Nat
  BY DEF IInv, ExitMeaning, CallsOK
<1>2. /\ Len(entries) \in Nat /\ Len(called) \in Nat /\ due \in Nat /\ due <= Len(entries)
      /\ Len(called) + idx[t] = due
  BY <1>1 DEF ExitMeaning, CalledInOrder
<1>3. \A u \in Threads \ {t} : pc[u] \notin Exiting
  BY <1>1 DEF ExitMeaning, Exiting
<1>4. CASE idx[t] > 0
  <2>1. /\ called' = Append(called, entries[Len(entries) - idx[t] + 1])
        /\ idx' = [idx EXCEPT ![t] = idx[t] - 1] /\ UNCHANGED <<pc, arg, entries, due>>
    BY <1>4
  <2>2. Only(t) /\ pc'[t] = "exiting" /\ idx'[t] = idx[t] - 1
    BY <1>1, <1>4, <2>1 DEF Only, CallsOK
  <2>3. PICK f : f = entries[Len(entries) - idx[t] + 1]
    OBVIOUS
  <2>4. f \in Functions
    <3>1. Len(entries) - idx[t] + 1 \in 1 .. Len(entries)
      BY <1>1, <1>2, <1>4
    <3> QED BY <1>1, <2>3, <3>1 DEF CalledInOrder
  <2>5. /\ called' \in Seq(Functions) /\ Len(called') = Len(called) + 1
        /\ called'[Len(called) + 1] = f
        /\ \A i \in 1 .. Len(called) : called'[i] = called[i]
    BY <1>1, <2>1, <2>3, <2>4, AppendProperties DEF CalledInOrder
  <2>6. ASSUME NEW i \in 1 .. Len(called') PROVE called'[i] = entries[Len(entries) - due + i]
    <3>1. CASE i = Len(called) + 1
      <4>1. PICK a \in Nat, b \in Nat, n \in Nat : a = Len(entries) /\ b = Len(called) /\ n = idx[t]
        BY <1>1, <1>2
      <4>2. a - due + i = a - n + 1
        BY ONLY <1>2, <3>1, <4>1
      <4>3. Len(entries) - due + i = Len(entries) - idx[t] + 1
        BY <4>1, <4>2
      <4> QED BY <2>3, <2>5, <3>1, <4>3
    <3>2. CASE i \in 1 .. Len(called)
      BY <1>1, <2>5, <3>2 DEF CalledInOrder
    <3>3. i = Len(called) + 1 \/ i \in 1 .. Len(called)
      BY <1>2, <2>5
    <3> QED BY <3>1, <3>2, <3>3
  <2>7. CalledInOrder'
    BY <1>1, <1>2, <1>4, <2>1, <2>5, <2>6 DEF CalledInOrder
  <2>8. Len(called') + idx'[t] = due'
    BY <1>1, <1>2, <2>1, <2>2, <2>5
  <2>9. \A u \in Threads \ {t} : pc'[u] \notin Exiting
    BY <1>3, <2>1
  <2>10. ExitMeaning'
    BY <2>2, <2>7, <2>8, <2>9 DEF ExitMeaning, Exiting
  <2> QED BY <1>1, <2>2, <2>10, ExitOnly DEF Exiting
<1>5. CASE ~(idx[t] > 0)
  <2>1. Goto(t, "exited") /\ UNCHANGED <<idx, arg, called, entries, due>>
    BY <1>5
  <2>2. "exited" \in Pcs
    BY DEF Pcs, Exiting
  <2>3. Only(t) /\ pc'[t] = "exited"
    BY <1>1, <2>1, <2>2, MoveTo
  <2>4. Len(called) = due
    BY <1>1, <1>2, <1>5
  <2>5. CalledInOrder'
    BY <1>1, <2>1 DEF CalledInOrder
  <2>6. \A u \in Threads \ {t} : pc'[u] \notin Exiting
    BY <1>3, <2>3 DEF Only
  <2>7. ExitMeaning'
    BY <2>1, <2>3, <2>4, <2>5, <2>6 DEF ExitMeaning, Exiting
  <2> QED BY <1>1, <2>3, <2>7, ExitOnly DEF Exiting
<1> QED BY <1>4, <1>5

-----------------------------------------------------------------------------
(* Thread-specific data. *)

(* A step that is over at once does not move its thread. *)
LEMMA InPlace ==
  ASSUME CallsOK, NEW t \in Threads, UNCHANGED callVars, pc[t] = "idle"
  PROVE  Only(t) /\ pc'[t] = "idle"
BY DEF CallsOK, Only, callVars

(* oe_thread_key_create.                                                      *)
LEMMA KeyCreateInv ==
  ASSUME IInv, NEW t \in Threads, KeyCreate(t) PROVE IInv'
<1> USE DEF KeyCreate
<1>1. /\ CallsOK /\ KeyMeaning /\ KeyTypes /\ pc[t] = "idle" /\ klock = NoThread
      /\ UNCHANGED <<callVars, klock, page, ses, handlerVars, onceVars, exitVars>>
  BY DEF IInv, KeyMeaning, Call
<1>2. Only(t) /\ pc'[t] = "idle"
  BY <1>1, InPlace
<1>3. \/ UNCHANGED <<used, gen>>
      \/ \E k : /\ used' = [used EXCEPT ![k] = TRUE]
                /\ gen' = [gen EXCEPT ![k] = gen[k] + 1]
  OBVIOUS
<1>4. CASE UNCHANGED <<used, gen>>
  <2>1. KeyMeaning'
    BY <1>1, <1>4 DEF KeyMeaning, KeyTypes, ValueOK, callVars
  <2> QED BY <1>1, <1>2, <2>1, KeysOnly
<1>5. CASE ~UNCHANGED <<used, gen>>
  <2>1. PICK k : used' = [used EXCEPT ![k] = TRUE] /\ gen' = [gen EXCEPT ![k] = gen[k] + 1]
    BY <1>3, <1>5
  <2>2. KeyTypes'
    <3>1. used' \in [Keys -> BOOLEAN]
      BY <1>1, <2>1 DEF KeyTypes
    <3>2. gen' \in [Keys -> Nat]
      <4>1. CASE k \in Keys
        BY <1>1, <2>1, <4>1 DEF KeyTypes
      <4>2. CASE k \notin Keys
        <5>1. gen' = gen
          BY <1>1, <2>1, <4>2 DEF KeyTypes
        <5> QED BY <1>1, <5>1 DEF KeyTypes
      <4> QED BY <4>1, <4>2
    <3> QED BY <1>1, <3>1, <3>2 DEF KeyTypes
  <2>3. \A u \in Threads : klock' = u <=> pc'[u] = "destruct"
    BY <1>1 DEF KeyMeaning, callVars
  <2>4. ASSUME NEW u \in Threads, NEW j \in Keys PROVE ValueOK(u, j)'
    <3>1. ValueOK(u, j) /\ page'[u][j] = page[u][j] /\ ses'[u] = ses[u] /\ pc'[u] = pc[u]
          /\ pc[u] # "destruct"
      BY <1>1, ThreadAssumption DEF KeyMeaning, callVars
    <3>2. page[u][j].gen \in Nat /\ gen[j] \in Nat
      BY <1>1 DEF KeyTypes
    <3>3. CASE j = k
      <4>1. gen'[j] = gen[j] + 1
        BY <1>1, <2>1, <3>3 DEF KeyTypes
      <4> QED BY <3>1, <3>2, <4>1 DEF ValueOK
    <3>4. CASE j # k
      <4>1. gen'[j] = gen[j] /\ used'[j] = used[j]
        BY <1>1, <2>1, <3>4 DEF KeyTypes
      <4> QED BY <3>1, <4>1 DEF ValueOK
    <3> QED BY <3>3, <3>4
  <2>5. KeyMeaning'
    BY <2>2, <2>3, <2>4 DEF KeyMeaning
  <2> QED BY <1>1, <1>2, <2>5, KeysOnly
<1> QED BY <1>4, <1>5

(* oe_thread_key_delete.                                                      *)
LEMMA KeyDeleteInv ==
  ASSUME IInv, NEW t \in Threads, NEW k \in Keys, KeyDelete(t, k) PROVE IInv'
<1>1. /\ CallsOK /\ KeyMeaning /\ KeyTypes /\ pc[t] = "idle" /\ klock = NoThread
      /\ used' = [used EXCEPT ![k] = FALSE]
      /\ UNCHANGED <<callVars, klock, page, ses, gen, handlerVars, onceVars, exitVars>>
  BY DEF KeyDelete, IInv, KeyMeaning, Call
<1>2. Only(t) /\ pc'[t] = "idle"
  BY <1>1, InPlace
<1>3. KeyTypes'
  BY <1>1 DEF KeyTypes
<1>4. \A u \in Threads : klock' = u <=> pc'[u] = "destruct"
  BY <1>1 DEF KeyMeaning, callVars
<1>5. ASSUME NEW u \in Threads, NEW j \in Keys PROVE ValueOK(u, j)'
  <2>1. ValueOK(u, j) /\ (used'[j] => used[j])
    BY <1>1 DEF KeyMeaning, KeyTypes
  <2> QED BY <1>1, <2>1 DEF ValueOK, callVars
<1>6. KeyMeaning'
  BY <1>3, <1>4, <1>5 DEF KeyMeaning
<1> QED BY <1>1, <1>2, <1>6, KeysOnly

(* oe_thread_setspecific.                                                     *)
LEMMA SetSpecificInv ==
  ASSUME IInv, NEW t \in Threads, NEW k \in Keys, SetSpecific(t, k) PROVE IInv'
<1>1. /\ CallsOK /\ KeyMeaning /\ KeyTypes /\ pc[t] = "idle"
      /\ page' = [page EXCEPT ![t][k] = [gen |-> gen[k], ses |-> ses[t]]]
      /\ UNCHANGED <<callVars, used, klock, ses, gen, handlerVars, onceVars, exitVars>>
  BY DEF SetSpecific, IInv, KeyMeaning, Call
<1>2. Only(t) /\ pc'[t] = "idle"
  BY <1>1, InPlace
<1>3. gen[k] \in Nat /\ ses[t] \in Nat
  BY <1>1 DEF KeyTypes
<1>4. PICK v : v = [gen |-> gen[k], ses |-> ses[t]]
  OBVIOUS
<1>5. v \in [gen : Nat, ses : Nat] /\ v.gen = gen[k] /\ v.ses = ses[t]
  BY <1>3, <1>4
<1>6. /\ page' \in [Threads -> [Keys -> [gen : Nat, ses : Nat]]]
      /\ page'[t][k] = v
      /\ \A u \in Threads, j \in Keys : u # t \/ j # k => page'[u][j] = page[u][j]
  BY <1>1, <1>4, <1>5 DEF KeyTypes
<1>7. KeyTypes'
  BY <1>1, <1>6 DEF KeyTypes
<1>8. \A u \in Threads : klock' = u <=> pc'[u] = "destruct"
  BY <1>1 DEF KeyMeaning, callVars
<1>9. ASSUME NEW u \in Threads, NEW j \in Keys PROVE ValueOK(u, j)'
  <2>1. CASE u = t /\ j = k
    BY <1>1, <1>2, <1>3, <1>6, <1>5, <2>1 DEF ValueOK
  <2>2. CASE u # t \/ j # k
    <3>1. ValueOK(u, j) /\ page'[u][j] = page[u][j]
      BY <1>1, <1>6, <2>2 DEF KeyMeaning
    <3> QED BY <1>1, <3>1 DEF ValueOK, callVars
  <2> QED BY <2>1, <2>2
<1>10. KeyMeaning'
  BY <1>7, <1>8, <1>9 DEF KeyMeaning
<1> QED BY <1>1, <1>2, <1>10, KeysOnly

(* The destructors take the lock of the keys.                                 *)
LEMMA DestructLockInv ==
  ASSUME IInv, NEW t \in Threads, DestructLock(t) PROVE IInv'
<1>1. /\ CallsOK /\ KeyMeaning /\ KeyTypes /\ pc[t] = "idle" /\ klock = NoThread /\ klock' = t
      /\ idx' = [idx EXCEPT ![t] = 0] /\ Goto(t, "destruct")
      /\ UNCHANGED <<arg, used, page, ses, gen, handlerVars, onceVars, exitVars>>
  BY DEF DestructLock, IInv, KeyMeaning, Call
<1>2. Only(t) /\ pc'[t] = "destruct" /\ idx'[t] = 0
  <2>1. "destruct" \in Pcs /\ 0 \in Nat
    BY DEF Pcs
  <2> QED BY <1>1, <2>1, MoveTo
<1>3. KeyTypes'
  BY <1>1 DEF KeyTypes
<1>4. \A u \in Threads : klock' = u <=> pc'[u] = "destruct"
  BY <1>1, <1>2, ThreadAssumption DEF KeyMeaning, Only
<1>5. ASSUME NEW u \in Threads, NEW j \in Keys PROVE ValueOK(u, j)'
  <2>1. ValueOK(u, j)
    BY <1>1 DEF KeyMeaning
  <2>2. CASE u = t
    <3>1. ~(j < idx'[t])
      BY <1>2, KeyAssumption, FS_CardinalityType
    <3> QED BY <1>1, <2>1, <2>2, <3>1 DEF ValueOK
  <2>3. CASE u # t
    BY <1>1, <1>2, <2>1, <2>3 DEF ValueOK, Only
  <2> QED BY <2>2, <2>3
<1>6. KeyMeaning'
  BY <1>3, <1>4, <1>5 DEF KeyMeaning
<1> QED BY <1>1, <1>2, <1>6, KeysOnly

(* The destructors reach every key before the lock is released, and nobody   *)
(* creates or deletes one meanwhile.                                         *)
LEMMA DestructKeyInv ==
  ASSUME IInv, NEW t \in Threads, DestructKey(t) PROVE IInv'
<1> USE DEF DestructKey
<1>1. /\ CallsOK /\ KeyMeaning /\ KeyTypes /\ pc[t] = "destruct" /\ klock = t
      /\ UNCHANGED <<arg, used, gen, handlerVars, onceVars, exitVars>>
  BY DEF IInv, KeyMeaning
<1>2. Keys \subseteq Nat /\ Cardinality(Keys) \in Nat /\ Keys = 0 .. Cardinality(Keys) - 1
  BY KeyAssumption, FS_CardinalityType
<1>3. PICK n \in Nat : n = idx[t]
  BY <1>1 DEF CallsOK
<1>4. CASE n \in Keys
  <2>1. /\ page' = IF used[n] THEN [page EXCEPT ![t][n] = NoValue] ELSE page
        /\ idx' = [idx EXCEPT ![t] = n + 1] /\ UNCHANGED <<pc, klock, ses>>
    BY <1>3, <1>4 DEF Cleared
  <2>2. Only(t) /\ pc'[t] = "destruct" /\ idx'[t] = n + 1
    BY <1>1, <1>3, <2>1 DEF Only, CallsOK
  <2>3. NoValue \in [gen : Nat, ses : Nat] /\ NoValue.gen = 0
    BY DEF NoValue
  <2>4. /\ page' \in [Threads -> [Keys -> [gen : Nat, ses : Nat]]]
        /\ page'[t][n] = IF used[n] THEN NoValue ELSE page[t][n]
        /\ \A u \in Threads, j \in Keys : u # t \/ j # n => page'[u][j] = page[u][j]
    BY <1>1, <1>4, <2>1, <2>3 DEF KeyTypes
  <2>5. KeyTypes'
    BY <1>1, <2>1, <2>4 DEF KeyTypes
  <2>6. \A u \in Threads : klock' = u <=> pc'[u] = "destruct"
    BY <1>1, <2>1 DEF KeyMeaning
  <2>7. ASSUME NEW u \in Threads, NEW j \in Keys PROVE ValueOK(u, j)'
    <3>1. ValueOK(u, j)
      BY <1>1 DEF KeyMeaning
    <3>2. CASE u # t
      BY <1>1, <2>1, <2>2, <2>4, <3>1, <3>2 DEF ValueOK, Only
    <3>3. CASE u = t /\ j # n
      <4>1. page'[t][j] = page[t][j] /\ (j < idx'[t] => j < n)
        BY <1>2, <2>2, <2>4, <3>3
      <4> QED BY <1>1, <1>3, <2>1, <3>1, <3>3, <4>1 DEF ValueOK
    <3>4. CASE u = t /\ j = n
      <4>1. gen[j] \in Nat
        BY <1>1 DEF KeyTypes
      <4>2. CASE used[n]
        <5>1. page'[u][j] = NoValue
          BY <2>4, <3>4, <4>2
        <5> QED BY <1>1, <2>3, <4>1, <5>1 DEF ValueOK
      <4>3. CASE ~used[n]
        <5>1. page'[u][j] = page[u][j] /\ ~used'[j]
          BY <1>1, <2>4, <3>4, <4>3
        <5> QED BY <1>1, <3>1, <5>1 DEF ValueOK
      <4> QED BY <4>2, <4>3
    <3> QED BY <3>2, <3>3, <3>4
  <2>8. KeyMeaning'
    BY <2>5, <2>6, <2>7 DEF KeyMeaning
  <2> QED BY <1>1, <2>2, <2>8, KeysOnly
<1>5. CASE n \notin Keys
  <2>1. /\ klock' = NoThread /\ ses' = [ses EXCEPT ![t] = ses[t] + 1] /\ Goto(t, "idle")
        /\ UNCHANGED <<page, idx>>
    BY <1>3, <1>5
  <2>2. Only(t) /\ pc'[t] = "idle"
    <3>1. "idle" \in Pcs
      BY DEF Pcs
    <3> QED BY <1>1, <1>3, <2>1, <3>1, MoveTo
  <2>3. KeyTypes'
    BY <1>1, <2>1 DEF KeyTypes
  <2>4. \A u \in Threads : klock' = u <=> pc'[u] = "destruct"
    BY <1>1, <2>1, <2>2, ThreadAssumption DEF KeyMeaning, Only
  <2>5. ASSUME NEW u \in Threads, NEW j \in Keys PROVE ValueOK(u, j)'
    <3>1. ValueOK(u, j)
      BY <1>1 DEF KeyMeaning
    <3>2. CASE u # t
      <4>1. ses'[u] = ses[u] /\ pc'[u] = pc[u] /\ idx'[u] = idx[u]
        BY <1>1, <2>1, <2>2, <3>2 DEF KeyTypes, Only
      <4> QED BY <1>1, <2>1, <3>1, <4>1 DEF ValueOK
    <3>3. CASE u = t
      <4>1. j < n
        BY <1>2, <1>5
      <4> QED BY <1>1, <1>3, <2>1, <2>2, <3>1, <3>3, <4>1 DEF ValueOK
    <3> QED BY <2>3, <3>2, <3>3
  <2>6. KeyMeaning'
    BY <2>3, <2>4, <2>5 DEF KeyMeaning
  <2> QED BY <1>1, <2>2, <2>6, KeysOnly
<1> QED BY <1>4, <1>5

-----------------------------------------------------------------------------
(* Exception handlers.  The lock makes one thread at a time change the array. *)
LEMMA OneChanges ==
  ASSUME HandlerMeaning, NEW t \in Threads, NEW u \in Threads, pc[t] \in Changing, u # t
  PROVE  pc[u] \notin Changing
BY DEF HandlerMeaning

(* While the lock of the handlers is free, nobody changes the array.          *)
LEMMA NobodyChanges ==
  ASSUME HandlerMeaning, hlock = NoThread, NEW u \in Threads
  PROVE  pc[u] \notin Changing
BY ThreadAssumption DEF HandlerMeaning

(* What the array stores are handlers, or the empty slot.                     *)
LEMMA StoredTypes ==
  ASSUME HandlerMeaning PROVE Stored \subseteq Slots
<1>1. HandlerTypes
  BY DEF HandlerMeaning
<1>2. CASE Spilled
  <2>1. count < MaxHandlers
    BY <1>2 DEF Spilled, HandlerMeaning, AddMeaning, Adding
  <2>2. 0 .. count \subseteq 0 .. MaxHandlers - 1
    BY <1>1, <2>1, SizeAssumption DEF HandlerTypes
  <2> QED BY <1>1, <1>2, <2>2 DEF Stored, HandlerTypes
<1>3. CASE ~Spilled
  <2>1. 0 .. count - 1 \subseteq 0 .. MaxHandlers - 1
    BY <1>1, SizeAssumption DEF HandlerTypes
  <2> QED BY <1>1, <1>3, <2>1 DEF Stored, HandlerTypes
<1> QED BY <1>2, <1>3

(* The steps of the walk itself. *)
LEMMA WalkerOnly ==
  ASSUME IInv, NEW t \in Threads, Only(t), Outside(t, Changing), UNCHANGED <<arr, count, hlock,
        registered>>,
         walk' \in [Threads -> Walks], \A u \in Threads \ {t} : walk'[u] = walk[u],
         WalkOK(t)', pc[t] \in {"idle"} \cup HandlerPcs, pc'[t] \in {"idle"} \cup HandlerPcs,
         UNCHANGED <<keyVars, onceVars, exitVars>>
  PROVE  IInv'
<1>1. HandlerMeaning'
  BY HandlersKept DEF IInv
<1>2. ASSUME NEW u \in Threads PROVE WalkOK(u)'
  BY WalkKept DEF IInv, WalkMeaning, Only
<1> QED BY <1>1, <1>2, HandlersOnly DEF WalkMeaning

(* Unless an entry is being shifted out, every registered handler is in the   *)
(* array.                                                                     *)
LEMMA SteadyAtStart ==
  ASSUME HandlerMeaning, ~Shifting PROVE Kept(0 .. count - 1)
<1>1. CASE hlock = NoThread
  BY <1>1 DEF HandlerMeaning
<1>2. CASE hlock # NoThread
  <2>1. PICK u \in Threads : hlock = u /\ pc[u] \in Changing
    BY <1>2 DEF HandlerMeaning, HandlerTypes
  <2>2. pc[u] \in {"store", "count"} /\ ~(idx[u] < count)
    BY <2>1 DEF Shifting, Changing, Adding
  <2>3. AddMeaning(u) /\ count \in Nat
    BY <2>2 DEF HandlerMeaning, HandlerTypes, Adding
  <2>4. (0 .. count) \ {idx[u]} \subseteq 0 .. count - 1
    BY <2>2, <2>3 DEF AddMeaning
  <2> QED BY <2>3, <2>4 DEF AddMeaning, Kept
<1> QED BY <1>1, <1>2

(* An exception starts its walk.                                              *)
LEMMA WalkStartInv ==
  ASSUME IInv, NEW t \in Threads, WalkStart(t) PROVE IInv'
<1>1. /\ CallsOK /\ HandlerMeaning /\ HandlerTypes /\ WalkMeaning /\ pc[t] = "idle"
      /\ idx' = [idx EXCEPT ![t] = 0] /\ Goto(t, "check")
      /\ UNCHANGED <<arg, arr, count, hlock, registered, keyVars, onceVars, exitVars>>
  BY DEF WalkStart, Call, IInv, HandlerMeaning
<1>2. Only(t) /\ pc'[t] = "check" /\ idx'[t] = 0
  <2>1. "check" \in Pcs /\ 0 \in Nat
    BY DEF Pcs
  <2> QED BY <1>1, <2>1, MoveTo
<1>3. Outside(t, Changing)
  BY <1>1, <1>2 DEF Outside, Changing, Adding
<1>4. Stored' = Stored /\ (Shifting' <=> Shifting) /\ Stored \subseteq Slots
  BY <1>1, <1>2, <1>3, StoredKept, StoredTypes
<1>5. PICK b : b = Shifting
  OBVIOUS
<1>6. b \in BOOLEAN
  BY <1>5 DEF Shifting
<1>7. PICK w : w = [steady |-> registered, seen |-> Stored, shifted |-> b, called |-> {}]
  OBVIOUS
<1>8. /\ w \in Walks /\ w.steady = registered /\ w.seen = Stored /\ w.called = {}
      /\ w.shifted = b
  BY <1>1, <1>4, <1>6, <1>7 DEF Walks, HandlerTypes
<1>9. walk' = [walk EXCEPT ![t] = w]
  BY <1>5, <1>7 DEF WalkStart
<1>10. /\ walk' \in [Threads -> Walks] /\ walk'[t] = w
       /\ \A u \in Threads \ {t} : walk'[u] = walk[u]
  BY <1>1, <1>8, <1>9 DEF WalkMeaning
<1>11. ~w.shifted => Still(t)'
  <2>1. SUFFICES ASSUME ~Shifting PROVE Still(t)'
    BY <1>5, <1>8
  <2>2. Kept(0 .. count - 1)
    BY <1>1, <2>1, SteadyAtStart
  <2>3. count \in Nat
    BY <1>1 DEF HandlerTypes
  <2> QED BY <1>1, <1>2, <1>4, <1>8, <1>10, <2>1, <2>2, <2>3 DEF Still, Kept
<1>12. WalkOK(t)'
  BY <1>2, <1>4, <1>8, <1>10, <1>11 DEF WalkOK, Walking
<1> QED BY <1>1, <1>2, <1>3, <1>10, <1>12, WalkerOnly DEF HandlerPcs

(* A walk compares its index with the count.                                  *)
LEMMA WalkCheckInv ==
  ASSUME IInv, NEW t \in Threads, WalkCheck(t) PROVE IInv'
<1>1. /\ CallsOK /\ HandlerMeaning /\ HandlerTypes /\ WalkMeaning /\ pc[t] = "check"
      /\ WalkOK(t) /\ idx[t] \in Nat
      /\ UNCHANGED <<arg, idx, handlerVars, keyVars, onceVars, exitVars>>
  BY DEF WalkCheck, IInv, HandlerMeaning, WalkMeaning, CallsOK
<1>2. PICK p \in {"invoke", "aborted"} : Goto(t, p) /\ (p = "invoke" <=> idx[t] < count)
  BY DEF WalkCheck
<1>3. Only(t) /\ pc'[t] = p /\ idx'[t] = idx[t]
  <2>1. p \in Pcs
    BY DEF Pcs
  <2> QED BY <1>1, <1>2, <2>1, MoveTo
<1>4. Outside(t, Changing) /\ UNCHANGED <<arr, count, hlock, registered, walk>>
  BY <1>1, <1>2, <1>3 DEF Outside, Changing, Adding, handlerVars
<1>5. Stored' = Stored /\ (Shifting' <=> Shifting)
  BY <1>3, <1>4, StoredKept
<1>6. /\ count \in 0 .. MaxHandlers /\ Walking(t) /\ Stored \subseteq walk[t].seen
      /\ 0 .. count - 1 \subseteq 0 .. (IF Spilled THEN count ELSE count - 1)
  BY <1>1, SizeAssumption DEF HandlerTypes, WalkOK, Walking
<1>7. CASE p = "invoke"
  <2>1. idx[t] \in 0 .. count - 1 /\ idx[t] \in 0 .. MaxHandlers - 1
    BY <1>1, <1>2, <1>6, <1>7, SizeAssumption
  <2>2. arr[idx[t]] \in walk[t].seen
    BY <1>6, <2>1 DEF Stored
  <2>3. ~walk[t].shifted => Still(t)'
    BY <1>1, <1>2, <1>3, <1>4, <1>5, <1>6, <1>7 DEF WalkOK, Still
  <2> QED BY <1>1, <1>3, <1>4, <1>5, <1>6, <1>7, <2>1, <2>2, <2>3, WalkerOnly
          DEF WalkOK, Walking, HandlerPcs, WalkMeaning
<1>8. CASE p = "aborted"
  <2>1. ASSUME ~walk[t].shifted PROVE walk[t].steady \subseteq walk[t].called
    <3>1. Still(t) /\ 0 .. count - 1 \subseteq 0 .. idx[t] - 1
      BY <1>1, <1>2, <1>6, <1>8, <2>1 DEF WalkOK
    <3> QED BY <3>1 DEF Still
  <2> QED BY <1>1, <1>3, <1>4, <1>8, <2>1, WalkerOnly
          DEF WalkOK, Walking, HandlerPcs, WalkMeaning
<1> QED BY <1>7, <1>8

(* A walk calls the handler at its index.                                     *)
LEMMA WalkInvokeInv ==
  ASSUME IInv, NEW t \in Threads, WalkInvoke(t) PROVE IInv'
<1>1. /\ CallsOK /\ HandlerMeaning /\ HandlerTypes /\ WalkMeaning /\ pc[t] = "invoke"
      /\ WalkOK(t) /\ walk[t] \in Walks
      /\ UNCHANGED <<arg, arr, count, hlock, registered, keyVars, onceVars, exitVars>>
  BY DEF WalkInvoke, IInv, HandlerMeaning, WalkMeaning, WalkOK
<1>2. PICK n \in Nat : n = idx[t]
  BY <1>1 DEF CallsOK
<1>3. PICK p \in {"idle", "check"} : Goto(t, p)
  BY DEF WalkInvoke
<1>4. Only(t) /\ pc'[t] = p /\ idx'[t] = n + 1
  <2>1. p \in Pcs /\ idx' = [idx EXCEPT ![t] = n + 1] /\ n + 1 \in Nat
    BY <1>2 DEF Pcs, WalkInvoke
  <2> QED BY <1>1, <1>3, <2>1, MoveTo
<1>5. Outside(t, Changing)
  BY <1>1, <1>4 DEF Outside, Changing, Adding
<1>6. Stored' = Stored /\ (Shifting' <=> Shifting)
  BY <1>1, <1>4, <1>5, StoredKept
<1>7. PICK h : h = arr[n]
  OBVIOUS
<1>8. n \in 0 .. MaxHandlers - 1 /\ h \in walk[t].seen /\ h \in Slots
  BY <1>1, <1>2, <1>7 DEF WalkOK, HandlerTypes
<1>9. PICK w : w = [walk[t] EXCEPT !.called = walk[t].called \cup {h}]
  OBVIOUS
<1>10. /\ w \in Walks /\ w.called = walk[t].called \cup {h} /\ w.seen = walk[t].seen
       /\ w.steady = walk[t].steady /\ w.shifted = walk[t].shifted
  BY <1>1, <1>8, <1>9 DEF Walks
<1>11. walk' = [walk EXCEPT ![t] = w]
  BY <1>2, <1>7, <1>9 DEF WalkInvoke
<1>12. /\ walk' \in [Threads -> Walks] /\ walk'[t] = w
       /\ \A u \in Threads \ {t} : walk'[u] = walk[u]
  BY <1>1, <1>10, <1>11 DEF WalkMeaning
<1>13. ~w.shifted => Still(t)'
  <2>1. SUFFICES ASSUME ~w.shifted PROVE Still(t)'
    OBVIOUS
  <2>2. Still(t) /\ count \in Nat /\ n < count
    BY <1>1, <1>2, <1>10, <2>1 DEF WalkOK, Walking, Still, HandlerTypes
  <2>3. \A i \in 0 .. n - 1 : arr[i] \in walk[t].called
    BY <1>2, <2>2 DEF Still
  <2>4. \A i \in 0 .. (n + 1) - 1 : arr[i] \in w.called
    BY <1>7, <1>10, <2>3
  <2>5. n + 1 <= count
    BY <2>2
  <2> QED BY <1>1, <1>4, <1>6, <1>10, <1>12, <2>2, <2>4, <2>5 DEF Still
<1>14. WalkOK(t)'
  BY <1>1, <1>4, <1>6, <1>8, <1>10, <1>12, <1>13 DEF WalkOK, Walking
<1> QED BY <1>1, <1>4, <1>5, <1>12, <1>14, WalkerOnly DEF HandlerPcs

-----------------------------------------------------------------------------
(* What a change of the array by thread t means for the walks of the others. *)
WalksNote ==
  /\ walk' \in [Threads -> Walks]
  /\ \A u \in Threads :
       /\ walk'[u].called = walk[u].called /\ walk'[u].steady = walk[u].steady
       /\ walk[u].seen \subseteq walk'[u].seen
       /\ walk[u].shifted => walk'[u].shifted
       /\ ~Walking(u) => walk'[u] = walk[u]

(* A walk that is not told of a shift has the handlers where they were. *)
HandlersInPlace ==
  /\ ~Shifting' /\ count <= count'
  /\ \A i \in 0 .. count - 1 : arr'[i] = arr[i]

(* A change of the array that every walk takes note of leaves the walks good. *)
LEMMA OthersWalk ==
  ASSUME HandlerTypes, HandlerTypes', WalkMeaning, NEW t \in Threads, Only(t),
         Outside(t, {"check", "invoke", "aborted"}), WalksNote,
         \A u \in Threads : Walking(u) => Stored' \subseteq walk'[u].seen,
         \A u \in Threads : pc[u] = "invoke" => arr'[idx[u]] \in walk'[u].seen,
         \A u \in Threads : Walking(u) /\ ~walk'[u].shifted => HandlersInPlace
  PROVE  WalkMeaning'
<1>1. ASSUME NEW u \in Threads PROVE WalkOK(u)'
  <2>1. /\ WalkOK(u) /\ walk'[u] \in Walks
        /\ walk'[u].called = walk[u].called /\ walk'[u].steady = walk[u].steady
        /\ walk[u].seen \subseteq walk'[u].seen
        /\ walk[u].shifted => walk'[u].shifted
    BY DEF WalkMeaning, WalksNote
  <2>2. CASE u = t
    BY <2>1, <2>2 DEF WalkOK, Walking, Outside, WalksNote
  <2>3. CASE u # t
    <3>1. pc'[u] = pc[u] /\ idx'[u] = idx[u] /\ (Walking(u)' <=> Walking(u))
      BY <2>3 DEF Only, Walking
    <3>2. ASSUME Walking(u), ~walk'[u].shifted PROVE Still(u)'
      <4>1. Still(u) /\ HandlersInPlace /\ count \in Nat /\ count' \in Nat /\ idx[u] \in Nat
        BY <2>1, <3>1, <3>2 DEF WalkOK, HandlerTypes, Only, CallsOK
      <4>2. idx'[u] <= count' /\ (pc'[u] = "invoke" => idx'[u] < count')
        BY <3>1, <4>1 DEF Still, HandlersInPlace
      <4>3. ASSUME NEW h \in walk'[u].steady PROVE \E i \in 0 .. count' - 1 : arr'[i] = h
        <5>1. PICK i \in 0 .. count - 1 : arr[i] = h
          BY <2>1, <4>1 DEF Still
        <5>2. arr'[i] = h /\ i \in 0 .. count' - 1
          BY <4>1, <5>1 DEF HandlersInPlace
        <5> QED BY <5>2
      <4>4. \A i \in 0 .. idx'[u] - 1 : arr'[i] \in walk'[u].called
        BY <2>1, <3>1, <4>1 DEF Still, HandlersInPlace
      <4> QED BY <4>1, <4>2, <4>3, <4>4 DEF Still, HandlersInPlace
    <3>3. pc'[u] = "aborted" => walk'[u] = walk[u]
      BY <3>1 DEF WalksNote, Walking
    <3> QED BY <2>1, <3>1, <3>2, <3>3 DEF WalkOK
  <2> QED BY <2>2, <2>3
<1> QED BY <1>1 DEF WalkMeaning, WalksNote

(* A step that does not touch the walks, or tells them of a shift. *)
LEMMA SameNote ==
  ASSUME WalkMeaning, UNCHANGED walk PROVE WalksNote
BY DEF WalkMeaning, WalksNote

(* How the walks take note of a removal.                                      *)
LEMMA ShiftNote ==
  ASSUME WalkMeaning, walk' = ShiftSeenByWalks
  PROVE  WalksNote /\ \A u \in Threads : Walking(u) => walk'[u].shifted
<1>1. ASSUME NEW u \in Threads
      PROVE  /\ walk'[u] \in Walks
             /\ walk'[u].called = walk[u].called /\ walk'[u].steady = walk[u].steady
             /\ walk'[u].seen = walk[u].seen
             /\ Walking(u) => walk'[u].shifted
             /\ ~Walking(u) => walk'[u] = walk[u]
  <2>1. walk[u] \in Walks
    BY DEF WalkMeaning
  <2>2. PICK w : w = [walk[u] EXCEPT !.shifted = TRUE]
    OBVIOUS
  <2>3. /\ w \in Walks /\ w.called = walk[u].called /\ w.steady = walk[u].steady
        /\ w.seen = walk[u].seen /\ w.shifted
    BY <2>1, <2>2 DEF Walks
  <2>4. walk'[u] = IF Walking(u) THEN w ELSE walk[u]
    BY <2>2 DEF ShiftSeenByWalks
  <2> QED BY <2>1, <2>3, <2>4
<1>2. walk' \in [Threads -> Walks]
  BY <1>1 DEF ShiftSeenByWalks
<1>3. \A u \in Threads : walk[u].shifted => walk'[u].shifted
  BY <1>1
<1> QED BY <1>1, <1>2, <1>3 DEF WalksNote

(* How the walks take note of a stored handler.                               *)
LEMMA SeenNote ==
  ASSUME WalkMeaning, NEW h \in Slots, walk' = SeenByWalks(h)
  PROVE  WalksNote /\ \A u \in Threads : Walking(u) => h \in walk'[u].seen
<1>1. ASSUME NEW u \in Threads
      PROVE  /\ walk'[u] \in Walks
             /\ walk'[u].called = walk[u].called /\ walk'[u].steady = walk[u].steady
             /\ walk[u].seen \subseteq walk'[u].seen /\ walk'[u].shifted = walk[u].shifted
             /\ Walking(u) => h \in walk'[u].seen
             /\ ~Walking(u) => walk'[u] = walk[u]
  <2>1. walk[u] \in Walks
    BY DEF WalkMeaning
  <2>2. PICK w : w = [walk[u] EXCEPT !.seen = walk[u].seen \cup {h}]
    OBVIOUS
  <2>3. /\ w \in Walks /\ w.called = walk[u].called /\ w.steady = walk[u].steady
        /\ w.seen = walk[u].seen \cup {h} /\ w.shifted = walk[u].shifted
    BY <2>1, <2>2 DEF Walks
  <2>4. walk'[u] = IF Walking(u) THEN w ELSE walk[u]
    BY <2>2 DEF SeenByWalks
  <2> QED BY <2>1, <2>3, <2>4
<1>2. walk' \in [Threads -> Walks]
  BY <1>1 DEF SeenByWalks
<1> QED BY <1>1, <1>2 DEF WalksNote

-----------------------------------------------------------------------------
(* The changes.  Thread t is the only one that has, or takes, the lock. *)
LEMMA ChangeOnly ==
  ASSUME IInv, NEW t \in Threads, Only(t), \A u \in Threads \ {t} : pc[u] \notin Changing,
         HandlerTypes', hlock' = IF pc'[t] \in Changing THEN t ELSE NoThread,
         pc'[t] \in Adding => AddMeaning(t)', pc'[t] = "shift" => ShiftMeaning(t)',
         pc'[t] \notin Changing => Kept(0 .. count - 1)',
         pc[t] \in {"idle"} \cup Changing, pc'[t] \in {"idle"} \cup Changing,
         WalksNote,
         \A u \in Threads : Walking(u) => Stored' \subseteq walk'[u].seen,
         \A u \in Threads : pc[u] = "invoke" => arr'[idx[u]] \in walk'[u].seen,
         \A u \in Threads : Walking(u) /\ ~walk'[u].shifted => HandlersInPlace,
         UNCHANGED <<keyVars, onceVars, exitVars>>
  PROVE  IInv'
<1>1. \A u \in Threads \ {t} : pc'[u] \notin Changing
  BY DEF Only
<1>2. \A u \in Threads : hlock' = u <=> pc'[u] \in Changing
  BY <1>1, ThreadAssumption
<1>3. hlock' = NoThread => Kept(0 .. count - 1)'
  BY ThreadAssumption
<1>4. \A u \in Threads : pc'[u] \in Adding => AddMeaning(u)'
  BY <1>1 DEF Changing
<1>5. \A u \in Threads : pc'[u] = "shift" => ShiftMeaning(u)'
  BY <1>1 DEF Changing
<1>6. HandlerMeaning'
  BY <1>2, <1>3, <1>4, <1>5 DEF HandlerMeaning
<1>7. Outside(t, {"check", "invoke", "aborted"})
  BY DEF Outside, Changing, Adding
<1>8. WalkMeaning'
  BY <1>7, OthersWalk DEF IInv, HandlerMeaning
<1> QED BY <1>6, <1>8, HandlersOnly DEF HandlerPcs

(* oe_add_vectored_exception_handler up to its first change.                  *)
LEMMA AddHandlerInv ==
  ASSUME IInv, NEW t \in Threads, NEW h \in Handlers, NEW isFirst \in BOOLEAN,
         AddHandler(t, h, isFirst)
  PROVE  IInv'
<1>1. /\ CallsOK /\ HandlerMeaning /\ HandlerTypes /\ WalkMeaning /\ pc[t] = "idle" /\ hlock = NoThread
      /\ UNCHANGED <<keyVars, onceVars, exitVars>>
  BY DEF AddHandler, Call, IInv, HandlerMeaning
<1>2. CASE AddRefused(h)
  <2>1. UNCHANGED <<callVars, handlerVars>>
    BY <1>2 DEF AddHandler
  <2>2. Only(t) /\ pc'[t] = "idle"
    BY <1>1, <2>1, InPlace
  <2>3. Outside(t, HandlerPcs) /\ Outside(t, Changing)
    BY <1>1, <2>2 DEF Outside, HandlerPcs, Changing, Adding
  <2> QED BY <1>1, <2>1, <2>2, <2>3, HandlersKept, WalksKept, HandlersOnly DEF handlerVars
<1>3. CASE ~AddRefused(h)
  <2>1. PICK p \in {"move", "store"} :
          /\ Goto(t, p) /\ hlock' = t /\ UNCHANGED <<arr, count, registered>>
          /\ arg' = [arg EXCEPT ![t] = h] /\ idx' = [idx EXCEPT ![t] = count]
          /\ IF p = "move" THEN walk' = ShiftSeenByWalks ELSE UNCHANGED walk
    BY <1>3 DEF AddHandler
  <2>2. count \in Nat /\ count < MaxHandlers
    BY <1>1, <1>3, SizeAssumption DEF AddRefused, HandlerTypes
  <2>3. Only(t) /\ pc'[t] = p /\ idx'[t] = count /\ arg'[t] = h
    BY <1>1, <2>1, <2>2 DEF CallsOK, Goto, Only, Pcs, Changing, Adding, Slots
  <2>4. \A u \in Threads : pc[u] \notin Changing
    BY <1>1, NobodyChanges
  <2>5. HandlerTypes'
    BY <1>1, <2>1 DEF HandlerTypes
  <2>6. AddMeaning(t)'
    <3>1. Kept(0 .. count - 1)
      BY <1>1 DEF HandlerMeaning
    <3>2. (0 .. count) \ {count} = 0 .. count - 1
      BY <2>2
    <3>3. Kept((0 .. count) \ {idx[t]})'
      BY <2>1, <2>3, <3>1, <3>2 DEF Kept
    <3> QED BY <2>1, <2>2, <2>3, <3>3 DEF AddMeaning
  <2>7. WalksNote /\ (p = "move" => \A u \in Threads : Walking(u) => walk'[u].shifted)
    BY <1>1, <2>1, SameNote, ShiftNote
  <2>8. ~Spilled /\ ~Spilled'
    BY <2>1, <2>2, <2>3, <2>4 DEF Spilled, Only, Changing, Adding
  <2>9. Stored' = Stored
    BY <2>1, <2>8 DEF Stored
  <2>10. p = "store" => ~Shifting'
    BY <2>1, <2>2, <2>3, <2>4 DEF Shifting, Only, Changing, Adding
  <2>11. \A u \in Threads : Walking(u) => Stored' \subseteq walk'[u].seen
    BY <1>1, <2>7, <2>9 DEF WalkMeaning, WalkOK, WalksNote
  <2>12. \A u \in Threads : pc[u] = "invoke" => arr'[idx[u]] \in walk'[u].seen
    BY <1>1, <2>1, <2>7 DEF WalkMeaning, WalkOK, WalksNote
  <2>13. \A u \in Threads : Walking(u) /\ ~walk'[u].shifted => HandlersInPlace
    BY <2>1, <2>2, <2>7, <2>10 DEF HandlersInPlace
  <2>14. p \in Changing /\ p \in Adding /\ p # "shift"
    BY DEF Changing, Adding
  <2> QED BY <1>1, <2>1, <2>3, <2>4, <2>5, <2>6, <2>7, <2>11, <2>12, <2>13, <2>14, ChangeOnly
<1> QED BY <1>2, <1>3

(* oe_remove_vectored_exception_handler up to its first change.               *)
LEMMA RemoveHandlerInv ==
  ASSUME IInv, NEW t \in Threads, NEW h \in Handlers, RemoveHandler(t, h)
  PROVE  IInv'
<1>1. /\ CallsOK /\ HandlerMeaning /\ HandlerTypes /\ WalkMeaning /\ pc[t] = "idle" /\ hlock = NoThread
      /\ UNCHANGED <<keyVars, onceVars, exitVars>>
  BY DEF RemoveHandler, Call, IInv, HandlerMeaning
<1>2. CASE ~InArray(h)
  <2>1. UNCHANGED <<callVars, handlerVars>>
    BY <1>2 DEF RemoveHandler
  <2>2. Only(t) /\ pc'[t] = "idle"
    BY <1>1, <2>1, InPlace
  <2>3. Outside(t, HandlerPcs) /\ Outside(t, Changing)
    BY <1>1, <2>2 DEF Outside, HandlerPcs, Changing, Adding
  <2> QED BY <1>1, <2>1, <2>2, <2>3, HandlersKept, WalksKept, HandlersOnly DEF handlerVars
<1>3. CASE InArray(h)
  <2>1. PICK n \in 0 .. count - 1 : n = IndexOf(h) /\ arr[n] = h
    BY <1>3 DEF InArray, IndexOf
  <2>2. /\ Goto(t, "shift") /\ hlock' = t /\ UNCHANGED <<arg, arr, count>>
        /\ idx' = [idx EXCEPT ![t] = n] /\ walk' = ShiftSeenByWalks
        /\ registered' = registered \ {h}
    BY <1>3, <2>1 DEF RemoveHandler
  <2>3. count \in Nat /\ n \in Nat /\ "shift" \in Pcs
    BY <1>1, <2>1 DEF HandlerTypes, Pcs, Changing
  <2>4. Only(t) /\ pc'[t] = "shift" /\ idx'[t] = n
    BY <1>1, <2>2, <2>3, MoveTo
  <2>5. \A u \in Threads : pc[u] \notin Changing
    BY <1>1, NobodyChanges
  <2>6. HandlerTypes'
    BY <1>1, <2>2 DEF HandlerTypes
  <2>7. ShiftMeaning(t)'
    <3>1. Kept(0 .. count - 1)
      BY <1>1 DEF HandlerMeaning
    <3>2. Kept((0 .. count - 1) \ {idx[t]})'
      BY <2>1, <2>2, <2>4, <3>1 DEF Kept
    <3> QED BY <2>1, <2>2, <2>4, <3>2 DEF ShiftMeaning
  <2>8. WalksNote /\ \A u \in Threads : Walking(u) => walk'[u].shifted
    BY <1>1, <2>2, ShiftNote
  <2>9. ~Spilled /\ ~Spilled'
    BY <2>2, <2>4, <2>5 DEF Spilled, Only, Changing, Adding
  <2>10. Stored' = Stored
    BY <2>2, <2>9 DEF Stored
  <2>11. \A u \in Threads : Walking(u) => Stored' \subseteq walk'[u].seen
    BY <1>1, <2>8, <2>10 DEF WalkMeaning, WalkOK, WalksNote
  <2>12. \A u \in Threads : pc[u] = "invoke" => arr'[idx[u]] \in walk'[u].seen
    BY <1>1, <2>2, <2>8 DEF WalkMeaning, WalkOK, WalksNote
  <2>13. "shift" \in Changing /\ "shift" \notin Adding
    BY DEF Changing, Adding
  <2> QED BY <1>1, <2>2, <2>4, <2>5, <2>6, <2>7, <2>8, <2>11, <2>12, <2>13, ChangeOnly
<1> QED BY <1>2, <1>3

(* A thread in the middle of a change. *)
LEMMA ChangerFacts ==
  ASSUME IInv, NEW t \in Threads, pc[t] \in Changing
  PROVE  /\ CallsOK /\ HandlerTypes /\ WalkMeaning /\ hlock = t
         /\ \A u \in Threads \ {t} : pc[u] \notin Changing
         /\ Spilled <=> pc[t] = "count" \/ (pc[t] \in {"move", "store"} /\ idx[t] < count)
         /\ Shifting <=> pc[t] \in {"shift", "move"} \/ (pc[t] \in {"store", "count"} /\ idx[t] < count)
<1>1. /\ CallsOK /\ HandlerTypes /\ WalkMeaning /\ hlock = t
      /\ \A u \in Threads \ {t} : pc[u] \notin Changing
  BY DEF IInv, HandlerMeaning
<1>2. Spilled <=> pc[t] = "count" \/ (pc[t] \in {"move", "store"} /\ idx[t] < count)
  BY <1>1 DEF Spilled, Changing, Adding
<1>3. Shifting <=> pc[t] \in {"shift", "move"} \/ (pc[t] \in {"store", "count"} /\ idx[t] < count)
  BY <1>1 DEF Shifting, Changing, Adding
<1> QED BY <1>1, <1>2, <1>3

(* Every slot up to the count is among what the array stores.                 *)
LEMMA StoredSlots ==
  ASSUME HandlerTypes, NEW i, i \in 0 .. count - 1 \/ (Spilled /\ i \in 0 .. count)
  PROVE  arr[i] \in Stored
<1>1. count \in Nat
  BY DEF HandlerTypes
<1>2. i \in 0 .. (IF Spilled THEN count ELSE count - 1)
  BY <1>1
<1> QED BY <1>2 DEF Stored

(* A registration in front moves an entry up.                                 *)
LEMMA AddMoveInv ==
  ASSUME IInv, NEW t \in Threads, AddMove(t) PROVE IInv'
<1>1. /\ pc[t] = "move" /\ UNCHANGED <<arg, count, hlock, registered, walk, keyVars, onceVars, exitVars>>
      /\ "move" \in Adding /\ "move" \in Changing /\ "store" \in Adding /\ "store" \in Changing
  BY DEF AddMove, Adding, Changing
<1>2. /\ CallsOK /\ HandlerTypes /\ WalkMeaning /\ hlock = t
      /\ \A u \in Threads \ {t} : pc[u] \notin Changing
      /\ Spilled <=> idx[t] < count
      /\ Shifting
  BY <1>1, ChangerFacts
<1>3. AddMeaning(t) /\ count \in Nat
  BY <1>1 DEF IInv, HandlerMeaning, HandlerTypes
<1>4. PICK n \in 0 .. count : n = idx[t]
  BY <1>3 DEF AddMeaning
<1>5. WalksNote /\ \A u \in Threads : Walking(u) => walk'[u].shifted
  BY <1>1, <1>2, SameNote DEF WalkMeaning, WalkOK, Still
<1>6. CASE n > 0
  <2>1. /\ arr' = [arr EXCEPT ![n] = arr[n - 1]] /\ idx' = [idx EXCEPT ![t] = n - 1] /\ UNCHANGED pc
    BY <1>4, <1>6 DEF AddMove
  <2>2. n - 1 \in Nat /\ n - 1 \in 0 .. count - 1 /\ n \in 0 .. MaxHandlers - 1
    BY <1>3, <1>4, <1>6, SizeAssumption DEF AddMeaning
  <2>3. Only(t) /\ pc'[t] = "move" /\ idx'[t] = n - 1 /\ arg'[t] = arg[t]
    BY <1>1, <1>2, <2>1, <2>2 DEF Only, CallsOK
  <2>4. PICK v : v = arr[n - 1]
    OBVIOUS
  <2>5. v \in Handlers /\ v \in Slots /\ v \in Stored
    BY <1>2, <2>2, <2>4, StoredSlots DEF HandlerTypes, Slots
  <2>6. /\ arr' \in [0 .. MaxHandlers - 1 -> Slots] /\ arr'[n] = v
        /\ \A i \in 0 .. MaxHandlers - 1 : i # n => arr'[i] = arr[i]
    BY <1>2, <2>1, <2>2, <2>4, <2>5 DEF HandlerTypes
  <2>7. 0 .. count \subseteq 0 .. MaxHandlers - 1
    BY <1>3, SizeAssumption DEF AddMeaning
  <2>8. \A i \in 0 .. count : arr'[i] \in Handlers
    <3>1. \A i \in 0 .. count - 1 : arr[i] \in Handlers
      BY <1>2 DEF HandlerTypes
    <3>2. n < count => arr[count] \in Handlers
      BY <1>3, <1>4 DEF AddMeaning
    <3>3. \A i \in 0 .. count : i # n => i \in 0 .. count - 1 \/ (i = count /\ n < count)
      BY <1>3, <1>4
    <3> QED BY <2>5, <2>6, <2>7, <3>1, <3>2, <3>3
  <2>9. HandlerTypes'
    BY <1>1, <1>2, <2>6, <2>8 DEF HandlerTypes
  <2>10. Kept((0 .. count) \ {idx[t]})'
    <3>1. Kept((0 .. count) \ {n})
      BY <1>3, <1>4 DEF AddMeaning
    <3>2. ASSUME NEW h \in registered PROVE \E i \in (0 .. count) \ {n - 1} : arr'[i] = h
      <4>1. PICK i \in (0 .. count) \ {n} : arr[i] = h
        BY <3>1 DEF Kept
      <4>2. CASE i = n - 1
        <5>1. n \in (0 .. count) \ {n - 1} /\ arr'[n] = h
          BY <1>4, <2>4, <2>6, <4>1, <4>2
        <5> QED BY <5>1
      <4>3. CASE i # n - 1
        BY <2>6, <2>7, <4>1, <4>3
      <4> QED BY <4>2, <4>3
    <3> QED BY <1>1, <2>3, <3>2 DEF Kept
  <2>11. AddMeaning(t)'
    BY <1>1, <1>3, <2>2, <2>3, <2>8, <2>10 DEF AddMeaning
  <2>12. Stored' \subseteq Stored
    <3>1. \A i \in 0 .. count : arr'[i] \in Stored
      <4>1. ASSUME NEW i \in 0 .. count, i # n PROVE arr[i] \in Stored
        BY <1>2, <1>3, <1>4, <4>1, StoredSlots
      <4> QED BY <2>5, <2>6, <2>7, <4>1
    <3>2. \A i \in 0 .. (IF Spilled' THEN count ELSE count - 1) : i \in 0 .. count
      BY <1>3
    <3> QED BY <1>1, <3>1, <3>2 DEF Stored
  <2>13. \A u \in Threads : Walking(u) => Stored' \subseteq walk'[u].seen
    BY <1>1, <1>2, <2>12 DEF WalkMeaning, WalkOK
  <2>14. \A u \in Threads : pc[u] = "invoke" => arr'[idx[u]] \in walk'[u].seen
    BY <1>1, <1>2, <2>5, <2>6 DEF WalkMeaning, WalkOK, Walking
  <2> QED BY <1>1, <1>2, <1>5, <2>3, <2>9, <2>11, <2>13, <2>14, ChangeOnly
<1>7. CASE ~(n > 0)
  <2>1. Goto(t, "store") /\ UNCHANGED <<arr, idx>>
    BY <1>4, <1>7 DEF AddMove
  <2>2. Only(t) /\ pc'[t] = "store" /\ idx'[t] = idx[t] /\ arg'[t] = arg[t]
    BY <1>1, <1>2, <2>1 DEF Only, CallsOK, Goto, Pcs, Changing
  <2>3. HandlerTypes'
    BY <1>1, <1>2, <2>1 DEF HandlerTypes
  <2>4. AddMeaning(t)'
    BY <1>1, <1>3, <2>1, <2>2 DEF AddMeaning, Kept
  <2>5. Stored' \subseteq Stored
    <3>1. Spilled' => Spilled
      BY <1>1, <1>2, <2>1, <2>2 DEF Spilled, Only, Changing, Adding
    <3> QED BY <1>1, <1>3, <2>1, <3>1 DEF Stored
  <2>6. \A u \in Threads : Walking(u) => Stored' \subseteq walk'[u].seen
    BY <1>1, <1>2, <2>5 DEF WalkMeaning, WalkOK
  <2>7. \A u \in Threads : pc[u] = "invoke" => arr'[idx[u]] \in walk'[u].seen
    BY <1>1, <1>2, <2>1 DEF WalkMeaning, WalkOK
  <2> QED BY <1>1, <1>2, <1>5, <2>2, <2>3, <2>4, <2>6, <2>7, ChangeOnly
<1> QED BY <1>6, <1>7

(* A registration stores its handler.                                         *)
LEMMA AddStoreInv ==
  ASSUME IInv, NEW t \in Threads, AddStore(t) PROVE IInv'
<1>1. /\ pc[t] = "store" /\ Goto(t, "count")
      /\ UNCHANGED <<arg, idx, count, hlock, registered, keyVars, onceVars, exitVars>>
      /\ "store" \in Adding /\ "store" \in Changing /\ "count" \in Adding /\ "count" \in Changing
  BY DEF AddStore, Adding, Changing
<1>2. /\ CallsOK /\ HandlerTypes /\ WalkMeaning /\ hlock = t
      /\ \A u \in Threads \ {t} : pc[u] \notin Changing
      /\ Spilled <=> idx[t] < count
      /\ Shifting <=> idx[t] < count
  BY <1>1, ChangerFacts
<1>3. AddMeaning(t) /\ count \in Nat
  BY <1>1 DEF IInv, HandlerMeaning, HandlerTypes
<1>4. PICK n \in 0 .. count, v \in Handlers : n = idx[t] /\ v = arg[t]
  BY <1>3 DEF AddMeaning
<1>5. arr' = [arr EXCEPT ![n] = v] /\ walk' = SeenByWalks(v)
  BY <1>4 DEF AddStore
<1>6. Only(t) /\ pc'[t] = "count" /\ idx'[t] = n /\ arg'[t] = v
  BY <1>1, <1>2, <1>4 DEF Only, CallsOK, Goto, Pcs, Changing
<1>7. WalksNote /\ \A u \in Threads : Walking(u) => v \in walk'[u].seen
  BY <1>2, <1>4, <1>5, SeenNote DEF Slots
<1>8. 0 .. count \subseteq 0 .. MaxHandlers - 1
  BY <1>3, SizeAssumption DEF AddMeaning
<1>9. /\ arr' \in [0 .. MaxHandlers - 1 -> Slots] /\ arr'[n] = v
      /\ \A i \in 0 .. MaxHandlers - 1 : i # n => arr'[i] = arr[i]
  BY <1>2, <1>4, <1>5, <1>8 DEF HandlerTypes, Slots
<1>10. \A i \in 0 .. count : arr'[i] \in Handlers
  <2>1. \A i \in 0 .. count - 1 : arr[i] \in Handlers
    BY <1>2 DEF HandlerTypes
  <2>2. n < count => arr[count] \in Handlers
    BY <1>3, <1>4 DEF AddMeaning
  <2>3. \A i \in 0 .. count : i # n => i \in 0 .. count - 1 \/ (i = count /\ n < count)
    BY <1>3, <1>4
  <2> QED BY <1>4, <1>8, <1>9, <2>1, <2>2, <2>3
<1>11. HandlerTypes'
  BY <1>1, <1>2, <1>9, <1>10 DEF HandlerTypes
<1>12. AddMeaning(t)'
  <2>1. Kept((0 .. count) \ {n})
    BY <1>3, <1>4 DEF AddMeaning
  <2>2. \A i \in (0 .. count) \ {n} : arr'[i] = arr[i]
    BY <1>8, <1>9
  <2>3. Kept((0 .. count) \ {idx[t]})'
    BY <1>1, <1>6, <2>1, <2>2 DEF Kept
  <2> QED BY <1>1, <1>3, <1>4, <1>6, <1>9, <1>10, <2>3 DEF AddMeaning
<1>13. \A u \in Threads : Walking(u) => Stored' \subseteq walk'[u].seen
  <2>1. ASSUME NEW u \in Threads, Walking(u) PROVE Stored' \subseteq walk'[u].seen
    <3>1. Stored \subseteq walk'[u].seen /\ v \in walk'[u].seen
      BY <1>2, <1>7, <2>1 DEF WalkMeaning, WalkOK, WalksNote
    <3>2. ASSUME NEW i \in 0 .. count, i # n PROVE arr[i] \in Stored
      BY <1>2, <1>3, <1>4, <3>2, StoredSlots
    <3>3. \A i \in 0 .. count : arr'[i] \in walk'[u].seen
      BY <1>8, <1>9, <3>1, <3>2
    <3>4. \A i \in 0 .. (IF Spilled' THEN count ELSE count - 1) : i \in 0 .. count
      BY <1>3
    <3> QED BY <1>1, <3>3, <3>4 DEF Stored
  <2> QED BY <2>1
<1>14. \A u \in Threads : pc[u] = "invoke" => arr'[idx[u]] \in walk'[u].seen
  BY <1>2, <1>7, <1>9 DEF WalkMeaning, WalkOK, WalksNote, Walking
<1>15. \A u \in Threads : Walking(u) /\ ~walk'[u].shifted => HandlersInPlace
  <2>1. SUFFICES ASSUME NEW u \in Threads, Walking(u), ~walk'[u].shifted PROVE HandlersInPlace
    OBVIOUS
  <2>2. ~Shifting
    BY <1>2, <1>7, <2>1 DEF WalkMeaning, WalkOK, WalksNote, Still
  <2>3. n = count
    BY <1>2, <1>3, <1>4, <2>2
  <2>4. ~Shifting'
    BY <1>1, <1>2, <1>3, <1>6, <2>3 DEF Shifting, Only, Changing, Adding
  <2>5. \A i \in 0 .. count - 1 : i \in 0 .. MaxHandlers - 1 /\ i # n
    BY <1>3, <1>8, <2>3
  <2> QED BY <1>1, <1>3, <1>9, <2>4, <2>5 DEF HandlersInPlace
<1> QED BY <1>1, <1>2, <1>6, <1>7, <1>11, <1>12, <1>13, <1>14, <1>15, ChangeOnly

(* A registration raises the count and releases the lock.                     *)
LEMMA AddCountInv ==
  ASSUME IInv, NEW t \in Threads, AddCount(t) PROVE IInv'
<1>1. /\ pc[t] = "count" /\ Goto(t, "idle") /\ count' = count + 1 /\ hlock' = NoThread
      /\ registered' = registered \cup {arg[t]}
      /\ UNCHANGED <<arg, idx, arr, walk, keyVars, onceVars, exitVars>>
      /\ "count" \in Adding /\ "count" \in Changing /\ "idle" \notin Changing /\ "idle" \notin Adding
  BY DEF AddCount, Adding, Changing
<1>2. /\ CallsOK /\ HandlerTypes /\ WalkMeaning /\ hlock = t
      /\ \A u \in Threads \ {t} : pc[u] \notin Changing
      /\ Spilled
  BY <1>1, ChangerFacts
<1>3. AddMeaning(t) /\ count \in Nat
  BY <1>1 DEF IInv, HandlerMeaning, HandlerTypes
<1>4. Only(t) /\ pc'[t] = "idle"
  <2>1. "idle" \in Pcs /\ idx[t] \in Nat
    BY <1>2 DEF Pcs, CallsOK
  <2> QED BY <1>1, <1>2, <2>1, MoveTo
<1>5. count + 1 \in 0 .. MaxHandlers /\ 0 .. count' - 1 = 0 .. count
  BY <1>1, <1>3, SizeAssumption DEF AddMeaning
<1>6. \A i \in 0 .. count : arr[i] \in Handlers
  <2>1. \A i \in 0 .. count - 1 : arr[i] \in Handlers
    BY <1>2 DEF HandlerTypes
  <2>2. arr[count] \in Handlers
    <3>1. CASE idx[t] < count
      BY <1>3, <3>1 DEF AddMeaning
    <3>2. CASE idx[t] = count
      BY <1>1, <1>3, <3>2 DEF AddMeaning
    <3> QED BY <1>3, <3>1, <3>2 DEF AddMeaning
  <2>3. \A i \in 0 .. count : i \in 0 .. count - 1 \/ i = count
    BY <1>3
  <2> QED BY <2>1, <2>2, <2>3
<1>7. HandlerTypes'
  BY <1>1, <1>2, <1>3, <1>5, <1>6, ThreadAssumption DEF HandlerTypes, AddMeaning, Slots
<1>8. Kept(0 .. count - 1)'
  <2>1. ASSUME NEW h \in registered' PROVE \E i \in 0 .. count : arr[i] = h
    BY <1>1, <1>3, <2>1 DEF AddMeaning, Kept
  <2> QED BY <1>1, <1>5, <2>1 DEF Kept
<1>9. ~Spilled' /\ ~Shifting'
  BY <1>1, <1>2, <1>4 DEF Spilled, Shifting, Only, Changing, Adding
<1>10. Stored' = Stored
  <2>1. Stored = {arr[i] : i \in 0 .. count}
    BY <1>2 DEF Stored
  <2>2. Stored' = {arr[i] : i \in 0 .. count}
    BY <1>1, <1>5, <1>9 DEF Stored
  <2> QED BY <2>1, <2>2
<1>11. WalksNote
  BY <1>1, <1>2, SameNote
<1>12. \A u \in Threads : Walking(u) => Stored' \subseteq walk'[u].seen
  BY <1>1, <1>2, <1>10 DEF WalkMeaning, WalkOK
<1>13. \A u \in Threads : pc[u] = "invoke" => arr'[idx[u]] \in walk'[u].seen
  BY <1>1, <1>2 DEF WalkMeaning, WalkOK
<1>14. HandlersInPlace
  BY <1>1, <1>3, <1>9 DEF HandlersInPlace
<1> QED BY <1>1, <1>2, <1>4, <1>7, <1>8, <1>11, <1>12, <1>13, <1>14, ChangeOnly

(* A removal shifts an entry down, or lowers the count.                       *)
LEMMA RemoveShiftInv ==
  ASSUME IInv, NEW t \in Threads, RemoveShift(t) PROVE IInv'
<1>1. /\ pc[t] = "shift" /\ UNCHANGED <<arg, registered, walk, keyVars, onceVars, exitVars>>
      /\ "shift" \in Changing /\ "shift" \notin Adding /\ "idle" \notin Changing /\ "idle" \notin Adding
  BY DEF RemoveShift, Adding, Changing
<1>2. /\ CallsOK /\ HandlerTypes /\ WalkMeaning /\ hlock = t
      /\ \A u \in Threads \ {t} : pc[u] \notin Changing
      /\ ~Spilled /\ Shifting
  BY <1>1, ChangerFacts
<1>3. ShiftMeaning(t) /\ count \in Nat /\ count <= MaxHandlers
  BY <1>1, SizeAssumption DEF IInv, HandlerMeaning, HandlerTypes
<1>4. PICK n \in 0 .. count - 1 : n = idx[t]
  BY <1>3 DEF ShiftMeaning
<1>5. WalksNote /\ \A u \in Threads : Walking(u) => walk'[u].shifted
  BY <1>1, <1>2, SameNote DEF WalkMeaning, WalkOK, Still
<1>6. Kept((0 .. count - 1) \ {n})
  BY <1>3, <1>4 DEF ShiftMeaning
<1>7. CASE n < count - 1
  <2>1. /\ arr' = [arr EXCEPT ![n] = arr[n + 1]] /\ idx' = [idx EXCEPT ![t] = n + 1]
        /\ UNCHANGED <<pc, count, hlock>>
    BY <1>4, <1>7 DEF RemoveShift
  <2>2. n + 1 \in Nat /\ n + 1 \in 0 .. count - 1 /\ 0 .. count - 1 \subseteq 0 .. MaxHandlers - 1
    BY <1>3, <1>4, <1>7, SizeAssumption
  <2>3. Only(t) /\ pc'[t] = "shift" /\ idx'[t] = n + 1
    BY <1>1, <1>2, <2>1, <2>2 DEF Only, CallsOK
  <2>4. PICK v : v = arr[n + 1]
    OBVIOUS
  <2>5. v \in Handlers /\ v \in Slots /\ v \in Stored
    BY <1>2, <2>2, <2>4, StoredSlots DEF HandlerTypes, Slots
  <2>6. /\ arr' \in [0 .. MaxHandlers - 1 -> Slots] /\ arr'[n] = v
        /\ \A i \in 0 .. MaxHandlers - 1 : i # n => arr'[i] = arr[i]
    BY <1>2, <1>4, <2>1, <2>2, <2>4, <2>5 DEF HandlerTypes
  <2>7. HandlerTypes'
    BY <1>1, <1>2, <2>1, <2>2, <2>5, <2>6 DEF HandlerTypes
  <2>8. Kept((0 .. count - 1) \ {idx[t]})'
    <3>1. ASSUME NEW h \in registered PROVE \E i \in (0 .. count - 1) \ {n + 1} : arr'[i] = h
      <4>1. PICK i \in (0 .. count - 1) \ {n} : arr[i] = h
        BY <1>6 DEF Kept
      <4>2. CASE i = n + 1
        <5>1. n \in (0 .. count - 1) \ {n + 1} /\ arr'[n] = h
          BY <1>4, <2>4, <2>6, <4>1, <4>2
        <5> QED BY <5>1
      <4>3. CASE i # n + 1
        BY <2>2, <2>6, <4>1, <4>3
      <4> QED BY <4>2, <4>3
    <3> QED BY <1>1, <2>1, <2>3, <3>1 DEF Kept
  <2>9. ShiftMeaning(t)'
    BY <2>1, <2>2, <2>3, <2>8 DEF ShiftMeaning
  <2>10. Stored' \subseteq Stored
    <3>1. ~Spilled'
      BY <1>1, <1>2, <2>1, <2>3 DEF Spilled, Only, Changing, Adding
    <3>2. \A i \in 0 .. count - 1 : arr'[i] \in Stored
      BY <1>2, <2>2, <2>5, <2>6, StoredSlots
    <3> QED BY <2>1, <3>1, <3>2 DEF Stored
  <2>11. \A u \in Threads : Walking(u) => Stored' \subseteq walk'[u].seen
    BY <1>1, <1>2, <2>10 DEF WalkMeaning, WalkOK
  <2>12. \A u \in Threads : pc[u] = "invoke" => arr'[idx[u]] \in walk'[u].seen
    BY <1>1, <1>2, <2>5, <2>6 DEF WalkMeaning, WalkOK, Walking
  <2> QED BY <1>1, <1>2, <1>5, <2>1, <2>3, <2>7, <2>9, <2>11, <2>12, ChangeOnly
<1>8. CASE ~(n < count - 1)
  <2>1. /\ count' = count - 1 /\ hlock' = NoThread /\ Goto(t, "idle") /\ UNCHANGED <<arr, idx>>
    BY <1>4, <1>8 DEF RemoveShift
  <2>2. n = count - 1 /\ count - 1 \in Nat /\ (0 .. count - 1) \ {n} = 0 .. count' - 1
    BY <1>3, <1>4, <1>8, <2>1
  <2>3. Only(t) /\ pc'[t] = "idle"
    <3>1. "idle" \in Pcs /\ idx[t] \in Nat
      BY <1>2 DEF Pcs, CallsOK
    <3> QED BY <1>1, <1>2, <2>1, <3>1, MoveTo
  <2>4. 0 .. count' - 1 \subseteq 0 .. count - 1
    BY <1>3, <2>1, <2>2
  <2>5. HandlerTypes'
    BY <1>1, <1>2, <1>3, <2>1, <2>2, <2>4, SizeAssumption DEF HandlerTypes
  <2>6. Kept(0 .. count - 1)'
    BY <1>1, <1>6, <2>1, <2>2 DEF Kept
  <2>7. ~Spilled'
    BY <1>1, <1>2, <2>3 DEF Spilled, Only, Changing, Adding
  <2>8. Stored' \subseteq Stored
    BY <1>2, <2>1, <2>4, <2>7 DEF Stored
  <2>9. \A u \in Threads : Walking(u) => Stored' \subseteq walk'[u].seen
    BY <1>1, <1>2, <2>8 DEF WalkMeaning, WalkOK
  <2>10. \A u \in Threads : pc[u] = "invoke" => arr'[idx[u]] \in walk'[u].seen
    BY <1>1, <1>2, <2>1 DEF WalkMeaning, WalkOK
  <2> QED BY <1>1, <1>2, <1>5, <2>1, <2>3, <2>5, <2>6, <2>9, <2>10, ChangeOnly
<1> QED BY <1>7, <1>8

-----------------------------------------------------------------------------
(* The invariant holds at the start.                                          *)
LEMMA InitIInv ==
  Init => IInv
<1> SUFFICES ASSUME Init PROVE IInv
  OBVIOUS
<1> USE DEF Init
<1>1. \A t \in Threads : pc[t] = "idle" /\ walk[t] = NoWalk /\ ses[t] = 1
  OBVIOUS
<1>2. CallsOK
  BY DEF CallsOK, Pcs, Slots
<1>3. HandlerMeaning
  <2>1. HandlerTypes
    BY SizeAssumption DEF HandlerTypes, Slots
  <2> QED BY <1>1, <2>1, ThreadAssumption DEF HandlerMeaning, Changing, Adding, Kept
<1>4. WalkMeaning
  <2>1. /\ NoWalk \in Walks /\ NoWalk.called = {} /\ NoWalk.seen = {}
    BY DEF NoWalk, Walks
  <2>2. \A t \in Threads : WalkOK(t)
    BY <1>1, <2>1 DEF WalkOK, Walking
  <2> QED BY <2>1, <2>2 DEF WalkMeaning
<1>5. KeyMeaning
  <2>1. NoValue \in [gen : Nat, ses : Nat] /\ NoValue.gen = 0
    BY DEF NoValue
  <2>2. KeyTypes
    BY <2>1 DEF KeyTypes
  <2>3. ASSUME NEW t \in Threads, NEW k \in Keys PROVE ValueOK(t, k)
    BY <1>1, <2>1 DEF ValueOK
  <2> QED BY <1>1, <2>2, <2>3, ThreadAssumption DEF KeyMeaning
<1>6. OnceMeaning
  BY <1>1 DEF OnceMeaning, Running
<1>7. ExitMeaning
  <2>1. CalledInOrder
    BY DEF CalledInOrder
  <2> QED BY <1>1, <2>1 DEF ExitMeaning, Exiting
<1> QED BY <1>2, <1>3, <1>4, <1>5, <1>6, <1>7 DEF IInv

(* A step that changes nothing keeps it.                                      *)
LEMMA StutterIInv ==
  ASSUME IInv, UNCHANGED vars PROVE IInv'
<1>1. /\ UNCHANGED <<pc, arg, idx, arr, count, hlock, registered, walk, used, klock, page, ses, gen>>
      /\ UNCHANGED <<once, runs, finished, entries, called, due>>
  BY DEF vars, callVars, handlerVars, keyVars, onceVars, exitVars
<1>2. CallsOK' /\ HandlerMeaning'
  BY <1>1 DEF IInv, CallsOK, HandlerMeaning, HandlerTypes, Kept, AddMeaning, ShiftMeaning
<1>3. WalkMeaning'
  <2>1. Stored' = Stored /\ (Shifting' <=> Shifting)
    BY <1>1 DEF Stored, Spilled, Shifting
  <2> QED BY <1>1, <2>1 DEF IInv, WalkMeaning, WalkOK, Walking, Still
<1>4. KeyMeaning'
  BY <1>1 DEF IInv, KeyMeaning, KeyTypes, ValueOK
<1>5. OnceMeaning' /\ ExitMeaning'
  BY <1>1 DEF IInv, OnceMeaning, ExitMeaning, CalledInOrder
<1> QED BY <1>2, <1>3, <1>4, <1>5 DEF IInv

(* Every step keeps it.                                                       *)
LEMMA NextIInv ==
  ASSUME IInv, [Next]_vars PROVE IInv'
<1>1. ASSUME NEW t \in Threads, Steps(t) PROVE IInv'
  BY <1>1, AddMoveInv, AddStoreInv, AddCountInv, RemoveShiftInv, WalkCheckInv, WalkInvokeInv,
     DestructKeyInv, OnceInv, ExitCallInv DEF Steps
<1>2. ASSUME NEW t \in Threads, NEW h \in Handlers, NEW isFirst \in BOOLEAN,
             AddHandler(t, h, isFirst) \/ RemoveHandler(t, h)
      PROVE  IInv'
  BY <1>2, AddHandlerInv, RemoveHandlerInv
<1>3. ASSUME NEW t \in Threads, NEW k \in Keys, KeyDelete(t, k) \/ SetSpecific(t, k) PROVE IInv'
  BY <1>3, KeyDeleteInv, SetSpecificInv
<1>4. ASSUME NEW t \in Threads,
             \/ WalkStart(t) \/ KeyCreate(t) \/ DestructLock(t) \/ OnceLoad(t) \/ ExitStart(t)
             \/ \E f \in Functions : AtExit(t, f)
      PROVE  IInv'
  BY <1>4, WalkStartInv, KeyCreateInv, DestructLockInv, OnceInv, ExitStartInv, AtExitInv
<1> QED BY <1>1, <1>2, <1>3, <1>4, StutterIInv DEF Next

(* It holds in every state.                                                   *)
LEMMA Invariance ==
  Spec => []IInv
BY InitIInv, NextIInv, PTL DEF Spec

-----------------------------------------------------------------------------
(* From the invariant to the properties. *)

(* From the invariant: the second pass calls the handlers it should.          *)
LEMMA HandlersAreReached ==
  IInv => HandlersReached
BY DEF IInv, WalkMeaning, WalkOK, HandlersReached

(* From the invariant: no value outlives its ecall.                           *)
LEMMA DataIsFresh ==
  IInv => ThreadDataFresh
BY DEF IInv, KeyMeaning, ValueOK, ThreadDataFresh

(* The elements of a reversed sequence.                                       *)
LEMMA ReversedSeq ==
  ASSUME NEW S, NEW s \in Seq(S)
  PROVE  /\ Reverse(s) \in Seq(S) /\ Len(Reverse(s)) = Len(s)
         /\ \A i \in 1 .. Len(s) : Reverse(s)[i] = s[(Len(s) - i) + 1]
<1>1. Len(s) \in Nat /\ \A i \in 1 .. Len(s) : (Len(s) - i) + 1 \in 1 .. Len(s)
  OBVIOUS
<1>2. \A i \in 1 .. Len(s) : s[(Len(s) - i) + 1] \in S
  BY <1>1
<1> QED BY <1>1, <1>2 DEF Reverse

(* A sequence that agrees with the end of another is its suffix.              *)
LEMMA SuffixByIndex ==
  ASSUME NEW S, NEW s \in Seq(S), NEW q \in Seq(S), Len(s) <= Len(q),
         \A i \in 1 .. Len(s) : s[i] = q[Len(q) - Len(s) + i]
  PROVE  IsSuffix(s, q)
<1>1. PICK a, b : a = Reverse(s) /\ b = Reverse(q)
  OBVIOUS
<1>2. /\ a \in Seq(S) /\ Len(a) = Len(s) /\ \A i \in 1 .. Len(s) : a[i] = s[(Len(s) - i) + 1]
      /\ b \in Seq(S) /\ Len(b) = Len(q) /\ \A i \in 1 .. Len(q) : b[i] = q[(Len(q) - i) + 1]
  BY <1>1, ReversedSeq
<1>3. PICK m \in Nat, n \in Nat : m = Len(s) /\ n = Len(q)
  OBVIOUS
<1>4. ASSUME NEW i \in 1 .. m PROVE a[i] = b[i]
  <2>1. /\ (m - i) + 1 \in 1 .. m /\ n - m + ((m - i) + 1) = (n - i) + 1 /\ i \in 1 .. n
    BY <1>3
  <2>2. s[(m - i) + 1] = q[n - m + ((m - i) + 1)]
    BY <1>3, <2>1
  <2> QED BY <1>2, <1>3, <2>1, <2>2
<1>5. SubSeq(a, 1, m) = SubSeq(b, 1, m)
  <2>1. /\ SubSeq(a, 1, m) = [i \in 1 .. m |-> a[i]]
        /\ SubSeq(b, 1, m) = [i \in 1 .. m |-> b[i]]
    BY <1>2, <1>3
  <2> QED BY <1>4, <2>1
<1> QED BY <1>1, <1>2, <1>3, <1>5 DEF IsSuffix, IsPrefix

(* From the invariant: functions run once.                                    *)
LEMMA FunctionsRunOnce ==
  IInv => RunsOnce
<1> SUFFICES ASSUME IInv PROVE RunsOnce
  OBVIOUS
<1>1. TypeOK
  BY DEF IInv, HandlerMeaning, HandlerTypes, KeyMeaning, KeyTypes, OnceMeaning, TypeOK
<1>2. \A t \in Threads : pc[t] = "returned" => runs = 1 /\ finished
  BY DEF IInv, OnceMeaning
<1>3. PICK n \in Nat, c \in Nat : n = Len(entries) /\ c = Len(called)
  BY DEF IInv, ExitMeaning, CalledInOrder
<1>4. /\ entries \in Seq(Functions) /\ called \in Seq(Functions)
      /\ due \in Nat /\ due <= n /\ c <= due
      /\ \A i \in 1 .. c : called[i] = entries[n - due + i]
  BY <1>3 DEF IInv, ExitMeaning, CalledInOrder
<1>5. ASSUME NEW t \in Threads, pc[t] = "exiting"
      PROVE  /\ Len(called) + idx[t] = due
             /\ IsSuffix(called, SubSeq(entries, 1, Len(entries) - idx[t]))
  <2>1. c + idx[t] = due /\ idx[t] \in Nat
    BY <1>3, <1>5 DEF IInv, ExitMeaning, CallsOK
  <2>2. PICK m \in Nat : m = n - idx[t] /\ m <= n /\ c <= m /\ m - c = n - due
    <3>1. PICK k \in Nat : k = idx[t] /\ c + k = due
      BY <2>1
    <3>2. due \in Nat /\ due <= n /\ c <= due
      BY <1>4
    <3>3. n - k \in Nat /\ n - k <= n /\ c <= n - k /\ (n - k) - c = n - due
      BY <3>1, <3>2
    <3> QED BY <3>1, <3>3
  <2>3. PICK q : q = SubSeq(entries, 1, m)
    OBVIOUS
  <2>4. q \in Seq(Functions) /\ Len(q) = m /\ \A i \in 1 .. m : q[i] = entries[i]
    <3>1. \A i \in 1 .. m : entries[i] \in Functions
      BY <1>3, <1>4, <2>2
    <3>2. q = [i \in 1 .. m |-> entries[i]]
      BY <1>3, <1>4, <2>2, <2>3
    <3> QED BY <3>1, <3>2
  <2>5. ASSUME NEW i \in 1 .. c PROVE called[i] = q[Len(q) - Len(called) + i]
    <3>1. m - c + i = n - due + i /\ m - c + i \in 1 .. m
      BY <1>4, <2>2
    <3> QED BY <1>3, <1>4, <2>4, <3>1
  <2> QED BY <1>3, <1>4, <2>1, <2>2, <2>3, <2>4, <2>5, SuffixByIndex
<1>6. ASSUME NEW t \in Threads, pc[t] = "exited"
      PROVE  Len(called) = due /\ IsSuffix(called, entries)
  <2>1. c = due
    BY <1>3, <1>6 DEF IInv, ExitMeaning
  <2> QED BY <1>3, <1>4, <2>1, SuffixByIndex
<1> QED BY <1>1, <1>2, <1>5, <1>6 DEF RunsOnce

(* HandlersReached, for every number of threads and handlers:                *)
(* oe_real_exception_dispatcher, which walks the array without the lock,     *)
(* calls only handlers that were in the array during its walk, and all that  *)
(* were registered when it began unless one is removed, or put in front,     *)
(* meanwhile.                                                                *)
THEOREM SecondPassReachesHandlers ==
  Spec => []HandlersReached
BY Invariance, HandlersAreReached, PTL

(* ThreadDataFresh, for every number of threads, keys and ecalls:            *)
(* oe_thread_destruct_specific has cleared the values of an ecall before the *)
(* next one on the same TCS can read them, though keys are created and       *)
(* deleted all the time.                                                     *)
THEOREM NoValueOutlivesItsEcall ==
  Spec => []ThreadDataFresh
BY Invariance, DataIsFresh, PTL

(* RunsOnce, for every number of threads and exit functions: oe_once runs    *)
(* its function once and nobody returns before it has completed, and         *)
(* oe_call_atexit_functions has called, when it returns, exactly the entries *)
(* that were registered when it began, the latest first.                     *)
THEOREM FunctionsRunExactlyOnce ==
  Spec => []RunsOnce
BY Invariance, FunctionsRunOnce, PTL

-----------------------------------------------------------------------------
(* A set of numbers has a least one. *)
LEMMA MinExists ==
  ASSUME NEW S, S \subseteq Nat, S # {}
  PROVE  Min(S) \in S /\ \A y \in S : Min(S) <= y
<1>1. PICK R : R = OpToRel(<, Nat) /\ IsWellFoundedOn(R, Nat)
  BY NatLessThanWellFounded
<1>2. R = {ss \in Nat \X Nat : ss[1] < ss[2]}
  BY <1>1 DEF OpToRel
<1>3. PICK x \in S : \A y \in S : ~ (<<y, x>> \in R)
  BY <1>1, WFMin
<1>4. ASSUME NEW y \in S PROVE x <= y
  <2>1. x \in Nat /\ y \in Nat
    OBVIOUS
  <2>2. y < x => <<y, x>> \in R
    BY <1>2, <2>1
  <2> QED BY <1>3, <2>1, <2>2
<1> QED BY <1>4 DEF Min

(* The first loop of oe_register_ecalls, from the table t, after n turns. *)
NamingLoop(t, names, fails, f, n) == f = [k \in 0 .. n |-> IF k = 0 THEN t
      ELSE _get_global_id(f[k - 1], names[k], k # fails)]

(* There is such a function for every number of turns: if not, take the least *)
(* number for which there is none.                                            *)
LEMMA NamingLoopExist ==
  ASSUME NEW t, NEW names, NEW fails, NEW n \in Nat
  PROVE  \E f : NamingLoop(t, names, fails, f, n)
<1> DEFINE Bad == {m \in Nat : ~ \E f : NamingLoop(t, names, fails, f, m)}
<1>1. SUFFICES ASSUME Bad # {} PROVE FALSE
  OBVIOUS
<1>2. PICK m : m = Min(Bad)
  OBVIOUS
<1>3. m \in Bad /\ \A y \in Bad : m <= y
  BY <1>1, <1>2, MinExists
<1> HIDE DEF Bad
<1>4. m \in Nat /\ ~ \E f : NamingLoop(t, names, fails, f, m)
  BY <1>3 DEF Bad
<1>5. m # 0
  <2>1. PICK f : f = [k \in 0 .. 0 |-> t]
    OBVIOUS
  <2>2. NamingLoop(t, names, fails, f, 0)
    <3>1. \A k \in 0 .. 0 : k = 0
      OBVIOUS
    <3>2. [k \in 0 .. 0 |-> t] = [k \in 0 .. 0 |-> IF k = 0 THEN t
          ELSE _get_global_id(f[k - 1], names[k], k # fails)]
      BY <3>1, Zenon
    <3> QED BY <2>1, <3>2, Zenon DEF NamingLoop
  <2> QED BY <1>4, <2>2
<1>6. m - 1 \in Nat /\ m - 1 \notin Bad
  BY <1>3, <1>4, <1>5
<1>7. PICK f : NamingLoop(t, names, fails, f, m - 1)
  BY <1>6 DEF Bad
<1>8. PICK g : g = [k \in 0 .. m |-> IF k = m THEN _get_global_id(f[m - 1], names[m], m # fails) ELSE f[k]]
  OBVIOUS
<1>9. NamingLoop(t, names, fails, g, m)
  <2>1. ASSUME NEW k \in 0 .. m
        PROVE  g[k] = IF k = 0 THEN t ELSE _get_global_id(g[k - 1], names[k], k # fails)
    <3>1. CASE k = m
      <4>1. g[k] = _get_global_id(f[m - 1], names[m], m # fails) /\ g[k - 1] = f[m - 1] /\ k # 0
        BY <1>4, <1>5, <1>6, <1>8, <3>1
      <4> QED BY <3>1, <4>1, Zenon
    <3>2. CASE k # m
      <4>1. k \in 0 .. m - 1 /\ (k # 0 => k - 1 \in 0 .. m /\ k - 1 # m)
        BY <1>4, <3>2
      <4>2. f[k] = IF k = 0 THEN t ELSE _get_global_id(f[k - 1], names[k], k # fails)
        <5> DEFINE F == [j \in 0 .. m - 1 |-> IF j = 0 THEN t
              ELSE _get_global_id(f[j - 1], names[j], j # fails)]
        <5>1. f = F
          BY <1>7, Zenon DEF NamingLoop
        <5>2. F[k] = IF k = 0 THEN t ELSE _get_global_id(f[k - 1], names[k], k # fails)
          BY <4>1, Zenon
        <5> HIDE DEF F
        <5> QED BY <5>1, <5>2, Zenon
      <4>3. g[k] = f[k] /\ (k # 0 => g[k - 1] = f[k - 1])
        BY <1>8, <3>2, <4>1
      <4>4. CASE k = 0
        BY <4>2, <4>3, <4>4, Zenon
      <4>5. CASE k # 0
        BY <4>2, <4>3, <4>5, Zenon
      <4> QED BY <4>4, <4>5
    <3> QED BY <3>1, <3>2
  <2>2. g = [k \in 0 .. m |-> g[k]]
    BY <1>8
  <2>3. [k \in 0 .. m |-> g[k]] = [k \in 0 .. m |-> IF k = 0 THEN t
        ELSE _get_global_id(g[k - 1], names[k], k # fails)]
    BY <2>1, Zenon
  <2> QED BY <2>2, <2>3, Zenon DEF NamingLoop
<1> QED BY <1>4, <1>9

(* One turn of it. *)
NamingLoopTurn(t, names, fails, f, k) == f[k] = IF k = 0 THEN t
      ELSE _get_global_id(f[k - 1], names[k], k # fails)

(* Each turn is as the loop says.                                             *)
LEMMA NamingLoopStep ==
  ASSUME NEW t, NEW names, NEW fails, NEW n \in Nat, NEW f, NamingLoop(t, names, fails, f, n),
        NEW k \in 0 .. n
  PROVE  NamingLoopTurn(t, names, fails, f, k)
<1> DEFINE F == [j \in 0 .. n |-> IF j = 0 THEN t ELSE _get_global_id(f[j - 1], names[j], j # fails)]
<1>1. f = F
  BY Zenon DEF NamingLoop
<1>2. F[k] = IF k = 0 THEN t ELSE _get_global_id(f[k - 1], names[k], k # fails)
  BY Zenon
<1> HIDE DEF F
<1> QED BY <1>1, <1>2, Zenon DEF NamingLoopTurn

(* A turn of the loop that registers the plugins of an array. *)
AddTurn(x, ids, a, fails, k) == oe_attest_register_plugin(x, [id |-> ids[k], array |-> a], k # fails)

(* The loop, after n turns. *)
AddingLoop(old, ids, a, fails, f, n) == f
      = [k \in 0 .. n |-> IF k = 0 THEN [ok |-> TRUE, list |-> old]
      ELSE AddTurn(f[k - 1], ids, a, fails, k)]

(* There is such a function for every number of turns: if not, take the least *)
(* number for which there is none.                                            *)
LEMMA AddingLoopExist ==
  ASSUME NEW old, NEW ids, NEW a, NEW fails, NEW n \in Nat
  PROVE  \E f : AddingLoop(old, ids, a, fails, f, n)
<1> DEFINE Bad == {m \in Nat : ~ \E f : AddingLoop(old, ids, a, fails, f, m)}
<1>1. SUFFICES ASSUME Bad # {} PROVE FALSE
  OBVIOUS
<1>2. PICK m : m = Min(Bad)
  OBVIOUS
<1>3. m \in Bad /\ \A y \in Bad : m <= y
  BY <1>1, <1>2, MinExists
<1> HIDE DEF Bad
<1>4. m \in Nat /\ ~ \E f : AddingLoop(old, ids, a, fails, f, m)
  BY <1>3 DEF Bad
<1>5. m # 0
  <2>1. PICK f : f = [k \in 0 .. 0 |-> [ok |-> TRUE, list |-> old]]
    OBVIOUS
  <2>2. AddingLoop(old, ids, a, fails, f, 0)
    <3>1. \A k \in 0 .. 0 : k = 0
      OBVIOUS
    <3>2. [k \in 0 .. 0 |-> [ok |-> TRUE, list |-> old]]
          = [k \in 0 .. 0 |-> IF k = 0 THEN [ok |-> TRUE, list |-> old]
          ELSE AddTurn(f[k - 1], ids, a, fails, k)]
      BY <3>1, Zenon
    <3> QED BY <2>1, <3>2, Zenon DEF AddingLoop
  <2> QED BY <1>4, <2>2
<1>6. m - 1 \in Nat /\ m - 1 \notin Bad
  BY <1>3, <1>4, <1>5
<1>7. PICK f : AddingLoop(old, ids, a, fails, f, m - 1)
  BY <1>6 DEF Bad
<1>8. PICK g : g = [k \in 0 .. m |-> IF k = m THEN AddTurn(f[m - 1], ids, a, fails, m) ELSE f[k]]
  OBVIOUS
<1>9. AddingLoop(old, ids, a, fails, g, m)
  <2>1. ASSUME NEW k \in 0 .. m
        PROVE  g[k] = IF k = 0 THEN [ok |-> TRUE, list |-> old] ELSE AddTurn(g[k - 1], ids, a, fails, k)
    <3>1. CASE k = m
      <4>1. g[k] = AddTurn(f[m - 1], ids, a, fails, m) /\ g[k - 1] = f[m - 1] /\ k # 0
        BY <1>4, <1>5, <1>6, <1>8, <3>1
      <4> QED BY <3>1, <4>1, Zenon
    <3>2. CASE k # m
      <4>1. k \in 0 .. m - 1 /\ (k # 0 => k - 1 \in 0 .. m /\ k - 1 # m)
        BY <1>4, <3>2
      <4>2. f[k] = IF k = 0 THEN [ok |-> TRUE, list |-> old] ELSE AddTurn(f[k - 1], ids, a, fails, k)
        <5> DEFINE F == [j \in 0 .. m - 1 |-> IF j = 0 THEN [ok |-> TRUE, list |-> old]
              ELSE AddTurn(f[j - 1], ids, a, fails, j)]
        <5>1. f = F
          BY <1>7, Zenon DEF AddingLoop
        <5>2. F[k] = IF k = 0 THEN [ok |-> TRUE, list |-> old] ELSE AddTurn(f[k - 1], ids, a, fails, k)
          BY <4>1, Zenon
        <5> HIDE DEF F
        <5> QED BY <5>1, <5>2, Zenon
      <4>3. g[k] = f[k] /\ (k # 0 => g[k - 1] = f[k - 1])
        BY <1>8, <3>2, <4>1
      <4>4. CASE k = 0
        BY <4>2, <4>3, <4>4, Zenon
      <4>5. CASE k # 0
        BY <4>2, <4>3, <4>5, Zenon
      <4> QED BY <4>4, <4>5
    <3> QED BY <3>1, <3>2
  <2>2. g = [k \in 0 .. m |-> g[k]]
    BY <1>8
  <2>3. [k \in 0 .. m |-> g[k]] = [k \in 0 .. m |-> IF k = 0 THEN [ok |-> TRUE, list |-> old]
        ELSE AddTurn(g[k - 1], ids, a, fails, k)]
    BY <2>1, Zenon
  <2> QED BY <2>2, <2>3, Zenon DEF AddingLoop
<1> QED BY <1>4, <1>9

(* One turn of it. *)
AddingLoopTurn(old, ids, a, fails, f, k) == f[k] = IF k = 0 THEN [ok |-> TRUE, list |-> old]
      ELSE AddTurn(f[k - 1], ids, a, fails, k)

(* Each turn is as the loop says.                                             *)
LEMMA AddingLoopStep ==
  ASSUME NEW old, NEW ids, NEW a, NEW fails, NEW n \in Nat, NEW f, AddingLoop(old, ids, a, fails, f, n),
        NEW k \in 0 .. n
  PROVE  AddingLoopTurn(old, ids, a, fails, f, k)
<1> DEFINE F == [j \in 0 .. n |-> IF j = 0 THEN [ok |-> TRUE, list |-> old]
      ELSE AddTurn(f[j - 1], ids, a, fails, j)]
<1>1. f = F
  BY Zenon DEF AddingLoop
<1>2. F[k] = IF k = 0 THEN [ok |-> TRUE, list |-> old] ELSE AddTurn(f[k - 1], ids, a, fails, k)
  BY Zenon
<1> HIDE DEF F
<1> QED BY <1>1, <1>2, Zenon DEF AddingLoopTurn, AddTurn

(* The loop that unregisters the formats of an array, after n turns. *)
DroppingLoop(old, ids, f, n) == f = [k \in 0 .. n |-> IF k = 0 THEN old
      ELSE oe_attest_unregister_plugin(f[k - 1], ids[k])]

(* There is such a function for every number of turns: if not, take the least *)
(* number for which there is none.                                            *)
LEMMA DroppingLoopExist ==
  ASSUME NEW old, NEW ids, NEW n \in Nat
  PROVE  \E f : DroppingLoop(old, ids, f, n)
<1> DEFINE Bad == {m \in Nat : ~ \E f : DroppingLoop(old, ids, f, m)}
<1>1. SUFFICES ASSUME Bad # {} PROVE FALSE
  OBVIOUS
<1>2. PICK m : m = Min(Bad)
  OBVIOUS
<1>3. m \in Bad /\ \A y \in Bad : m <= y
  BY <1>1, <1>2, MinExists
<1> HIDE DEF Bad
<1>4. m \in Nat /\ ~ \E f : DroppingLoop(old, ids, f, m)
  BY <1>3 DEF Bad
<1>5. m # 0
  <2>1. PICK f : f = [k \in 0 .. 0 |-> old]
    OBVIOUS
  <2>2. DroppingLoop(old, ids, f, 0)
    <3>1. \A k \in 0 .. 0 : k = 0
      OBVIOUS
    <3>2. [k \in 0 .. 0 |-> old] = [k \in 0 .. 0 |-> IF k = 0 THEN old
          ELSE oe_attest_unregister_plugin(f[k - 1], ids[k])]
      BY <3>1, Zenon
    <3> QED BY <2>1, <3>2, Zenon DEF DroppingLoop
  <2> QED BY <1>4, <2>2
<1>6. m - 1 \in Nat /\ m - 1 \notin Bad
  BY <1>3, <1>4, <1>5
<1>7. PICK f : DroppingLoop(old, ids, f, m - 1)
  BY <1>6 DEF Bad
<1>8. PICK g : g = [k \in 0 .. m |-> IF k = m THEN oe_attest_unregister_plugin(f[m - 1], ids[m]) ELSE f[k]]
  OBVIOUS
<1>9. DroppingLoop(old, ids, g, m)
  <2>1. ASSUME NEW k \in 0 .. m
        PROVE  g[k] = IF k = 0 THEN old ELSE oe_attest_unregister_plugin(g[k - 1], ids[k])
    <3>1. CASE k = m
      <4>1. g[k] = oe_attest_unregister_plugin(f[m - 1], ids[m]) /\ g[k - 1] = f[m - 1] /\ k # 0
        BY <1>4, <1>5, <1>6, <1>8, <3>1
      <4> QED BY <3>1, <4>1, Zenon
    <3>2. CASE k # m
      <4>1. k \in 0 .. m - 1 /\ (k # 0 => k - 1 \in 0 .. m /\ k - 1 # m)
        BY <1>4, <3>2
      <4>2. f[k] = IF k = 0 THEN old ELSE oe_attest_unregister_plugin(f[k - 1], ids[k])
        <5> DEFINE F == [j \in 0 .. m - 1 |-> IF j = 0 THEN old
              ELSE oe_attest_unregister_plugin(f[j - 1], ids[j])]
        <5>1. f = F
          BY <1>7, Zenon DEF DroppingLoop
        <5>2. F[k] = IF k = 0 THEN old ELSE oe_attest_unregister_plugin(f[k - 1], ids[k])
          BY <4>1, Zenon
        <5> HIDE DEF F
        <5> QED BY <5>1, <5>2, Zenon
      <4>3. g[k] = f[k] /\ (k # 0 => g[k - 1] = f[k - 1])
        BY <1>8, <3>2, <4>1
      <4>4. CASE k = 0
        BY <4>2, <4>3, <4>4, Zenon
      <4>5. CASE k # 0
        BY <4>2, <4>3, <4>5, Zenon
      <4> QED BY <4>4, <4>5
    <3> QED BY <3>1, <3>2
  <2>2. g = [k \in 0 .. m |-> g[k]]
    BY <1>8
  <2>3. [k \in 0 .. m |-> g[k]] = [k \in 0 .. m |-> IF k = 0 THEN old
        ELSE oe_attest_unregister_plugin(g[k - 1], ids[k])]
    BY <2>1, Zenon
  <2> QED BY <2>2, <2>3, Zenon DEF DroppingLoop
<1> QED BY <1>4, <1>9

(* One turn of it. *)
DroppingLoopTurn(old, ids, f, k) == f[k] = IF k = 0 THEN old
      ELSE oe_attest_unregister_plugin(f[k - 1], ids[k])

(* Each turn is as the loop says.                                             *)
LEMMA DroppingLoopStep ==
  ASSUME NEW old, NEW ids, NEW n \in Nat, NEW f, DroppingLoop(old, ids, f, n), NEW k \in 0 .. n
  PROVE  DroppingLoopTurn(old, ids, f, k)
<1> DEFINE F == [j \in 0 .. n |-> IF j = 0 THEN old ELSE oe_attest_unregister_plugin(f[j - 1], ids[j])]
<1>1. f = F
  BY Zenon DEF DroppingLoop
<1>2. F[k] = IF k = 0 THEN old ELSE oe_attest_unregister_plugin(f[k - 1], ids[k])
  BY Zenon
<1> HIDE DEF F
<1> QED BY <1>1, <1>2, Zenon DEF DroppingLoopTurn

(* No two elements of a sequence have the same id. *)
Apart(s) == \A i, j \in 1 .. Len(s) : s[i].id = s[j].id => i = j
Elements(s) == {s[i] : i \in 1 .. Len(s)}

(* The array of sealing plugins. *)
SealersGood ==
  /\ sealers \in [on : BOOLEAN, array : Seq(SealPlugins), wanted : SUBSET SealPlugins,
                  default : {NoId} \cup {p.id : p \in SealPlugins}]
  /\ Apart(sealers.array) /\ Elements(sealers.array) = sealers.wanted
  /\ sealers.default # NoId => sealers.array # <<>> /\ sealers.array[1].id = sealers.default

(* The place of an id in the array, or 0. *)
LEMMA PlaceFacts ==
  ASSUME NEW S, NEW s \in Seq(S), NEW id
  PROVE  \/ PlaceOf(s, id) \in 1 .. Len(s) /\ s[PlaceOf(s, id)].id = id
         \/ PlaceOf(s, id) = 0 /\ \A i \in 1 .. Len(s) : s[i].id # id
<1> DEFINE I == {i \in 1 .. Len(s) : s[i].id = id}
<1>1. PlaceOf(s, id) = IF I # {} THEN Min(I) ELSE 0
  BY DEF PlaceOf, SelectInSeq
<1>2. I \subseteq Nat
  BY LenProperties
<1>3. CASE I # {}
  <2>1. Min(I) \in I
    BY <1>2, <1>3, MinExists
  <2> QED BY <1>1, <1>3, <2>1
<1>4. CASE I = {}
  BY <1>1, <1>4
<1> QED BY <1>3, <1>4

(* A registration puts the plugin into the place of its id or behind the      *)
(* others, and swaps it to the front when it is to be the default.            *)
NowRegistered(s, plugin, default, r) ==
  /\ r \in Seq(SealPlugins) /\ r # <<>> /\ Apart(r)
  /\ Elements(r) = {x \in Elements(s) : x.id # plugin.id} \cup {plugin}
  /\ default => r[1] = plugin
  /\ ~default /\ s # <<>> => r[1].id = s[1].id

(* oe_register_seal_plugin does that.                                         *)
LEMMA RegisteredFacts ==
  ASSUME NEW s \in Seq(SealPlugins), Apart(s), NEW plugin \in SealPlugins, NEW default \in BOOLEAN
  PROVE  NowRegistered(s, plugin, default, Registered(s, plugin, default))
<1> DEFINE S == SealPlugins
<1>1. PICK place : place = PlaceOf(s, plugin.id)
  OBVIOUS
<1>2. \/ place \in 1 .. Len(s) /\ s[place].id = plugin.id
      \/ place = 0 /\ \A i \in 1 .. Len(s) : s[i].id # plugin.id
  BY <1>1, PlaceFacts
<1>3. PICK l \in Nat : l = Len(s)
  BY LenProperties
<1>4. PICK index : index = IF place # 0 THEN place ELSE Len(s) + 1
  OBVIOUS
<1>5. PICK grown : grown = IF place # 0 THEN s ELSE Append(s, plugin)
  OBVIOUS
<1>6. \E n \in Nat \ {0} :
        /\ grown \in Seq(S) /\ Len(grown) = n /\ index \in 1 .. n /\ grown[index].id = plugin.id
        /\ n = l \/ (n = l + 1 /\ index = n)
        /\ \A i \in 1 .. l : grown[i] = s[i]
        /\ l # 0 => n # 0
        /\ \A i \in 1 .. n : i # index => i \in 1 .. l /\ grown[i] = s[i] /\ s[i].id # plugin.id
        /\ \A i \in 1 .. l : s[i].id # plugin.id => i \in 1 .. n /\ i # index
  <2>1. CASE place # 0
    <3>1. /\ grown = s /\ index = place /\ index \in 1 .. l /\ s[index].id = plugin.id /\ l \in Nat \ {0}
      BY <1>2, <1>3, <1>4, <1>5, <2>1
    <3>2. \A i \in 1 .. l : i # index => s[i].id # plugin.id
      BY <1>3, <3>1 DEF Apart
    <3> QED BY <1>3, <3>1, <3>2
  <2>2. CASE place = 0
    <3>1. grown = Append(s, plugin) /\ index = l + 1 /\ \A i \in 1 .. l : s[i].id # plugin.id
      BY <1>2, <1>3, <1>4, <1>5, <2>2
    <3>2. /\ grown \in Seq(S) /\ Len(grown) = l + 1 /\ grown[l + 1] = plugin
          /\ \A i \in 1 .. l : grown[i] = s[i]
      BY <1>3, <3>1, AppendProperties
    <3>3. /\ l + 1 \in Nat \ {0} /\ l + 1 \in 1 .. l + 1
          /\ \A i \in 1 .. l + 1 : i # l + 1 => i \in 1 .. l
          /\ \A i \in 1 .. l : i \in 1 .. l + 1 /\ i # l + 1
      OBVIOUS
    <3> QED BY <3>1, <3>2, <3>3
  <2> QED BY <2>1, <2>2
<1>7. PICK n \in Nat \ {0} :
        /\ grown \in Seq(S) /\ Len(grown) = n /\ index \in 1 .. n /\ grown[index].id = plugin.id
        /\ n = l \/ (n = l + 1 /\ index = n)
        /\ \A i \in 1 .. l : grown[i] = s[i]
        /\ l # 0 => n # 0
        /\ \A i \in 1 .. n : i # index => i \in 1 .. l /\ grown[i] = s[i] /\ s[i].id # plugin.id
        /\ \A i \in 1 .. l : s[i].id # plugin.id => i \in 1 .. n /\ i # index
  BY <1>6
<1>8. PICK r : r = Registered(s, plugin, default)
  OBVIOUS
<1>9. r = IF default /\ index > 1 THEN [grown EXCEPT ![index] = grown[1], ![1] = plugin]
          ELSE [grown EXCEPT ![index] = plugin]
  BY <1>1, <1>4, <1>5, <1>8 DEF Registered
<1>10. \A i, j \in 1 .. n : i # index /\ j # index /\ grown[i].id = grown[j].id => i = j
  BY <1>3, <1>7 DEF Apart
<1>11. CASE default /\ index > 1
  <2>1. PICK g1 : g1 = [grown EXCEPT ![index] = grown[1]]
    OBVIOUS
  <2>2. 1 \in 1 .. n /\ grown[1] \in S
    BY <1>7, ElementOfSeq
  <2>3. g1 \in Seq(S) /\ Len(g1) = n /\ \A j \in 1 .. n : g1[j] = IF j = index THEN grown[1] ELSE grown[j]
    BY <1>7, <2>1, <2>2, ExceptSeq
  <2>4. r = [g1 EXCEPT ![1] = plugin]
    BY <1>9, <1>11, <2>1
  <2>5. r \in Seq(S) /\ Len(r) = n /\ \A j \in 1 .. n : r[j] = IF j = 1 THEN plugin ELSE g1[j]
    BY <2>2, <2>3, <2>4, ExceptSeq
  <2>6. index # 1 /\ \A j \in 1 .. n : r[j] = IF j = 1 THEN plugin ELSE IF j = index THEN grown[1]
        ELSE grown[j]
    BY <1>7, <1>11, <2>3, <2>5
  <2>7. Apart(r)
    <3>1. ASSUME NEW i \in 1 .. n, NEW j \in 1 .. n, r[i].id = r[j].id PROVE i = j
      BY <1>7, <1>10, <2>2, <2>6, <3>1
    <3> QED BY <2>5, <3>1 DEF Apart
  <2>8. Elements(r) = {x \in Elements(s) : x.id # plugin.id} \cup {plugin}
    <3>1. ASSUME NEW j \in 1 .. n PROVE r[j] \in {x \in Elements(s) : x.id # plugin.id} \cup {plugin}
      BY <1>3, <1>7, <2>2, <2>6 DEF Elements
    <3>2. ASSUME NEW i \in 1 .. l, s[i].id # plugin.id PROVE \E j \in 1 .. n : r[j] = s[i]
      <4>1. i \in 1 .. n /\ i # index /\ grown[i] = s[i]
        BY <1>7, <3>2
      <4>2. CASE i = 1
        BY <1>7, <2>6, <4>1, <4>2
      <4>3. CASE i # 1
        BY <2>6, <4>1, <4>3
      <4> QED BY <4>2, <4>3
    <3>3. r[1] = plugin
      BY <2>2, <2>6
    <3> QED BY <1>3, <2>2, <2>5, <3>1, <3>2, <3>3 DEF Elements
  <2>9. r # <<>>
    BY <2>5, EmptySeq
  <2> QED BY <1>8, <1>11, <2>2, <2>5, <2>7, <2>8, <2>9 DEF NowRegistered
<1>12. CASE ~(default /\ index > 1)
  <2>1. /\ r \in Seq(S) /\ Len(r) = n
        /\ \A j \in 1 .. n : r[j] = IF j = index THEN plugin ELSE grown[j]
    BY <1>7, <1>9, <1>12, ExceptSeq
  <2>2. Apart(r)
    <3>1. ASSUME NEW i \in 1 .. n, NEW j \in 1 .. n, r[i].id = r[j].id PROVE i = j
      BY <1>7, <1>10, <2>1, <3>1
    <3> QED BY <2>1, <3>1 DEF Apart
  <2>3. Elements(r) = {x \in Elements(s) : x.id # plugin.id} \cup {plugin}
    <3>1. ASSUME NEW j \in 1 .. n PROVE r[j] \in {x \in Elements(s) : x.id # plugin.id} \cup {plugin}
      BY <1>3, <1>7, <2>1 DEF Elements
    <3>2. ASSUME NEW i \in 1 .. l, s[i].id # plugin.id PROVE \E j \in 1 .. n : r[j] = s[i]
      BY <1>7, <2>1, <3>2
    <3>3. r[index] = plugin
      BY <1>7, <2>1
    <3>4. ASSUME NEW x \in Elements(r) PROVE x \in {y \in Elements(s) : y.id # plugin.id} \cup {plugin}
      BY <2>1, <3>1 DEF Elements
    <3>5. ASSUME NEW x \in Elements(s), x.id # plugin.id PROVE x \in Elements(r)
      <4>1. PICK i \in 1 .. l : x = s[i]
        BY <1>3 DEF Elements
      <4>2. PICK j \in 1 .. n : r[j] = s[i]
        BY <3>2, <3>5, <4>1
      <4> QED BY <2>1, <4>1, <4>2 DEF Elements
    <3>6. plugin \in Elements(r)
      BY <1>7, <2>1, <3>3 DEF Elements
    <3> QED BY <3>4, <3>5, <3>6
  <2>4. default => r[1] = plugin
    <3>1. default => index = 1
      BY <1>7, <1>12
    <3> QED BY <1>7, <2>1, <3>1
  <2>5. s # <<>> => r[1].id = s[1].id
    <3>1. s # <<>> => l # 0 /\ 1 \in 1 .. l /\ 1 \in 1 .. n
      BY <1>3, <1>7, EmptySeq
    <3> QED BY <1>7, <2>1, <3>1
  <2>6. r # <<>>
    BY <1>7, <2>1, EmptySeq
  <2> QED BY <1>8, <2>1, <2>2, <2>3, <2>4, <2>5, <2>6 DEF NowRegistered
<1> QED BY <1>11, <1>12

(* The element at i is replaced by the last one, and the last place goes: the *)
(* others stay.                                                               *)
NowGone(s, i, r) ==
  /\ r \in Seq(SealPlugins) /\ Apart(r)
  /\ Elements(r) = {x \in Elements(s) : x.id # s[i].id}
  /\ i # 1 => r # <<>> /\ r[1] = s[1]

(* oe_unregister_seal_plugin does that to the element it finds.               *)
LEMMA SwappedOutFacts ==
  ASSUME NEW s \in Seq(SealPlugins), Apart(s), NEW i \in 1 .. Len(s)
  PROVE  NowGone(s, i, SubSeq([s EXCEPT ![i] = s[Len(s)]], 1, Len(s) - 1))
<1> DEFINE S == SealPlugins
<1>1. PICK l \in Nat : l = Len(s)
  BY LenProperties
<1>2. l # 0 /\ l \in 1 .. l /\ s[l] \in S /\ i \in 1 .. l
  BY <1>1, ElementOfSeq
<1>3. PICK g : g = [s EXCEPT ![i] = s[l]]
  OBVIOUS
<1>4. g \in Seq(S) /\ Len(g) = l /\ \A j \in 1 .. l : g[j] = IF j = i THEN s[l] ELSE s[j]
  BY <1>1, <1>2, <1>3, ExceptSeq
<1>5. \A j \in 1 .. l - 1 : g[j] \in S
  BY <1>4, ElementOfSeq
<1>6. 1 \in Int /\ l - 1 \in Int
  OBVIOUS
<1>7. PICK r : r = SubSeq(g, 1, l - 1)
  OBVIOUS
<1>8. /\ r \in Seq(S) /\ Len(r) = (IF 1 <= l - 1 THEN l - 1 - 1 + 1 ELSE 0)
      /\ \A j \in 1 .. l - 1 - 1 + 1 : r[j] = g[1 + j - 1]
  BY <1>5, <1>6, <1>7, SubSeqProperties
<1>9. Len(r) = l - 1 /\ \A j \in 1 .. l - 1 : j \in 1 .. l /\ j # l /\ r[j] = IF j = i THEN s[l] ELSE s[j]
  BY <1>2, <1>4, <1>8
<1>10. \A j, k \in 1 .. l : s[j].id = s[k].id => j = k
  BY <1>1 DEF Apart
<1>11. Apart(r)
  <2>1. ASSUME NEW j \in 1 .. l - 1, NEW k \in 1 .. l - 1, r[j].id = r[k].id PROVE j = k
    BY <1>2, <1>9, <1>10, <2>1
  <2> QED BY <1>9, <2>1 DEF Apart
<1>12. Elements(r) = {x \in Elements(s) : x.id # s[i].id}
  <2>1. ASSUME NEW j \in 1 .. l - 1 PROVE r[j] \in {x \in Elements(s) : x.id # s[i].id}
    <3>1. CASE j = i
      <4>1. r[j] = s[l] /\ l # i
        BY <1>2, <1>9, <3>1
      <4> QED BY <1>1, <1>2, <1>10, <4>1 DEF Elements
    <3>2. CASE j # i
      BY <1>1, <1>2, <1>9, <1>10, <3>2 DEF Elements
    <3> QED BY <3>1, <3>2
  <2>2. ASSUME NEW j \in 1 .. l, s[j].id # s[i].id PROVE \E k \in 1 .. l - 1 : r[k] = s[j]
    <3>1. CASE j = l
      <4>1. i \in 1 .. l - 1
        BY <1>2, <2>2, <3>1
      <4> QED BY <1>9, <3>1, <4>1
    <3>2. CASE j # l
      <4>1. j \in 1 .. l - 1 /\ j # i
        BY <2>2, <3>2
      <4> QED BY <1>9, <4>1
    <3> QED BY <3>1, <3>2
  <2>3. ASSUME NEW x \in Elements(r) PROVE x \in {y \in Elements(s) : y.id # s[i].id}
    BY <1>9, <2>1 DEF Elements
  <2>4. ASSUME NEW x \in Elements(s), x.id # s[i].id PROVE x \in Elements(r)
    <3>1. PICK j \in 1 .. l : x = s[j]
      BY <1>1 DEF Elements
    <3>2. PICK k \in 1 .. l - 1 : r[k] = s[j]
      BY <2>2, <2>4, <3>1
    <3> QED BY <1>9, <3>1, <3>2 DEF Elements
  <2> QED BY <2>3, <2>4
<1>13. i # 1 => r # <<>> /\ r[1] = s[1]
  <2>1. i # 1 => 1 \in 1 .. l - 1
    BY <1>2
  <2>2. i # 1 => r # <<>>
    BY <1>9, <2>1, EmptySeq
  <2> QED BY <1>9, <2>1, <2>2
<1> QED BY <1>1, <1>3, <1>7, <1>8, <1>11, <1>12, <1>13 DEF NowGone

(* The array of sealing plugins is good when it is empty.                     *)
LEMMA SealersStart == SealersInit(TRUE) => SealersGood
<1>1. <<>> \in Seq(SealPlugins) /\ Len(<<>>) = 0
  BY EmptySeq
<1> QED BY <1>1 DEF SealersInit, SealersGood, Apart, Elements

(* oe_register_seal_plugin keeps it good.                                     *)
LEMMA SealerRegistered ==
  ASSUME SealersGood, NEW plugin \in SealPlugins, NEW default \in BOOLEAN,
         oe_register_seal_plugin(plugin, default)
  PROVE  SealersGood'
<1>1. PICK on \in BOOLEAN, s \in Seq(SealPlugins), w \in SUBSET SealPlugins,
           d \in {NoId} \cup {p.id : p \in SealPlugins} :
        sealers = [on |-> on, array |-> s, wanted |-> w, default |-> d]
  BY DEF SealersGood
<1>2. /\ sealers.array = s /\ sealers.wanted = w /\ sealers.default = d
      /\ Apart(s) /\ Elements(s) = w /\ (d # NoId => s # <<>> /\ s[1].id = d)
  BY <1>1 DEF SealersGood
<1>3. CASE sealers' = sealers
  BY <1>3 DEF SealersGood, Apart, Elements
<1>4. CASE sealers' # sealers
  <2>0. PICK r : r = Registered(s, plugin, default)
    OBVIOUS
  <2>1. /\ r = Registered(s, plugin, default)
        /\ r \in Seq(SealPlugins) /\ r # <<>> /\ Apart(r)
        /\ Elements(r) = {x \in Elements(s) : x.id # plugin.id} \cup {plugin}
        /\ default => r[1] = plugin
        /\ ~default /\ s # <<>> => r[1].id = s[1].id
    <3>1. NowRegistered(s, plugin, default, Registered(s, plugin, default))
      BY <1>2, RegisteredFacts
    <3> QED BY <2>0, <3>1, Zenon DEF NowRegistered
  <2>2. PICK w1 : w1 = {p \in w : p.id # plugin.id} \cup {plugin}
    OBVIOUS
  <2>3. PICK d1 : d1 = IF default THEN plugin.id ELSE d
    OBVIOUS
  <2>4. sealers' = [on |-> on, array |-> r, wanted |-> w1, default |-> d1]
    <3>1. sealers' = [sealers EXCEPT !.array = Registered(@, plugin, default),
                                     !.wanted = {p \in @ : p.id # plugin.id} \cup {plugin},
                                     !.default = IF default THEN plugin.id ELSE @]
      BY <1>4 DEF oe_register_seal_plugin
    <3>2. sealers' = [sealers EXCEPT !.array = r, !.wanted = w1, !.default = d1]
      BY <1>2, <2>1, <2>2, <2>3, <3>1, Zenon
    <3> QED BY <1>1, <3>2
  <2>5. sealers'.array = r /\ sealers'.wanted = w1 /\ sealers'.default = d1
    BY <2>4
  <2>6. w1 \in SUBSET SealPlugins /\ d1 \in {NoId} \cup {p.id : p \in SealPlugins}
    BY <2>2, <2>3
  <2>7. Elements(r) = w1
    BY <1>2, <2>1, <2>2
  <2>8. d1 # NoId => r # <<>> /\ r[1].id = d1
    BY <1>2, <2>1, <2>3
  <2>9. sealers' \in [on : BOOLEAN, array : Seq(SealPlugins), wanted : SUBSET SealPlugins,
                      default : {NoId} \cup {p.id : p \in SealPlugins}]
    BY <2>1, <2>4, <2>6
  <2>10. Apart(sealers'.array) /\ Elements(sealers'.array) = sealers'.wanted
    BY <2>1, <2>5, <2>7
  <2> QED BY <2>5, <2>8, <2>9, <2>10 DEF SealersGood, Apart, Elements
<1> QED BY <1>3, <1>4

(* oe_unregister_seal_plugin keeps it good.                                   *)
LEMMA SealerUnregistered ==
  ASSUME SealersGood, NEW id, oe_unregister_seal_plugin(id)
  PROVE  SealersGood'
<1>1. PICK on \in BOOLEAN, s \in Seq(SealPlugins), w \in SUBSET SealPlugins,
           d \in {NoId} \cup {p.id : p \in SealPlugins} :
        sealers = [on |-> on, array |-> s, wanted |-> w, default |-> d]
  BY DEF SealersGood
<1>2. /\ sealers.array = s /\ sealers.wanted = w /\ sealers.default = d
      /\ Apart(s) /\ Elements(s) = w /\ (d # NoId => s # <<>> /\ s[1].id = d)
  BY <1>1 DEF SealersGood
<1>3. CASE sealers' = sealers
  BY <1>3 DEF SealersGood, Apart, Elements
<1>4. CASE sealers' # sealers
  <2>1. PICK i : i = PlaceOf(s, id)
    OBVIOUS
  <2>2. i # 0
    BY <1>2, <1>4, <2>1 DEF oe_unregister_seal_plugin
  <2>3. i \in 1 .. Len(s) /\ s[i].id = id
    BY <2>1, <2>2, PlaceFacts
  <2>0. PICK r : r = SubSeq([s EXCEPT ![i] = s[Len(s)]], 1, Len(s) - 1)
    OBVIOUS
  <2>4. /\ r = SubSeq([s EXCEPT ![i] = s[Len(s)]], 1, Len(s) - 1)
        /\ r \in Seq(SealPlugins) /\ Apart(r)
        /\ Elements(r) = {x \in Elements(s) : x.id # s[i].id}
        /\ i # 1 => r # <<>> /\ r[1] = s[1]
    <3>1. NowGone(s, i, SubSeq([s EXCEPT ![i] = s[Len(s)]], 1, Len(s) - 1))
      BY <1>2, <2>3, SwappedOutFacts
    <3> QED BY <2>0, <3>1, Zenon DEF NowGone
  <2>5. PICK w1 : w1 = {p \in w : p.id # id}
    OBVIOUS
  <2>6. PICK d1 : d1 = IF d = id THEN NoId ELSE d
    OBVIOUS
  <2>7. sealers' = [on |-> on, array |-> r, wanted |-> w1, default |-> d1]
    <3>1. sealers' = [sealers EXCEPT !.array = SubSeq([@ EXCEPT ![i] = sealers.array[Len(sealers.array)]],
                                                      1, Len(sealers.array) - 1),
                                     !.wanted = {p \in @ : p.id # id},
                                     !.default = IF @ = id THEN NoId ELSE @]
      BY <1>2, <1>4, <2>1, <2>2 DEF oe_unregister_seal_plugin
    <3>2. sealers' = [sealers EXCEPT !.array = r, !.wanted = w1, !.default = d1]
      BY <1>2, <2>4, <2>5, <2>6, <3>1, Zenon
    <3> QED BY <1>1, <3>2
  <2>8. sealers'.array = r /\ sealers'.wanted = w1 /\ sealers'.default = d1
    BY <2>7
  <2>9. w1 \in SUBSET SealPlugins /\ d1 \in {NoId} \cup {p.id : p \in SealPlugins}
    BY <2>5, <2>6
  <2>10. Elements(r) = w1
    BY <1>2, <2>3, <2>4, <2>5
  <2>11. d1 # NoId => r # <<>> /\ r[1].id = d1
    BY <1>2, <2>3, <2>4, <2>6
  <2>12. sealers' \in [on : BOOLEAN, array : Seq(SealPlugins), wanted : SUBSET SealPlugins,
                       default : {NoId} \cup {p.id : p \in SealPlugins}]
    BY <2>4, <2>7, <2>9
  <2>13. Apart(sealers'.array) /\ Elements(sealers'.array) = sealers'.wanted
    BY <2>4, <2>8, <2>10
  <2> QED BY <2>8, <2>11, <2>12, <2>13 DEF SealersGood, Apart, Elements
<1> QED BY <1>3, <1>4

(* A good array has the latest version of each plugin and the default first.  *)
LEMMA SealersGoodKept == SealersGood => SealersKept
<1> SUFFICES ASSUME SealersGood PROVE SealersKept
  OBVIOUS
<1>1. DOMAIN sealers.array = 1 .. Len(sealers.array)
  BY LenProperties DEF SealersGood
<1> QED BY <1>1 DEF SealersGood, SealersKept, Apart, Elements, ToSet

(* Every step on the sealing plugins keeps their array good.                  *)
LEMMA SealStepGood ==
  ASSUME SealersGood, SealStep
  PROVE  SealersGood'
BY SealerRegistered, SealerUnregistered DEF SealStep

(* The format ids: the local one, those of the host and of the application. *)
Formats == STRING \cup {"local"}

(* A node of the list of attestation plugins. *)
Node == [id : Formats, array : Nat]

(* A list in which every format has one node at most. *)
GoodList(nodes) == nodes \in Seq(Node) /\ Apart(nodes)

(* A node that refers to an element of an array refers to the one allocated   *)
(* now, and is for a format that its shutdown will unregister.                *)
PluginsGood ==
  /\ plugins \in [role : {"verifier", "attester"}, list : Seq(Node), array : Nat, ids :
        Seq(Formats), made : Nat]
  /\ Apart(plugins.list)
  /\ \A x \in Elements(plugins.list) :
       x.array # 0 => /\ x.array = plugins.array
                      /\ \E k \in 1 .. Len(plugins.ids) : plugins.ids[k] = x.id

(* oe_attest_unregister_plugin leaves no node of the format. *)
LEMMA UnregisterFacts ==
  ASSUME NEW nodes, GoodList(nodes), NEW id
  PROVE  /\ GoodList(oe_attest_unregister_plugin(nodes, id))
         /\ \A x \in Elements(oe_attest_unregister_plugin(nodes, id)) : x \in Elements(nodes) /\ x.id # id
<1> DEFINE I == {i \in 1 .. Len(nodes) : nodes[i].id = id}
<1>0. PICK r : r = oe_attest_unregister_plugin(nodes, id)
  OBVIOUS
<1>1. r = IF I # {} THEN RemoveAt(nodes, Min(I)) ELSE nodes
  BY <1>0 DEF oe_attest_unregister_plugin, RemoveFirstMatch, SelectInSeq
<1>2. PICK l \in Nat : l = Len(nodes) /\ nodes \in Seq(Node)
  BY LenProperties DEF GoodList
<1>3. CASE I = {}
  BY <1>0, <1>1, <1>3 DEF GoodList, Elements
<1>4. CASE I # {}
  <2>1. PICK i : i = Min(I)
    OBVIOUS
  <2>2. i \in I
    <3>1. I \subseteq Nat
      BY <1>2
    <3> QED BY <1>4, <2>1, <3>1, MinExists
  <2>3. i \in 1 .. l /\ nodes[i].id = id
    BY <1>2, <2>2
  <2> HIDE DEF I
  <2>4. PICK a : a = SubSeq(nodes, 1, i - 1)
    OBVIOUS
  <2>5. PICK b : b = SubSeq(nodes, i + 1, l)
    OBVIOUS
  <2>6. a \in Seq(Node) /\ Len(a) = i - 1 /\ \A j \in 1 .. i - 1 : a[j] = nodes[j]
    <3>1. \A j \in 1 .. i - 1 : nodes[j] \in Node
      BY <1>2, <2>3, ElementOfSeq
    <3>2. 1 \in Int /\ i - 1 \in Int
      BY <2>3
    <3>3. /\ a \in Seq(Node) /\ Len(a) = (IF 1 <= i - 1 THEN i - 1 - 1 + 1 ELSE 0)
          /\ \A j \in 1 .. i - 1 - 1 + 1 : a[j] = nodes[1 + j - 1]
      BY <2>4, <3>1, <3>2, SubSeqProperties
    <3> QED BY <2>3, <3>3
  <2>7. b \in Seq(Node) /\ Len(b) = l - i /\ \A j \in 1 .. l - i : b[j] = nodes[i + j]
    <3>1. \A j \in i + 1 .. l : nodes[j] \in Node
      BY <1>2, <2>3, ElementOfSeq
    <3>2. i + 1 \in Int /\ l \in Int
      BY <2>3
    <3>3. /\ b \in Seq(Node) /\ Len(b) = (IF i + 1 <= l THEN l - (i + 1) + 1 ELSE 0)
          /\ \A j \in 1 .. l - (i + 1) + 1 : b[j] = nodes[i + 1 + j - 1]
      BY <2>5, <3>1, <3>2, SubSeqProperties
    <3> QED BY <2>3, <3>3
  <2>8. r = a \o b
    BY <1>1, <1>2, <1>4, <2>1, <2>4, <2>5 DEF RemoveAt
  <2>9. /\ r \in Seq(Node) /\ Len(r) = Len(a) + Len(b)
        /\ \A j \in 1 .. Len(a) + Len(b) : r[j] = IF j <= Len(a) THEN a[j] ELSE b[j - Len(a)]
    BY <2>6, <2>7, <2>8, ConcatProperties
  <2>10. PICK c \in Nat : c = i - 1
    BY <2>3
  <2>11. Len(r) = l - 1 /\ \A j \in 1 .. l - 1 : r[j] = IF j <= c THEN a[j] ELSE b[j - c]
    BY <2>3, <2>6, <2>7, <2>9, <2>10
  <2>12. \A j \in 1 .. l - 1 : r[j] = IF j <= c THEN nodes[j] ELSE nodes[j + 1]
    <3>1. TAKE j \in 1 .. l - 1
    <3>2. CASE j <= c
      BY <2>6, <2>10, <2>11, <3>2
    <3>3. CASE ~(j <= c)
      <4>1. j - c \in 1 .. l - i /\ i + (j - c) = j + 1
        BY <2>3, <2>10, <3>3
      <4> QED BY <2>7, <2>11, <3>3, <4>1
    <3> QED BY <3>2, <3>3
  <2>13. \A j, k \in 1 .. l : nodes[j].id = nodes[k].id => j = k
    BY <1>2 DEF GoodList, Apart
  <2>14. Apart(r)
    <3>1. ASSUME NEW j \in 1 .. l - 1, NEW k \in 1 .. l - 1, r[j].id = r[k].id PROVE j = k
      <4>1. PICK j1 \in 1 .. l, k1 \in 1 .. l : /\ r[j] = nodes[j1] /\ r[k] = nodes[k1]
                                                /\ j1 = (IF j <= c THEN j ELSE j + 1)
                                                /\ k1 = (IF k <= c THEN k ELSE k + 1)
        <5>1. (IF j <= c THEN j ELSE j + 1) \in 1 .. l /\ (IF k <= c THEN k ELSE k + 1) \in 1 .. l
          BY <2>3, <2>10
        <5> QED BY <2>12, <5>1
      <4>2. j1 = k1
        BY <2>13, <3>1, <4>1
      <4> QED BY <2>10, <4>1, <4>2
    <3> QED BY <2>11, <3>1 DEF Apart
  <2>15. ASSUME NEW x \in Elements(r) PROVE x \in Elements(nodes) /\ x.id # id
    <3>1. PICK j \in 1 .. l - 1 : x = r[j]
      BY <2>11 DEF Elements
    <3>2. PICK j1 \in 1 .. l : x = nodes[j1] /\ j1 # i
      <4>1. (IF j <= c THEN j ELSE j + 1) \in 1 .. l /\ (IF j <= c THEN j ELSE j + 1) # i
        BY <2>3, <2>10
      <4> QED BY <2>12, <3>1, <4>1
    <3>3. nodes[j1].id # id
      BY <2>3, <2>13, <3>2
    <3> QED BY <1>2, <3>2, <3>3 DEF Elements
  <2> QED BY <1>0, <2>9, <2>14, <2>15 DEF GoodList
<1> QED BY <1>3, <1>4

(* A failure changes one field.                                               *)
LEMMA FailureNoted ==
  ASSUME NEW ok, NEW nodes, NEW ok2
  PROVE  [[ok |-> ok, list |-> nodes] EXCEPT !.ok = ok2] = [ok |-> ok2, list |-> nodes]
OBVIOUS

(* oe_attest_register_plugin puts a node in front, or leaves the list. *)
PutInto(nodes, node, s) ==
  \E ok \in BOOLEAN, list2 \in Seq(Node) :
    /\ s = [ok |-> ok, list |-> list2] /\ GoodList(list2)
    /\ \A x \in Elements(list2) : x \in Elements(nodes) \/ x = node

(* oe_attest_register_plugin does that, also when it fails.                   *)
LEMMA RegisterFacts ==
  ASSUME NEW ok \in BOOLEAN, NEW nodes, GoodList(nodes), NEW node \in Node, NEW possible \in BOOLEAN
  PROVE  PutInto(nodes, node, oe_attest_register_plugin([ok |-> ok, list |-> nodes], node, possible))
<1>1. PICK s : s = [ok |-> ok, list |-> nodes]
  OBVIOUS
<1>2. s.ok = ok /\ s.list = nodes
  BY <1>1
<1>3. PICK l \in Nat : l = Len(nodes) /\ nodes \in Seq(Node) /\ DOMAIN nodes = 1 .. l
  BY LenProperties DEF GoodList
<1>4. CASE ~ok \/ ~possible \/ oe_attest_find_plugin(nodes, node.id)
  <2>1. oe_attest_register_plugin(s, node, possible) = [s EXCEPT !.ok = FALSE]
    BY <1>2, <1>4 DEF oe_attest_register_plugin
  <2>2. [s EXCEPT !.ok = FALSE] = [ok |-> FALSE, list |-> nodes]
    BY <1>1, FailureNoted, Zenon
  <2>3. PutInto(nodes, node, [ok |-> FALSE, list |-> nodes])
    BY DEF PutInto, GoodList
  <2> QED BY <1>1, <2>1, <2>2, <2>3, Zenon
<1>5. CASE ~(~ok \/ ~possible \/ oe_attest_find_plugin(nodes, node.id))
  <2>1. PICK r : r = <<node>> \o nodes
    OBVIOUS
  <2>2. oe_attest_register_plugin(s, node, possible) = [s EXCEPT !.list = r]
    BY <1>2, <1>5, <2>1 DEF oe_attest_register_plugin
  <2>3. [s EXCEPT !.list = r] = [ok |-> ok, list |-> r]
    BY <1>1
  <2>4. <<node>> \in Seq(Node) /\ Len(<<node>>) = 1 /\ <<node>>[1] = node
    OBVIOUS
  <2>5. /\ r \in Seq(Node) /\ Len(r) = 1 + l
        /\ \A j \in 1 .. 1 + l : r[j] = IF j <= 1 THEN <<node>>[j] ELSE nodes[j - 1]
    BY <1>3, <2>1, <2>4, ConcatProperties
  <2>6. r[1] = node /\ \A j \in 1 .. 1 + l : j # 1 => r[j] = nodes[j - 1] /\ j - 1 \in 1 .. l
    BY <2>4, <2>5
  <2>7. \A j \in 1 .. l : nodes[j].id # node.id
    BY <1>3, <1>5 DEF oe_attest_find_plugin
  <2>8. \A j, k \in 1 .. l : nodes[j].id = nodes[k].id => j = k
    BY <1>3 DEF GoodList, Apart
  <2>9. Apart(r)
    <3>1. ASSUME NEW j \in 1 .. 1 + l, NEW k \in 1 .. 1 + l, r[j].id = r[k].id PROVE j = k
      <4>1. CASE j = 1 /\ k # 1
        BY <2>6, <2>7, <3>1, <4>1
      <4>2. CASE j # 1 /\ k = 1
        BY <2>6, <2>7, <3>1, <4>2
      <4>3. CASE j # 1 /\ k # 1
        <5>1. j - 1 = k - 1
          BY <2>6, <2>8, <3>1, <4>3
        <5> QED BY <5>1
      <4> QED BY <4>1, <4>2, <4>3
    <3> QED BY <2>5, <3>1 DEF Apart
  <2>10. ASSUME NEW x \in Elements(r) PROVE x \in Elements(nodes) \/ x = node
    <3>1. PICK j \in 1 .. 1 + l : x = r[j]
      BY <2>5 DEF Elements
    <3> QED BY <1>3, <2>6, <3>1 DEF Elements
  <2>11. GoodList(r)
    BY <2>5, <2>9 DEF GoodList
  <2>12. PutInto(nodes, node, [ok |-> ok, list |-> r])
    BY <2>10, <2>11 DEF PutInto, GoodList
  <2> QED BY <1>1, <2>2, <2>3, <2>12, Zenon
<1> QED BY <1>4, <1>5

(* What the loop of an initialization has made of the list. *)
AddedTo(old, ids, a, x) ==
  \E ok \in BOOLEAN, nodes \in Seq(Node) :
    /\ x = [ok |-> ok, list |-> nodes] /\ GoodList(nodes)
    /\ \A y \in Elements(nodes) :
         y \in Elements(old) \/ (y.array = a /\ \E k \in 1 .. Len(ids) : ids[k] = y.id)

(* The loop does that: if not, take the first turn after which it has not.    *)
LEMMA AddingLoopFacts ==
  ASSUME NEW old, GoodList(old), NEW ids \in Seq(Formats), NEW a \in Nat, NEW fails,
         NEW f, AddingLoop(old, ids, a, fails, f, Len(ids))
  PROVE  AddedTo(old, ids, a, f[Len(ids)])
<1>0. Len(ids) \in Nat
  BY LenProperties
<1> DEFINE Bad == {m \in Nat : m <= Len(ids) /\ ~AddedTo(old, ids, a, f[m])}
<1>1. SUFFICES ASSUME Bad # {} PROVE FALSE
  BY <1>0
<1>2. PICK m : m = Min(Bad)
  OBVIOUS
<1>3. m \in Bad /\ \A y \in Bad : m <= y
  BY <1>1, <1>2, MinExists
<1> HIDE DEF Bad
<1>4. m \in 0 .. Len(ids) /\ ~AddedTo(old, ids, a, f[m])
  BY <1>0, <1>3 DEF Bad
<1>5. f[m] = IF m = 0 THEN [ok |-> TRUE, list |-> old]
             ELSE AddTurn(f[m - 1], ids, a, fails, m)
  <2>1. PICK n \in Nat : n = Len(ids)
    BY <1>0
  <2>2. AddingLoop(old, ids, a, fails, f, n) /\ m \in 0 .. n
    BY <1>4, <2>1
  <2>3. AddingLoopTurn(old, ids, a, fails, f, m)
    BY <2>2, AddingLoopStep
  <2> QED BY <2>3, Zenon DEF AddingLoopTurn, AddTurn
<1>6. CASE m = 0
  BY <1>4, <1>5, <1>6 DEF AddedTo, GoodList
<1>7. CASE m # 0
  <2>1. m - 1 \in Nat /\ m - 1 <= Len(ids) /\ m \in 1 .. Len(ids) /\ ~ (m <= m - 1)
    BY <1>0, <1>4, <1>7
  <2>2. AddedTo(old, ids, a, f[m - 1])
    BY <1>3, <2>1 DEF Bad
  <2>3. PICK ok \in BOOLEAN, nodes \in Seq(Node) :
           /\ f[m - 1] = [ok |-> ok, list |-> nodes] /\ GoodList(nodes)
           /\ \A y \in Elements(nodes) :
                y \in Elements(old) \/ (y.array = a /\ \E k \in 1 .. Len(ids) : ids[k] = y.id)
    BY <2>2 DEF AddedTo
  <2>4. ids[m] \in Formats
    BY <2>1, ElementOfSeq
  <2>5. PICK node \in Node : node = [id |-> ids[m], array |-> a]
    BY <2>4 DEF Node
  <2>6. PICK possible \in BOOLEAN : possible = (m # fails)
    OBVIOUS
  <2>7. PICK ok2 \in BOOLEAN, list2 \in Seq(Node) :
           /\ oe_attest_register_plugin([ok |-> ok, list |-> nodes], node, possible)
                 = [ok |-> ok2, list |-> list2]
           /\ GoodList(list2)
           /\ \A x \in Elements(list2) : x \in Elements(nodes) \/ x = node
    <3>1. PutInto(nodes, node, oe_attest_register_plugin([ok |-> ok, list |-> nodes], node, possible))
      BY <2>3, RegisterFacts
    <3> QED BY <3>1, Zenon DEF PutInto
  <2>8. f[m] = [ok |-> ok2, list |-> list2]
    BY <1>5, <1>7, <2>3, <2>5, <2>6, <2>7, Zenon DEF AddTurn
  <2>9. node.array = a /\ node.id = ids[m]
    BY <2>5
  <2>10. \A y \in Elements(list2) :
           y \in Elements(old) \/ (y.array = a /\ \E k \in 1 .. Len(ids) : ids[k] = y.id)
    BY <2>1, <2>3, <2>7, <2>9
  <2> QED BY <1>4, <2>7, <2>8, <2>10 DEF AddedTo
<1> QED BY <1>6, <1>7

(* What the loop of a shutdown has left of the list after n turns. *)
LeftOf(old, ids, n, nodes) ==
  /\ GoodList(nodes) /\ Elements(nodes) \subseteq Elements(old)
  /\ \A y \in Elements(nodes), k \in 1 .. n : y.id # ids[k]

(* The loop does that: if not, take the first turn after which it has not.    *)
LEMMA DroppingLoopFacts ==
  ASSUME NEW old, GoodList(old), NEW ids \in Seq(Formats), NEW f, DroppingLoop(old, ids, f, Len(ids))
  PROVE  LeftOf(old, ids, Len(ids), f[Len(ids)])
<1>0. Len(ids) \in Nat
  BY LenProperties
<1> DEFINE Bad == {m \in Nat : m <= Len(ids) /\ ~LeftOf(old, ids, m, f[m])}
<1>1. SUFFICES ASSUME Bad # {} PROVE FALSE
  BY <1>0
<1>2. PICK m : m = Min(Bad)
  OBVIOUS
<1>3. m \in Bad /\ \A y \in Bad : m <= y
  BY <1>1, <1>2, MinExists
<1> HIDE DEF Bad
<1>4. m \in 0 .. Len(ids) /\ ~LeftOf(old, ids, m, f[m])
  BY <1>0, <1>3 DEF Bad
<1>5. f[m] = IF m = 0 THEN old ELSE oe_attest_unregister_plugin(f[m - 1], ids[m])
  <2>1. PICK n \in Nat : n = Len(ids)
    BY <1>0
  <2>2. DroppingLoop(old, ids, f, n) /\ m \in 0 .. n
    BY <1>4, <2>1
  <2>3. DroppingLoopTurn(old, ids, f, m)
    BY <2>2, DroppingLoopStep
  <2> QED BY <2>3, Zenon DEF DroppingLoopTurn
<1>6. CASE m = 0
  BY <1>4, <1>5, <1>6 DEF LeftOf
<1>7. CASE m # 0
  <2>1. m - 1 \in Nat /\ m - 1 <= Len(ids) /\ m \in 1 .. Len(ids) /\ ~ (m <= m - 1)
    BY <1>0, <1>4, <1>7
  <2>2. LeftOf(old, ids, m - 1, f[m - 1])
    BY <1>3, <2>1 DEF Bad
  <2>3. /\ GoodList(f[m]) /\ \A x \in Elements(f[m]) : x \in Elements(f[m - 1]) /\ x.id # ids[m]
    <3>1. f[m] = oe_attest_unregister_plugin(f[m - 1], ids[m]) /\ GoodList(f[m - 1])
      BY <1>5, <1>7, <2>2 DEF LeftOf
    <3>2. PICK g, id : g = f[m - 1] /\ id = ids[m]
      OBVIOUS
    <3>3. /\ GoodList(oe_attest_unregister_plugin(g, id))
          /\ \A x \in Elements(oe_attest_unregister_plugin(g, id)) : x \in Elements(g) /\ x.id # id
      BY <3>1, <3>2, UnregisterFacts
    <3> QED BY <3>1, <3>2, <3>3
  <2>4. \A k \in 1 .. m : k = m \/ k \in 1 .. m - 1
    BY <2>1
  <2>5. LeftOf(old, ids, m, f[m])
    BY <2>2, <2>3, <2>4 DEF LeftOf
  <2> QED BY <1>4, <2>5
<1> QED BY <1>6, <1>7

(* The fields of the registry. *)
PluginFields(role, nodes, array, ids, made) ==
  /\ plugins = [role |-> role, list |-> nodes, array |-> array, ids |-> ids, made |-> made]
  /\ role \in {"verifier",
        "attester"} /\ nodes \in Seq(Node) /\ array \in Nat /\ ids \in Seq(Formats) /\ made \in Nat
  /\ Apart(nodes)
  /\ \A x \in Elements(nodes) : x.array # 0 => x.array = array /\ \E k \in 1 .. Len(ids) : ids[k] = x.id

(* The registry is good when its fields are.                                  *)
LEMMA PluginsGoodFields == PluginsGood <=> \E role, nodes, array, ids, made :
      PluginFields(role, nodes, array, ids, made)
<1>1. ASSUME PluginsGood PROVE \E role, nodes, array, ids, made : PluginFields(role, nodes, array, ids, made)
  <2>1. PICK role \in {"verifier", "attester"}, nodes \in Seq(Node), array \in Nat, ids \in Seq(Formats),
        made \in Nat :
          plugins = [role |-> role, list |-> nodes, array |-> array, ids |-> ids, made |-> made]
    BY <1>1 DEF PluginsGood
  <2>2. plugins.list = nodes /\ plugins.array = array /\ plugins.ids = ids
    BY <2>1
  <2>3. /\ Apart(nodes)
        /\ \A x \in Elements(nodes) : x.array # 0 => x.array = array /\ \E k \in 1 .. Len(ids) :
              ids[k] = x.id
    BY <1>1, <2>2 DEF PluginsGood
  <2>4. PluginFields(role, nodes, array, ids, made)
    BY <2>1, <2>3 DEF PluginFields
  <2> QED BY <2>4
<1>2. ASSUME NEW role, NEW nodes, NEW array, NEW ids, NEW made, PluginFields(role, nodes, array, ids, made)
      PROVE  PluginsGood
  <2>1. plugins.list = nodes /\ plugins.array = array /\ plugins.ids = ids
    BY <1>2 DEF PluginFields
  <2>2. plugins \in [role : {"verifier", "attester"}, list : Seq(Node), array : Nat, ids :
        Seq(Formats), made : Nat]
    BY <1>2 DEF PluginFields
  <2> QED BY <1>2, <2>1, <2>2 DEF PluginFields, PluginsGood
<1> QED BY <1>1, <1>2

(* A next state given by its fields. *)
LEMMA PluginsNext ==
  ASSUME NEW role \in {"verifier", "attester"}, NEW nodes, GoodList(nodes), NEW array \in Nat,
        NEW ids \in Seq(Formats), NEW made \in Nat,
         \A x \in Elements(nodes) : x.array # 0 => x.array = array /\ \E k \in 1 .. Len(ids) : ids[k] = x.id,
         plugins' = [role |-> role, list |-> nodes, array |-> array, ids |-> ids, made |-> made]
  PROVE  PluginsGood'
<1>1. plugins'.list = nodes /\ plugins'.array = array /\ plugins'.ids = ids
  OBVIOUS
<1>2. plugins' \in [role : {"verifier", "attester"}, list : Seq(Node), array : Nat, ids :
      Seq(Formats), made : Nat]
  BY DEF GoodList
<1>3. Apart(plugins'.list)
  BY <1>1 DEF GoodList
<1>4. \A x \in Elements(plugins'.list) :
        x.array # 0 => x.array = plugins'.array /\ \E k \in 1 .. Len(plugins'.ids) : plugins'.ids[k] = x.id
  BY <1>1
<1> QED BY <1>2, <1>3, <1>4 DEF PluginsGood, Apart, Elements

(* The registry is good when it is empty.                                     *)
LEMMA PluginsStart == PluginsInit({"verifier", "attester"}) => PluginsGood
<1> SUFFICES ASSUME NEW r \in {"verifier", "attester"}, plugins = NoPlugins(r) PROVE PluginsGood
  BY DEF PluginsInit
<1>1. <<>> \in Seq(Node) /\ <<>> \in Seq(Formats) /\ Len(<<>>) = 0
  BY EmptySeq
<1>2. Apart(<<>>) /\ Elements(<<>>) = {}
  BY <1>1 DEF Apart, Elements
<1>3. r \in {"verifier", "attester"} /\ plugins
      = [role |-> r, list |-> <<>>, array |-> 0, ids |-> <<>>, made |-> 0]
  BY DEF NoPlugins
<1>4. PluginFields(r, <<>>, 0, <<>>, 0)
  BY <1>1, <1>2, <1>3 DEF PluginFields
<1> QED BY <1>4, PluginsGoodFields

(* oe_verifier_initialize and oe_attester_initialize keep it good, whichever  *)
(* registration fails.                                                        *)
LEMMA InitializedGood ==
  ASSUME PluginsGood, plugins.array = 0, NEW new \in Seq(Formats), NEW fails, Initialized(new, fails)
  PROVE  PluginsGood'
<1>1. PICK role, nodes, array, ids, made : PluginFields(role, nodes, array, ids, made)
  BY PluginsGoodFields
<1>2. /\ plugins = [role |-> role, list |-> nodes, array |-> array, ids |-> ids, made |-> made]
      /\ plugins.list = nodes /\ plugins.made = made /\ array = 0
      /\ role \in {"verifier", "attester"} /\ made \in Nat /\ GoodList(nodes)
  BY <1>1 DEF PluginFields, GoodList
<1>3. \A x \in Elements(nodes) : x.array = 0
  BY <1>1, <1>2 DEF PluginFields
<1>4. PICK f : f = CHOOSE g : AddingLoop(plugins.list, new, plugins.made + 1, fails, g, Len(new))
  OBVIOUS
<1>5. plugins' = [plugins EXCEPT !.list = f[Len(new)].list, !.array = plugins.made + 1, !.ids = new,
                                 !.made = plugins.made + 1]
  BY <1>4, Zenon DEF Initialized, AddingLoop, AddTurn
<1>6. PICK a \in Nat : a = plugins.made + 1
  BY <1>2
<1>7. PICK n \in Nat : n = Len(new)
  BY LenProperties
<1>8. AddingLoop(nodes, new, a, fails, f, Len(new))
  <2>1. \E g : AddingLoop(nodes, new, a, fails, g, n)
    BY AddingLoopExist
  <2> QED BY <1>2, <1>4, <1>6, <1>7, <2>1, Zenon
<1>9. AddedTo(nodes, new, a, f[Len(new)])
  BY <1>2, <1>8, AddingLoopFacts
<1>10. PICK ok \in BOOLEAN, list2 \in Seq(Node) :
        /\ f[Len(new)] = [ok |-> ok, list |-> list2] /\ GoodList(list2)
        /\ \A y \in Elements(list2) :
             y \in Elements(nodes) \/ (y.array = a /\ \E k \in 1 .. Len(new) : new[k] = y.id)
  BY <1>9, Zenon DEF AddedTo
<1>11. f[Len(new)].list = list2
  BY <1>10
<1>12. plugins' = [plugins EXCEPT !.list = list2, !.array = a, !.ids = new, !.made = a]
  BY <1>5, <1>6, <1>11, Zenon
<1>13. plugins' = [role |-> role, list |-> list2, array |-> a, ids |-> new, made |-> a]
  BY <1>2, <1>12
<1>14. \A x \in Elements(list2) : x.array # 0 => x.array = a /\ \E k \in 1 .. Len(new) : new[k] = x.id
  BY <1>3, <1>10
<1> QED BY <1>2, <1>10, <1>13, <1>14, PluginsNext

(* A shutdown takes away every plugin of its array: what is left is the       *)
(* user's.                                                                    *)
LEMMA ShutdownGood ==
  ASSUME PluginsGood, Shutdown
  PROVE  PluginsGood'
<1>1. PICK role, nodes, array, ids, made : PluginFields(role, nodes, array, ids, made)
  BY PluginsGoodFields
<1>2. /\ plugins = [role |-> role, list |-> nodes, array |-> array, ids |-> ids, made |-> made]
      /\ plugins.list = nodes /\ plugins.ids = ids
      /\ role \in {"verifier", "attester"} /\ made \in Nat /\ ids \in Seq(Formats) /\ GoodList(nodes)
  BY <1>1 DEF PluginFields, GoodList
<1>3. \A x \in Elements(nodes) : x.array # 0 => \E k \in 1 .. Len(ids) : ids[k] = x.id
  BY <1>1 DEF PluginFields
<1>4. PICK f : f = CHOOSE g : DroppingLoop(plugins.list, plugins.ids, g, Len(plugins.ids))
  OBVIOUS
<1>5. plugins' = [plugins EXCEPT !.list = f[Len(plugins.ids)], !.array = 0, !.ids = <<>>]
  BY <1>4, Zenon DEF Shutdown, DroppingLoop
<1>6. PICK n \in Nat : n = Len(ids)
  BY <1>2, LenProperties
<1>7. DroppingLoop(nodes, ids, f, Len(ids))
  <2>1. \E g : DroppingLoop(nodes, ids, g, n)
    BY DroppingLoopExist
  <2> QED BY <1>2, <1>4, <1>6, <2>1, Zenon
<1>8. PICK left : left = f[Len(ids)]
  OBVIOUS
<1>9. LeftOf(nodes, ids, Len(ids), left)
  BY <1>2, <1>7, <1>8, DroppingLoopFacts
<1>10. GoodList(left) /\ \A x \in Elements(left) : x.array = 0
  BY <1>3, <1>9 DEF LeftOf
<1>11. plugins' = [plugins EXCEPT !.list = left, !.array = 0, !.ids = <<>>]
  BY <1>2, <1>5, <1>8, Zenon
<1>12. plugins' = [role |-> role, list |-> left, array |-> 0, ids |-> <<>>, made |-> made]
  BY <1>2, <1>11
<1>13. <<>> \in Seq(Formats)
  BY EmptySeq
<1> QED BY <1>2, <1>10, <1>12, <1>13, PluginsNext

(* A registration by the user.                                                *)
LEMMA RegisterGood ==
  ASSUME PluginsGood, NEW id \in Formats, Register(id)
  PROVE  PluginsGood'
<1>1. PICK role, nodes, array, ids, made : PluginFields(role, nodes, array, ids, made)
  BY PluginsGoodFields
<1>2. /\ plugins = [role |-> role, list |-> nodes, array |-> array, ids |-> ids, made |-> made]
      /\ plugins.list = nodes
      /\ role \in {"verifier",
            "attester"} /\ array \in Nat /\ made \in Nat /\ ids \in Seq(Formats) /\ GoodList(nodes)
      /\ \A x \in Elements(nodes) : x.array # 0 => x.array = array /\ \E k \in 1 .. Len(ids) : ids[k] = x.id
  BY <1>1 DEF PluginFields, GoodList
<1>3. PICK node \in Node : node = [id |-> id, array |-> 0]
  BY DEF Node
<1>4. PICK possible \in BOOLEAN :
        plugins' = [plugins EXCEPT !.list =
          oe_attest_register_plugin([ok |-> TRUE, list |-> plugins.list], [id |-> id, array |-> 0],
                possible).list]
  BY DEF Register
<1>5. PICK s : s = oe_attest_register_plugin([ok |-> TRUE, list |-> nodes], node, possible)
  OBVIOUS
<1>6. PutInto(nodes, node, s)
  BY <1>2, <1>5, RegisterFacts
<1>7. PICK ok \in BOOLEAN, list2 \in Seq(Node) :
        /\ s = [ok |-> ok, list |-> list2] /\ GoodList(list2)
        /\ \A x \in Elements(list2) : x \in Elements(nodes) \/ x = node
  BY <1>6, Zenon DEF PutInto
<1>8. plugins' = [plugins EXCEPT !.list = s.list]
  BY <1>2, <1>3, <1>4, <1>5, Zenon
<1>9. s.list = list2 /\ node.array = 0
  BY <1>3, <1>7
<1>10. plugins' = [plugins EXCEPT !.list = list2]
  BY <1>8, <1>9, Zenon
<1>11. plugins' = [role |-> role, list |-> list2, array |-> array, ids |-> ids, made |-> made]
  BY <1>2, <1>10
<1>12. \A x \in Elements(list2) : x.array # 0 => x.array = array /\ \E k \in 1 .. Len(ids) : ids[k] = x.id
  BY <1>2, <1>7, <1>9
<1> QED BY <1>2, <1>7, <1>11, <1>12, PluginsNext

(* Its removal.                                                               *)
LEMMA UnregisterGood ==
  ASSUME PluginsGood, NEW id \in Formats, Unregister(id)
  PROVE  PluginsGood'
<1>1. PICK role, nodes, array, ids, made : PluginFields(role, nodes, array, ids, made)
  BY PluginsGoodFields
<1>2. /\ plugins = [role |-> role, list |-> nodes, array |-> array, ids |-> ids, made |-> made]
      /\ plugins.list = nodes
      /\ role \in {"verifier",
            "attester"} /\ array \in Nat /\ made \in Nat /\ ids \in Seq(Formats) /\ GoodList(nodes)
      /\ \A x \in Elements(nodes) : x.array # 0 => x.array = array /\ \E k \in 1 .. Len(ids) : ids[k] = x.id
  BY <1>1 DEF PluginFields, GoodList
<1>3. PICK r : r = oe_attest_unregister_plugin(nodes, id)
  OBVIOUS
<1>4. GoodList(r) /\ \A x \in Elements(r) : x \in Elements(nodes)
  BY <1>2, <1>3, UnregisterFacts
<1>5. plugins' = [plugins EXCEPT !.list = oe_attest_unregister_plugin(@, id)]
  BY DEF Unregister
<1>6. plugins' = [plugins EXCEPT !.list = r]
  BY <1>2, <1>3, <1>5, Zenon
<1>7. plugins' = [role |-> role, list |-> r, array |-> array, ids |-> ids, made |-> made]
  BY <1>2, <1>6
<1>8. \A x \in Elements(r) : x.array # 0 => x.array = array /\ \E k \in 1 .. Len(ids) : ids[k] = x.id
  BY <1>2, <1>4
<1> QED BY <1>2, <1>4, <1>7, <1>8, PluginsNext

(* Every step on the attestation plugins keeps the registry good.             *)
LEMMA PluginStepGood ==
  ASSUME PluginsGood, PluginStep
  PROVE  PluginsGood'
<1>0. STRING \subseteq Formats
  BY DEF Formats
<1>1. VerifierIds \in Seq(Formats) /\ UserIds \subseteq Formats
  BY <1>0, EvidenceAssumption, SeqMonotonic
<1>2. CASE oe_verifier_initialize
  BY <1>1, <1>2, InitializedGood DEF oe_verifier_initialize
<1>3. CASE oe_attester_initialize
  <2>1. PICK host \in HostFormats : \E fails \in 0 .. Len(host) + 1 :
        Initialized(<<"local">> \o host, fails)
    BY <1>3 DEF oe_attester_initialize
  <2>2. <<"local">> \in Seq(Formats) /\ host \in Seq(Formats)
    <3>1. "local" \in Formats
      BY DEF Formats
    <3>2. <<"local">> \in Seq(Formats)
      BY <3>1
    <3>3. HostFormats \subseteq Seq(STRING)
      BY EvidenceAssumption
    <3> QED BY <1>0, <3>2, <3>3, SeqMonotonic
  <2>3. <<"local">> \o host \in Seq(Formats)
    BY <2>2, ConcatProperties
  <2> QED BY <1>3, <2>1, <2>3, InitializedGood DEF oe_attester_initialize
<1>4. CASE oe_verifier_shutdown \/ oe_attester_shutdown
  BY <1>4, ShutdownGood DEF oe_verifier_shutdown, oe_attester_shutdown
<1>5. CASE \E id \in UserIds : Register(id) \/ Unregister(id)
  BY <1>1, <1>5, RegisterGood, UnregisterGood
<1> QED BY <1>2, <1>3, <1>4, <1>5 DEF PluginStep

(* A good registry leads to live plugins, one for a format.                   *)
LEMMA PluginsGoodLive == PluginsGood => PluginsLive
<1> SUFFICES ASSUME PluginsGood PROVE PluginsLive
  OBVIOUS
<1>1. DOMAIN plugins.list = 1 .. Len(plugins.list)
  BY LenProperties DEF PluginsGood
<1> QED BY <1>1 DEF PluginsGood, PluginsLive, Apart, Elements

(* A table of names, each once.                                               *)
Distinct(names) ==
  names \in Seq(STRING) /\ \A i, j \in 1 .. Len(names) : names[i] = names[j] => i = j

(* A table that grew: the names keep their ids.                               *)
GrewTo(old, names) ==
  Len(old) <= Len(names) /\ \A i \in 1 .. Len(old) : names[i] = old[i]

(* An enclave's table from global ids to its own numbers.                     *)
GoodTable(names, interface, table) ==
  \E n \in Nat \ {0} :
    /\ n <= Len(names) /\ DOMAIN table = 1 .. n
    /\ \A g \in 1 .. n :
         table[g] = IF names[g] \in Elements(interface) THEN IndexIn(interface, names[g]) ELSE NullId
    /\ \A x \in Elements(interface) : \E g \in 1 .. n : names[g] = x

(* What a lookup of the stub's name in the enclave must yield.                *)
NumberOf(e, s) ==
  IF idTable[e] # <<>> /\ Stubs[s] \in Elements(Interfaces[e])
  THEN IndexIn(Interfaces[e], Stubs[s]) ELSE NullId

AskGood(c) ==
  \/ ask[c].pc = "idle"
  \/ \E e \in created, s \in DOMAIN Stubs :
       \/ ask[c] = [pc |-> "assign", e |-> e, s |-> s]
       \/ ask[c] = [pc |-> "look", e |-> e, s |-> s] /\ globalId[s] # NullId
       \/ ask[c] = [pc |-> "found", e |-> e, s |-> s, id |-> NumberOf(e, s)]

TablesGood ==
  /\ created \subseteq DOMAIN Interfaces
  /\ idTable = [e \in DOMAIN Interfaces |-> idTable[e]]
  /\ \A e \in DOMAIN Interfaces :
       idTable[e] = <<>> \/ (e \in created /\ GoodTable(_ecall_table, Interfaces[e], idTable[e]))

StubsGood ==
  /\ globalId \in [DOMAIN Stubs -> Nat]
  /\ \A s \in DOMAIN Stubs :
       globalId[s] # NullId => globalId[s] \in 1 .. Len(_ecall_table) /\ _ecall_table[globalId[s]]
             = Stubs[s]

(* The ids of ecalls.                                                         *)
IdsGood ==
  /\ Distinct(_ecall_table) /\ capacity \in Nat
  /\ TablesGood
  /\ StubsGood
  /\ ask = [c \in Callers |-> ask[c]] /\ \A c \in Callers : AskGood(c)

(* The two ways to say what is in a sequence.                                 *)
LEMMA ToSetElements ==
  ASSUME NEW S, NEW s \in Seq(S)
  PROVE  ToSet(s) = Elements(s)
<1>1. DOMAIN s = 1 .. Len(s)
  BY LenProperties
<1> QED BY <1>1, Zenon DEF ToSet, Elements

(* The place of a name that is in the table.                                  *)
LEMMA IndexInFacts ==
  ASSUME NEW S, NEW s \in Seq(S), NEW x \in Elements(s)
  PROVE  IndexIn(s, x) \in 1 .. Len(s) /\ s[IndexIn(s, x)] = x
<1>1. DOMAIN s = 1 .. Len(s)
  BY LenProperties
<1>2. PICK i \in 1 .. Len(s) : s[i] = x
  BY DEF Elements
<1>3. \E j \in DOMAIN s : s[j] = x
  BY <1>1, <1>2
<1> QED BY <1>1, <1>3, Zenon DEF IndexIn

(* What _get_global_id does to a table.                                       *)
NamedIn(names, name, ok, r) ==
  \E names2 \in Seq(STRING), cap2 \in Nat, ok2 \in BOOLEAN :
    /\ r = [names |-> names2, cap |-> cap2, ok |-> ok2]
    /\ Distinct(names2) /\ GrewTo(names, names2)
    /\ ok2 => ok /\ name \in Elements(names2)

(* A sequence of l elements and one more.                                     *)
OneMore(S, s, x, l, r) ==
  /\ r \in Seq(S) /\ Len(r) = l + 1 /\ r[l + 1] = x
  /\ \A i \in 1 .. l : r[i] = s[i]

(* Append makes that.                                                         *)
LEMMA Appended ==
  ASSUME NEW S, NEW s \in Seq(S), NEW x \in S
  PROVE  OneMore(S, s, x, Len(s), Append(s, x))
BY AppendProperties DEF OneMore

(* _get_global_id does that, also when there is no memory.                    *)
LEMMA GetGlobalIdFacts ==
  ASSUME NEW names, Distinct(names), NEW cap \in Nat, NEW ok \in BOOLEAN,
         NEW name \in STRING, NEW grows \in BOOLEAN
  PROVE  NamedIn(names, name, ok, _get_global_id([names |-> names, cap |-> cap, ok |-> ok], name, grows))
<1>1. PICK r : r = _get_global_id([names |-> names, cap |-> cap, ok |-> ok], name, grows)
  OBVIOUS
<1>2. names \in Seq(STRING) /\ ToSet(names) = Elements(names)
  BY ToSetElements DEF Distinct
<1>3. PICK l \in Nat : l = Len(names)
  BY <1>2, LenProperties
<1>4. PICK more : more = Append(names, name)
  OBVIOUS
<1>5. /\ more \in Seq(STRING) /\ Len(more) = l + 1 /\ more[l + 1] = name
      /\ \A i \in 1 .. l : more[i] = names[i]
  <2>1. OneMore(STRING, names, name, Len(names), Append(names, name))
    BY <1>2, Appended, Zenon
  <2>2. OneMore(STRING, names, name, l, more)
    BY <1>3, <1>4, <2>1, Zenon
  <2> QED BY <2>2, Zenon DEF OneMore
<1>6. GrewTo(names, names)
  BY <1>3 DEF GrewTo
<1>7. CASE ~ok \/ name \in Elements(names)
  <2>1. r = [names |-> names, cap |-> cap, ok |-> ok]
    BY <1>1, <1>2, <1>7 DEF _get_global_id
  <2> QED BY <1>1, <1>2, <1>6, <1>7, <2>1 DEF NamedIn
<1>8. CASE ok /\ name \notin Elements(names)
  <2>1. PICK cap3 : cap3 = IF cap = 0 THEN InitialCapacity ELSE 2 * cap
    OBVIOUS
  <2>2. cap3 \in Nat
    BY <2>1, EcallIdsAssumption
  <2>3. \/ r = [names |-> more, cap |-> cap, ok |-> ok]
        \/ r = [names |-> more, cap |-> cap3, ok |-> ok]
        \/ r = [names |-> names, cap |-> cap, ok |-> FALSE]
    BY <1>1, <1>2, <1>4, <1>8, <2>1 DEF _get_global_id
  <2>4. CASE r = [names |-> names, cap |-> cap, ok |-> FALSE]
    BY <1>1, <1>2, <1>6, <2>4 DEF NamedIn
  <2>5. Distinct(more)
    <3>1. \A i \in 1 .. l : names[i] # name
      BY <1>3, <1>8 DEF Elements
    <3>2. ASSUME NEW i \in 1 .. l + 1, NEW j \in 1 .. l + 1, more[i] = more[j]
          PROVE  i = j
      <4>1. (i = l + 1 \/ i \in 1 .. l) /\ (j = l + 1 \/ j \in 1 .. l)
        OBVIOUS
      <4>2. \A p, q \in 1 .. l : names[p] = names[q] => p = q
        BY <1>3 DEF Distinct
      <4> QED BY <1>5, <3>1, <3>2, <4>1, <4>2
    <3> QED BY <1>5, <3>2 DEF Distinct
  <2>6. GrewTo(names, more)
    BY <1>3, <1>5 DEF GrewTo
  <2>7. name \in Elements(more)
    <3>1. l + 1 \in 1 .. l + 1
      OBVIOUS
    <3> QED BY <1>5, <3>1 DEF Elements
  <2> QED BY <1>1, <1>5, <1>8, <2>2, <2>3, <2>4, <2>5, <2>6, <2>7 DEF NamedIn
<1> QED BY <1>7, <1>8

(* Growth composes, and loses no name.                                        *)
LEMMA GrewOn ==
  ASSUME NEW a \in Seq(STRING), NEW b \in Seq(STRING), NEW c \in Seq(STRING), GrewTo(a, b), GrewTo(b, c)
  PROVE  GrewTo(a, c) /\ Elements(b) \subseteq Elements(c)
<1>1. PICK l \in Nat : l = Len(a)
  BY LenProperties
<1>2. PICK m \in Nat : m = Len(b)
  BY LenProperties
<1>3. PICK n \in Nat : n = Len(c)
  BY LenProperties
<1>4. l <= m /\ m <= n /\ (\A i \in 1 .. l : b[i] = a[i]) /\ (\A i \in 1 .. m : c[i] = b[i])
  BY <1>1, <1>2, <1>3 DEF GrewTo
<1>5. \A i \in 1 .. l : i \in 1 .. m
  BY <1>4
<1>6. \A i \in 1 .. m : i \in 1 .. n
  BY <1>4
<1>7. l <= n
  BY <1>4
<1>8. GrewTo(a, c)
  BY <1>1, <1>3, <1>4, <1>5, <1>7 DEF GrewTo
<1> QED BY <1>2, <1>3, <1>4, <1>6, <1>8 DEF Elements

(* The table after the names of an interface up to the k-th.                  *)
NamedUpTo(old, interface, k, x) ==
  \E names \in Seq(STRING), cap \in Nat, ok \in BOOLEAN :
    /\ x = [names |-> names, cap |-> cap, ok |-> ok]
    /\ Distinct(names) /\ GrewTo(old, names)
    /\ ok => \A i \in 1 .. k : interface[i] \in Elements(names)

(* The loop does that: if not, take the first turn after which it has not.    *)
LEMMA NamingLoopFacts ==
  ASSUME NEW old, Distinct(old), NEW cap0 \in Nat, NEW interface \in Seq(STRING), NEW fails,
         NEW f, NamingLoop([names |-> old, cap |-> cap0, ok |-> TRUE], interface, fails, f, Len(interface))
  PROVE  NamedUpTo(old, interface, Len(interface), f[Len(interface)])
<1>0. Len(interface) \in Nat
  BY LenProperties
<1> DEFINE Bad == {m \in Nat : m <= Len(interface) /\ ~NamedUpTo(old, interface, m, f[m])}
<1>1. SUFFICES ASSUME Bad # {} PROVE FALSE
  BY <1>0
<1>2. PICK m : m = Min(Bad)
  OBVIOUS
<1>3. m \in Bad /\ \A y \in Bad : m <= y
  BY <1>1, <1>2, MinExists
<1> HIDE DEF Bad
<1>4. m \in 0 .. Len(interface) /\ ~NamedUpTo(old, interface, m, f[m])
  BY <1>0, <1>3 DEF Bad
<1>5. f[m] = IF m = 0 THEN [names |-> old, cap |-> cap0, ok |-> TRUE]
             ELSE _get_global_id(f[m - 1], interface[m], m # fails)
  <2>1. PICK n \in Nat : n = Len(interface)
    BY <1>0
  <2>2. NamingLoop([names |-> old, cap |-> cap0, ok |-> TRUE], interface, fails, f, n) /\ m \in 0 .. n
    BY <1>4, <2>1
  <2>3. NamingLoopTurn([names |-> old, cap |-> cap0, ok |-> TRUE], interface, fails, f, m)
    BY <2>2, NamingLoopStep
  <2> QED BY <2>3, Zenon DEF NamingLoopTurn
<1>6. CASE m = 0
  <2>1. Len(old) \in Nat
    BY LenProperties DEF Distinct
  <2>2. GrewTo(old, old)
    BY <2>1 DEF GrewTo
  <2>3. \A i \in 1 .. m : FALSE
    BY <1>6
  <2> QED BY <1>4, <1>5, <1>6, <2>2, <2>3 DEF NamedUpTo, Distinct
<1>7. CASE m # 0
  <2>1. m - 1 \in Nat /\ m - 1 <= Len(interface) /\ m \in 1 .. Len(interface) /\ ~ (m <= m - 1)
    BY <1>0, <1>4, <1>7
  <2>2. NamedUpTo(old, interface, m - 1, f[m - 1])
    BY <1>3, <2>1 DEF Bad
  <2>3. PICK names \in Seq(STRING), cap \in Nat, ok \in BOOLEAN :
           /\ f[m - 1] = [names |-> names, cap |-> cap, ok |-> ok]
           /\ Distinct(names) /\ GrewTo(old, names)
           /\ ok => \A i \in 1 .. m - 1 : interface[i] \in Elements(names)
    BY <2>2 DEF NamedUpTo
  <2>4. interface[m] \in STRING
    BY <2>1, ElementOfSeq
  <2>5. PICK grows \in BOOLEAN : grows = (m # fails)
    OBVIOUS
  <2>6. NamedIn(names, interface[m], ok, _get_global_id([names |-> names, cap |-> cap, ok |-> ok],
        interface[m], grows))
    BY <2>3, <2>4, GetGlobalIdFacts
  <2>7. PICK names2 \in Seq(STRING), cap2 \in Nat, ok2 \in BOOLEAN :
          /\ _get_global_id([names |-> names, cap |-> cap, ok |-> ok], interface[m], grows)
               = [names |-> names2, cap |-> cap2, ok |-> ok2]
          /\ Distinct(names2) /\ GrewTo(names, names2)
          /\ ok2 => ok /\ interface[m] \in Elements(names2)
    BY <2>6, Zenon DEF NamedIn
  <2>8. f[m] = [names |-> names2, cap |-> cap2, ok |-> ok2]
    BY <1>5, <1>7, <2>3, <2>5, <2>7, Zenon
  <2>9. GrewTo(old, names2) /\ Elements(names) \subseteq Elements(names2)
    BY <2>3, <2>7, GrewOn DEF Distinct
  <2>10. \A i \in 1 .. m : i = m \/ i \in 1 .. m - 1
    BY <2>1
  <2>11. ok2 => \A i \in 1 .. m : interface[i] \in Elements(names2)
    BY <2>3, <2>7, <2>9, <2>10
  <2> QED BY <1>4, <2>7, <2>8, <2>9, <2>11 DEF NamedUpTo
<1> QED BY <1>6, <1>7

(* A set of numbers up to a bound has a greatest one.                         *)
LEMMA MaxExists ==
  ASSUME NEW l \in Nat, NEW S, S \subseteq 1 .. l, S # {}
  PROVE  \E x \in S : \A y \in S : y <= x
<1> DEFINE D == {l - x : x \in S}
<1>1. D \subseteq Nat /\ D # {}
  <2>1. PICK z \in S : TRUE
    OBVIOUS
  <2>2. l - z \in D
    OBVIOUS
  <2>3. \A x \in S : l - x \in Nat
    OBVIOUS
  <2> QED BY <2>2, <2>3
<1>2. Min(D) \in D /\ \A y \in D : Min(D) <= y
  BY <1>1, MinExists
<1>3. PICK x \in S : Min(D) = l - x
  BY <1>2
<1>4. ASSUME NEW y \in S PROVE y <= x
  <2>1. l - y \in D /\ x \in 1 .. l /\ y \in 1 .. l
    OBVIOUS
  <2>2. l - x <= l - y
    BY <1>2, <1>3, <2>1
  <2> QED BY <2>1, <2>2
<1> QED BY <1>4

(* The second and third loop of oe_register_ecalls make a table that leads    *)
(* from each global id to the enclave's number for the name.                  *)
LEMMA TableOfGood ==
  ASSUME NEW names, Distinct(names), NEW interface \in Seq(STRING), interface # <<>>,
         \A i \in 1 .. Len(interface) : interface[i] \in Elements(names)
  PROVE  GoodTable(names, interface, TableOf(names, interface))
<1>1. PICK l \in Nat : l = Len(names)
  BY LenProperties DEF Distinct
<1>2. PICK k \in Nat : k = Len(interface)
  BY LenProperties
<1>3. k # 0 /\ DOMAIN interface = 1 .. k
  BY <1>2, LenProperties, EmptySeq
<1>4. PICK ids : ids = {IndexIn(names, interface[i]) : i \in DOMAIN interface}
  OBVIOUS
<1>5. \A i \in 1 .. k :
      IndexIn(names, interface[i]) \in 1 .. l /\ names[IndexIn(names, interface[i])] = interface[i]
  BY <1>1, <1>2, IndexInFacts DEF Distinct
<1>6. ids \subseteq 1 .. l /\ IndexIn(names, interface[1]) \in ids
  BY <1>3, <1>4, <1>5
<1>7. PICK size : size = CHOOSE n \in ids : \A m \in ids : m <= n
  OBVIOUS
<1>8. size \in ids /\ \A m \in ids : m <= size
  <2>1. \E n \in ids : \A m \in ids : m <= n
    BY <1>6, MaxExists
  <2> QED BY <1>7, <2>1
<1>9. size \in 1 .. l /\ size \in Nat \ {0}
  BY <1>6, <1>8
<1>10. PICK table : table = [g \in 1 .. size |-> IF g \in ids THEN IndexIn(interface, names[g]) ELSE NullId]
  OBVIOUS
<1>11. TableOf(names, interface) = table
  BY <1>4, <1>7, <1>10, Zenon DEF TableOf
<1>12. ASSUME NEW g \in 1 .. l PROVE g \in ids <=> names[g] \in Elements(interface)
  <2>1. ASSUME g \in ids PROVE names[g] \in Elements(interface)
    <3>1. PICK i \in 1 .. k : g = IndexIn(names, interface[i])
      BY <1>3, <1>4, <2>1
    <3>2. names[g] = interface[i]
      BY <1>5, <3>1
    <3> QED BY <1>2, <3>2 DEF Elements
  <2>2. ASSUME names[g] \in Elements(interface) PROVE g \in ids
    <3>1. PICK i \in 1 .. k : names[g] = interface[i]
      BY <1>2, <2>2 DEF Elements
    <3>2. g = IndexIn(names, interface[i])
      BY <1>1, <1>5, <3>1 DEF Distinct
    <3> QED BY <1>3, <1>4, <3>2
  <2> QED BY <2>1, <2>2
<1>13. ASSUME NEW g \in 1 .. size
       PROVE  table[g] = IF names[g] \in Elements(interface) THEN IndexIn(interface, names[g]) ELSE NullId
  <2>1. g \in 1 .. l
    BY <1>9
  <2> QED BY <1>10, <1>12, <2>1
<1>14. ASSUME NEW x \in Elements(interface) PROVE \E g \in 1 .. size : names[g] = x
  <2>1. PICK i \in 1 .. k : x = interface[i]
    BY <1>2 DEF Elements
  <2>2. PICK g : g = IndexIn(names, interface[i])
    OBVIOUS
  <2>3. g \in ids /\ g \in 1 .. l /\ names[g] = x
    BY <1>3, <1>4, <1>5, <2>1, <2>2
  <2>4. g \in 1 .. size
    BY <1>8, <1>9, <2>3
  <2> QED BY <2>3, <2>4
<1>15. DOMAIN table = 1 .. size /\ size <= Len(names)
  BY <1>1, <1>9, <1>10
<1>16. GoodTable(names, interface, table)
  BY <1>9, <1>13, <1>14, <1>15 DEF GoodTable
<1> QED BY <1>11, <1>16

(* A good table stays good when names are added.                              *)
LEMMA GoodTableKept ==
  ASSUME NEW names \in Seq(STRING), NEW more \in Seq(STRING), GrewTo(names, more),
         NEW interface, NEW table, GoodTable(names, interface, table)
  PROVE  GoodTable(more, interface, table)
<1>1. PICK l \in Nat : l = Len(names)
  BY LenProperties
<1>2. PICK m \in Nat : m = Len(more)
  BY LenProperties
<1>3. PICK n \in Nat \ {0} :
        /\ n <= Len(names) /\ DOMAIN table = 1 .. n
        /\ \A g \in 1 .. n :
             table[g] = IF names[g] \in Elements(interface) THEN IndexIn(interface, names[g]) ELSE NullId
        /\ \A x \in Elements(interface) : \E g \in 1 .. n : names[g] = x
  BY DEF GoodTable
<1>4. n <= l /\ l <= m /\ \A g \in 1 .. l : more[g] = names[g]
  BY <1>1, <1>2, <1>3 DEF GrewTo
<1>5. n <= m /\ \A g \in 1 .. n : more[g] = names[g]
  BY <1>4
<1>6. \A g \in 1 .. n :
        table[g] = IF more[g] \in Elements(interface) THEN IndexIn(interface, more[g]) ELSE NullId
  BY <1>3, <1>5
<1>7. \A x \in Elements(interface) : \E g \in 1 .. n : more[g] = x
  BY <1>3, <1>5
<1> QED BY <1>2, <1>3, <1>5, <1>6, <1>7 DEF GoodTable

(* A good table is not empty, and gives the enclave's own number.             *)
LEMMA GoodTableUse ==
  ASSUME NEW names, Distinct(names), NEW interface \in Seq(STRING), NEW table, GoodTable(names,
        interface, table),
         NEW g \in 1 .. Len(names)
  PROVE  /\ table # <<>>
         /\ (IF g \in DOMAIN table THEN table[g] ELSE NullId)
              = IF names[g] \in Elements(interface) THEN IndexIn(interface, names[g]) ELSE NullId
<1>1. PICK l \in Nat : l = Len(names)
  BY LenProperties DEF Distinct
<1>2. PICK n \in Nat \ {0} :
        /\ n <= Len(names) /\ DOMAIN table = 1 .. n
        /\ \A h \in 1 .. n :
             table[h] = IF names[h] \in Elements(interface) THEN IndexIn(interface, names[h]) ELSE NullId
        /\ \A x \in Elements(interface) : \E h \in 1 .. n : names[h] = x
  BY DEF GoodTable
<1>3. table # <<>>
  <2>1. 1 \in DOMAIN table
    BY <1>2
  <2>2. DOMAIN <<>> = {}
    OBVIOUS
  <2> QED BY <2>1, <2>2
<1>4. CASE g \in 1 .. n
  BY <1>2, <1>3, <1>4
<1>5. CASE g \notin 1 .. n
  <2>1. names[g] \notin Elements(interface)
    <3>1. SUFFICES ASSUME names[g] \in Elements(interface) PROVE FALSE
      OBVIOUS
    <3>2. PICK h \in 1 .. n : names[h] = names[g]
      BY <1>2, <3>1
    <3>3. h \in 1 .. Len(names)
      BY <1>1, <1>2
    <3>4. h = g
      BY <3>2, <3>3 DEF Distinct
    <3> QED BY <1>5, <3>4
  <2> QED BY <1>2, <1>3, <1>5, <2>1
<1> QED BY <1>4, <1>5

(* The ids are good when there are none.                                      *)
LEMMA IdsStart == ASSUME NEW on, EcallIdsInit(on) PROVE IdsGood
<1>1. Distinct(<<>>)
  <2>1. <<>> \in Seq(STRING) /\ Len(<<>>) = 0
    BY EmptySeq
  <2> QED BY <2>1 DEF Distinct
<1>2. _ecall_table = <<>> /\ capacity = 0 /\ created = {}
  BY DEF EcallIdsInit
<1>3. TablesGood
  BY DEF EcallIdsInit, TablesGood
<1>4. StubsGood
  BY DEF EcallIdsInit, StubsGood, NullId
<1>5. ask = [c \in Callers |-> NoAsk]
  BY DEF EcallIdsInit
<1>6. ask = [c \in Callers |-> ask[c]] /\ \A c \in Callers : ask[c].pc = "idle"
  BY <1>5 DEF NoAsk
<1> QED BY <1>1, <1>2, <1>3, <1>4, <1>6 DEF IdsGood, AskGood

(* What the growth of the table of names leaves as it was.                    *)
LEMMA StubsKept ==
  ASSUME IdsGood, Distinct(_ecall_table'), GrewTo(_ecall_table, _ecall_table'), globalId' = globalId
  PROVE  StubsGood'
<1>1. PICK l \in Nat : l = Len(_ecall_table)
  BY LenProperties DEF IdsGood, Distinct
<1>2. PICK m \in Nat : m = Len(_ecall_table')
  BY LenProperties DEF Distinct
<1>3. l <= m /\ \A i \in 1 .. l : _ecall_table'[i] = _ecall_table[i]
  BY <1>1, <1>2 DEF GrewTo
<1>4. \A i \in 1 .. l : i \in 1 .. m
  BY <1>3
<1>5. ASSUME NEW s \in DOMAIN Stubs, globalId[s] # NullId
      PROVE  globalId[s] \in 1 .. m /\ _ecall_table'[globalId[s]] = Stubs[s]
  <2>1. globalId[s] \in 1 .. l /\ _ecall_table[globalId[s]] = Stubs[s]
    BY <1>1, <1>5 DEF IdsGood, StubsGood
  <2> QED BY <1>3, <1>4, <2>1
<1> QED BY <1>2, <1>5 DEF IdsGood, StubsGood

(* The enclaves' tables, when only the table of names grows.                  *)
LEMMA TablesKept ==
  ASSUME IdsGood, Distinct(_ecall_table'), GrewTo(_ecall_table, _ecall_table'), idTable' = idTable,
         created \subseteq created', created' \subseteq DOMAIN Interfaces
  PROVE  TablesGood'
<1>1. _ecall_table \in Seq(STRING) /\ _ecall_table' \in Seq(STRING)
  BY DEF IdsGood, Distinct
<1>2. ASSUME NEW e \in DOMAIN Interfaces, idTable[e] # <<>>
      PROVE  e \in created' /\ GoodTable(_ecall_table', Interfaces[e], idTable[e])
  <2>1. e \in created /\ GoodTable(_ecall_table, Interfaces[e], idTable[e])
    BY <1>2 DEF IdsGood, TablesGood
  <2> QED BY <1>1, <2>1, GoodTableKept
<1> QED BY <1>2 DEF IdsGood, TablesGood

(* A lookup, when the ids of stubs and the tables of created enclaves stay.   *)
LEMMA AskKept ==
  ASSUME IdsGood, NEW c \in Callers, ask'[c] = ask[c], created \subseteq created',
         \A s \in DOMAIN Stubs : globalId[s] # NullId => globalId'[s] # NullId,
         \A e \in created : idTable'[e] = idTable[e]
  PROVE  AskGood(c)'
<1>1. AskGood(c)
  BY DEF IdsGood
<1>2. CASE ask[c].pc = "idle"
  BY <1>2 DEF AskGood
<1>3. CASE ask[c].pc # "idle"
  <2>1. PICK e \in created, s \in DOMAIN Stubs :
          \/ ask[c] = [pc |-> "assign", e |-> e, s |-> s]
          \/ ask[c] = [pc |-> "look", e |-> e, s |-> s] /\ globalId[s] # NullId
          \/ ask[c] = [pc |-> "found", e |-> e, s |-> s, id |-> NumberOf(e, s)]
    BY <1>1, <1>3 DEF AskGood
  <2>2. e \in created' /\ NumberOf(e, s)' = NumberOf(e, s)
    BY DEF NumberOf
  <2>3. CASE ask[c] = [pc |-> "assign", e |-> e, s |-> s]
    BY <2>2, <2>3 DEF AskGood
  <2>4. CASE ask[c] = [pc |-> "look", e |-> e, s |-> s] /\ globalId[s] # NullId
    BY <2>2, <2>4 DEF AskGood
  <2>5. CASE ask[c] = [pc |-> "found", e |-> e, s |-> s, id |-> NumberOf(e, s)]
    BY <2>2, <2>5 DEF AskGood
  <2> QED BY <2>1, <2>3, <2>4, <2>5
<1> QED BY <1>2, <1>3

(* A step that leaves the tables alone.                                       *)
LEMMA IdsKept ==
  ASSUME IdsGood, UNCHANGED <<_ecall_table, capacity, created, idTable, globalId>>,
         ask' = [c \in Callers |-> ask'[c]], \A c \in Callers : AskGood(c)'
  PROVE  IdsGood'
<1>1. Distinct(_ecall_table)' /\ capacity' \in Nat
  BY DEF IdsGood
<1>2. TablesGood'
  BY DEF IdsGood, TablesGood
<1>3. StubsGood'
  BY DEF IdsGood, StubsGood
<1> QED BY <1>1, <1>2, <1>3 DEF IdsGood

(* A step that leaves the ids alone.                                          *)
LEMMA IdsStay ==
  ASSUME IdsGood, UNCHANGED idVars
  PROVE  IdsGood'
<1>1. UNCHANGED <<_ecall_table, capacity, created, idTable, globalId>> /\ ask' = ask
  BY DEF idVars
<1>2. \A c \in Callers : AskGood(c)'
  BY <1>1, AskKept
<1> QED BY <1>1, <1>2, IdsKept DEF IdsGood

(* What oe_register_ecalls makes of the table its first loop leaves.          *)
RegisteredWith(e, t, stored) ==
  /\ _ecall_table' = t.names /\ capacity' = t.cap
  /\ idTable' = IF t.ok /\ stored THEN [idTable EXCEPT ![e] = TableOf(t.names, Interfaces[e])] ELSE idTable

(* The creation of an enclave.                                                *)
LEMMA RegisterEcallsGood ==
  ASSUME IdsGood, NEW e \in DOMAIN Interfaces, oe_register_ecalls(e)
  PROVE  IdsGood'
<1>1. PICK interface : interface = Interfaces[e]
  OBVIOUS
<1>2. interface \in Seq(STRING) /\ interface # <<>>
  BY <1>1, EcallIdsAssumption
<1>3. PICK n \in Nat : n = Len(interface)
  BY <1>2, LenProperties
<1>4. e \notin created /\ created' = created \cup {e} /\ globalId' = globalId /\ ask' = ask
  BY DEF oe_register_ecalls
<1>5. \E fails \in 0 .. Len(Interfaces[e]), stored \in BOOLEAN :
        RegisteredWith(e, (CHOOSE f :
              NamingLoop(NameTable, Interfaces[e], fails, f, Len(Interfaces[e])))[Len(Interfaces[e])],
              stored)
  BY Zenon DEF oe_register_ecalls, NamingLoop, NamesBecome, RegisteredWith
<1>6. PICK fails \in 0 .. Len(Interfaces[e]), stored \in BOOLEAN :
        RegisteredWith(e, (CHOOSE f :
              NamingLoop(NameTable, Interfaces[e], fails, f, Len(Interfaces[e])))[Len(Interfaces[e])],
              stored)
  BY <1>5, Zenon
<1>7. PICK f : f = CHOOSE g : NamingLoop(NameTable, Interfaces[e], fails, g, Len(Interfaces[e]))
  OBVIOUS
<1>8. PICK t : t = f[Len(Interfaces[e])] /\ RegisteredWith(e, t, stored)
  BY <1>6, <1>7, Zenon
<1>9. NamingLoop([names |-> _ecall_table, cap |-> capacity, ok |-> TRUE], interface, fails, f,
      Len(interface))
  <2>1. \E g : NamingLoop(NameTable, interface, fails, g, n)
    BY NamingLoopExist
  <2>2. NamingLoop(NameTable, interface, fails, f, Len(interface))
    BY <1>1, <1>3, <1>7, <2>1, Zenon
  <2> QED BY <2>2, Zenon DEF NameTable
<1>10. NamedUpTo(_ecall_table, interface, Len(interface), t)
  <2>1. Distinct(_ecall_table) /\ capacity \in Nat
    BY DEF IdsGood
  <2>2. NamedUpTo(_ecall_table, interface, Len(interface), f[Len(interface)])
    BY <1>2, <1>9, <2>1, NamingLoopFacts
  <2> QED BY <1>1, <1>8, <2>2, Zenon
<1>11. PICK names \in Seq(STRING), cap \in Nat, ok \in BOOLEAN :
         /\ t = [names |-> names, cap |-> cap, ok |-> ok]
         /\ Distinct(names) /\ GrewTo(_ecall_table, names)
         /\ ok => \A i \in 1 .. Len(interface) : interface[i] \in Elements(names)
  BY <1>10, Zenon DEF NamedUpTo
<1>12. t.names = names /\ t.cap = cap /\ t.ok = ok
  BY <1>11
<1>13. _ecall_table' = names /\ capacity' = cap
  BY <1>8, <1>12 DEF RegisteredWith
<1>14. idTable' = IF ok /\ stored THEN [idTable EXCEPT ![e] = TableOf(names, interface)] ELSE idTable
  BY <1>1, <1>8, <1>12, Zenon DEF RegisteredWith
<1>15. Distinct(_ecall_table') /\ GrewTo(_ecall_table, _ecall_table')
  BY <1>11, <1>13
<1>16. created \subseteq created' /\ created' \subseteq DOMAIN Interfaces
  BY <1>4 DEF IdsGood, TablesGood
<1>17. idTable = [x \in DOMAIN Interfaces |-> idTable[x]]
  BY DEF IdsGood, TablesGood
<1>18. \A x \in created : idTable'[x] = idTable[x]
  BY <1>4, <1>14, <1>16, <1>17
<1>19. TablesGood'
  <2>1. CASE ~(ok /\ stored)
    <3>1. idTable' = idTable
      BY <1>14, <2>1
    <3> QED BY <1>15, <1>16, <3>1, TablesKept
  <2>2. CASE ok /\ stored
    <3>1. PICK table : table = TableOf(names, interface)
      OBVIOUS
    <3>2. idTable' = [idTable EXCEPT ![e] = table]
      BY <1>14, <2>2, <3>1
    <3>3. GoodTable(names, interface, table)
      BY <1>2, <1>11, <2>2, <3>1, TableOfGood
    <3>4. ASSUME NEW x \in DOMAIN Interfaces
          PROVE  idTable'[x] = <<>> \/ (x \in created' /\ GoodTable(_ecall_table', Interfaces[x],
                idTable'[x]))
      <4>1. CASE x = e
        <5>1. idTable'[x] = table /\ x \in created'
          BY <1>4, <1>17, <3>2, <4>1
        <5> QED BY <1>1, <1>13, <3>3, <4>1, <5>1
      <4>2. CASE x # e
        <5>1. idTable'[x] = idTable[x]
          BY <1>17, <3>2, <4>2
        <5>2. idTable[x] = <<>> \/ (x \in created /\ GoodTable(_ecall_table, Interfaces[x], idTable[x]))
          BY DEF IdsGood, TablesGood
        <5>3. _ecall_table \in Seq(STRING) /\ _ecall_table' \in Seq(STRING)
          BY <1>15 DEF IdsGood, Distinct
        <5> QED BY <1>15, <1>16, <5>1, <5>2, <5>3, GoodTableKept
      <4> QED BY <4>1, <4>2
    <3>5. idTable' = [x \in DOMAIN Interfaces |-> idTable'[x]]
      BY <1>17, <3>2
    <3> QED BY <1>16, <3>4, <3>5 DEF TablesGood
  <2> QED BY <2>1, <2>2
<1>20. StubsGood'
  BY <1>4, <1>15, StubsKept
<1>21. \A c \in Callers : AskGood(c)'
  <2>1. \A s \in DOMAIN Stubs : globalId[s] # NullId => globalId'[s] # NullId
    BY <1>4
  <2> QED BY <1>4, <1>16, <1>18, <2>1, AskKept
<1>22. ask' = [c \in Callers |-> ask'[c]]
  BY <1>4 DEF IdsGood
<1> QED BY <1>13, <1>15, <1>19, <1>20, <1>21, <1>22 DEF IdsGood

(* A lookup starts, with or without a cached id.                              *)
LEMMA StartLookupGood ==
  ASSUME IdsGood, NEW c \in Callers, NEW e \in DOMAIN Interfaces, NEW s \in DOMAIN Stubs, StartLookup(c,
        e, s)
  PROVE  IdsGood'
<1>1. UNCHANGED <<_ecall_table, capacity, created, idTable, globalId>> /\ e \in created
  BY DEF StartLookup
<1>2. PICK state : state = IF globalId[s] = NullId THEN "assign" ELSE "look"
  OBVIOUS
<1>3. ask' = [ask EXCEPT ![c] = [pc |-> state, e |-> e, s |-> s]] /\ ask = [d \in Callers |-> ask[d]]
  BY <1>2 DEF StartLookup, IdsGood
<1>4. ask' = [d \in Callers |-> ask'[d]] /\ ask'[c] = [pc |-> state, e |-> e, s |-> s]
  BY <1>3
<1>5. AskGood(c)'
  BY <1>1, <1>2, <1>4 DEF AskGood
<1>6. ASSUME NEW d \in Callers, d # c PROVE AskGood(d)'
  <2>1. ask'[d] = ask[d]
    BY <1>3, <1>6
  <2> QED BY <1>1, <2>1, AskKept
<1> QED BY <1>1, <1>4, <1>5, <1>6, IdsKept

(* A lookup returns.                                                          *)
LEMMA ReturnLookupGood ==
  ASSUME IdsGood, NEW c \in Callers, ReturnLookup(c)
  PROVE  IdsGood'
<1>1. UNCHANGED <<_ecall_table, capacity, created, idTable, globalId>>
  BY DEF ReturnLookup
<1>2. ask' = [ask EXCEPT ![c] = NoAsk] /\ ask = [d \in Callers |-> ask[d]]
  BY DEF ReturnLookup, IdsGood
<1>3. ask' = [d \in Callers |-> ask'[d]] /\ ask'[c] = [pc |-> "idle"]
  BY <1>2 DEF NoAsk
<1>4. AskGood(c)'
  BY <1>3 DEF AskGood
<1>5. ASSUME NEW d \in Callers, d # c PROVE AskGood(d)'
  <2>1. ask'[d] = ask[d]
    BY <1>2, <1>5
  <2> QED BY <1>1, <2>1, AskKept
<1> QED BY <1>1, <1>3, <1>4, <1>5, IdsKept

(* oe_get_global_id gives the stub an id that leads to its name.              *)
LEMMA GetGlobalIdGood ==
  ASSUME IdsGood, NEW c \in Callers, oe_get_global_id(c)
  PROVE  IdsGood'
<1>1. ask = [d \in Callers |-> ask[d]] /\ ask[c].pc = "assign" /\ created' = created /\ idTable' = idTable
  BY DEF oe_get_global_id, IdsGood
<1>2. PICK e \in created, s \in DOMAIN Stubs : ask[c] = [pc |-> "assign", e |-> e, s |-> s]
  <2>1. AskGood(c)
    BY DEF IdsGood
  <2> QED BY <1>1, <2>1 DEF AskGood
<1>3. ask[c].s = s
  BY <1>2
<1>4. PICK name : name = Stubs[s]
  OBVIOUS
<1>5. name \in STRING /\ Distinct(_ecall_table) /\ capacity \in Nat
  BY <1>4, EcallIdsAssumption DEF IdsGood
<1>6. PICK grows \in BOOLEAN :
        LET t == _get_global_id(NameTable, name, grows)
        IN  /\ _ecall_table' = t.names /\ capacity' = t.cap
            /\ globalId' = IF t.ok THEN [globalId EXCEPT ![s] = IndexIn(t.names, name)] ELSE globalId
            /\ ask' = [ask EXCEPT ![c].pc = IF t.ok THEN "look" ELSE "idle"]
  BY <1>3, <1>4, Zenon DEF oe_get_global_id, NamesBecome
<1>7. NamedIn(_ecall_table, name, TRUE, _get_global_id(NameTable, name, grows))
  BY <1>5, GetGlobalIdFacts DEF NameTable
<1>8. PICK names \in Seq(STRING), cap \in Nat, ok \in BOOLEAN :
        /\ _get_global_id(NameTable, name, grows) = [names |-> names, cap |-> cap, ok |-> ok]
        /\ Distinct(names) /\ GrewTo(_ecall_table, names)
        /\ ok => name \in Elements(names)
  BY <1>7, Zenon DEF NamedIn
<1>9. PICK t : t = _get_global_id(NameTable, name, grows)
  OBVIOUS
<1>10. t.names = names /\ t.cap = cap /\ t.ok = ok
  BY <1>8, <1>9
<1>11. /\ _ecall_table' = names /\ capacity' = cap
       /\ globalId' = IF ok THEN [globalId EXCEPT ![s] = IndexIn(names, name)] ELSE globalId
       /\ ask' = [ask EXCEPT ![c].pc = IF ok THEN "look" ELSE "idle"]
  <2>1. /\ _ecall_table' = t.names /\ capacity' = t.cap
        /\ globalId' = IF t.ok THEN [globalId EXCEPT ![s] = IndexIn(t.names, name)] ELSE globalId
        /\ ask' = [ask EXCEPT ![c].pc = IF t.ok THEN "look" ELSE "idle"]
    BY <1>6, <1>9
  <2> QED BY <1>10, <2>1, Zenon
<1>12. Distinct(_ecall_table') /\ GrewTo(_ecall_table, _ecall_table')
  BY <1>8, <1>11
<1>13. created \subseteq created' /\ created' \subseteq DOMAIN Interfaces
  BY <1>1 DEF IdsGood, TablesGood
<1>14. TablesGood'
  BY <1>1, <1>12, <1>13, TablesKept
<1>15. globalId \in [DOMAIN Stubs -> Nat]
  BY DEF IdsGood, StubsGood
<1>16. ask' = [d \in Callers |-> ask'[d]] /\ \A d \in Callers : d # c => ask'[d] = ask[d]
  BY <1>1, <1>11
<1>17. ASSUME ~ok PROVE IdsGood'
  <2>1. globalId' = globalId
    BY <1>11, <1>17
  <2>2. StubsGood'
    BY <1>12, <2>1, StubsKept
  <2>3. ask'[c].pc = "idle"
    BY <1>1, <1>2, <1>11, <1>17
  <2>4. AskGood(c)'
    BY <2>3 DEF AskGood
  <2>5. \A d \in Callers : d # c => AskGood(d)'
    BY <1>1, <1>16, <2>1, AskKept
  <2> QED BY <1>11, <1>12, <1>14, <1>16, <2>2, <2>4, <2>5 DEF IdsGood
<1>18. ASSUME ok PROVE IdsGood'
  <2>1. PICK g : g = IndexIn(names, name)
    OBVIOUS
  <2>2. g \in 1 .. Len(names) /\ names[g] = name
    BY <1>8, <1>18, <2>1, IndexInFacts
  <2>3. g \in Nat /\ g # NullId
    BY <1>8, <2>2, LenProperties DEF NullId
  <2>4. globalId' = [globalId EXCEPT ![s] = g]
    BY <1>11, <1>18, <2>1
  <2>5. \A x \in DOMAIN Stubs : globalId'[x] = IF x = s THEN g ELSE globalId[x]
    BY <1>15, <2>4
  <2>6. StubsGood'
    <3>1. globalId' \in [DOMAIN Stubs -> Nat]
      BY <1>15, <2>3, <2>4
    <3>2. ASSUME NEW x \in DOMAIN Stubs, globalId'[x] # NullId
          PROVE  globalId'[x] \in 1 .. Len(names) /\ names[globalId'[x]] = Stubs[x]
      <4>1. CASE x = s
        BY <1>4, <2>2, <2>5, <4>1
      <4>2. CASE x # s
        <5>1. globalId'[x] = globalId[x]
          BY <2>5, <4>2
        <5>2. globalId[x] \in 1 .. Len(_ecall_table) /\ _ecall_table[globalId[x]] = Stubs[x]
          BY <3>2, <5>1 DEF IdsGood, StubsGood
        <5>3. PICK l \in Nat : l = Len(_ecall_table)
          BY <1>5, LenProperties DEF Distinct
        <5>4. PICK m \in Nat : m = Len(names)
          BY LenProperties
        <5>5. l <= m /\ \A i \in 1 .. l : names[i] = _ecall_table[i]
          BY <1>8, <5>3, <5>4 DEF GrewTo
        <5>6. \A i \in 1 .. l : i \in 1 .. m
          BY <5>5
        <5> QED BY <5>1, <5>2, <5>3, <5>4, <5>5, <5>6
      <4> QED BY <4>1, <4>2
    <3> QED BY <1>11, <3>1, <3>2 DEF StubsGood
  <2>7. ask'[c] = [pc |-> "look", e |-> e, s |-> s]
    <3>1. ask' = [ask EXCEPT ![c].pc = "look"]
      BY <1>11, <1>18, Zenon
    <3>2. ask'[c] = [ask[c] EXCEPT !.pc = "look"]
      BY <1>1, <3>1
    <3> QED BY <1>2, <3>2
  <2>8. AskGood(c)'
    BY <1>1, <2>3, <2>5, <2>7 DEF AskGood
  <2>9. \A x \in DOMAIN Stubs : globalId[x] # NullId => globalId'[x] # NullId
    BY <2>3, <2>5
  <2>10. \A d \in Callers : d # c => AskGood(d)'
    BY <1>1, <1>16, <2>9, AskKept
  <2> QED BY <1>11, <1>12, <1>14, <1>16, <2>6, <2>8, <2>10 DEF IdsGood
<1> QED BY <1>17, <1>18

(* The id of the stub leads to the enclave's own number for its name.         *)
LEMMA GetEcallIdsGood ==
  ASSUME IdsGood, NEW c \in Callers, oe_get_ecall_ids(c)
  PROVE  IdsGood'
<1>1. UNCHANGED <<_ecall_table, capacity, created, idTable, globalId>> /\ ask[c].pc = "look"
  BY DEF oe_get_ecall_ids
<1>2. PICK e \in created, s \in DOMAIN Stubs :
        ask[c] = [pc |-> "look", e |-> e, s |-> s] /\ globalId[s] # NullId
  <2>1. AskGood(c)
    BY DEF IdsGood
  <2>2. PICK e \in created, s \in DOMAIN Stubs :
          \/ ask[c] = [pc |-> "assign", e |-> e, s |-> s]
          \/ ask[c] = [pc |-> "look", e |-> e, s |-> s] /\ globalId[s] # NullId
          \/ ask[c] = [pc |-> "found", e |-> e, s |-> s, id |-> NumberOf(e, s)]
    BY <1>1, <2>1 DEF AskGood
  <2>3. ask[c] = [pc |-> "look", e |-> e, s |-> s] /\ globalId[s] # NullId
    BY <1>1, <2>2
  <2> QED BY <2>3
<1>3. ask[c].e = e /\ ask[c].s = s /\ e \in DOMAIN Interfaces /\ ask = [d \in Callers |-> ask[d]]
  BY <1>2 DEF IdsGood, TablesGood
<1>4. PICK g : g = globalId[s]
  OBVIOUS
<1>5. PICK table : table = idTable[e]
  OBVIOUS
<1>6. PICK id : id = IF g \in DOMAIN table THEN table[g] ELSE NullId
  OBVIOUS
<1>7. ask' = [ask EXCEPT ![c] = [pc |-> "found", e |-> ask[c].e, s |-> ask[c].s,
                                 id |-> IF globalId[ask[c].s] \in DOMAIN idTable[ask[c].e]
                                        THEN idTable[ask[c].e][globalId[ask[c].s]] ELSE NullId]]
  BY DEF oe_get_ecall_ids
<1>8. ask' = [ask EXCEPT ![c] = [pc |-> "found", e |-> e, s |-> s, id |-> id]]
  BY <1>3, <1>4, <1>5, <1>6, <1>7, Zenon
<1>9. g \in 1 .. Len(_ecall_table) /\ _ecall_table[g] = Stubs[s]
  BY <1>2, <1>4 DEF IdsGood, StubsGood
<1>10. id = NumberOf(e, s)
  <2>1. CASE table = <<>>
    <3>1. DOMAIN table = {}
      BY <2>1
    <3> QED BY <1>5, <1>6, <2>1, <3>1 DEF NumberOf
  <2>2. CASE table # <<>>
    <3>1. GoodTable(_ecall_table, Interfaces[e], table)
      BY <1>3, <1>5, <2>2 DEF IdsGood, TablesGood
    <3>2. Distinct(_ecall_table) /\ Interfaces[e] \in Seq(STRING)
      BY <1>3, EcallIdsAssumption DEF IdsGood
    <3>3. id = IF _ecall_table[g] \in Elements(Interfaces[e])
               THEN IndexIn(Interfaces[e], _ecall_table[g]) ELSE NullId
      BY <1>6, <1>9, <3>1, <3>2, GoodTableUse
    <3> QED BY <1>5, <1>9, <2>2, <3>3, Zenon DEF NumberOf
  <2> QED BY <2>1, <2>2
<1>11. ask' = [d \in Callers |-> ask'[d]] /\ ask'[c] = [pc |-> "found", e |-> e, s |-> s, id |-> id]
  BY <1>3, <1>8
<1>12. NumberOf(e, s)' = NumberOf(e, s)
  BY <1>1 DEF NumberOf
<1>13. AskGood(c)'
  BY <1>1, <1>10, <1>11, <1>12 DEF AskGood
<1>14. ASSUME NEW d \in Callers, d # c PROVE AskGood(d)'
  <2>1. ask'[d] = ask[d]
    BY <1>3, <1>8, <1>14
  <2> QED BY <1>1, <2>1, AskKept
<1> QED BY <1>1, <1>11, <1>13, <1>14, IdsKept

(* Every step on the ids.                                                     *)
LEMMA EcallIdStepGood ==
  ASSUME IdsGood, EcallIdStep
  PROVE  IdsGood'
BY RegisterEcallsGood, StartLookupGood, GetGlobalIdGood, GetEcallIdsGood, ReturnLookupGood DEF EcallIdStep

(* A lookup that has found its number has the right one.                      *)
LEMMA IdsGoodRight == IdsGood => LookupRight
<1> SUFFICES ASSUME IdsGood, NEW c \in Callers, ask[c].pc = "found"
             PROVE  ask[c].id = IF idTable[ask[c].e] # <<>> /\ Stubs[ask[c].s] \in ToSet(Interfaces[ask[c].e])
                                THEN IndexIn(Interfaces[ask[c].e], Stubs[ask[c].s]) ELSE NullId
  BY DEF LookupRight
<1>1. PICK e \in created, s \in DOMAIN Stubs :
        ask[c] = [pc |-> "found", e |-> e, s |-> s, id |-> NumberOf(e, s)]
  <2>1. AskGood(c)
    BY DEF IdsGood
  <2>2. PICK e \in created, s \in DOMAIN Stubs :
          \/ ask[c] = [pc |-> "assign", e |-> e, s |-> s]
          \/ ask[c] = [pc |-> "look", e |-> e, s |-> s] /\ globalId[s] # NullId
          \/ ask[c] = [pc |-> "found", e |-> e, s |-> s, id |-> NumberOf(e, s)]
    BY <2>1 DEF AskGood
  <2>3. ask[c] = [pc |-> "found", e |-> e, s |-> s, id |-> NumberOf(e, s)]
    BY <2>2
  <2> QED BY <2>3
<1>2. ask[c].e = e /\ ask[c].s = s /\ ask[c].id = NumberOf(e, s)
  BY <1>1
<1>3. e \in DOMAIN Interfaces
  BY DEF IdsGood, TablesGood
<1>4. ToSet(Interfaces[e]) = Elements(Interfaces[e])
  BY <1>3, EcallIdsAssumption, ToSetElements
<1> QED BY <1>2, <1>4, Zenon DEF NumberOf

(* The inductive invariant of the three registries.                           *)
RegistriesInv == PluginsGood /\ SealersGood /\ IdsGood

(* The attestation plugins lead to live ones, one for a format, the sealing   *)
(* plugins are the latest version of each with the chosen default first, and  *)
(* a lookup of an ecall yields the called enclave's own number, in every      *)
(* state (attest_plugin.c, seal.c and ecall_ids.c): for every set of plugins, *)
(* formats, interfaces and stubs, and whichever allocation fails.             *)
THEOREM RegistriesStaySound == RegistriesSpec => []RegistriesSound
<1>1. RegistriesInit => RegistriesInv
  BY PluginsStart, SealersStart, IdsStart DEF RegistriesInit, RegistriesInv
<1>2. RegistriesInv /\ [RegistriesNext]_registryVars => RegistriesInv'
  <2> SUFFICES ASSUME RegistriesInv, [RegistriesNext]_registryVars PROVE RegistriesInv'
    OBVIOUS
  <2>1. PluginsGood /\ SealersGood /\ IdsGood
    BY DEF RegistriesInv
  <2>2. UNCHANGED plugins => PluginsGood'
    BY <2>1 DEF PluginsGood
  <2>3. UNCHANGED sealers => SealersGood'
    BY <2>1 DEF SealersGood
  <2>4. UNCHANGED idVars => IdsGood'
    BY <2>1, IdsStay
  <2>5. CASE PluginStep /\ UNCHANGED <<sealers, idVars>>
    BY <2>1, <2>3, <2>4, <2>5, PluginStepGood DEF RegistriesInv
  <2>6. CASE SealStep /\ UNCHANGED <<plugins, idVars>>
    BY <2>1, <2>2, <2>4, <2>6, SealStepGood DEF RegistriesInv
  <2>7. CASE EcallIdStep /\ UNCHANGED <<plugins, sealers>>
    BY <2>1, <2>2, <2>3, <2>7, EcallIdStepGood DEF RegistriesInv
  <2>8. CASE UNCHANGED registryVars
    BY <2>2, <2>3, <2>4, <2>8 DEF registryVars, RegistriesInv
  <2> QED BY <2>5, <2>6, <2>7, <2>8 DEF RegistriesNext
<1>3. RegistriesInv => RegistriesSound
  BY PluginsGoodLive, SealersGoodKept, IdsGoodRight DEF RegistriesInv, RegistriesSound
<1> QED BY <1>1, <1>2, <1>3, PTL DEF RegistriesSpec

-----------------------------------------------------------------------------
(* The debug allocator's list of blocks. Every block of a call under way is    *)
(* claimed by that call alone, one call at a time is inside the list, and the *)
(* links lead through the entered blocks; while a block is being taken out    *)
(* its neighbours already lead around it.                                     *)
HeapPcs == {"idle", "insert", "link", "head", "remove", "unlink", "ends", "report", "walk", "unlock"}
InsertPcs == {"insert", "link", "head"}
RemovePcs == {"remove", "unlink", "ends"}
InsidePcs == {"link", "head", "unlink", "ends", "walk"}

Addresses == 0 .. MaxBlocks
Acts == [pc : HeapPcs, b : Addresses, old : Addresses, report : BOOLEAN]

HeapTypes ==
  /\ live \subseteq Blocks /\ held \subseteq live /\ spin \in {0, 1}
  /\ list \in [head : Addresses, tail : Addresses, next : [Blocks -> Addresses], prev : [Blocks -> Addresses]]
  /\ act \in [Clients -> Acts]

(* The blocks that a call has taken and not given to the application yet.     *)
Claims(a) ==
  IF a.pc \in InsertPcs THEN {a.b, a.old} \ {0}
  ELSE IF a.pc \in RemovePcs THEN (IF a.report THEN {a.b, a.old} ELSE {a.b}) \ {0}
  ELSE IF a.pc \in {"report", "walk"} THEN {a.b}
  ELSE IF a.pc = "unlock" THEN {a.old} \ {0}
  ELSE {}

ActForm(a) ==
  /\ a.pc = "idle" => a.old = 0
  /\ a.pc \in InsertPcs \cup RemovePcs => a.b # 0 /\ a.b # a.old
  /\ a.pc \in {"report", "walk"} => a.b # 0 /\ a.old = 0 /\ a.report

ClaimsOK ==
  /\ \A c \in Clients : ActForm(act[c]) /\ Claims(act[c]) \subseteq live \ held
  /\ \A c, d \in Clients : c # d => Claims(act[c]) \cap Claims(act[d]) = {}

(* One call at a time is inside the list.                                     *)
ExclusionOK ==
  /\ \A c, d \in Clients : act[c].pc \in InsidePcs /\ act[d].pc \in InsidePcs => c = d
  /\ spin = 1 <=> \E c \in Clients : act[c].pc \in InsidePcs

(* The links lead through the n blocks of f, in order and back.               *)
Chain(n, f, nx, pv) ==
  /\ \A i, j \in 1 .. n : f[i] = f[j] => i = j
  /\ \A i \in 1 .. n : nx[f[i]] = (IF i = n THEN 0 ELSE f[i + 1]) /\ pv[f[i]] = (IF i = 1 THEN 0 ELSE f[i - 1])

EndsAt(n, f, hd, tl) == hd = (IF n = 0 THEN 0 ELSE f[1]) /\ (n # 0 => tl = f[n])

Members(n, f) == {f[i] : i \in 1 .. n}

Entered == live \ Entering

Whole ==
  \E n \in Nat : \E f \in [1 .. n -> Blocks] :
    Chain(n, f, list.next, list.prev) /\ EndsAt(n, f, list.head, list.tail) /\ Members(n, f) = Entered

(* The neighbours of b, k of them before it, lead around it, but the ends of  *)
(* the list may still be b.                                                   *)
HalfOut(b) ==
  \E n \in Nat : \E f \in [1 .. n -> Blocks], k \in 0 .. n :
    /\ Chain(n, f, list.next, list.prev)
    /\ b \in Blocks /\ b \notin Members(n, f) /\ Members(n, f) \cup {b} = Entered
    /\ list.prev[b] = (IF k = 0 THEN 0 ELSE f[k]) /\ list.next[b] = (IF k = n THEN 0 ELSE f[k + 1])
    /\ list.head = (IF k = 0 THEN b ELSE f[1]) /\ list.tail = (IF k = n THEN b ELSE f[n])

ListOK ==
  /\ (\A c \in Clients : act[c].pc # "ends") => Whole
  /\ \A c \in Clients : act[c].pc = "ends" => HalfOut(act[c].b)
  /\ \A c \in Clients : act[c].pc = "head" => list.next[act[c].b] = list.head /\ list.prev[act[c].b] = 0

HeapInv == HeapTypes /\ (~strayed => ClaimsOK /\ ExclusionOK /\ ListOK)

(* What the proofs use of the constants.                                      *)
LEMMA HeapNumbers == MaxBlocks \in Nat /\ 0 \notin Blocks /\ Blocks \subseteq Addresses /\ 0 \in Addresses
BY HeapAssumption DEF Blocks, Addresses

(* An empty list is a chain of no blocks.                                     *)
LEMMA HeapStart == HeapInit(0) => HeapInv
<1> SUFFICES ASSUME HeapInit(0) PROVE HeapInv
  OBVIOUS
<1>1. HeapTypes
  BY HeapNumbers DEF HeapInit, HeapTypes, Acts, HeapPcs, Nothing
<1>2. \A c \in Clients : act[c] = Nothing
  BY DEF HeapInit
<1>3. \A c \in Clients : act[c].pc = "idle"
  BY <1>2 DEF Nothing
<1>4. ClaimsOK
  BY <1>2, <1>3 DEF ClaimsOK, Claims, ActForm, InsertPcs, RemovePcs, Nothing
<1>5. ExclusionOK
  BY <1>3 DEF ExclusionOK, InsidePcs, HeapInit
<1>6. Entered = {}
  BY DEF HeapInit, Entered
<1>7. Whole
  <2>1. PICK f : f = [i \in 1 .. 0 |-> 1]
    OBVIOUS
  <2>2. f \in [1 .. 0 -> Blocks]
    BY <2>1
  <2>3. Chain(0, f, list.next, list.prev) /\ Members(0, f) = {}
    BY DEF Chain, Members
  <2>4. EndsAt(0, f, list.head, list.tail)
    BY DEF EndsAt, HeapInit
  <2> QED BY <1>6, <2>2, <2>3, <2>4 DEF Whole
<1>8. ListOK
  BY <1>3, <1>7 DEF ListOK
<1> QED BY <1>1, <1>4, <1>5, <1>8 DEF HeapInv

(* The other calls, and the claims of the one that steps.                     *)
LEMMA ClaimsStep ==
  ASSUME ClaimsOK, act \in [Clients -> Acts], NEW c \in Clients, NEW a,
         act' = [act EXCEPT ![c] = a], ActForm(a), Claims(a) \subseteq live' \ held',
         \A d \in Clients : d # c => Claims(act[d]) \subseteq live' \ held' /\ Claims(a) \cap Claims(act[d]) = {}
  PROVE  ClaimsOK'
<1>1. \A d \in Clients : act'[d] = IF d = c THEN a ELSE act[d]
  OBVIOUS
<1>2. ASSUME NEW d \in Clients PROVE ActForm(act'[d]) /\ Claims(act'[d]) \subseteq live' \ held'
  BY <1>1 DEF ClaimsOK
<1>3. ASSUME NEW d \in Clients, NEW e \in Clients, d # e PROVE Claims(act'[d]) \cap Claims(act'[e]) = {}
  <2>1. CASE d = c
    BY <1>1, <1>3, <2>1
  <2>2. CASE e = c
    BY <1>1, <1>3, <2>2
  <2>3. CASE d # c /\ e # c
    BY <1>1, <1>3, <2>3 DEF ClaimsOK
  <2> QED BY <2>1, <2>2, <2>3
<1> QED BY <1>2, <1>3 DEF ClaimsOK

(* The same when the call takes nothing and the sets stay.                    *)
LEMMA ClaimsShrink ==
  ASSUME ClaimsOK, act \in [Clients -> Acts], NEW c \in Clients, NEW a, act' = [act EXCEPT ![c] = a],
         ActForm(a), Claims(a) \subseteq Claims(act[c]), UNCHANGED <<live, held>>
  PROVE  ClaimsOK'
<1>1. Claims(a) \subseteq live' \ held'
  BY DEF ClaimsOK
<1>2. \A d \in Clients : d # c => Claims(act[d]) \subseteq live' \ held' /\ Claims(a) \cap Claims(act[d]) = {}
  BY DEF ClaimsOK
<1> QED BY <1>1, <1>2, ClaimsStep

(* A call that stays outside the list, enters it, or leaves it.               *)
LEMMA StaysOutside ==
  ASSUME ExclusionOK, act \in [Clients -> Acts], NEW c \in Clients, NEW a, act' = [act EXCEPT ![c] = a],
         (act[c].pc \in InsidePcs) <=> (a.pc \in InsidePcs), UNCHANGED spin
  PROVE  ExclusionOK'
<1>1. \A d \in Clients : act'[d].pc \in InsidePcs <=> act[d].pc \in InsidePcs
  OBVIOUS
<1> QED BY <1>1 DEF ExclusionOK

(* Lock: the call that sets the word is the only one inside.                  *)
LEMMA GoesInside ==
  ASSUME ExclusionOK, act \in [Clients -> Acts], NEW c \in Clients, NEW a, act' = [act EXCEPT ![c] = a],
         spin = 0, spin' = 1, a.pc \in InsidePcs
  PROVE  ExclusionOK'
<1>1. \A d \in Clients : act[d].pc \notin InsidePcs
  BY DEF ExclusionOK
<1>2. \A d \in Clients : act'[d].pc \in InsidePcs <=> d = c
  BY <1>1
<1> QED BY <1>2 DEF ExclusionOK

(* The unlock of the one call inside.                                         *)
LEMMA GoesOutside ==
  ASSUME ExclusionOK, act \in [Clients -> Acts], NEW c \in Clients, NEW a, act' = [act EXCEPT ![c] = a],
         act[c].pc \in InsidePcs, spin' = 0, a.pc \notin InsidePcs
  PROVE  ExclusionOK'
<1>1. \A d \in Clients : act[d].pc \in InsidePcs <=> d = c
  BY DEF ExclusionOK
<1>2. \A d \in Clients : act'[d].pc \notin InsidePcs
  BY <1>1
<1> QED BY <1>2 DEF ExclusionOK

(* What a step of one call does to the blocks on their way to the list.       *)
LEMMA EnteringStep ==
  ASSUME act \in [Clients -> Acts], NEW c \in Clients, NEW a, act' = [act EXCEPT ![c] = a]
  PROVE  /\ a.pc \in InsertPcs => a.b \in Entering'
         /\ act[c].pc \in InsertPcs => act[c].b \in Entering
         /\ \A x : x \in Entering' => (a.pc \in InsertPcs /\ x = a.b) \/ x \in Entering
         /\ \A x : x \in Entering => (act[c].pc \in InsertPcs /\ x = act[c].b) \/ x \in Entering'
<1>1. Entering = {act[d].b : d \in {e \in Clients : act[e].pc \in InsertPcs}}
  BY DEF Entering, InsertPcs
<1>2. Entering' = {act'[d].b : d \in {e \in Clients : act'[e].pc \in InsertPcs}}
  BY DEF Entering, InsertPcs
<1>3. \A d \in Clients : act'[d] = IF d = c THEN a ELSE act[d]
  OBVIOUS
<1>4. ASSUME NEW x \in Entering' PROVE (a.pc \in InsertPcs /\ x = a.b) \/ x \in Entering
  <2>1. PICK d \in Clients : act'[d].pc \in InsertPcs /\ x = act'[d].b
    BY <1>2
  <2> QED BY <1>1, <1>3, <2>1
<1>5. ASSUME NEW x \in Entering PROVE (act[c].pc \in InsertPcs /\ x = act[c].b) \/ x \in Entering'
  <2>1. PICK d \in Clients : act[d].pc \in InsertPcs /\ x = act[d].b
    BY <1>1
  <2>2. CASE d = c
    BY <2>1, <2>2
  <2>3. CASE d # c
    <3>1. act'[d] = act[d]
      BY <1>3, <2>3
    <3> QED BY <1>2, <2>1, <3>1
  <2> QED BY <2>2, <2>3
<1>6. a.pc \in InsertPcs => a.b \in Entering'
  <2>1. act'[c] = a
    BY <1>3
  <2> QED BY <1>2, <2>1
<1>7. act[c].pc \in InsertPcs => act[c].b \in Entering
  BY <1>1
<1> QED BY <1>4, <1>5, <1>6, <1>7

(* A chain only depends on the links of its blocks.                           *)
LEMMA ChainKept ==
  ASSUME NEW n \in Nat, NEW f \in [1 .. n -> Blocks], NEW nx, NEW pv, NEW nx2, NEW pv2, Chain(n, f, nx, pv),
         \A x \in Members(n, f) : nx2[x] = nx[x] /\ pv2[x] = pv[x]
  PROVE  Chain(n, f, nx2, pv2)
BY DEF Chain, Members

(* A step that does not touch what is in the list.                            *)
LEMMA ListKept ==
  ASSUME HeapTypes, ClaimsOK, ListOK, NEW c \in Clients, NEW a, act' = [act EXCEPT ![c] = a],
         act[c].pc \notin {"head", "ends"}, a.pc \notin {"head", "ends"},
         \A x \in live : list'.next[x] = list.next[x] /\ list'.prev[x] = list.prev[x],
         list'.head = list.head, list'.tail = list.tail, Entered' = Entered
  PROVE  ListOK'
<1>1. \A d \in Clients : act'[d] = IF d = c THEN a ELSE act[d]
  BY DEF HeapTypes
<1>2. Entered \subseteq live
  BY DEF Entered
<1>3. ASSUME Whole PROVE Whole'
  <2>1. PICK n \in Nat : \E f \in [1 .. n -> Blocks] :
          Chain(n, f, list.next, list.prev) /\ EndsAt(n, f, list.head, list.tail) /\ Members(n, f) = Entered
    BY <1>3 DEF Whole
  <2>2. PICK f \in [1 .. n -> Blocks] :
          Chain(n, f, list.next, list.prev) /\ EndsAt(n, f, list.head, list.tail) /\ Members(n, f) = Entered
    BY <2>1
  <2>3. \A x \in Members(n, f) : list'.next[x] = list.next[x] /\ list'.prev[x] = list.prev[x]
    BY <1>2, <2>2
  <2>4. Chain(n, f, list'.next, list'.prev)
    BY <2>2, <2>3, ChainKept
  <2>5. EndsAt(n, f, list'.head, list'.tail) /\ Members(n, f) = Entered'
    BY <2>2
  <2> QED BY <2>4, <2>5 DEF Whole
<1>4. ASSUME NEW d \in Clients, act'[d].pc = "ends" PROVE HalfOut(act[d].b)'
  <2>1. d # c /\ act'[d] = act[d] /\ act[d].pc = "ends"
    BY <1>1, <1>4
  <2>2. PICK b : b = act[d].b
    OBVIOUS
  <2>3. HalfOut(b)
    BY <2>1, <2>2 DEF ListOK
  <2>4. PICK n \in Nat : \E f \in [1 .. n -> Blocks], k \in 0 .. n :
          /\ Chain(n, f, list.next, list.prev)
          /\ b \in Blocks /\ b \notin Members(n, f) /\ Members(n, f) \cup {b} = Entered
          /\ list.prev[b] = (IF k = 0 THEN 0 ELSE f[k]) /\ list.next[b] = (IF k = n THEN 0 ELSE f[k + 1])
          /\ list.head = (IF k = 0 THEN b ELSE f[1]) /\ list.tail = (IF k = n THEN b ELSE f[n])
    BY <2>3 DEF HalfOut
  <2>5. PICK f \in [1 .. n -> Blocks], k \in 0 .. n :
          /\ Chain(n, f, list.next, list.prev)
          /\ b \in Blocks /\ b \notin Members(n, f) /\ Members(n, f) \cup {b} = Entered
          /\ list.prev[b] = (IF k = 0 THEN 0 ELSE f[k]) /\ list.next[b] = (IF k = n THEN 0 ELSE f[k + 1])
          /\ list.head = (IF k = 0 THEN b ELSE f[1]) /\ list.tail = (IF k = n THEN b ELSE f[n])
    BY <2>4
  <2>6. /\ \A x \in Members(n, f) : list'.next[x] = list.next[x] /\ list'.prev[x] = list.prev[x]
        /\ list'.next[b] = list.next[b] /\ list'.prev[b] = list.prev[b]
    BY <1>2, <2>5
  <2>7. Chain(n, f, list'.next, list'.prev)
    BY <2>5, <2>6, ChainKept
  <2>8. HalfOut(b)'
    BY <2>5, <2>6, <2>7 DEF HalfOut
  <2> QED BY <2>1, <2>2, <2>8
<1>5. ASSUME NEW d \in Clients, act'[d].pc = "head"
      PROVE  list'.next[act'[d].b] = list'.head /\ list'.prev[act'[d].b] = 0
  <2>1. d # c /\ act'[d] = act[d] /\ act[d].pc = "head"
    BY <1>1, <1>5
  <2>2. act[d].b \in live
    <3>1. act[d].b # 0 /\ act[d].b \in Claims(act[d]) \cup {0}
      BY <2>1 DEF ClaimsOK, ActForm, Claims, InsertPcs
    <3> QED BY <3>1 DEF ClaimsOK
  <2> QED BY <2>1, <2>2 DEF ListOK
<1>6. (\A d \in Clients : act'[d].pc # "ends") => \A d \in Clients : act[d].pc # "ends"
  BY <1>1
<1>7. (\A d \in Clients : act'[d].pc # "ends") => Whole'
  BY <1>3, <1>6 DEF ListOK
<1> QED BY <1>4, <1>5, <1>7 DEF ListOK

(* A call that only goes on.                                                  *)
GoneOn(c, p, a) ==
  /\ a \in Acts /\ act' = [act EXCEPT ![c] = a]
  /\ a.pc = p /\ a.b = act[c].b /\ a.old = act[c].old /\ a.report = act[c].report

(* Moves gives the call a new place and leaves its other fields.               *)
LEMMA MovesOn ==
  ASSUME act \in [Clients -> Acts], NEW c \in Clients, NEW p \in HeapPcs, Moves(c, p)
  PROVE  \E a : GoneOn(c, p, a)
<1>1. act[c] \in Acts
  OBVIOUS
<1>2. PICK a : a = [pc |-> p, b |-> act[c].b, old |-> act[c].old, report |-> act[c].report]
  OBVIOUS
<1>3. a \in Acts
  BY <1>1, <1>2 DEF Acts
<1>4. [act[c] EXCEPT !.pc = p] = a
  BY <1>1, <1>2 DEF Acts
<1>5. act' = [act EXCEPT ![c] = a]
  BY <1>4 DEF Moves
<1>6. a.pc = p /\ a.b = act[c].b /\ a.old = act[c].old /\ a.report = act[c].report
  BY <1>2
<1>7. GoneOn(c, p, a)
  BY <1>3, <1>5, <1>6 DEF GoneOn
<1> QED BY <1>7

(* The blocks in the list stay when the call's way to it does.                *)
LEMMA EnteredSame ==
  ASSUME act \in [Clients -> Acts], NEW c \in Clients, NEW a, act' = [act EXCEPT ![c] = a],
         (act[c].pc \in InsertPcs) <=> (a.pc \in InsertPcs), a.pc \in InsertPcs => a.b = act[c].b, live' = live
  PROVE  Entered' = Entered
<1>1. /\ a.pc \in InsertPcs => a.b \in Entering'
      /\ act[c].pc \in InsertPcs => act[c].b \in Entering
      /\ \A x : x \in Entering' => (a.pc \in InsertPcs /\ x = a.b) \/ x \in Entering
      /\ \A x : x \in Entering => (act[c].pc \in InsertPcs /\ x = act[c].b) \/ x \in Entering'
  BY EnteringStep
<1>2. \A x : x \in Entering' <=> x \in Entering
  BY <1>1
<1>3. Entering' = Entering
  BY <1>2
<1> QED BY <1>3 DEF Entered

(* A step that changes neither the sets of blocks nor the list.               *)
LEMMA TypesKept ==
  ASSUME HeapTypes, NEW c \in Clients, NEW a \in Acts, act' = [act EXCEPT ![c] = a],
         UNCHANGED <<live, held, list>>, spin' \in {0, 1}
  PROVE  HeapTypes'
BY DEF HeapTypes

(* The block a call works on is in use, and not the application's.            *)
LEMMA HeadLive ==
  ASSUME ClaimsOK, NEW c \in Clients, act[c].pc \in InsertPcs \cup RemovePcs \cup {"report", "walk"}
  PROVE  act[c].b \in live /\ act[c].b \notin held /\ act[c].b # 0 /\ act[c].b \in Claims(act[c])
<1>1. act[c].b # 0 /\ act[c].b \in Claims(act[c])
  BY DEF ClaimsOK, ActForm, Claims, InsertPcs, RemovePcs
<1> QED BY <1>1 DEF ClaimsOK

(* Allocate: the block is new, and nobody knows it.                           *)
LEMMA AllocateInv ==
  ASSUME HeapTypes, ClaimsOK, ListOK, NEW c \in Clients, NEW old \in Addresses, NEW report \in BOOLEAN,
         act[c].pc \in {"idle", "walk"}, Allocate(c, old, report),
         held' \subseteq held, spin' \in {0, 1},
         old # 0 => old \in live /\ old \notin held' /\ \A d \in Clients : d # c => old \notin Claims(act[d])
  PROVE  /\ HeapTypes' /\ ClaimsOK' /\ ListOK'
         /\ \E a \in Acts : act' = [act EXCEPT ![c] = a] /\ a.pc = "insert"
<1>1. PICK b \in Blocks \ live :
        /\ live' = live \cup {b}
        /\ list' = [list EXCEPT !.next[b] = 0, !.prev[b] = 0]
        /\ act' = [act EXCEPT ![c] = [pc |-> "insert", b |-> b, old |-> old, report |-> report]]
  BY DEF Allocate
<1>2. PICK a : a = [pc |-> "insert", b |-> b, old |-> old, report |-> report]
  OBVIOUS
<1>3. a \in Acts /\ a.pc = "insert" /\ a.b = b /\ a.old = old /\ act' = [act EXCEPT ![c] = a]
  BY <1>1, <1>2, HeapNumbers DEF Acts, HeapPcs
<1>4. PICK hd, tl, nx, pv :
        /\ list = [head |-> hd, tail |-> tl, next |-> nx, prev |-> pv]
        /\ hd \in Addresses /\ tl \in Addresses /\ nx \in [Blocks -> Addresses] /\ pv \in [Blocks -> Addresses]
  BY DEF HeapTypes
<1>5. list' = [head |-> hd, tail |-> tl, next |-> [nx EXCEPT ![b] = 0], prev |-> [pv EXCEPT ![b] = 0]]
  BY <1>1, <1>4
<1>6. HeapTypes'
  <2>1. [nx EXCEPT ![b] = 0] \in [Blocks -> Addresses] /\ [pv EXCEPT ![b] = 0] \in [Blocks -> Addresses]
    BY <1>4, HeapNumbers
  <2>2. list' \in [head : Addresses, tail : Addresses, next : [Blocks -> Addresses], prev : [Blocks -> Addresses]]
    BY <1>4, <1>5, <2>1
  <2> QED BY <1>1, <1>3, <2>2 DEF HeapTypes
<1>7. b # 0 /\ b # old
  BY <1>1, HeapNumbers
<1>8. ClaimsOK'
  <2>1. ActForm(a)
    BY <1>3, <1>7 DEF ActForm, InsertPcs, RemovePcs
  <2>2. Claims(a) = {b, old} \ {0}
    BY <1>3 DEF Claims, InsertPcs
  <2>3. held' \subseteq live
    BY DEF HeapTypes
  <2>4. Claims(a) \subseteq live' \ held'
    BY <1>1, <2>2, <2>3
  <2>5. ASSUME NEW d \in Clients, d # c
        PROVE  Claims(act[d]) \subseteq live' \ held' /\ Claims(a) \cap Claims(act[d]) = {}
    <3>1. Claims(act[d]) \subseteq live \ held
      BY DEF ClaimsOK
    <3>2. b \notin Claims(act[d])
      BY <1>1, <3>1
    <3> QED BY <1>1, <2>2, <2>5, <3>1, <3>2
  <2> QED BY <1>3, <2>1, <2>4, <2>5, ClaimsStep DEF HeapTypes
<1>9. Entered' = Entered
  <2>1. act \in [Clients -> Acts] /\ act[c].pc \notin InsertPcs /\ a.pc \in InsertPcs
    BY <1>3 DEF HeapTypes, InsertPcs
  <2>2. /\ b \in Entering'
        /\ \A x : x \in Entering' => x = b \/ x \in Entering
        /\ \A x : x \in Entering => x \in Entering'
    BY <1>3, <2>1, EnteringStep
  <2> QED BY <1>1, <2>2 DEF Entered
<1>10. \A x \in live : list'.next[x] = list.next[x] /\ list'.prev[x] = list.prev[x]
  <2>1. \A x \in live : x \in Blocks /\ x # b
    BY <1>1 DEF HeapTypes
  <2> QED BY <1>4, <1>5, <2>1
<1>11. list'.head = list.head /\ list'.tail = list.tail
  BY <1>4, <1>5
<1>12. ListOK'
  <2>1. act[c].pc \notin {"head", "ends"} /\ a.pc \notin {"head", "ends"}
    BY <1>3
  <2> QED BY <1>3, <1>9, <1>10, <1>11, <2>1, ListKept
<1> QED BY <1>3, <1>6, <1>8, <1>12

(* A step that moves a call on and leaves the list.                           *)
LEMMA PlainInv ==
  ASSUME HeapInv, ~strayed, NEW c \in Clients, NEW a \in Acts, act' = [act EXCEPT ![c] = a],
         UNCHANGED <<live, list>>, held' \subseteq live, spin' \in {0, 1}, ExclusionOK', ClaimsOK',
         act[c].pc \notin {"head", "ends"}, a.pc \notin {"head", "ends"},
         (act[c].pc \in InsertPcs) <=> (a.pc \in InsertPcs), a.pc \in InsertPcs => a.b = act[c].b
  PROVE  HeapInv'
<1>1. HeapTypes /\ ClaimsOK /\ ExclusionOK /\ ListOK
  BY DEF HeapInv
<1>2. HeapTypes'
  BY <1>1 DEF HeapTypes
<1>3. Entered' = Entered
  BY <1>1, EnteredSame DEF HeapTypes
<1>4. ListOK'
  BY <1>1, <1>3, ListKept
<1> QED BY <1>2, <1>4 DEF HeapInv

(* One lemma for each step of the allocator.                                  *)
LEMMA MallocInv ==
  ASSUME HeapInv, NEW c \in Clients, Malloc(c)
  PROVE  HeapInv'
<1>1. ~strayed /\ act[c].pc = "idle" /\ Allocate(c, 0, FALSE) /\ UNCHANGED <<held, spin, strayed>>
  BY DEF Malloc, At
<1>2. HeapTypes /\ ClaimsOK /\ ExclusionOK /\ ListOK /\ spin' \in {0, 1} /\ act \in [Clients -> Acts]
  BY <1>1 DEF HeapInv, HeapTypes
<1>3. /\ HeapTypes' /\ ClaimsOK' /\ ListOK'
      /\ \E a \in Acts : act' = [act EXCEPT ![c] = a] /\ a.pc = "insert"
  BY <1>1, <1>2, HeapNumbers, AllocateInv
<1>4. ExclusionOK'
  BY <1>1, <1>2, <1>3, StaysOutside DEF InsidePcs
<1> QED BY <1>3, <1>4 DEF HeapInv

(* The old block is taken from the application first.                         *)
LEMMA ReallocInv ==
  ASSUME HeapInv, NEW c \in Clients, NEW p \in Blocks, Realloc(c, p)
  PROVE  HeapInv'
<1>1. /\ ~strayed /\ act[c].pc = "idle" /\ p \in held /\ Allocate(c, p, FALSE)
      /\ held' = held \ {p} /\ UNCHANGED <<spin, strayed>>
  BY DEF Realloc, At
<1>2. /\ HeapTypes /\ ClaimsOK /\ ExclusionOK /\ ListOK /\ spin' \in {0, 1}
      /\ act \in [Clients -> Acts] /\ held \subseteq live
  BY <1>1 DEF HeapInv, HeapTypes
<1>3. p \in Addresses /\ \A d \in Clients : p \notin Claims(act[d])
  BY <1>1, <1>2, HeapNumbers DEF ClaimsOK
<1>4. /\ HeapTypes' /\ ClaimsOK' /\ ListOK'
      /\ \E a \in Acts : act' = [act EXCEPT ![c] = a] /\ a.pc = "insert"
  BY <1>1, <1>2, <1>3, AllocateInv
<1>5. ExclusionOK'
  BY <1>1, <1>2, <1>4, StaysOutside DEF InsidePcs
<1> QED BY <1>4, <1>5 DEF HeapInv

(* A block to be freed is taken from the application.                         *)
LEMMA FreeInv ==
  ASSUME HeapInv, NEW c \in Clients, NEW p \in Blocks, Free(c, p)
  PROVE  HeapInv'
<1>1. /\ ~strayed /\ act[c].pc = "idle" /\ p \in held /\ held' = held \ {p}
      /\ UNCHANGED <<live, list, spin, allocs, strayed>>
  BY DEF Free, At
<1>2. PICK a : a = [pc |-> "remove", b |-> p, old |-> 0, report |-> FALSE]
  OBVIOUS
<1>3. /\ act' = [act EXCEPT ![c] = a] /\ a \in Acts
      /\ a.pc = "remove" /\ a.b = p /\ a.old = 0 /\ ~a.report
  <2>1. a \in Acts
    BY <1>2, HeapNumbers DEF Acts, HeapPcs
  <2> QED BY <1>2, <2>1 DEF Free
<1>4. /\ HeapTypes /\ ClaimsOK /\ ExclusionOK /\ ListOK
      /\ act \in [Clients -> Acts] /\ held \subseteq live /\ spin \in {0, 1}
  BY <1>1 DEF HeapInv, HeapTypes
<1>5. ClaimsOK'
  <2>1. ActForm(a)
    BY <1>3, HeapNumbers DEF ActForm, InsertPcs, RemovePcs
  <2>2. Claims(a) = {p}
    BY <1>3, HeapNumbers DEF Claims, InsertPcs, RemovePcs
  <2>3. \A d \in Clients : Claims(act[d]) \subseteq live \ held
    BY <1>4 DEF ClaimsOK
  <2>4. Claims(a) \subseteq live' \ held'
    BY <1>1, <1>4, <2>2
  <2>5. \A d \in Clients : Claims(act[d]) \subseteq live' \ held' /\ Claims(a) \cap Claims(act[d]) = {}
    BY <1>1, <2>2, <2>3
  <2> QED BY <1>3, <1>4, <2>1, <2>4, <2>5, ClaimsStep
<1>6. ExclusionOK'
  BY <1>1, <1>3, <1>4, StaysOutside DEF InsidePcs
<1> QED BY <1>1, <1>3, <1>4, <1>5, <1>6, PlainInv DEF InsertPcs

(* The call enters the list.                                                  *)
LEMMA LockInv ==
  ASSUME HeapInv, NEW c \in Clients, Lock(c)
  PROVE  HeapInv'
<1>1. /\ ~strayed /\ act[c].pc \in {"insert", "remove", "report"} /\ spin = 0 /\ spin' = 1
      /\ UNCHANGED <<live, held, list, allocs, strayed>>
  BY DEF Lock
<1>2. PICK p : p = CASE act[c].pc = "insert" -> "link" [] act[c].pc = "remove" -> "unlink" [] OTHER -> "walk"
  OBVIOUS
<1>3. /\ Moves(c, p) /\ p \in HeapPcs /\ p \in InsidePcs /\ p \notin {"head", "ends"}
      /\ act[c].pc = "insert" => p = "link"
      /\ act[c].pc = "remove" => p = "unlink"
      /\ act[c].pc = "report" => p = "walk"
  BY <1>1, <1>2 DEF Lock, HeapPcs, InsidePcs
<1>4. HeapTypes /\ ClaimsOK /\ ExclusionOK /\ ListOK /\ act \in [Clients -> Acts] /\ held \subseteq live
  BY <1>1 DEF HeapInv, HeapTypes
<1>5. PICK a : GoneOn(c, p, a)
  BY <1>3, <1>4, MovesOn
<1>6. /\ a \in Acts /\ act' = [act EXCEPT ![c] = a]
      /\ a.pc = p /\ a.b = act[c].b /\ a.old = act[c].old /\ a.report = act[c].report
  BY <1>5 DEF GoneOn
<1>7. ClaimsOK'
  <2>1. ActForm(act[c])
    BY <1>4 DEF ClaimsOK
  <2>2. ActForm(a) /\ Claims(a) \subseteq Claims(act[c])
    BY <1>1, <1>3, <1>6, <2>1 DEF ActForm, Claims, InsertPcs, RemovePcs
  <2> QED BY <1>1, <1>4, <1>6, <2>2, ClaimsShrink
<1>8. ExclusionOK'
  BY <1>1, <1>3, <1>4, <1>6, GoesInside
<1> QED BY <1>1, <1>3, <1>4, <1>6, <1>7, <1>8, PlainInv DEF InsertPcs

(* A report begins with a block for its text, or without one.                 *)
LEMMA ReportInv ==
  ASSUME HeapInv, NEW c \in Clients, Report(c)
  PROVE  HeapInv'
<1>1. ~strayed /\ act[c].pc = "idle" /\ UNCHANGED <<held, spin, strayed>>
  BY DEF Report, At
<1>2. /\ HeapTypes /\ ClaimsOK /\ ExclusionOK /\ ListOK /\ spin' \in {0, 1}
      /\ act \in [Clients -> Acts] /\ held \subseteq live
  BY <1>1 DEF HeapInv, HeapTypes
<1>3. CASE Allocate(c, 0, TRUE)
  <2>1. /\ HeapTypes' /\ ClaimsOK' /\ ListOK'
        /\ \E a \in Acts : act' = [act EXCEPT ![c] = a] /\ a.pc = "insert"
    BY <1>1, <1>2, <1>3, HeapNumbers, AllocateInv
  <2>2. ExclusionOK'
    BY <1>1, <1>2, <2>1, StaysOutside DEF InsidePcs
  <2> QED BY <2>1, <2>2 DEF HeapInv
<1>4. CASE Moves(c, "unlock") /\ UNCHANGED <<live, list>>
  <2>1. PICK a : GoneOn(c, "unlock", a)
    BY <1>2, <1>4, MovesOn DEF HeapPcs
  <2>2. /\ a \in Acts /\ act' = [act EXCEPT ![c] = a]
        /\ a.pc = "unlock" /\ a.b = act[c].b /\ a.old = act[c].old
    BY <2>1 DEF GoneOn
  <2>3. ActForm(a) /\ Claims(a) \subseteq Claims(act[c])
    <3>1. ActForm(act[c])
      BY <1>2 DEF ClaimsOK
    <3> QED BY <1>1, <2>2, <3>1 DEF ActForm, Claims, InsertPcs, RemovePcs
  <2>4. ClaimsOK'
    BY <1>1, <1>2, <1>4, <2>2, <2>3, ClaimsShrink
  <2>5. ExclusionOK'
    BY <1>1, <1>2, <2>2, StaysOutside DEF InsidePcs
  <2> QED BY <1>1, <1>2, <1>4, <2>2, <2>4, <2>5, PlainInv DEF InsertPcs
<1> QED BY <1>3, <1>4 DEF Report

(* A block in front of a chain.                                               *)
InFront(n, f, nx, pv, tl, b, f2) ==
  /\ f2 \in [1 .. n + 1 -> Blocks] /\ Chain(n + 1, f2, nx, pv) /\ EndsAt(n + 1, f2, b, tl)
  /\ Members(n + 1, f2) = Members(n, f) \cup {b}

(* Such a block gives a chain with one more block.                            *)
LEMMA ChainInsert ==
  ASSUME NEW n \in Nat, NEW f \in [1 .. n -> Blocks], NEW nx \in [Blocks -> Addresses],
         NEW pv \in [Blocks -> Addresses], NEW hd, NEW tl, NEW b \in Blocks,
         Chain(n, f, nx, pv), EndsAt(n, f, hd, tl), b \notin Members(n, f), nx[b] = hd, pv[b] = 0,
         NEW pv2, NEW tl2, pv2 = IF hd # 0 THEN [pv EXCEPT ![hd] = b] ELSE pv, tl2 = IF hd # 0 THEN tl ELSE b
  PROVE  \E f2 : InFront(n, f, nx, pv2, tl2, b, f2)
<1>1. PICK f2 : f2 = [i \in 1 .. n + 1 |-> IF i = 1 THEN b ELSE f[i - 1]]
  OBVIOUS
<1>2. /\ \A i \in 1 .. n : f[i] \in Blocks /\ f[i] # b /\ f[i] # 0 /\ i + 1 \in 1 .. n + 1 /\ f2[i + 1] = f[i]
      /\ f2[1] = b /\ 1 \in 1 .. n + 1
  BY <1>1, HeapNumbers DEF Members
<1>3. \A i \in 1 .. n + 1 : i # 1 => i - 1 \in 1 .. n /\ f2[i] = f[i - 1]
  BY <1>1
<1>4. f2 \in [1 .. n + 1 -> Blocks]
  BY <1>1, <1>3
<1>5. pv2 = IF hd # 0 THEN [pv EXCEPT ![hd] = b] ELSE pv
  OBVIOUS
<1>6. tl2 = IF hd # 0 THEN tl ELSE b
  OBVIOUS
<1>7. /\ n = 0 => hd = 0
      /\ n # 0 => hd = f[1] /\ hd # 0 /\ tl = f[n] /\ 1 \in 1 .. n /\ n \in 1 .. n
  BY <1>2 DEF EndsAt
<1>8. ASSUME NEW i \in 1 .. n + 1, NEW j \in 1 .. n + 1, f2[i] = f2[j] PROVE i = j
  <2>1. CASE i = 1
    <3>1. CASE j = 1
      BY <2>1, <3>1
    <3>2. CASE j # 1
      BY <1>2, <1>3, <1>8, <2>1, <3>2
    <3> QED BY <3>1, <3>2
  <2>2. CASE i # 1
    <3>1. CASE j = 1
      BY <1>2, <1>3, <1>8, <2>2, <3>1
    <3>2. CASE j # 1
      <4>1. i - 1 = j - 1
        BY <1>3, <1>8, <2>2, <3>2 DEF Chain
      <4> QED BY <4>1
    <3> QED BY <3>1, <3>2
  <2> QED BY <2>1, <2>2
<1>9. ASSUME NEW i \in 1 .. n + 1
      PROVE  nx[f2[i]] = (IF i = n + 1 THEN 0 ELSE f2[i + 1]) /\ pv2[f2[i]] = (IF i = 1 THEN 0 ELSE f2[i - 1])
  <2>1. CASE i = 1
    <3>1. nx[b] = (IF 1 = n + 1 THEN 0 ELSE f2[2])
      <4>1. CASE n = 0
        BY <1>7, <4>1
      <4>2. CASE n # 0
        BY <1>2, <1>7, <4>2
      <4> QED BY <4>1, <4>2
    <3>2. pv2[b] = 0
      <4>1. hd # 0 => hd \in Blocks /\ hd # b
        BY <1>2, <1>7
      <4> QED BY <1>5, <4>1
    <3> QED BY <1>2, <2>1, <3>1, <3>2
  <2>2. CASE i # 1
    <3>1. PICK k \in 1 .. n : k = i - 1
      BY <1>3, <2>2
    <3>2. f2[i] = f[k] /\ i = k + 1 /\ i + 1 = k + 2 /\ (i = n + 1 <=> k = n)
      BY <1>3, <2>2, <3>1
    <3>3. nx[f[k]] = (IF k = n THEN 0 ELSE f[k + 1]) /\ pv[f[k]] = (IF k = 1 THEN 0 ELSE f[k - 1])
      BY DEF Chain
    <3>4. k # n => k + 1 \in 1 .. n /\ f2[k + 2] = f[k + 1]
      <4>1. k # n => k + 1 \in 1 .. n /\ (k + 1) + 1 = k + 2
        OBVIOUS
      <4> QED BY <1>2, <4>1
    <3>5. nx[f2[i]] = (IF i = n + 1 THEN 0 ELSE f2[i + 1])
      BY <3>2, <3>3, <3>4
    <3>6. n # 0 /\ hd = f[1] /\ hd # 0
      BY <1>7
    <3>7. CASE k = 1
      <4>1. pv2[f[1]] = b
        BY <1>2, <1>5, <3>1, <3>6, <3>7
      <4> QED BY <1>2, <2>2, <3>2, <3>5, <3>7, <4>1
    <3>8. CASE k # 1
      <4>1. f[k] # f[1]
        BY <1>7, <3>6, <3>8 DEF Chain
      <4>2. pv2[f[k]] = pv[f[k]]
        BY <1>2, <1>5, <3>6, <4>1
      <4>3. k - 1 \in 1 .. n /\ k = (k - 1) + 1
        BY <3>8
      <4>4. f2[k] = f[k - 1]
        BY <1>2, <4>3
      <4> QED BY <2>2, <3>1, <3>2, <3>3, <3>5, <3>8, <4>2, <4>4
    <3> QED BY <3>7, <3>8
  <2> QED BY <2>1, <2>2
<1>10. Chain(n + 1, f2, nx, pv2)
  BY <1>8, <1>9 DEF Chain
<1>11. EndsAt(n + 1, f2, b, tl2)
  <2>1. n + 1 # 0
    OBVIOUS
  <2>2. f2[n + 1] = tl2
    BY <1>2, <1>6, <1>7
  <2> QED BY <1>2, <2>1, <2>2 DEF EndsAt
<1>12. Members(n + 1, f2) = Members(n, f) \cup {b}
  <2>1. ASSUME NEW x \in Members(n + 1, f2) PROVE x \in Members(n, f) \cup {b}
    <3>1. PICK i \in 1 .. n + 1 : x = f2[i]
      BY <2>1 DEF Members
    <3> QED BY <1>2, <1>3, <3>1 DEF Members
  <2>2. ASSUME NEW x \in Members(n, f) \cup {b} PROVE x \in Members(n + 1, f2)
    <3>1. CASE x = b
      BY <1>2, <3>1 DEF Members
    <3>2. CASE x # b
      <4>1. PICK i \in 1 .. n : x = f[i]
        BY <2>2, <3>2 DEF Members
      <4> QED BY <1>2, <4>1 DEF Members
    <3> QED BY <3>1, <3>2
  <2> QED BY <2>1, <2>2
<1>13. InFront(n, f, nx, pv2, tl2, b, f2)
  BY <1>4, <1>10, <1>11, <1>12 DEF InFront
<1> QED BY <1>13

(* A chain that leads around one of its blocks.                               *)
Around(n, f, nx, pv, hd, tl, b, k, f2) ==
  /\ f2 \in [1 .. n -> Blocks] /\ Chain(n, f2, nx, pv)
  /\ b \notin Members(n, f2) /\ Members(n, f2) \cup {b} = Members(n + 1, f)
  /\ pv[b] = (IF k = 0 THEN 0 ELSE f2[k]) /\ nx[b] = (IF k = n THEN 0 ELSE f2[k + 1])
  /\ hd = (IF k = 0 THEN b ELSE f2[1]) /\ tl = (IF k = n THEN b ELSE f2[n])

(* f is a chain of n + 1 blocks, k of them before b, whose neighbours' links   *)
(* become nx2 and pv2.                                                        *)
Relinks(n, f, nx, pv, hd, tl, k, b, nx2, pv2) ==
  /\ f \in [1 .. n + 1 -> Blocks] /\ Chain(n + 1, f, nx, pv) /\ EndsAt(n + 1, f, hd, tl) /\ b = f[k + 1]
  /\ nx2 = IF pv[b] # 0 THEN [nx EXCEPT ![pv[b]] = nx[b]] ELSE nx
  /\ pv2 = IF nx[b] # 0 THEN [pv EXCEPT ![nx[b]] = pv[b]] ELSE pv

(* Leading around a block of a chain gives a chain with one less.             *)
LEMMA ChainRemove ==
  ASSUME NEW n \in Nat, NEW f, NEW nx \in [Blocks -> Addresses], NEW pv \in [Blocks -> Addresses],
         NEW hd, NEW tl, NEW k \in 0 .. n, NEW b, NEW nx2, NEW pv2,
         Relinks(n, f, nx, pv, hd, tl, k, b, nx2, pv2)
  PROVE  \E f2 : Around(n, f, nx2, pv2, hd, tl, b, k, f2)
<1>0. /\ f \in [1 .. n + 1 -> Blocks] /\ Chain(n + 1, f, nx, pv) /\ EndsAt(n + 1, f, hd, tl) /\ b = f[k + 1]
      /\ nx2 = IF pv[b] # 0 THEN [nx EXCEPT ![pv[b]] = nx[b]] ELSE nx
      /\ pv2 = IF nx[b] # 0 THEN [pv EXCEPT ![nx[b]] = pv[b]] ELSE pv
  BY DEF Relinks
<1>1. PICK f2 : f2 = [i \in 1 .. n |-> IF i <= k THEN f[i] ELSE f[i + 1]]
  OBVIOUS
<1>2. nx2 = IF pv[b] # 0 THEN [nx EXCEPT ![pv[b]] = nx[b]] ELSE nx
  BY <1>0
<1>3. pv2 = IF nx[b] # 0 THEN [pv EXCEPT ![nx[b]] = pv[b]] ELSE pv
  BY <1>0
<1>4. /\ \A i \in 1 .. n + 1 : f[i] \in Blocks /\ f[i] # 0
      /\ \A i, j \in 1 .. n + 1 : f[i] = f[j] => i = j
      /\ \A i \in 1 .. n + 1 :
           nx[f[i]] = (IF i = n + 1 THEN 0 ELSE f[i + 1]) /\ pv[f[i]] = (IF i = 1 THEN 0 ELSE f[i - 1])
  BY <1>0, HeapNumbers DEF Chain
<1>5. k + 1 \in 1 .. n + 1 /\ b \in Blocks
  BY <1>0, <1>4
<1>6. nx[b] = (IF k = n THEN 0 ELSE f[k + 2]) /\ pv[b] = (IF k = 0 THEN 0 ELSE f[k])
  <2>1. (k + 1) + 1 = k + 2 /\ (k + 1) - 1 = k /\ (k + 1 = n + 1 <=> k = n) /\ (k + 1 = 1 <=> k = 0)
    OBVIOUS
  <2> QED BY <1>0, <1>4, <1>5, <2>1
<1>7. /\ k # n => k + 2 \in 1 .. n + 1 /\ nx[b] = f[k + 2] /\ nx[b] # 0 /\ nx[b] \in Blocks
      /\ k = n => nx[b] = 0
      /\ k # 0 => k \in 1 .. n + 1 /\ pv[b] = f[k] /\ pv[b] # 0 /\ pv[b] \in Blocks
      /\ k = 0 => pv[b] = 0
  <2>1. (k # n => k + 2 \in 1 .. n + 1) /\ (k # 0 => k \in 1 .. n + 1)
    OBVIOUS
  <2> QED BY <1>4, <1>6, <2>1
<1>8. ASSUME NEW i \in 1 .. n
      PROVE  /\ i <= k => f2[i] = f[i]
             /\ ~ (i <= k) => f2[i] = f[i + 1]
             /\ i \in 1 .. n + 1 /\ i + 1 \in 1 .. n + 1 /\ f2[i] \in Blocks /\ f2[i] # b
  <2>1. i \in 1 .. n + 1 /\ i + 1 \in 1 .. n + 1 /\ (i <= k => i # k + 1) /\ (~ (i <= k) => i + 1 # k + 1)
    OBVIOUS
  <2> QED BY <1>0, <1>1, <1>4, <1>5, <2>1
<1>9. f2 \in [1 .. n -> Blocks]
  BY <1>1, <1>8
<1>10. ASSUME NEW i \in 1 .. n, NEW j \in 1 .. n, f2[i] = f2[j] PROVE i = j
  <2>1. \A p, q \in 1 .. n + 1 : f[p] = f[q] => p = q
    BY <1>4
  <2>2. PICK p \in 1 .. n + 1 : p = (IF i <= k THEN i ELSE i + 1) /\ f2[i] = f[p]
    BY <1>8
  <2>3. PICK q \in 1 .. n + 1 : q = (IF j <= k THEN j ELSE j + 1) /\ f2[j] = f[q]
    BY <1>8
  <2>4. p = q
    BY <1>10, <2>1, <2>2, <2>3
  <2> QED BY <2>2, <2>3, <2>4
<1>11. ASSUME NEW i \in 1 .. n
       PROVE  nx2[f2[i]] = (IF i = n THEN 0 ELSE f2[i + 1]) /\ pv2[f2[i]] = (IF i = 1 THEN 0 ELSE f2[i - 1])
  <2>1. PICK p \in 1 .. n + 1 : p = (IF i <= k THEN i ELSE i + 1) /\ f2[i] = f[p]
    BY <1>8
  <2>2. nx[f[p]] = (IF p = n + 1 THEN 0 ELSE f[p + 1]) /\ pv[f[p]] = (IF p = 1 THEN 0 ELSE f[p - 1])
    BY <1>4
  <2>3. nx2[f2[i]] = (IF i = n THEN 0 ELSE f2[i + 1])
    <3>1. CASE i = k
      <4>1. p = k /\ k # 0 /\ pv[b] = f[p]
        BY <1>7, <2>1, <3>1
      <4>2. nx2[f[p]] = nx[b]
        BY <1>2, <1>7, <4>1
      <4>3. i # n => i + 1 \in 1 .. n /\ ~ (i + 1 <= k) /\ (i + 1) + 1 = k + 2
        BY <3>1
      <4>4. i # n => f2[i + 1] = f[k + 2]
        BY <1>8, <4>3
      <4> QED BY <1>6, <2>1, <3>1, <4>2, <4>4
    <3>2. CASE i # k
      <4>1. k # 0 => p # k
        BY <2>1, <3>2
      <4>2. k # 0 => f[p] # f[k]
        BY <1>4, <1>7, <4>1
      <4>3. nx2[f[p]] = nx[f[p]]
        BY <1>2, <1>4, <1>7, <4>2
      <4>4. i # n => i + 1 \in 1 .. n
        OBVIOUS
      <4>5. CASE i <= k
        <5>1. i < k /\ i # n /\ p = i /\ i + 1 <= k /\ p # n + 1
          BY <2>1, <3>2, <4>5
        <5>2. f2[i + 1] = f[i + 1]
          BY <1>8, <4>4, <5>1
        <5> QED BY <2>1, <2>2, <4>3, <5>1, <5>2
      <4>6. CASE ~ (i <= k)
        <5>1. p = i + 1 /\ (p = n + 1 <=> i = n) /\ ~ (i + 1 <= k) /\ (i + 1) + 1 = p + 1
          BY <2>1, <4>6
        <5>2. i # n => f2[i + 1] = f[p + 1]
          BY <1>8, <4>4, <5>1
        <5> QED BY <2>1, <2>2, <4>3, <5>1, <5>2
      <4> QED BY <4>5, <4>6
    <3> QED BY <3>1, <3>2
  <2>4. pv2[f2[i]] = (IF i = 1 THEN 0 ELSE f2[i - 1])
    <3>1. CASE i = k + 1
      <4>1. p = k + 2 /\ k # n /\ nx[b] = f[p]
        BY <1>7, <2>1, <3>1
      <4>2. pv2[f[p]] = pv[b]
        BY <1>3, <1>7, <4>1
      <4>3. i # 1 => k # 0 /\ i - 1 = k /\ k \in 1 .. n /\ k <= k
        BY <3>1
      <4>4. i # 1 => f2[i - 1] = f[k]
        BY <1>8, <4>3
      <4> QED BY <1>6, <2>1, <3>1, <4>2, <4>4
    <3>2. CASE i # k + 1
      <4>1. k # n => p # k + 2
        BY <2>1, <3>2
      <4>2. k # n => f[p] # f[k + 2]
        BY <1>4, <1>7, <4>1
      <4>3. pv2[f[p]] = pv[f[p]]
        BY <1>3, <1>4, <1>7, <4>2
      <4>4. i # 1 => i - 1 \in 1 .. n
        OBVIOUS
      <4>5. CASE i <= k
        <5>1. p = i /\ i - 1 <= k
          BY <2>1, <4>5
        <5>2. i # 1 => f2[i - 1] = f[i - 1]
          BY <1>8, <4>4, <5>1
        <5> QED BY <2>1, <2>2, <4>3, <5>1, <5>2
      <4>6. CASE ~ (i <= k)
        <5>1. p = i + 1 /\ p # 1 /\ i # 1 /\ ~ (i - 1 <= k) /\ (i - 1) + 1 = p - 1
          BY <2>1, <3>2, <4>6
        <5>2. f2[i - 1] = f[p - 1]
          BY <1>8, <4>4, <5>1
        <5> QED BY <2>1, <2>2, <4>3, <5>1, <5>2
      <4> QED BY <4>5, <4>6
    <3> QED BY <3>1, <3>2
  <2> QED BY <2>3, <2>4
<1>12. Chain(n, f2, nx2, pv2)
  BY <1>10, <1>11 DEF Chain
<1>13. b \notin Members(n, f2)
  BY <1>8 DEF Members
<1>14. Members(n, f2) \cup {b} = Members(n + 1, f)
  <2>1. ASSUME NEW x \in Members(n, f2) PROVE x \in Members(n + 1, f)
    <3>1. PICK i \in 1 .. n : x = f2[i]
      BY <2>1 DEF Members
    <3> QED BY <1>8, <3>1 DEF Members
  <2>2. ASSUME NEW x \in Members(n + 1, f), x # b PROVE x \in Members(n, f2)
    <3>1. PICK p \in 1 .. n + 1 : x = f[p]
      BY <2>2 DEF Members
    <3>2. p # k + 1
      BY <1>0, <2>2, <3>1
    <3>3. CASE p <= k
      <4>1. p \in 1 .. n /\ f2[p] = f[p]
        BY <1>8, <3>3
      <4> QED BY <3>1, <4>1 DEF Members
    <3>4. CASE ~ (p <= k)
      <4>1. p - 1 \in 1 .. n /\ ~ (p - 1 <= k) /\ (p - 1) + 1 = p
        BY <3>2, <3>4
      <4>2. f2[p - 1] = f[p]
        BY <1>8, <4>1
      <4> QED BY <3>1, <4>1, <4>2 DEF Members
    <3> QED BY <3>3, <3>4
  <2>3. b \in Members(n + 1, f)
    BY <1>0, <1>5 DEF Members
  <2> QED BY <2>1, <2>2, <2>3
<1>15. pv2[b] = (IF k = 0 THEN 0 ELSE f2[k]) /\ nx2[b] = (IF k = n THEN 0 ELSE f2[k + 1])
  <2>1. k # n => nx[b] # b
    BY <1>0, <1>4, <1>5, <1>7
  <2>2. k # 0 => pv[b] # b
    BY <1>0, <1>4, <1>5, <1>7
  <2>3. pv2[b] = pv[b] /\ nx2[b] = nx[b]
    BY <1>2, <1>3, <1>5, <1>7, <2>1, <2>2
  <2>4. k # 0 => k \in 1 .. n /\ k <= k
    OBVIOUS
  <2>5. k # 0 => f2[k] = f[k]
    BY <1>8, <2>4
  <2>6. k # n => k + 1 \in 1 .. n /\ ~ (k + 1 <= k) /\ (k + 1) + 1 = k + 2
    OBVIOUS
  <2>7. k # n => f2[k + 1] = f[k + 2]
    BY <1>8, <2>6
  <2> QED BY <1>6, <2>3, <2>5, <2>7
<1>16. hd = (IF k = 0 THEN b ELSE f2[1]) /\ tl = (IF k = n THEN b ELSE f2[n])
  <2>1. n + 1 # 0
    OBVIOUS
  <2>2. hd = f[1] /\ tl = f[n + 1]
    BY <1>0, <2>1 DEF EndsAt
  <2>3. k # 0 => 1 \in 1 .. n /\ 1 <= k
    OBVIOUS
  <2>4. k # 0 => f2[1] = f[1]
    BY <1>8, <2>3
  <2>5. k # n => n \in 1 .. n /\ ~ (n <= k)
    OBVIOUS
  <2>6. k # n => f2[n] = f[n + 1]
    BY <1>8, <2>5
  <2> QED BY <1>0, <2>2, <2>4, <2>6
<1>17. Around(n, f, nx2, pv2, hd, tl, b, k, f2)
  BY <1>9, <1>12, <1>13, <1>14, <1>15, <1>16 DEF Around
<1> QED BY <1>17

(* A call that is over claims nothing.                                        *)
LEMMA NothingFacts == /\ Nothing \in Acts /\ Nothing.pc = "idle" /\ ActForm(Nothing) /\ Claims(Nothing) = {}
BY HeapNumbers DEF Nothing, Acts, HeapPcs, ActForm, Claims, InsertPcs, RemovePcs

(* A report leaves the list and reallocates its text.                         *)
LEMMA ReportWalkInv ==
  ASSUME HeapInv, NEW c \in Clients, ReportWalk(c)
  PROVE  HeapInv'
<1>1. ~strayed /\ act[c].pc = "walk" /\ spin' = 0 /\ UNCHANGED <<held, strayed>>
  BY DEF ReportWalk, At
<1>2. /\ HeapTypes /\ ClaimsOK /\ ExclusionOK /\ ListOK /\ spin' \in {0, 1}
      /\ act \in [Clients -> Acts] /\ held \subseteq live
  BY <1>1 DEF HeapInv, HeapTypes
<1>3. CASE Allocate(c, act[c].b, TRUE)
  <2>1. PICK old : old = act[c].b
    OBVIOUS
  <2>2. old \in live /\ old \notin held /\ old \in Claims(act[c])
    BY <1>1, <1>2, <2>1, HeadLive
  <2>3. \A d \in Clients : d # c => old \notin Claims(act[d])
    BY <1>2, <2>2 DEF ClaimsOK
  <2>4. old \in Addresses
    BY <2>2, <1>2, HeapNumbers DEF HeapTypes
  <2>5. /\ HeapTypes' /\ ClaimsOK' /\ ListOK'
        /\ \E a \in Acts : act' = [act EXCEPT ![c] = a] /\ a.pc = "insert"
    BY <1>1, <1>2, <1>3, <2>1, <2>2, <2>3, <2>4, AllocateInv
  <2>6. ExclusionOK'
    BY <1>1, <1>2, <2>5, GoesOutside DEF InsidePcs
  <2> QED BY <2>5, <2>6 DEF HeapInv
<1>4. CASE Moves(c, "unlock") /\ UNCHANGED <<live, list, allocs>>
  <2>1. PICK a : GoneOn(c, "unlock", a)
    BY <1>2, <1>4, MovesOn DEF HeapPcs
  <2>2. /\ a \in Acts /\ act' = [act EXCEPT ![c] = a]
        /\ a.pc = "unlock" /\ a.b = act[c].b /\ a.old = act[c].old
    BY <2>1 DEF GoneOn
  <2>3. ActForm(a) /\ Claims(a) \subseteq Claims(act[c])
    <3>1. ActForm(act[c])
      BY <1>2 DEF ClaimsOK
    <3> QED BY <1>1, <2>2, <3>1 DEF ActForm, Claims, InsertPcs, RemovePcs
  <2>4. ClaimsOK'
    BY <1>1, <1>2, <1>4, <2>2, <2>3, ClaimsShrink
  <2>5. ExclusionOK'
    BY <1>1, <1>2, <2>2, GoesOutside DEF InsidePcs
  <2> QED BY <1>1, <1>2, <1>4, <2>2, <2>4, <2>5, PlainInv DEF InsertPcs
<1> QED BY <1>3, <1>4 DEF ReportWalk

(* A report that gives up lets its block go.                                  *)
LEMMA ReportFailsInv ==
  ASSUME HeapInv, NEW c \in Clients, ReportFails(c)
  PROVE  HeapInv'
<1>1. /\ ~strayed /\ act[c].pc = "walk" /\ spin' = 0 /\ act' = [act EXCEPT ![c] = Nothing]
      /\ UNCHANGED <<live, held, list, allocs, strayed>>
  BY DEF ReportFails, At
<1>2. /\ HeapTypes /\ ClaimsOK /\ ExclusionOK /\ ListOK /\ spin' \in {0, 1}
      /\ act \in [Clients -> Acts] /\ held \subseteq live
  BY <1>1 DEF HeapInv, HeapTypes
<1>3. ClaimsOK'
  BY <1>1, <1>2, NothingFacts, ClaimsShrink
<1>4. ExclusionOK'
  BY <1>1, <1>2, NothingFacts, GoesOutside DEF InsidePcs
<1> QED BY <1>1, <1>2, <1>3, <1>4, NothingFacts, PlainInv DEF InsertPcs

(* The last unlock of a report: if it strays, nothing is claimed any more.    *)
LEMMA ReportUnlockInv ==
  ASSUME HeapInv, NEW c \in Clients, ReportUnlock(c)
  PROVE  HeapInv'
<1>1. /\ ~strayed /\ act[c].pc = "unlock" /\ spin' = 0 /\ act' = [act EXCEPT ![c] = Nothing]
      /\ (strayed' <=> spin = 1) /\ held' = held \cup ({act[c].old} \ {0})
      /\ UNCHANGED <<live, list, allocs>>
  BY DEF ReportUnlock, At
<1>2. /\ HeapTypes /\ ClaimsOK /\ ExclusionOK /\ ListOK /\ spin \in {0, 1}
      /\ act \in [Clients -> Acts] /\ held \subseteq live
  BY <1>1 DEF HeapInv, HeapTypes
<1>3. Claims(act[c]) = {act[c].old} \ {0}
  BY <1>1 DEF Claims, InsertPcs, RemovePcs
<1>4. held' \subseteq live
  BY <1>1, <1>2, <1>3 DEF ClaimsOK
<1>5. HeapTypes'
  BY <1>1, <1>2, <1>4, NothingFacts DEF HeapTypes
<1>6. CASE spin = 1
  BY <1>1, <1>5, <1>6 DEF HeapInv
<1>7. CASE spin # 1
  <2>1. UNCHANGED spin
    BY <1>1, <1>2, <1>7
  <2>2. ASSUME NEW d \in Clients, d # c
        PROVE  Claims(act[d]) \subseteq live' \ held' /\ Claims(Nothing) \cap Claims(act[d]) = {}
    <3>1. Claims(act[d]) \subseteq live \ held /\ Claims(act[d]) \cap Claims(act[c]) = {}
      BY <1>2, <2>2 DEF ClaimsOK
    <3> QED BY <1>1, <1>3, <3>1, NothingFacts
  <2>3. ClaimsOK'
    BY <1>1, <1>2, <2>2, NothingFacts, ClaimsStep
  <2>4. ExclusionOK'
    BY <1>1, <1>2, <2>1, NothingFacts, StaysOutside DEF InsidePcs
  <2> QED BY <1>1, <1>2, <1>4, <2>3, <2>4, NothingFacts, PlainInv DEF InsertPcs
<1> QED BY <1>6, <1>7

(* What nobody else does while a call is inside.                              *)
LEMMA Alone ==
  ASSUME ExclusionOK, NEW c \in Clients, act[c].pc \in InsidePcs, NEW d \in Clients, d # c
  PROVE  act[d].pc \notin {"link", "head", "unlink", "ends", "walk"}
BY DEF ExclusionOK, InsidePcs

(* The new block's own links: the list does not lead through it yet.          *)
LEMMA LinkInv ==
  ASSUME HeapInv, NEW c \in Clients, Link(c)
  PROVE  HeapInv'
<1>1. /\ ~strayed /\ act[c].pc = "link" /\ Moves(c, "head") /\ UNCHANGED <<live, held, spin, allocs, strayed>>
      /\ list' = [list EXCEPT !.next[act[c].b] = list.head, !.prev[act[c].b] = 0]
  BY DEF Link, At
<1>2. /\ HeapTypes /\ ClaimsOK /\ ExclusionOK /\ ListOK /\ spin \in {0, 1} /\ act \in [Clients -> Acts]
      /\ held \subseteq live /\ live \subseteq Blocks
  BY <1>1 DEF HeapInv, HeapTypes
<1>3. PICK a : GoneOn(c, "head", a)
  BY <1>1, <1>2, MovesOn DEF HeapPcs
<1>4. /\ a \in Acts /\ act' = [act EXCEPT ![c] = a]
      /\ a.pc = "head" /\ a.b = act[c].b /\ a.old = act[c].old /\ a.report = act[c].report
  BY <1>3 DEF GoneOn
<1>5. PICK b : b = act[c].b
  OBVIOUS
<1>6. b \in live /\ b \in Blocks
  BY <1>1, <1>2, <1>5, HeadLive DEF InsertPcs
<1>7. PICK hd, tl, nx, pv :
        /\ list = [head |-> hd, tail |-> tl, next |-> nx, prev |-> pv]
        /\ hd \in Addresses /\ tl \in Addresses /\ nx \in [Blocks -> Addresses] /\ pv \in [Blocks -> Addresses]
  BY <1>2 DEF HeapTypes
<1>8. list.head = hd /\ list.tail = tl /\ list.next = nx /\ list.prev = pv
  BY <1>7
<1>9. list' = [head |-> hd, tail |-> tl, next |-> [nx EXCEPT ![b] = hd], prev |-> [pv EXCEPT ![b] = 0]]
  BY <1>1, <1>5, <1>7, <1>8
<1>10. HeapTypes'
  <2>1. [nx EXCEPT ![b] = hd] \in [Blocks -> Addresses] /\ [pv EXCEPT ![b] = 0] \in [Blocks -> Addresses]
    BY <1>7, HeapNumbers
  <2>2. list' \in [head : Addresses, tail : Addresses, next : [Blocks -> Addresses], prev : [Blocks -> Addresses]]
    BY <1>7, <1>9, <2>1
  <2> QED BY <1>1, <1>2, <1>4, <2>2 DEF HeapTypes
<1>11. ClaimsOK'
  <2>1. ActForm(act[c])
    BY <1>2 DEF ClaimsOK
  <2>2. ActForm(a) /\ Claims(a) \subseteq Claims(act[c])
    BY <1>1, <1>4, <2>1 DEF ActForm, Claims, InsertPcs, RemovePcs
  <2> QED BY <1>1, <1>2, <1>4, <2>2, ClaimsShrink
<1>12. ExclusionOK'
  BY <1>1, <1>2, <1>4, StaysOutside DEF InsidePcs
<1>13. Entered' = Entered /\ b \notin Entered
  <2>1. Entered' = Entered
    BY <1>1, <1>2, <1>4, EnteredSame DEF InsertPcs
  <2>2. b \in Entering
    BY <1>1, <1>2, <1>4, <1>5, EnteringStep DEF InsertPcs
  <2> QED BY <2>1, <2>2 DEF Entered
<1>14. \A d \in Clients : act'[d] = IF d = c THEN a ELSE act[d]
  BY <1>2, <1>4
<1>15. \A d \in Clients : d # c => act[d].pc # "head" /\ act[d].pc # "ends"
  BY <1>1, <1>2, Alone DEF InsidePcs
<1>16. Whole
  BY <1>1, <1>2, <1>15 DEF ListOK
<1>17. Whole'
  <2>1. PICK n \in Nat : \E f \in [1 .. n -> Blocks] :
          Chain(n, f, nx, pv) /\ EndsAt(n, f, hd, tl) /\ Members(n, f) = Entered
    BY <1>8, <1>16 DEF Whole
  <2>2. PICK f \in [1 .. n -> Blocks] :
          Chain(n, f, nx, pv) /\ EndsAt(n, f, hd, tl) /\ Members(n, f) = Entered
    BY <2>1
  <2>3. \A x \in Members(n, f) : [nx EXCEPT ![b] = hd][x] = nx[x] /\ [pv EXCEPT ![b] = 0][x] = pv[x]
    <3>1. \A x \in Members(n, f) : x \in Blocks /\ x # b
      BY <1>13, <2>2 DEF Members
    <3> QED BY <1>7, <3>1
  <2>4. Chain(n, f, [nx EXCEPT ![b] = hd], [pv EXCEPT ![b] = 0])
    BY <2>2, <2>3, ChainKept
  <2>5. Chain(n, f, list'.next, list'.prev) /\ EndsAt(n, f, list'.head, list'.tail) /\ Members(n, f) = Entered'
    BY <1>9, <1>13, <2>2, <2>4
  <2> QED BY <2>5 DEF Whole
<1>18. ListOK'
  <2>1. \A d \in Clients : act'[d].pc # "ends"
    BY <1>4, <1>14, <1>15
  <2>2. ASSUME NEW d \in Clients, act'[d].pc = "head"
        PROVE  list'.next[act'[d].b] = list'.head /\ list'.prev[act'[d].b] = 0
    <3>1. act'[d].b = b
      BY <1>4, <1>5, <1>14, <1>15, <2>2
    <3>2. list'.next[b] = hd /\ list'.head = hd /\ list'.prev[b] = 0
      BY <1>6, <1>7, <1>9
    <3> QED BY <3>1, <3>2
  <2> QED BY <1>17, <2>1, <2>2 DEF ListOK
<1> QED BY <1>10, <1>11, <1>12, <1>18 DEF HeapInv

(* The neighbours lead around the block, which the ends may still name.       *)
LEMMA UnlinkInv ==
  ASSUME HeapInv, NEW c \in Clients, Unlink(c)
  PROVE  HeapInv'
<1>1. ~strayed /\ act[c].pc = "unlink" /\ Moves(c, "ends") /\ UNCHANGED <<live, held, spin, allocs, strayed>>
  BY DEF Unlink, At
<1>2. /\ HeapTypes /\ ClaimsOK /\ ExclusionOK /\ ListOK /\ spin \in {0, 1} /\ act \in [Clients -> Acts]
      /\ held \subseteq live /\ live \subseteq Blocks
  BY <1>1 DEF HeapInv, HeapTypes
<1>3. PICK a : GoneOn(c, "ends", a)
  BY <1>1, <1>2, MovesOn DEF HeapPcs
<1>4. /\ a \in Acts /\ act' = [act EXCEPT ![c] = a]
      /\ a.pc = "ends" /\ a.b = act[c].b /\ a.old = act[c].old /\ a.report = act[c].report
  BY <1>3 DEF GoneOn
<1>5. PICK b : b = act[c].b
  OBVIOUS
<1>6. b \in live /\ b \in Blocks /\ b \in Claims(act[c])
  BY <1>1, <1>2, <1>5, HeadLive DEF RemovePcs
<1>7. PICK hd, tl, nx, pv :
        /\ list = [head |-> hd, tail |-> tl, next |-> nx, prev |-> pv]
        /\ hd \in Addresses /\ tl \in Addresses /\ nx \in [Blocks -> Addresses] /\ pv \in [Blocks -> Addresses]
  BY <1>2 DEF HeapTypes
<1>8. list.head = hd /\ list.tail = tl /\ list.next = nx /\ list.prev = pv
  BY <1>7
<1>9. PICK nx2 : nx2 = IF pv[b] # 0 THEN [nx EXCEPT ![pv[b]] = nx[b]] ELSE nx
  OBVIOUS
<1>10. PICK pv2 : pv2 = IF nx[b] # 0 THEN [pv EXCEPT ![nx[b]] = pv[b]] ELSE pv
  OBVIOUS
<1>11. list' = [head |-> hd, tail |-> tl, next |-> nx2, prev |-> pv2]
  <2>1. list' = [list EXCEPT !.prev = IF nx[b] # 0 THEN [list.prev EXCEPT ![nx[b]] = pv[b]] ELSE list.prev,
                             !.next = IF pv[b] # 0 THEN [list.next EXCEPT ![pv[b]] = nx[b]] ELSE list.next]
    BY <1>5, <1>8, Zenon DEF Unlink
  <2>2. list' = [list EXCEPT !.prev = pv2, !.next = nx2]
    BY <1>8, <1>9, <1>10, <2>1, Zenon
  <2> QED BY <1>7, <2>2
<1>12. nx2 \in [Blocks -> Addresses] /\ pv2 \in [Blocks -> Addresses]
  BY <1>6, <1>7, <1>9, <1>10
<1>13. HeapTypes'
  <2>1. list' \in [head : Addresses, tail : Addresses, next : [Blocks -> Addresses], prev : [Blocks -> Addresses]]
    BY <1>7, <1>11, <1>12
  <2> QED BY <1>1, <1>2, <1>4, <2>1 DEF HeapTypes
<1>14. ClaimsOK'
  <2>1. ActForm(act[c])
    BY <1>2 DEF ClaimsOK
  <2>2. ActForm(a) /\ Claims(a) \subseteq Claims(act[c])
    BY <1>1, <1>4, <2>1 DEF ActForm, Claims, InsertPcs, RemovePcs
  <2> QED BY <1>1, <1>2, <1>4, <2>2, ClaimsShrink
<1>15. ExclusionOK'
  BY <1>1, <1>2, <1>4, StaysOutside DEF InsidePcs
<1>16. Entered' = Entered
  BY <1>1, <1>2, <1>4, EnteredSame DEF InsertPcs
<1>17. b \in Entered
  <2>1. SUFFICES ASSUME b \in Entering PROVE FALSE
    BY <1>6 DEF Entered
  <2>2. PICK d \in Clients : act[d].pc \in InsertPcs /\ act[d].b = b
    BY <2>1 DEF Entering, InsertPcs
  <2>3. b \in Claims(act[d])
    BY <1>2, <2>2, HeadLive
  <2>4. d # c
    BY <1>1, <2>2 DEF InsertPcs
  <2> QED BY <1>2, <1>6, <2>3, <2>4 DEF ClaimsOK
<1>18. \A d \in Clients : act'[d] = IF d = c THEN a ELSE act[d]
  BY <1>2, <1>4
<1>19. \A d \in Clients : d # c => act[d].pc # "head" /\ act[d].pc # "ends"
  BY <1>1, <1>2, Alone DEF InsidePcs
<1>20. Whole
  BY <1>1, <1>2, <1>19 DEF ListOK
<1>21. HalfOut(act[c].b)'
  <2>1. PICK n1 \in Nat : \E f \in [1 .. n1 -> Blocks] :
          Chain(n1, f, nx, pv) /\ EndsAt(n1, f, hd, tl) /\ Members(n1, f) = Entered
    BY <1>8, <1>20 DEF Whole
  <2>2. PICK f \in [1 .. n1 -> Blocks] :
          Chain(n1, f, nx, pv) /\ EndsAt(n1, f, hd, tl) /\ Members(n1, f) = Entered
    BY <2>1
  <2>3. PICK m \in 1 .. n1 : f[m] = b
    BY <1>17, <2>2 DEF Members
  <2>4. PICK n \in Nat : n1 = n + 1
    <3>1. n1 - 1 \in Nat /\ n1 = (n1 - 1) + 1
      BY <2>3
    <3> QED BY <3>1
  <2>5. PICK k \in 0 .. n : m = k + 1
    <3>1. m - 1 \in 0 .. n /\ m = (m - 1) + 1
      BY <2>3, <2>4
    <3> QED BY <3>1
  <2>6. f \in [1 .. n + 1 -> Blocks] /\ Chain(n + 1, f, nx, pv) /\ EndsAt(n + 1, f, hd, tl) /\ b = f[k + 1]
    BY <2>2, <2>3, <2>4, <2>5
  <2>7. \E f2 : Around(n, f, nx2, pv2, hd, tl, b, k, f2)
    <3>1. Relinks(n, f, nx, pv, hd, tl, k, b, nx2, pv2)
      BY <1>9, <1>10, <2>6 DEF Relinks
    <3> QED BY <1>7, <3>1, ChainRemove
  <2>8. PICK f2 : Around(n, f, nx2, pv2, hd, tl, b, k, f2)
    BY <2>7
  <2>9. /\ f2 \in [1 .. n -> Blocks] /\ Chain(n, f2, nx2, pv2)
        /\ b \notin Members(n, f2) /\ Members(n, f2) \cup {b} = Entered
        /\ pv2[b] = (IF k = 0 THEN 0 ELSE f2[k]) /\ nx2[b] = (IF k = n THEN 0 ELSE f2[k + 1])
        /\ hd = (IF k = 0 THEN b ELSE f2[1]) /\ tl = (IF k = n THEN b ELSE f2[n])
    BY <2>2, <2>4, <2>8 DEF Around
  <2>10. list'.head = hd /\ list'.tail = tl /\ list'.next = nx2 /\ list'.prev = pv2
    BY <1>11
  <2>11. act'[c].b = b
    BY <1>4, <1>5, <1>18
  <2>12. HalfOut(b)'
    BY <1>6, <1>16, <2>9, <2>10 DEF HalfOut
  <2> QED BY <2>11, <2>12
<1>22. ListOK'
  <2>1. act'[c].pc = "ends" /\ \A d \in Clients : d # c => act'[d].pc # "ends" /\ act'[d].pc # "head"
    BY <1>4, <1>18, <1>19
  <2>2. \A d \in Clients : act'[d].pc = "ends" => d = c
    BY <2>1
  <2> QED BY <1>21, <2>1, <2>2 DEF ListOK
<1> QED BY <1>13, <1>14, <1>15, <1>22 DEF HeapInv

(* The ends of the list follow, and the block is freed.                       *)
LEMMA UnlinkedInv ==
  ASSUME HeapInv, NEW c \in Clients, Unlinked(c)
  PROVE  HeapInv'
<1>1. ~strayed /\ act[c].pc = "ends" /\ spin' = 0 /\ UNCHANGED <<held, allocs, strayed>>
  BY DEF Unlinked, At
<1>2. /\ HeapTypes /\ ClaimsOK /\ ExclusionOK /\ ListOK /\ act \in [Clients -> Acts]
      /\ held \subseteq live /\ live \subseteq Blocks
  BY <1>1 DEF HeapInv, HeapTypes
<1>3. PICK b : b = act[c].b
  OBVIOUS
<1>4. /\ live' = live \ {b}
      /\ list' = IF b = list.head THEN [list EXCEPT !.head = list.next[b]]
                 ELSE IF b = list.tail THEN [list EXCEPT !.tail = list.prev[b]]
                 ELSE list
  BY <1>3, Zenon DEF Unlinked
<1>5. b \in live /\ b \in Blocks /\ b \notin held /\ b \in Claims(act[c])
  BY <1>1, <1>2, <1>3, HeadLive DEF RemovePcs
<1>6. PICK a \in Acts :
        /\ act' = [act EXCEPT ![c] = a] /\ ActForm(a) /\ Claims(a) \subseteq Claims(act[c]) \ {b}
        /\ a.pc \in {"idle", "unlock"}
  <2>1. CASE act[c].report
    <3>1. Moves(c, "unlock")
      BY <2>1 DEF Unlinked
    <3>2. PICK a : GoneOn(c, "unlock", a)
      BY <1>2, <3>1, MovesOn DEF HeapPcs
    <3>3. /\ a \in Acts /\ act' = [act EXCEPT ![c] = a]
          /\ a.pc = "unlock" /\ a.old = act[c].old
      BY <3>2 DEF GoneOn
    <3>4. ActForm(act[c])
      BY <1>2 DEF ClaimsOK
    <3>5. b # act[c].old /\ Claims(act[c]) = {b, act[c].old} \ {0}
      BY <1>1, <1>3, <2>1, <3>4 DEF ActForm, Claims, InsertPcs, RemovePcs
    <3>6. ActForm(a) /\ Claims(a) = {act[c].old} \ {0}
      BY <3>3 DEF ActForm, Claims, InsertPcs, RemovePcs
    <3> QED BY <3>3, <3>5, <3>6
  <2>2. CASE ~ act[c].report
    <3>1. act' = [act EXCEPT ![c] = Nothing]
      BY <2>2 DEF Unlinked
    <3> QED BY <3>1, NothingFacts
  <2> QED BY <2>1, <2>2
<1>7. PICK hd, tl, nx, pv :
        /\ list = [head |-> hd, tail |-> tl, next |-> nx, prev |-> pv]
        /\ hd \in Addresses /\ tl \in Addresses /\ nx \in [Blocks -> Addresses] /\ pv \in [Blocks -> Addresses]
  BY <1>2 DEF HeapTypes
<1>8. list.head = hd /\ list.tail = tl /\ list.next = nx /\ list.prev = pv
  BY <1>7
<1>9. PICK hd2, tl2 :
        /\ hd2 = IF b = hd THEN nx[b] ELSE hd
        /\ tl2 = IF b # hd /\ b = tl THEN pv[b] ELSE tl
  OBVIOUS
<1>10. list' = [head |-> hd2, tail |-> tl2, next |-> nx, prev |-> pv]
  <2>1. CASE b = hd
    <3>1. list' = [list EXCEPT !.head = nx[b]]
      BY <1>4, <1>8, <2>1, Zenon
    <3> QED BY <1>7, <1>9, <2>1, <3>1
  <2>2. CASE b # hd /\ b = tl
    <3>1. list' = [list EXCEPT !.tail = pv[b]]
      BY <1>4, <1>8, <2>2, Zenon
    <3> QED BY <1>7, <1>9, <2>2, <3>1
  <2>3. CASE b # hd /\ b # tl
    <3>1. list' = list
      BY <1>4, <1>8, <2>3, Zenon
    <3> QED BY <1>7, <1>9, <2>3, <3>1
  <2> QED BY <2>1, <2>2, <2>3
<1>11. HeapTypes'
  <2>1. hd2 \in Addresses /\ tl2 \in Addresses
    BY <1>5, <1>7, <1>9
  <2>2. list' \in [head : Addresses, tail : Addresses, next : [Blocks -> Addresses], prev : [Blocks -> Addresses]]
    BY <1>7, <1>10, <2>1
  <2>3. live' \subseteq Blocks /\ held' \subseteq live' /\ spin' \in {0, 1} /\ act' \in [Clients -> Acts]
    BY <1>1, <1>2, <1>4, <1>5, <1>6
  <2> QED BY <2>2, <2>3 DEF HeapTypes
<1>12. ClaimsOK'
  <2>1. Claims(a) \subseteq live' \ held'
    BY <1>1, <1>2, <1>4, <1>6 DEF ClaimsOK
  <2>2. ASSUME NEW d \in Clients, d # c
        PROVE  Claims(act[d]) \subseteq live' \ held' /\ Claims(a) \cap Claims(act[d]) = {}
    <3>1. Claims(act[d]) \subseteq live \ held /\ Claims(act[c]) \cap Claims(act[d]) = {}
      BY <1>2, <2>2 DEF ClaimsOK
    <3> QED BY <1>1, <1>4, <1>5, <1>6, <3>1
  <2> QED BY <1>2, <1>6, <2>1, <2>2, ClaimsStep
<1>13. ExclusionOK'
  <2>1. act[c].pc \in InsidePcs /\ a.pc \notin InsidePcs
    BY <1>1, <1>6 DEF InsidePcs
  <2> QED BY <1>1, <1>2, <1>6, <2>1, GoesOutside
<1>14. Entered' = Entered \ {b}
  <2>1. act[c].pc \notin InsertPcs /\ a.pc \notin InsertPcs
    BY <1>1, <1>6 DEF InsertPcs
  <2>2. /\ \A x : x \in Entering' => (a.pc \in InsertPcs /\ x = a.b) \/ x \in Entering
        /\ \A x : x \in Entering => (act[c].pc \in InsertPcs /\ x = act[c].b) \/ x \in Entering'
    BY <1>2, <1>6, EnteringStep
  <2>3. \A x : x \in Entering' <=> x \in Entering
    BY <2>1, <2>2
  <2> QED BY <1>4, <2>3 DEF Entered
<1>15. \A d \in Clients : act'[d] = IF d = c THEN a ELSE act[d]
  BY <1>2, <1>6
<1>16. \A d \in Clients : act'[d].pc # "ends" /\ act'[d].pc # "head"
  <2>1. \A d \in Clients : d # c => act[d].pc # "head" /\ act[d].pc # "ends"
    BY <1>1, <1>2, Alone DEF InsidePcs
  <2> QED BY <1>6, <1>15, <2>1
<1>17. Whole'
  <2>1. HalfOut(b)
    BY <1>1, <1>2, <1>3 DEF ListOK
  <2>2. PICK n \in Nat : \E f \in [1 .. n -> Blocks], k \in 0 .. n :
          /\ Chain(n, f, nx, pv)
          /\ b \in Blocks /\ b \notin Members(n, f) /\ Members(n, f) \cup {b} = Entered
          /\ pv[b] = (IF k = 0 THEN 0 ELSE f[k]) /\ nx[b] = (IF k = n THEN 0 ELSE f[k + 1])
          /\ hd = (IF k = 0 THEN b ELSE f[1]) /\ tl = (IF k = n THEN b ELSE f[n])
    BY <1>8, <2>1 DEF HalfOut
  <2>3. PICK f \in [1 .. n -> Blocks], k \in 0 .. n :
          /\ Chain(n, f, nx, pv)
          /\ b \in Blocks /\ b \notin Members(n, f) /\ Members(n, f) \cup {b} = Entered
          /\ pv[b] = (IF k = 0 THEN 0 ELSE f[k]) /\ nx[b] = (IF k = n THEN 0 ELSE f[k + 1])
          /\ hd = (IF k = 0 THEN b ELSE f[1]) /\ tl = (IF k = n THEN b ELSE f[n])
    BY <2>2
  <2>4. \A i \in 1 .. n : f[i] # b
    BY <2>3 DEF Members
  <2>5. EndsAt(n, f, hd2, tl2)
    <3>1. CASE n = 0
      <4>1. k = 0 /\ hd2 = 0
        BY <1>9, <2>3, <3>1
      <4> QED BY <3>1, <4>1 DEF EndsAt
    <3>2. CASE n # 0 /\ k = 0
      <4>1. hd2 = f[1] /\ tl2 = f[n]
        BY <1>9, <2>3, <3>2
      <4> QED BY <3>2, <4>1 DEF EndsAt
    <3>3. CASE n # 0 /\ k # 0
      <4>1. 1 \in 1 .. n /\ n \in 1 .. n
        BY <3>3
      <4>2. hd = f[1] /\ hd # b
        BY <2>3, <2>4, <3>3, <4>1
      <4>3. tl2 = f[n]
        <5>1. CASE k = n
          BY <1>9, <2>3, <3>3, <4>2, <5>1
        <5>2. CASE k # n
          <6>1. tl = f[n] /\ tl # b
            BY <2>3, <2>4, <4>1, <5>2
          <6> QED BY <1>9, <6>1
        <5> QED BY <5>1, <5>2
      <4>4. hd2 = f[1]
        BY <1>9, <4>2
      <4> QED BY <3>3, <4>3, <4>4 DEF EndsAt
    <3> QED BY <3>1, <3>2, <3>3
  <2>6. Members(n, f) = Entered'
    BY <1>14, <2>3
  <2>7. Chain(n, f, list'.next, list'.prev) /\ EndsAt(n, f, list'.head, list'.tail)
    BY <1>10, <2>3, <2>5
  <2> QED BY <2>6, <2>7 DEF Whole
<1>18. ListOK'
  BY <1>16, <1>17 DEF ListOK
<1> QED BY <1>11, <1>12, <1>13, <1>18 DEF HeapInv

(* The list leads through the new block, and the call goes on.                *)
LEMMA InsertedInv ==
  ASSUME HeapInv, NEW c \in Clients, Inserted(c)
  PROVE  HeapInv'
<1>1. ~strayed /\ act[c].pc = "head" /\ spin' = 0 /\ UNCHANGED <<live, allocs, strayed>>
  BY DEF Inserted, At
<1>2. /\ HeapTypes /\ ClaimsOK /\ ExclusionOK /\ ListOK /\ act \in [Clients -> Acts]
      /\ held \subseteq live /\ live \subseteq Blocks
  BY <1>1 DEF HeapInv, HeapTypes
<1>3. PICK b : b = act[c].b
  OBVIOUS
<1>4. /\ list' = _list_insert(list, b)
      /\ held' = IF act[c].report THEN held ELSE held \cup {b}
  BY <1>3, Zenon DEF Inserted
<1>5. b \in live /\ b \in Blocks /\ b \notin held /\ b # 0 /\ b \in Claims(act[c])
  BY <1>1, <1>2, <1>3, HeadLive DEF InsertPcs
<1>6. /\ act[c] \in Acts /\ act[c].old \in Addresses /\ act[c].report \in BOOLEAN
      /\ b \in Addresses /\ act[c].b \in Addresses
  BY <1>2, <1>3 DEF Acts
<1>7. ActForm(act[c]) /\ Claims(act[c]) = {b, act[c].old} \ {0} /\ b # act[c].old
  <2>1. ActForm(act[c])
    BY <1>2 DEF ClaimsOK
  <2> QED BY <1>1, <1>3, <2>1 DEF ActForm, Claims, InsertPcs
<1>8. PICK a \in Acts :
        /\ act' = [act EXCEPT ![c] = a] /\ ActForm(a) /\ Claims(a) \subseteq Claims(act[c])
        /\ b \in Claims(a) => act[c].report
        /\ a.pc \in {"idle", "remove", "report"}
  <2>1. CASE act[c].old # 0
    <3>1. PICK a : a = [pc |-> "remove", b |-> act[c].old, old |-> act[c].b, report |-> act[c].report]
      OBVIOUS
    <3>2. act' = [act EXCEPT ![c] = a]
      BY <2>1, <3>1, Zenon DEF Inserted
    <3>3. a \in Acts /\ a.pc = "remove" /\ a.b = act[c].old /\ a.old = b /\ a.report = act[c].report
      BY <1>3, <1>6, <3>1 DEF Acts, HeapPcs
    <3>4. ActForm(a)
      BY <1>7, <2>1, <3>3 DEF ActForm, InsertPcs, RemovePcs
    <3>5. Claims(a) = (IF a.report THEN {a.b, a.old} ELSE {a.b}) \ {0}
      BY <3>3 DEF Claims, InsertPcs, RemovePcs
    <3>6. Claims(a) \subseteq Claims(act[c]) /\ (b \in Claims(a) => act[c].report)
      BY <1>7, <3>3, <3>5
    <3> QED BY <3>2, <3>3, <3>4, <3>6
  <2>2. CASE act[c].old = 0 /\ act[c].report
    <3>1. PICK a : a = [pc |-> "report", b |-> act[c].b, old |-> act[c].old, report |-> act[c].report]
      OBVIOUS
    <3>2. [act[c] EXCEPT !.pc = "report"] = a
      BY <1>6, <3>1 DEF Acts
    <3>3. act' = [act EXCEPT ![c] = [act[c] EXCEPT !.pc = "report"]]
      BY <2>2, Zenon DEF Inserted
    <3>4. act' = [act EXCEPT ![c] = a]
      BY <3>2, <3>3, Zenon
    <3>5. a \in Acts /\ a.pc = "report" /\ a.b = b /\ a.old = 0 /\ a.report
      BY <1>3, <1>6, <2>2, <3>1 DEF Acts, HeapPcs
    <3>6. ActForm(a) /\ Claims(a) = {b}
      BY <1>5, <3>5 DEF ActForm, Claims, InsertPcs, RemovePcs
    <3> QED BY <1>5, <2>2, <3>4, <3>5, <3>6
  <2>3. CASE act[c].old = 0 /\ ~ act[c].report
    <3>1. act' = [act EXCEPT ![c] = Nothing]
      BY <2>3, Zenon DEF Inserted
    <3> QED BY <3>1, NothingFacts
  <2> QED BY <2>1, <2>2, <2>3
<1>9. PICK hd, tl, nx, pv :
        /\ list = [head |-> hd, tail |-> tl, next |-> nx, prev |-> pv]
        /\ hd \in Addresses /\ tl \in Addresses /\ nx \in [Blocks -> Addresses] /\ pv \in [Blocks -> Addresses]
  BY <1>2 DEF HeapTypes
<1>10. list.head = hd /\ list.tail = tl /\ list.next = nx /\ list.prev = pv
  BY <1>9
<1>11. PICK pv2, tl2 :
         /\ pv2 = IF hd # 0 THEN [pv EXCEPT ![hd] = b] ELSE pv
         /\ tl2 = IF hd # 0 THEN tl ELSE b
  OBVIOUS
<1>12. list' = [head |-> b, tail |-> tl2, next |-> nx, prev |-> pv2]
  <2>1. CASE hd # 0
    <3>1. list' = [list EXCEPT !.prev[hd] = b, !.head = b]
      BY <1>4, <1>10, <2>1, Zenon DEF _list_insert
    <3>2. pv2 = [pv EXCEPT ![hd] = b] /\ tl2 = tl
      BY <1>11, <2>1
    <3> QED BY <1>9, <3>1, <3>2
  <2>2. CASE hd = 0
    <3>1. list' = [list EXCEPT !.head = b, !.tail = b]
      BY <1>4, <1>10, <2>2, Zenon DEF _list_insert
    <3>2. pv2 = pv /\ tl2 = b
      BY <1>11, <2>2
    <3> QED BY <1>9, <3>1, <3>2
  <2> QED BY <2>1, <2>2
<1>13. HeapTypes'
  <2>1. pv2 \in [Blocks -> Addresses] /\ tl2 \in Addresses
    BY <1>6, <1>9, <1>11
  <2>2. list' \in [head : Addresses, tail : Addresses, next : [Blocks -> Addresses], prev : [Blocks -> Addresses]]
    BY <1>6, <1>9, <1>12, <2>1
  <2>3. live' \subseteq Blocks /\ held' \subseteq live' /\ spin' \in {0, 1} /\ act' \in [Clients -> Acts]
    BY <1>1, <1>2, <1>4, <1>5, <1>8
  <2> QED BY <2>2, <2>3 DEF HeapTypes
<1>14. ClaimsOK'
  <2>1. Claims(a) \subseteq live' \ held'
    <3>1. Claims(a) \subseteq live \ held
      BY <1>2, <1>8 DEF ClaimsOK
    <3> QED BY <1>1, <1>4, <1>8, <3>1
  <2>2. ASSUME NEW d \in Clients, d # c
        PROVE  Claims(act[d]) \subseteq live' \ held' /\ Claims(a) \cap Claims(act[d]) = {}
    <3>1. Claims(act[d]) \subseteq live \ held /\ Claims(act[c]) \cap Claims(act[d]) = {}
      BY <1>2, <2>2 DEF ClaimsOK
    <3> QED BY <1>1, <1>4, <1>5, <1>8, <3>1
  <2> QED BY <1>2, <1>8, <2>1, <2>2, ClaimsStep
<1>15. ExclusionOK'
  <2>1. act[c].pc \in InsidePcs /\ a.pc \notin InsidePcs
    BY <1>1, <1>8 DEF InsidePcs
  <2> QED BY <1>1, <1>2, <1>8, <2>1, GoesOutside
<1>16. \A d \in Clients : act'[d] = IF d = c THEN a ELSE act[d]
  BY <1>2, <1>8
<1>17. Entered' = Entered \cup {b} /\ b \notin Entered
  <2>1. act[c].pc \in InsertPcs /\ a.pc \notin InsertPcs
    BY <1>1, <1>8 DEF InsertPcs
  <2>2. /\ act[c].pc \in InsertPcs => act[c].b \in Entering
        /\ \A x : x \in Entering' => (a.pc \in InsertPcs /\ x = a.b) \/ x \in Entering
        /\ \A x : x \in Entering => (act[c].pc \in InsertPcs /\ x = act[c].b) \/ x \in Entering'
    BY <1>2, <1>8, EnteringStep
  <2>3. b \notin Entering'
    <3>1. SUFFICES ASSUME b \in Entering' PROVE FALSE
      OBVIOUS
    <3>2. PICK d \in Clients : act'[d].pc \in InsertPcs /\ act'[d].b = b
      BY <3>1 DEF Entering, InsertPcs
    <3>3. d # c /\ act[d].pc \in InsertPcs /\ act[d].b = b
      BY <1>16, <2>1, <3>2
    <3>4. b \in Claims(act[d])
      BY <1>2, <3>3, HeadLive
    <3> QED BY <1>2, <1>5, <3>3, <3>4 DEF ClaimsOK
  <2> QED BY <1>1, <1>3, <1>5, <2>1, <2>2, <2>3 DEF Entered
<1>18. /\ \A d \in Clients : act'[d].pc # "ends" /\ act'[d].pc # "head"
       /\ \A d \in Clients : act[d].pc # "ends"
  <2>1. \A d \in Clients : d # c => act[d].pc # "head" /\ act[d].pc # "ends"
    BY <1>1, <1>2, Alone DEF InsidePcs
  <2> QED BY <1>1, <1>8, <1>16, <2>1
<1>19. Whole'
  <2>1. PICK n \in Nat : \E f \in [1 .. n -> Blocks] :
          Chain(n, f, nx, pv) /\ EndsAt(n, f, hd, tl) /\ Members(n, f) = Entered
    BY <1>2, <1>10, <1>18 DEF ListOK, Whole
  <2>2. PICK f \in [1 .. n -> Blocks] :
          Chain(n, f, nx, pv) /\ EndsAt(n, f, hd, tl) /\ Members(n, f) = Entered
    BY <2>1
  <2>3. nx[b] = hd /\ pv[b] = 0 /\ b \notin Members(n, f)
    BY <1>1, <1>2, <1>3, <1>10, <1>17, <2>2 DEF ListOK
  <2>4. PICK f2 : InFront(n, f, nx, pv2, tl2, b, f2)
    BY <1>5, <1>9, <1>11, <2>2, <2>3, ChainInsert
  <2>5. PICK m \in Nat : m = n + 1
    OBVIOUS
  <2>6. f2 \in [1 .. m -> Blocks] /\ Chain(m, f2, nx, pv2) /\ EndsAt(m, f2, b, tl2) /\ Members(m, f2) = Entered'
    BY <1>17, <2>2, <2>4, <2>5 DEF InFront
  <2>7. Chain(m, f2, list'.next, list'.prev) /\ EndsAt(m, f2, list'.head, list'.tail)
    BY <1>12, <2>6
  <2> QED BY <2>6, <2>7 DEF Whole
<1>20. ListOK'
  BY <1>18, <1>19 DEF ListOK
<1> QED BY <1>13, <1>14, <1>15, <1>20 DEF HeapInv

(* Nothing changes.                                                           *)
LEMMA HeapStutters ==
  ASSUME HeapInv, UNCHANGED heapVars
  PROVE  HeapInv'
<1>1. UNCHANGED <<live, held, list, spin, act, allocs, strayed>>
  BY DEF heapVars
<1>2. Entered' = Entered
  BY <1>1 DEF Entered, Entering
<1>3. HeapTypes => HeapTypes'
  BY <1>1 DEF HeapTypes
<1>4. ClaimsOK => ClaimsOK'
  BY <1>1 DEF ClaimsOK
<1>5. ExclusionOK => ExclusionOK'
  BY <1>1 DEF ExclusionOK
<1>6. Whole => Whole'
  BY <1>1, <1>2 DEF Whole
<1>7. ASSUME NEW b, HalfOut(b) PROVE HalfOut(b)'
  BY <1>1, <1>2, <1>7 DEF HalfOut
<1>8. ASSUME ListOK PROVE ListOK'
  <2>1. ASSUME NEW c \in Clients, act'[c].pc = "ends" PROVE HalfOut(act[c].b)'
    <3>1. PICK b : b = act[c].b
      OBVIOUS
    <3>2. HalfOut(b)'
      BY <1>1, <1>7, <1>8, <2>1, <3>1 DEF ListOK
    <3> QED BY <1>1, <3>1, <3>2
  <2> QED BY <1>1, <1>6, <1>8, <2>1 DEF ListOK
<1> QED BY <1>1, <1>3, <1>4, <1>5, <1>8 DEF HeapInv

(* Every step of a call.                                                      *)
LEMMA HeapSteps ==
  ASSUME HeapInv, NEW c \in Clients, HeapStep(c)
  PROVE  HeapInv'
BY MallocInv, ReportInv, ReallocInv, FreeInv, LockInv, LinkInv, InsertedInv, UnlinkInv, UnlinkedInv,
   ReportWalkInv, ReportFailsInv, ReportUnlockInv DEF HeapStep

(* The inductive invariant holds.                                             *)
LEMMA HeapInvariance == HeapSpec => []HeapInv
<1>1. HeapInv /\ [\E c \in Clients : HeapStep(c)]_heapVars => HeapInv'
  BY HeapStutters, HeapSteps
<1> QED BY HeapStart, <1>1, PTL DEF HeapSpec

(* The walk of oe_debug_malloc_check over the links nx from hd on.            *)
Walk(v, hd, nx) ==
  v = [i \in 0 .. MaxBlocks |-> IF i = 0 THEN hd ELSE IF v[i - 1] = 0 THEN 0 ELSE nx[v[i - 1]]]

(* What the walk over a chain visits: its blocks in order, then nothing.      *)
Visits(n, f) == [i \in 0 .. MaxBlocks |-> IF i < n THEN f[i + 1] ELSE 0]

(* It takes the walk's steps.                                                 *)
LEMMA ChainWalked ==
  ASSUME NEW n \in Nat, NEW f \in [1 .. n -> Blocks], NEW nx, NEW pv, NEW hd, NEW tl,
         Chain(n, f, nx, pv), EndsAt(n, f, hd, tl)
  PROVE  Walk(Visits(n, f), hd, nx)
<1>1. PICK v : v = Visits(n, f)
  OBVIOUS
<1>2. \A i \in 0 .. MaxBlocks : v[i] = IF i < n THEN f[i + 1] ELSE 0
  BY <1>1 DEF Visits
<1>3. ASSUME NEW i \in 0 .. MaxBlocks
      PROVE  v[i] = IF i = 0 THEN hd ELSE IF v[i - 1] = 0 THEN 0 ELSE nx[v[i - 1]]
  <2>1. i \in Nat /\ MaxBlocks \in Nat
    BY HeapNumbers
  <2>2. CASE i = 0
    BY <1>2, <2>1, <2>2 DEF EndsAt
  <2>3. CASE i # 0 /\ i <= n
    <3>1. i \in 1 .. n /\ i - 1 \in 0 .. MaxBlocks /\ i - 1 < n /\ (i - 1) + 1 = i /\ (i < n <=> i # n)
      BY <2>1, <2>3
    <3>2. v[i - 1] = f[i] /\ f[i] # 0
      BY <1>2, <3>1, HeapNumbers
    <3>3. nx[f[i]] = IF i = n THEN 0 ELSE f[i + 1]
      BY <3>1 DEF Chain
    <3>4. v[i] = IF i < n THEN f[i + 1] ELSE 0
      BY <1>2
    <3> QED BY <2>3, <3>1, <3>2, <3>3, <3>4
  <2>4. CASE ~ (i <= n)
    <3>1. i - 1 \in 0 .. MaxBlocks /\ ~ (i - 1 < n) /\ ~ (i < n) /\ i # 0
      BY <2>1, <2>4
    <3> QED BY <1>2, <3>1
  <2> QED BY <2>2, <2>3, <2>4
<1>4. v = [i \in 0 .. MaxBlocks |-> IF i = 0 THEN hd ELSE IF v[i - 1] = 0 THEN 0 ELSE nx[v[i - 1]]]
  <2>1. v = [i \in 0 .. MaxBlocks |-> v[i]]
    BY <1>1 DEF Visits
  <2> QED BY <1>3, <2>1
<1> QED BY <1>1, <1>4 DEF Walk

(* There is one such walk: two would have to differ at a least step.          *)
LEMMA OneWalk ==
  ASSUME NEW hd, NEW nx, NEW v, NEW w, Walk(v, hd, nx), Walk(w, hd, nx)
  PROVE  v = w
<1>1. \A i \in 0 .. MaxBlocks :
        /\ v[i] = IF i = 0 THEN hd ELSE IF v[i - 1] = 0 THEN 0 ELSE nx[v[i - 1]]
        /\ w[i] = IF i = 0 THEN hd ELSE IF w[i - 1] = 0 THEN 0 ELSE nx[w[i - 1]]
  BY Zenon DEF Walk
<1>2. v = [i \in 0 .. MaxBlocks |-> v[i]] /\ w = [i \in 0 .. MaxBlocks |-> w[i]]
  BY Zenon DEF Walk
<1>3. PICK D : D = {i \in 0 .. MaxBlocks : v[i] # w[i]}
  OBVIOUS
<1>4. D \subseteq Nat /\ MaxBlocks \in Nat
  BY <1>3, HeapNumbers
<1>5. D = {}
  <2>1. SUFFICES ASSUME D # {} PROVE FALSE
    OBVIOUS
  <2>2. PICK m \in D : \A y \in D : m <= y
    BY <1>4, <2>1, MinExists
  <2>3. m \in 0 .. MaxBlocks /\ v[m] # w[m] /\ m \in Nat
    BY <1>3, <1>4, <2>2
  <2>4. m # 0
    BY <1>1, <2>3
  <2>5. m - 1 \in 0 .. MaxBlocks /\ ~ (m <= m - 1)
    BY <1>4, <2>3, <2>4
  <2>6. v[m - 1] = w[m - 1]
    BY <1>3, <2>2, <2>5
  <2> QED BY <1>1, <2>3, <2>4, <2>6
<1>6. \A i \in 0 .. MaxBlocks : v[i] = w[i]
  BY <1>3, <1>5
<1> QED BY <1>2, <1>6

(* A chain is no longer than there are addresses, and its walk takes one step *)
(* for each of its blocks.                                                    *)
LEMMA ChainBounded ==
  ASSUME NEW n \in Nat, NEW f \in [1 .. n -> Blocks], NEW nx, NEW pv, Chain(n, f, nx, pv)
  PROVE  /\ n <= MaxBlocks /\ Cardinality(Members(n, f)) = n
         /\ Cardinality({i \in 0 .. MaxBlocks : Visits(n, f)[i] # 0}) = n
<1>1. MaxBlocks \in Nat
  BY HeapNumbers
<1>2. IsFiniteSet(1 .. n) /\ Cardinality(1 .. n) = n
  <2>1. n >= 1 => Cardinality(1 .. n) = n - 1 + 1
    BY FS_Interval
  <2>2. IsFiniteSet(1 .. n) /\ (1 > n => Cardinality(1 .. n) = 0)
    BY FS_Interval
  <2> QED BY <2>1, <2>2
<1>3. IsFiniteSet(Blocks) /\ Cardinality(Blocks) = MaxBlocks
  <2>1. MaxBlocks >= 1
    BY HeapAssumption
  <2>2. IsFiniteSet(1 .. MaxBlocks) /\ Cardinality(1 .. MaxBlocks) = MaxBlocks - 1 + 1
    BY <1>1, <2>1, FS_Interval
  <2> QED BY <1>1, <2>2 DEF Blocks
<1>4. \A i, j \in 1 .. n : f[i] = f[j] => i = j
  BY DEF Chain
<1>5. n <= MaxBlocks
  <2>1. f \in Injection(1 .. n, Blocks)
    BY <1>4 DEF Injection, IsInjective
  <2>2. Cardinality(1 .. n) <= Cardinality(Blocks)
    BY <1>3, <2>1, FS_Injection
  <2> QED BY <1>2, <1>3, <2>2
<1>6. Cardinality(Members(n, f)) = n
  <2>1. \A i \in 1 .. n : f[i] \in Members(n, f)
    BY DEF Members
  <2>2. f \in [1 .. n -> Members(n, f)]
    BY <2>1
  <2>3. \A x \in Members(n, f) : \E i \in 1 .. n : f[i] = x
    BY DEF Members
  <2>4. f \in Injection(1 .. n, Members(n, f)) /\ f \in Surjection(1 .. n, Members(n, f))
    BY <1>4, <2>2, <2>3 DEF Injection, Surjection, IsInjective
  <2>5. Cardinality(Members(n, f)) = Cardinality(1 .. n)
    BY <1>2, <2>4, FS_Surjection
  <2> QED BY <1>2, <2>5
<1>7. Cardinality({i \in 0 .. MaxBlocks : Visits(n, f)[i] # 0}) = n
  <2>1. \A i \in 0 .. MaxBlocks : Visits(n, f)[i] # 0 <=> i < n
    <3>1. \A i \in 0 .. MaxBlocks : Visits(n, f)[i] = IF i < n THEN f[i + 1] ELSE 0
      BY DEF Visits
    <3>2. \A i \in 0 .. MaxBlocks : i < n => i + 1 \in 1 .. n
      BY <1>1
    <3>3. \A i \in 1 .. n : f[i] # 0
      BY HeapNumbers
    <3> QED BY <3>1, <3>2, <3>3
  <2>2. {i \in 0 .. MaxBlocks : Visits(n, f)[i] # 0} = 0 .. n - 1
    <3>1. \A i : i \in 0 .. MaxBlocks /\ i < n <=> i \in 0 .. n - 1
      BY <1>1, <1>5
    <3> QED BY <2>1, <3>1
  <2>3. Cardinality(0 .. n - 1) = n
    <3>1. 0 \in Int /\ n - 1 \in Int
      OBVIOUS
    <3>2. Cardinality(0 .. n - 1) = IF 0 > n - 1 THEN 0 ELSE (n - 1) - 0 + 1
      BY <3>1, FS_Interval
    <3> QED BY <3>2
  <2> QED BY <2>2, <2>3
<1> QED BY <1>5, <1>6, <1>7

(* The steps of a walk up to the end of the list.                              *)
WalkSteps(v) == [i \in 1 .. Cardinality({i \in 0 .. MaxBlocks : v[i] # 0}) |-> v[i - 1]]

(* What oe_debug_malloc_check sees of a chain is the chain.                   *)
LEMMA CheckSeesChain ==
  ASSUME NEW n \in Nat, NEW f \in [1 .. n -> Blocks], Chain(n, f, list.next, list.prev),
         EndsAt(n, f, list.head, list.tail)
  PROVE  oe_debug_malloc_check = f
<1>1. PICK v : v = CHOOSE w : Walk(w, list.head, list.next)
  OBVIOUS
<1>2. Walk(Visits(n, f), list.head, list.next)
  BY ChainWalked
<1>3. Walk(v, list.head, list.next)
  BY <1>1, <1>2, Zenon
<1>4. v = Visits(n, f)
  BY <1>2, <1>3, OneWalk
<1>5. oe_debug_malloc_check = WalkSteps(v)
  <2>1. oe_debug_malloc_check = WalkSteps(CHOOSE w : Walk(w, list.head, list.next))
    BY Zenon DEF oe_debug_malloc_check, Walk, WalkSteps
  <2> QED BY <1>1, <2>1, Zenon
<1>6. n <= MaxBlocks /\ Cardinality({i \in 0 .. MaxBlocks : v[i] # 0}) = n
  BY <1>4, ChainBounded
<1>7. oe_debug_malloc_check = [i \in 1 .. n |-> v[i - 1]]
  BY <1>5, <1>6, Zenon DEF WalkSteps
<1>8. ASSUME NEW i \in 1 .. n PROVE v[i - 1] = f[i]
  <2>1. i - 1 \in 0 .. MaxBlocks /\ i - 1 < n /\ (i - 1) + 1 = i
    BY <1>6, HeapNumbers
  <2> QED BY <1>4, <2>1 DEF Visits
<1> QED BY <1>7, <1>8

(* The invariant says what is claimed of the list.                            *)
LEMMA HeapListed == HeapInv => BlocksListed
<1> SUFFICES ASSUME HeapInv, ~strayed PROVE BlocksListed
  BY DEF BlocksListed
<1>1. /\ HeapTypes /\ ClaimsOK /\ ExclusionOK /\ ListOK /\ spin \in {0, 1}
  BY DEF HeapInv, HeapTypes
<1>2. PICK inside : inside = {c \in Clients : act[c].pc \in InsidePcs}
  OBVIOUS
<1>3. Cardinality(inside) = spin
  <2>1. CASE \E c \in Clients : act[c].pc \in InsidePcs
    <3>1. PICK c \in Clients : act[c].pc \in InsidePcs
      BY <2>1
    <3>2. inside = {c}
      BY <1>1, <1>2, <3>1 DEF ExclusionOK
    <3>3. spin = 1
      BY <1>1, <2>1 DEF ExclusionOK
    <3> QED BY <3>2, <3>3, FS_Singleton
  <2>2. CASE ~ \E c \in Clients : act[c].pc \in InsidePcs
    <3>1. inside = {} /\ spin = 0
      BY <1>1, <1>2, <2>2 DEF ExclusionOK
    <3> QED BY <3>1, FS_EmptySet
  <2> QED BY <2>1, <2>2
<1>4. PICK seen : seen = oe_debug_malloc_check
  OBVIOUS
<1>5. ASSUME spin = 0
      PROVE  /\ ToSet(seen) = live \ Entering
             /\ Len(seen) = Cardinality(ToSet(seen))
             /\ \A i \in DOMAIN seen : list.prev[seen[i]] = IF i = 1 THEN 0 ELSE seen[i - 1]
             /\ seen # <<>> => list.tail = Last(seen)
  <2>1. \A c \in Clients : act[c].pc # "ends"
    BY <1>1, <1>5 DEF ExclusionOK, InsidePcs
  <2>2. PICK n \in Nat : \E f \in [1 .. n -> Blocks] :
          Chain(n, f, list.next, list.prev) /\ EndsAt(n, f, list.head, list.tail) /\ Members(n, f) = Entered
    BY <1>1, <2>1 DEF ListOK, Whole
  <2>3. PICK f \in [1 .. n -> Blocks] :
          Chain(n, f, list.next, list.prev) /\ EndsAt(n, f, list.head, list.tail) /\ Members(n, f) = Entered
    BY <2>2
  <2>4. seen = f
    BY <1>4, <2>3, CheckSeesChain
  <2>5. DOMAIN seen = 1 .. n /\ seen \in Seq(Blocks) /\ Len(seen) = n
    BY <2>4
  <2>6. ToSet(seen) = Members(n, f)
    BY <2>4, <2>5 DEF ToSet, Members
  <2>7. Cardinality(Members(n, f)) = n
    BY <2>3, ChainBounded
  <2>8. \A i \in 1 .. n : list.prev[f[i]] = IF i = 1 THEN 0 ELSE f[i - 1]
    BY <2>3 DEF Chain
  <2>9. seen # <<>> => list.tail = Last(seen)
    <3>1. seen # <<>> => n # 0
      BY <2>5
    <3> QED BY <2>3, <2>4, <2>5, <3>1 DEF EndsAt, Last
  <2> QED BY <2>3, <2>4, <2>5, <2>6, <2>7, <2>8, <2>9 DEF Entered
<1> QED BY <1>2, <1>3, <1>4, <1>5 DEF BlocksListed, InsidePcs

(* As long as no report has released a lock that another thread held, one     *)
(* thread at a time is inside the list, and whenever the lock is free         *)
(* oe_debug_malloc_check finds exactly the blocks that are in use.            *)
THEOREM BlocksStayListed == HeapSpec => []BlocksListed
BY HeapInvariance, HeapListed, PTL
=============================================================================
