------------------------- MODULE EnclaveLifeProofs -------------------------
(***************************************************************************)
(* Proofs about EnclaveLife for every set of threads, every number of       *)
(* enclaves and every switchless setting, when no ecall of a creation       *)
(* fails: a query reaches live enclaves only, and an enclave is complete or *)
(* gone.  (With a failed ecall both are false: the label done of            *)
(* oe_create_enclave frees the structure and leaves the rest.)              *)
(***************************************************************************)
EXTENDS EnclaveLife, FiniteSetTheorems, SequenceTheorems, TLAPS

(* The ecalls of a creation succeed. *)
Faultless == InitResults \subseteq {"OE_OK"} /\ EdlResults \subseteq {"OE_OK"}

(* Thread t is creating or terminating the enclave op[t].e. *)
Busy(t) == op[t].pc \in Creating \cup Terminating

(* The enclave is in the list: the application has it, or a call that has    *)
(* pushed and not removed it.                                                *)
ListedAt == (Creating \ {"build", "push", "fail"}) \cup (Terminating \ {"delete"})
Listed(e) == e \in mine \/ \E t \in Threads : op[t].pc \in ListedAt /\ op[t].e = e

(* A live enclave is in the hands of one call or of the application; it is   *)
(* mapped before it is pushed.                                               *)
HolderMeaning ==
    /\ \A t \in Threads : Busy(t) =>
          /\ op[t].e \in Enclaves /\ obj[op[t].e] = "alive" /\ op[t].e \notin mine
          /\ op[t].pc = "push" => op[t].e \in epc
          /\ \A u \in Threads \ {t} : Busy(u) => op[u].e # op[t].e
    /\ \A e \in mine : obj[e] = "alive"

(* The list holds the listed enclaves, each once, and they are mapped. *)
ListMeaning ==
    /\ \A i, j \in DOMAIN list : list[i] = list[j] => i = j
    /\ \A i \in DOMAIN list : Listed(list[i])
    /\ \A e \in Enclaves : Listed(e) => e \in epc /\ \E i \in DOMAIN list : list[i] = e

(* The lock of the list is held by the one query under way. *)
LockMeaning ==
    \A t \in Threads : /\ op[t].pc = "query" <=> listLock = t
                       /\ op[t].pc = "query" => op[t].i \in DOMAIN list

(* Which workers an enclave has. *)
Quiet(e) == e \notin manager /\ running[e] = NoWorkers
Settled(e) == IF e \in manager THEN running[e] = want[e] ELSE running[e] = NoWorkers

WorkersAt(pc, e) ==
    /\ pc \in {"build", "push", "dbgRead", "dbgWrite", "init", "fail",
               "destructor", "dbgRemove", "remove", "delete"} => Quiet(e)
    /\ pc \in {"hostWorkers", "initSwitchless", "enclaveWorkers", "spin"} => e \notin manager
    /\ pc \in {"started", "stop"} => Settled(e)

WorkerMeaning ==
    /\ \A e \in Enclaves : obj[e] # "alive" => Quiet(e)
    /\ \A e \in mine : Settled(e)
    /\ \A t \in Threads : Busy(t) => WorkersAt(op[t].pc, op[t].e)

(* The inductive invariant. *)
IInv == TypeOK /\ HolderMeaning /\ ListMeaning /\ LockMeaning /\ WorkerMeaning

-----------------------------------------------------------------------------
Pcs == {"idle", "query"} \cup Creating \cup Terminating
Calls == [pc : Pcs, e : 0 .. MaxEnclaves, i : Nat]

(* Only the call of t goes on. *)
Alone(t) == op' \in [Threads -> Calls] /\ \A u \in Threads \ {t} : op'[u] = op[u]

LEMMA GotoCall ==
  ASSUME TypeOK, NEW t \in Threads, NEW p \in Pcs, Goto(t, p)
  PROVE  Alone(t) /\ op'[t].pc = p /\ op'[t].e = op[t].e /\ op'[t].i = op[t].i
<1>1. op \in [Threads -> Calls]
  BY DEF TypeOK, Calls, Pcs
<1>2. op[t] \in Calls /\ op' = [op EXCEPT ![t] = [op[t] EXCEPT !.pc = p]]
  BY <1>1 DEF Goto
<1>3. PICK c : c = [op[t] EXCEPT !.pc = p]
  OBVIOUS
<1>4. c \in Calls /\ c.pc = p /\ c.e = op[t].e /\ c.i = op[t].i
  BY <1>2, <1>3 DEF Calls
<1> QED BY <1>1, <1>2, <1>3, <1>4 DEF Alone

LEMMA NewCall ==
  ASSUME TypeOK, NEW t \in Threads, NEW c \in Calls, op' = [op EXCEPT ![t] = c]
  PROVE  Alone(t) /\ op'[t] = c
BY DEF TypeOK, Calls, Pcs, Alone

LEMMA IdleCall ==
  Idle \in Calls /\ Idle.pc = "idle" /\ Idle.e = 0 /\ Idle.i = 0
BY BoundAssumption DEF Idle, NULL, Calls, Pcs

(* A call on an enclave begins. *)
CallOn(p, e) == [Idle EXCEPT !.pc = p, !.e = e]

LEMMA FirstCall ==
  ASSUME NEW p \in Pcs, NEW e \in Enclaves
  PROVE  CallOn(p, e) \in Calls /\ CallOn(p, e).pc = p /\ CallOn(p, e).e = e
<1>1. PICK a : a = [Idle EXCEPT !.pc = p]
  OBVIOUS
<1>2. a \in Calls /\ a.pc = p
  BY <1>1, IdleCall DEF Calls
<1>3. e \in 0 .. MaxEnclaves
  BY BoundAssumption DEF Enclaves
<1>4. CallOn(p, e) = [a EXCEPT !.e = e]
  BY <1>1, IdleCall DEF Calls, CallOn
<1> QED BY <1>2, <1>3, <1>4 DEF Calls

(* The list is as before, and so is who is in it. *)
LEMMA ListKept ==
  ASSUME ListMeaning, UNCHANGED list, TypeOK,
         \A d \in Enclaves : Listed(d)' <=> Listed(d),
         \A d \in Enclaves : Listed(d) => d \in epc'
  PROVE  ListMeaning'
<1>1. \A i \in DOMAIN list : list[i] \in Enclaves
  BY DEF TypeOK
<1> QED BY <1>1 DEF ListMeaning

(* The workers of an enclave do not depend on the call. *)
LEMMA WorkersKept ==
  ASSUME NEW e, NEW p, e \in manager' <=> e \in manager,
         running'[e] = running[e], want'[e] = want[e]
  PROVE  /\ Quiet(e)' <=> Quiet(e)
         /\ Settled(e)' <=> Settled(e)
         /\ WorkersAt(p, e)' <=> WorkersAt(p, e)
BY DEF Quiet, Settled, WorkersAt

(* The call of t goes on with its enclave, whose workers only may change. *)
LEMMA AdvanceStep ==
  ASSUME IInv, NEW t \in Threads, Busy(t), Alone(t),
         NEW e, op[t].e = e, op'[t].e = e,
         NEW p \in Creating \cup Terminating, op'[t].pc = p,
         p \in ListedAt <=> op[t].pc \in ListedAt,
         UNCHANGED <<obj, list, listLock, want, mine>>,
         epc \subseteq epc', epc' \subseteq Enclaves, p = "push" => e \in epc',
         manager' \subseteq Enclaves,
         running' \in [Enclaves -> [host : Nat, enclave : Nat]],
         dbgHead' \in 0 .. MaxEnclaves, dbgNext' \in [Enclaves -> 0 .. MaxEnclaves],
         \A d \in Enclaves \ {e} : (d \in manager' <=> d \in manager) /\ running'[d] = running[d],
         WorkersAt(p, e)'
  PROVE  IInv'
<1> USE DEF IInv
<1>1. TypeOK'
  BY DEF TypeOK, Alone, Calls, Pcs
<1>2. /\ e \in Enclaves /\ obj[e] = "alive" /\ e \notin mine /\ Busy(t)'
      /\ \A u \in Threads \ {t} : Busy(u) => op[u].e # e
      /\ \A u \in Threads \ {t} : op'[u] = op[u] /\ (Busy(u)' <=> Busy(u))
  BY DEF HolderMeaning, Alone, Busy
<1>3. HolderMeaning'
  BY <1>2 DEF HolderMeaning
<1>4. ASSUME NEW d \in Enclaves PROVE Listed(d)' <=> Listed(d)
  BY <1>2 DEF Listed
<1>5. ListMeaning'
  <2>1. \A d \in Enclaves : Listed(d) => d \in epc'
    BY DEF ListMeaning
  <2> QED BY <1>4, <2>1, ListKept
<1>6. LockMeaning'
  <2>1. op[t].pc # "query" /\ op'[t].pc # "query"
    BY DEF Busy, Creating, Terminating
  <2> QED BY <1>2, <2>1 DEF LockMeaning
<1>7. WorkerMeaning'
  <2>1. ASSUME NEW d \in Enclaves, d # e
        PROVE  (Quiet(d)' <=> Quiet(d)) /\ (Settled(d)' <=> Settled(d))
    BY <2>1, WorkersKept
  <2>2. ASSUME NEW d \in Enclaves, obj'[d] # "alive" PROVE Quiet(d)'
    <3>1. d # e /\ Quiet(d)
      BY <1>2, <2>2 DEF WorkerMeaning
    <3> QED BY <2>1, <3>1
  <2>3. ASSUME NEW d \in mine' PROVE Settled(d)'
    <3>1. d # e /\ d \in Enclaves /\ Settled(d)
      BY <1>2, <2>3 DEF WorkerMeaning, TypeOK
    <3> QED BY <2>1, <3>1
  <2>4. ASSUME NEW u \in Threads, Busy(u)' PROVE WorkersAt(op[u].pc, op[u].e)'
    <3>1. CASE u = t
      BY <3>1
    <3>2. CASE u # t
      <4>1. op[u].e \in Enclaves \ {e} /\ WorkersAt(op[u].pc, op[u].e) /\ op'[u] = op[u]
        BY <1>2, <2>4, <3>2 DEF HolderMeaning, WorkerMeaning
      <4>2. PICK d, q : d = op[u].e /\ q = op[u].pc
        OBVIOUS
      <4>3. WorkersAt(q, d)'
        BY <4>1, <4>2, WorkersKept
      <4> QED BY <4>1, <4>2, <4>3
    <3> QED BY <3>1, <3>2
  <2> QED BY <2>2, <2>3, <2>4 DEF WorkerMeaning
<1> QED BY <1>1, <1>3, <1>5, <1>6, <1>7

(* A step of the call that leaves the workers of all enclaves alone. *)
LEMMA GoStep ==
  ASSUME IInv, NEW t \in Threads, Busy(t), NEW p \in Creating \cup Terminating, Goto(t, p),
         p \in ListedAt <=> op[t].pc \in ListedAt,
         UNCHANGED <<obj, list, listLock, workerVars, mine>>,
         epc \subseteq epc', epc' \subseteq Enclaves, p = "push" => op[t].e \in epc',
         dbgHead' \in 0 .. MaxEnclaves, dbgNext' \in [Enclaves -> 0 .. MaxEnclaves],
         WorkersAt(op[t].pc, op[t].e) => WorkersAt(p, op[t].e)
  PROVE  IInv'
<1>1. TypeOK /\ WorkersAt(op[t].pc, op[t].e) /\ p \in Pcs
  BY DEF IInv, WorkerMeaning, Pcs
<1>2. Alone(t) /\ op'[t].pc = p /\ op'[t].e = op[t].e
  BY <1>1, GotoCall
<1>3. PICK e : e = op[t].e
  OBVIOUS
<1>4. WorkersAt(p, e)
  BY <1>1, <1>3
<1>5. WorkersAt(p, e)'
  BY <1>4, WorkersKept DEF workerVars
<1>6. /\ manager' \subseteq Enclaves
      /\ running' \in [Enclaves -> [host : Nat, enclave : Nat]]
      /\ \A d \in Enclaves \ {e} : (d \in manager' <=> d \in manager) /\ running'[d] = running[d]
      /\ UNCHANGED <<obj, list, listLock, want, mine>>
  BY <1>1 DEF TypeOK, workerVars
<1>7. op[t].e = e /\ op'[t].e = e /\ (p = "push" => e \in epc')
  BY <1>2, <1>3
<1> QED BY <1>2, <1>5, <1>6, <1>7, AdvanceStep

(* The creation, up to the first ecall. *)
LEMMA BuildStep ==
  ASSUME IInv, NEW t \in Threads, Build(t) \/ BuildFails(t) PROVE IInv'
<1> USE DEF Build, BuildFails
<1>1. TypeOK /\ Busy(t) /\ op[t].e \in Enclaves
  BY DEF IInv, HolderMeaning, Busy, Creating
<1>2. PICK p \in {"push", "fail"} : Goto(t, p) /\ (p = "push" => op[t].e \in epc')
  OBVIOUS
<1>3. /\ UNCHANGED <<obj, list, listLock, workerVars, mine>> /\ op[t].pc = "build"
      /\ dbgHead' \in 0 .. MaxEnclaves /\ dbgNext' \in [Enclaves -> 0 .. MaxEnclaves]
  BY <1>1 DEF TypeOK, listVars, dbgVars
<1>4. epc \subseteq epc' /\ epc' \subseteq Enclaves
  BY <1>1 DEF TypeOK
<1>5. /\ p \in Creating /\ p \notin ListedAt /\ op[t].pc \notin ListedAt
      /\ WorkersAt(op[t].pc, op[t].e) => WorkersAt(p, op[t].e)
  BY <1>2, <1>3 DEF Creating, Terminating, ListedAt, WorkersAt
<1> QED BY <1>1, <1>2, <1>3, <1>4, <1>5, GoStep

LEMMA PushFailsStep ==
  ASSUME IInv, NEW t \in Threads, PushFails(t) PROVE IInv'
<1> USE DEF PushFails
<1>1. TypeOK /\ Busy(t)
  BY DEF IInv, Busy, Creating
<1>2. /\ UNCHANGED <<obj, list, listLock, workerVars, mine>>
      /\ dbgHead' \in 0 .. MaxEnclaves /\ dbgNext' \in [Enclaves -> 0 .. MaxEnclaves]
      /\ epc \subseteq epc' /\ epc' \subseteq Enclaves
  BY <1>1 DEF TypeOK, listVars, dbgVars, memVars
<1>3. /\ "fail" \in Creating /\ "fail" \notin ListedAt /\ op[t].pc \notin ListedAt
      /\ WorkersAt(op[t].pc, op[t].e) => WorkersAt("fail", op[t].e)
  BY DEF Creating, Terminating, ListedAt, WorkersAt
<1> QED BY <1>1, <1>2, <1>3, GoStep

LEMMA DebugStep ==
  ASSUME IInv, NEW t \in Threads, DebugRead(t) \/ DebugWrite(t) PROVE IInv'
<1> USE DEF DebugRead, DebugWrite
<1>1. TypeOK /\ Busy(t) /\ op[t].e \in Enclaves
  BY DEF IInv, HolderMeaning, Busy, Creating
<1>2. PICK p \in {"dbgWrite", "init"} : Goto(t, p)
  OBVIOUS
<1>3. /\ UNCHANGED <<obj, list, listLock, workerVars, mine>> /\ op[t].pc \in {"dbgRead", "dbgWrite"}
      /\ epc \subseteq epc' /\ epc' \subseteq Enclaves
  BY <1>1 DEF TypeOK, listVars, memVars
<1>4. dbgHead' \in 0 .. MaxEnclaves /\ dbgNext' \in [Enclaves -> 0 .. MaxEnclaves]
  <2>1. dbgHead \in 0 .. MaxEnclaves /\ dbgNext \in [Enclaves -> 0 .. MaxEnclaves]
    BY <1>1 DEF TypeOK
  <2>2. op[t].e \in 0 .. MaxEnclaves
    BY <1>1, BoundAssumption DEF Enclaves
  <2>3. CASE DebugRead(t)
    BY <1>1, <2>1, <2>3
  <2>4. CASE DebugWrite(t)
    BY <2>1, <2>2, <2>4
  <2> QED BY <2>3, <2>4
<1>5. /\ p \in Creating /\ p \in ListedAt /\ op[t].pc \in ListedAt
      /\ WorkersAt(op[t].pc, op[t].e) => WorkersAt(p, op[t].e)
  BY <1>2, <1>3 DEF Creating, Terminating, ListedAt, WorkersAt
<1> QED BY <1>1, <1>2, <1>3, <1>4, <1>5, GoStep

(* The first ecall, and the one that tells the enclave of host workers. *)
LEMMA EcallStep ==
  ASSUME Faultless, IInv, NEW t \in Threads, Initialize(t) \/ InitSwitchless(t) PROVE IInv'
<1> USE DEF Initialize, InitSwitchless
<1>1. TypeOK /\ Busy(t) /\ op[t].e \in Enclaves
  BY DEF IInv, HolderMeaning, Busy, Creating
<1>2. /\ UNCHANGED <<obj, list, listLock, workerVars, mine>>
      /\ dbgHead' \in 0 .. MaxEnclaves /\ dbgNext' \in [Enclaves -> 0 .. MaxEnclaves]
      /\ epc \subseteq epc' /\ epc' \subseteq Enclaves
  BY <1>1 DEF TypeOK, listVars, dbgVars, memVars
<1>3. CASE Initialize(t)
  <2>1. PICK p \in {"started", "hostWorkers"} : Goto(t, p)
    BY <1>3 DEF Faultless
  <2>2. /\ p \in Creating /\ p \in ListedAt /\ op[t].pc \in ListedAt
        /\ WorkersAt(op[t].pc, op[t].e) => WorkersAt(p, op[t].e)
    BY <1>3, <2>1 DEF Creating, Terminating, ListedAt, WorkersAt, Quiet, Settled
  <2> QED BY <1>1, <1>2, <2>1, <2>2, GoStep
<1>4. CASE InitSwitchless(t)
  <2>1. Goto(t, "enclaveWorkers")
    BY <1>4 DEF Faultless
  <2>2. /\ "enclaveWorkers" \in Creating /\ "enclaveWorkers" \in ListedAt /\ op[t].pc \in ListedAt
        /\ WorkersAt(op[t].pc, op[t].e) => WorkersAt("enclaveWorkers", op[t].e)
    BY <1>4 DEF Creating, Terminating, ListedAt, WorkersAt
  <2> QED BY <1>1, <1>2, <2>1, <2>2, GoStep
<1> QED BY <1>3, <1>4

(* Destructor, and the removal from the debugger's list. *)
LEMMA DestructorStep ==
  ASSUME IInv, NEW t \in Threads, Destructor(t) \/ DebugRemove(t) PROVE IInv'
<1>1. TypeOK /\ Busy(t) /\ op[t].e \in Enclaves /\ op[t].pc \in {"destructor", "dbgRemove"}
  BY DEF IInv, HolderMeaning, Busy, Terminating, Destructor, DebugRemove
<1>2. PICK p \in {"dbgRemove", "remove"} : Goto(t, p)
  BY DEF Destructor, DebugRemove
<1>3. /\ UNCHANGED <<obj, list, listLock, workerVars, mine>>
      /\ epc \subseteq epc' /\ epc' \subseteq Enclaves
  BY <1>1 DEF TypeOK, listVars, memVars, Destructor, DebugRemove
<1>4. dbgHead' \in 0 .. MaxEnclaves /\ dbgNext' \in [Enclaves -> 0 .. MaxEnclaves]
  <2>1. CASE UNCHANGED dbgVars
    BY <1>1, <2>1 DEF TypeOK, dbgVars
  <2>2. CASE ~UNCHANGED dbgVars
    <3>1. \/ dbgHead' = dbgNext[op[t].e] /\ dbgNext' = [dbgNext EXCEPT ![op[t].e] = NULL]
          \/ /\ \E x : dbgNext' = [dbgNext EXCEPT ![x] = dbgNext[op[t].e], ![op[t].e] = NULL]
             /\ UNCHANGED dbgHead
      BY <2>2 DEF Destructor, DebugRemove
    <3>2. NULL \in 0 .. MaxEnclaves /\ dbgNext[op[t].e] \in 0 .. MaxEnclaves
      BY <1>1, BoundAssumption DEF TypeOK, NULL
    <3> QED BY <1>1, <3>1, <3>2 DEF TypeOK
  <2> QED BY <2>1, <2>2
<1>5. /\ p \in Terminating /\ p \in ListedAt /\ op[t].pc \in ListedAt
      /\ WorkersAt(op[t].pc, op[t].e) => WorkersAt(p, op[t].e)
  BY <1>1, <1>2 DEF Creating, Terminating, ListedAt, WorkersAt
<1> QED BY <1>1, <1>2, <1>3, <1>4, <1>5, GoStep

(* The workers start, one by one ... *)
LEMMA StartStep ==
  ASSUME Faultless, IInv, NEW t \in Threads, StartHostWorker(t) \/ StartEnclaveWorker(t)
  PROVE  IInv'
<1> USE DEF StartHostWorker, StartEnclaveWorker
<1>1. /\ TypeOK /\ Busy(t) /\ op[t].e \in Enclaves /\ WorkersAt(op[t].pc, op[t].e)
      /\ op[t].pc \in {"hostWorkers", "enclaveWorkers"}
  BY DEF IInv, HolderMeaning, WorkerMeaning, Busy, Creating
<1>2. PICK e \in Enclaves : e = op[t].e
  BY <1>1
<1>3. /\ UNCHANGED <<obj, list, listLock, want, mine, manager>>
      /\ dbgHead' \in 0 .. MaxEnclaves /\ dbgNext' \in [Enclaves -> 0 .. MaxEnclaves]
      /\ epc \subseteq epc' /\ epc' \subseteq Enclaves /\ manager' \subseteq Enclaves
  BY <1>1 DEF TypeOK, listVars, dbgVars, memVars
<1>4. CASE UNCHANGED op
  <2>1. /\ running' \in [Enclaves -> [host : Nat, enclave : Nat]]
        /\ \A d \in Enclaves \ {e} : running'[d] = running[d]
    <3>1. running \in [Enclaves -> [host : Nat, enclave : Nat]]
      BY <1>1 DEF TypeOK
    <3>2. \/ running' = running
          \/ running' = [running EXCEPT ![e].host = @ + 1]
          \/ running' = [running EXCEPT ![e].enclave = @ + 1]
      BY <1>2
    <3>3. CASE running' = running
      BY <3>1, <3>3
    <3>4. CASE running' = [running EXCEPT ![e].host = @ + 1]
      <4>1. PICK r : r = [running[e] EXCEPT !.host = @ + 1]
        OBVIOUS
      <4>2. r \in [host : Nat, enclave : Nat]
        BY <3>1, <4>1
      <4>3. running' = [running EXCEPT ![e] = r]
        BY <3>1, <3>4, <4>1
      <4> QED BY <3>1, <4>2, <4>3
    <3>5. CASE running' = [running EXCEPT ![e].enclave = @ + 1]
      <4>1. PICK r : r = [running[e] EXCEPT !.enclave = @ + 1]
        OBVIOUS
      <4>2. r \in [host : Nat, enclave : Nat]
        BY <3>1, <4>1
      <4>3. running' = [running EXCEPT ![e] = r]
        BY <3>1, <3>5, <4>1
      <4> QED BY <3>1, <4>2, <4>3
    <3> QED BY <3>2, <3>3, <3>4, <3>5
  <2>2. Alone(t)
    BY <1>1, <1>4 DEF TypeOK, Alone, Calls, Pcs
  <2>3. PICK p \in {"hostWorkers", "enclaveWorkers"} : p = op[t].pc
    BY <1>1
  <2>4. WorkersAt(p, e)'
    BY <1>1, <1>2, <1>3, <2>3 DEF WorkersAt
  <2>5. op[t].e = e /\ op'[t].e = e /\ op'[t].pc = p /\ p \in Creating
    BY <1>2, <1>4, <2>3 DEF Creating
  <2>6. \A d \in Enclaves \ {e} : (d \in manager' <=> d \in manager) /\ running'[d] = running[d]
    BY <1>3, <2>1
  <2> QED BY <1>1, <1>3, <2>1, <2>2, <2>3, <2>4, <2>5, <2>6, AdvanceStep
<1>5. CASE ~UNCHANGED op
  <2>1. Goto(t, "initSwitchless") /\ UNCHANGED running /\ op[t].pc = "hostWorkers"
    BY <1>5 DEF Faultless
  <2>2. /\ "initSwitchless" \in Creating /\ "initSwitchless" \in ListedAt /\ op[t].pc \in ListedAt
        /\ WorkersAt(op[t].pc, op[t].e) => WorkersAt("initSwitchless", op[t].e)
    BY <2>1 DEF Creating, Terminating, ListedAt, WorkersAt
  <2> QED BY <1>1, <1>3, <2>1, <2>2, GoStep DEF workerVars
<1> QED BY <1>4, <1>5

(* ... until they are all there, under a manager; and they all stop. *)
LEMMA ManagerStep ==
  ASSUME IInv, NEW t \in Threads, StartDone(t) \/ Stop(t) PROVE IInv'
<1> USE DEF StartDone, Stop
<1>1. /\ TypeOK /\ Busy(t) /\ op[t].e \in Enclaves /\ WorkersAt(op[t].pc, op[t].e)
      /\ op[t].pc \in {"enclaveWorkers", "stop"}
  BY DEF IInv, HolderMeaning, WorkerMeaning, Busy, Creating, Terminating
<1>2. PICK e \in Enclaves : e = op[t].e
  BY <1>1
<1>3. /\ UNCHANGED <<obj, list, listLock, want, mine>>
      /\ dbgHead' \in 0 .. MaxEnclaves /\ dbgNext' \in [Enclaves -> 0 .. MaxEnclaves]
      /\ epc \subseteq epc' /\ epc' \subseteq Enclaves /\ manager' \subseteq Enclaves
  BY <1>1 DEF TypeOK, listVars, dbgVars, memVars
<1>4. /\ running' \in [Enclaves -> [host : Nat, enclave : Nat]]
      /\ \A d \in Enclaves \ {e} : (d \in manager' <=> d \in manager) /\ running'[d] = running[d]
  <2>1. running \in [Enclaves -> [host : Nat, enclave : Nat]]
    BY <1>1 DEF TypeOK
  <2>2. NoWorkers \in [host : Nat, enclave : Nat]
    BY DEF NoWorkers
  <2>3. \/ running' = running \/ running' = [running EXCEPT ![e] = NoWorkers]
    BY <1>2
  <2>4. manager' = manager \cup {e} \/ manager' = manager \ {e}
    BY <1>2
  <2> QED BY <2>1, <2>2, <2>3, <2>4
<1>5. CASE StartDone(t)
  <2>1. /\ Alone(t) /\ op'[t].pc = "started" /\ op'[t].e = op[t].e
    BY <1>1, <1>5, GotoCall DEF Pcs, Creating
  <2>2. WorkersAt("started", e)'
    BY <1>2, <1>5 DEF WorkersAt, Settled
  <2>3. /\ "started" \in Creating \cup Terminating /\ "started" \in ListedAt
        /\ op[t].pc \in ListedAt
    BY <1>5 DEF Creating, Terminating, ListedAt
  <2> QED BY <1>1, <1>2, <1>3, <1>4, <2>1, <2>2, <2>3, AdvanceStep
<1>6. CASE Stop(t)
  <2>1. /\ Alone(t) /\ op'[t].pc = "destructor" /\ op'[t].e = op[t].e
    BY <1>1, <1>6, GotoCall DEF Pcs, Terminating
  <2>2. WorkersAt("destructor", e)'
    <3>1. Settled(e)
      BY <1>1, <1>2, <1>6 DEF WorkersAt
    <3>2. e \notin manager' /\ running'[e] = NoWorkers
      BY <1>1, <1>2, <1>6, <3>1 DEF Settled, TypeOK
    <3> QED BY <3>2 DEF WorkersAt, Quiet
  <2>3. /\ "destructor" \in Creating \cup Terminating /\ "destructor" \in ListedAt
        /\ op[t].pc \in ListedAt
    BY <1>6 DEF Creating, Terminating, ListedAt
  <2> QED BY <1>1, <1>2, <1>3, <1>4, <2>1, <2>2, <2>3, AdvanceStep
<1> QED BY <1>5, <1>6

-----------------------------------------------------------------------------
(* The steps that begin or end a call, or change the list.                   *)

LEMMA SameWorkers ==
  ASSUME UNCHANGED workerVars
  PROVE  \A e, p : /\ Quiet(e)' <=> Quiet(e)
                   /\ Settled(e)' <=> Settled(e)
                   /\ WorkersAt(p, e)' <=> WorkersAt(p, e)
BY DEF Quiet, Settled, WorkersAt, workerVars

(* Who the calls of the other threads are about. *)
LEMMA OtherCalls ==
  ASSUME IInv, NEW t \in Threads, Alone(t), NEW u \in Threads \ {t}
  PROVE  /\ op'[u] = op[u] /\ (Busy(u)' <=> Busy(u))
         /\ Busy(u) => /\ op[u].e \in Enclaves /\ obj[op[u].e] = "alive" /\ op[u].e \notin mine
                       /\ WorkersAt(op[u].pc, op[u].e)
                       /\ op[u].pc = "push" => op[u].e \in epc
                       /\ \A v \in Threads \ {u} : Busy(v) => op[v].e # op[u].e
         /\ op[u].pc \in ListedAt => Busy(u)
         /\ op[u].pc = "query" => ~Busy(u)
<1>1. op'[u] = op[u] /\ (Busy(u)' <=> Busy(u))
  BY DEF Alone, Busy
<1>2. Busy(u) => /\ op[u].e \in Enclaves /\ obj[op[u].e] = "alive" /\ op[u].e \notin mine
                 /\ WorkersAt(op[u].pc, op[u].e)
                 /\ op[u].pc = "push" => op[u].e \in epc
                 /\ \A v \in Threads \ {u} : Busy(v) => op[v].e # op[u].e
  BY DEF IInv, HolderMeaning, WorkerMeaning
<1>3. /\ op[u].pc \in ListedAt => Busy(u)
      /\ op[u].pc = "query" => ~Busy(u)
  BY DEF ListedAt, Busy, Creating, Terminating
<1> QED BY <1>1, <1>2, <1>3

LEMMA CreateInv ==
  ASSUME IInv, NEW t \in Threads, Create(t) PROVE IInv'
<1>1. PICK e \in Enclaves, s \in Settings :
        /\ obj[e] = "none"
        /\ obj' = [obj EXCEPT ![e] = "alive"]
        /\ want' = [want EXCEPT ![e] = s]
        /\ op' = [op EXCEPT ![t] = [Idle EXCEPT !.pc = "build", !.e = e]]
  BY DEF Create
<1>2. /\ TypeOK /\ op[t].pc = "idle" /\ UNCHANGED <<epc, list, listLock, manager, running, mine>>
      /\ UNCHANGED dbgVars
  BY IdleCall DEF IInv, Create, listVars
<1>3. PICK c : c = [Idle EXCEPT !.pc = "build", !.e = e]
  OBVIOUS
<1>4. c \in Calls /\ c.pc = "build" /\ c.e = e
  <2>1. "build" \in Pcs /\ e \in Enclaves
    BY DEF Pcs, Creating
  <2>2. c = CallOn("build", e)
    BY <1>3 DEF CallOn
  <2> QED BY <2>1, <2>2, FirstCall
<1>5. Alone(t) /\ op'[t] = c
  BY <1>1, <1>2, <1>3, <1>4, NewCall
<1>6. TypeOK'
  <2>1. obj' \in [Enclaves -> {"none", "alive", "freed"}]
    BY <1>1, <1>2 DEF TypeOK
  <2>2. want' \in [Enclaves -> [host : Nat, enclave : Nat]]
    BY <1>1, <1>2, SettingAssumption DEF TypeOK
  <2> QED BY <1>2, <1>5, <2>1, <2>2 DEF TypeOK, Alone, Calls, Pcs, dbgVars
<1>7. /\ obj'[e] = "alive" /\ \A d \in Enclaves \ {e} : obj'[d] = obj[d] /\ want'[d] = want[d]
      /\ e \notin mine /\ mine \subseteq Enclaves /\ Quiet(e)
      /\ \A d \in mine : obj[d] = "alive"
  BY <1>1, <1>2 DEF IInv, TypeOK, HolderMeaning, WorkerMeaning
<1>8. ~Busy(t) /\ Busy(t)' /\ op[t].pc \notin ListedAt /\ op'[t].pc \notin ListedAt
  BY <1>2, <1>4, <1>5 DEF Busy, ListedAt, Creating, Terminating
<1>9. HolderMeaning'
  <2>1. ASSUME NEW u \in Threads, Busy(u)', NEW v \in Threads \ {u}, Busy(v)'
        PROVE  op'[u].e # op'[v].e
    BY <1>1, <1>4, <1>5, <2>1, OtherCalls
  <2>2. ASSUME NEW u \in Threads, Busy(u)'
        PROVE  /\ op'[u].e \in Enclaves /\ obj'[op'[u].e] = "alive" /\ op'[u].e \notin mine'
               /\ op'[u].pc = "push" => op'[u].e \in epc'
    BY <1>2, <1>4, <1>5, <1>7, <2>2, OtherCalls
  <2>3. \A d \in mine' : obj'[d] = "alive"
    BY <1>2, <1>7
  <2> QED BY <2>1, <2>2, <2>3 DEF HolderMeaning
<1>10. ListMeaning'
  <2>1. \A d \in Enclaves : Listed(d)' <=> Listed(d)
    BY <1>2, <1>5, <1>8 DEF Listed, Alone
  <2>2. \A d \in Enclaves : Listed(d) => d \in epc'
    BY <1>2 DEF IInv, ListMeaning
  <2> QED BY <1>2, <2>1, <2>2, ListKept DEF IInv
<1>11. LockMeaning'
  BY <1>2, <1>4, <1>5 DEF IInv, LockMeaning, Alone
<1>12. WorkerMeaning'
  <2>1. \A d : Quiet(d)' <=> Quiet(d)
    BY <1>2 DEF Quiet
  <2>2. ASSUME NEW d \in Enclaves, obj'[d] # "alive" PROVE Quiet(d)'
    BY <1>7, <2>1, <2>2 DEF IInv, WorkerMeaning
  <2>3. ASSUME NEW d \in mine' PROVE Settled(d)'
    BY <1>2, <1>7, <2>3 DEF IInv, WorkerMeaning, Settled
  <2>4. ASSUME NEW u \in Threads, Busy(u)' PROVE WorkersAt(op[u].pc, op[u].e)'
    <3>1. CASE u = t
      <4>1. WorkersAt("build", e)'
        BY <1>7, <2>1 DEF WorkersAt
      <4> QED BY <1>4, <1>5, <3>1, <4>1
    <3>2. CASE u # t
      <4>1. /\ op'[u] = op[u] /\ op[u].e \in Enclaves \ {e} /\ WorkersAt(op[u].pc, op[u].e)
        BY <1>1, <1>5, <2>4, <3>2, OtherCalls
      <4>2. PICK d, q : d = op[u].e /\ q = op[u].pc
        OBVIOUS
      <4>3. WorkersAt(q, d)'
        BY <1>2, <1>7, <4>1, <4>2, WorkersKept
      <4> QED BY <4>1, <4>2, <4>3
    <3> QED BY <3>1, <3>2
  <2> QED BY <2>2, <2>3, <2>4 DEF WorkerMeaning
<1> QED BY <1>6, <1>9, <1>10, <1>11, <1>12 DEF IInv

(* The call of t ends, and its enclave, if it had one, is the application's  *)
(* or is freed.                                                              *)
LEMMA EndStep ==
  ASSUME IInv, NEW t \in Threads, Busy(t), Return(t), NEW e, e = op[t].e,
         \/ /\ op[t].pc \in ListedAt /\ Settled(e) /\ mine' = mine \cup {e}
            /\ UNCHANGED <<obj, epc>>
         \/ /\ op[t].pc \notin ListedAt /\ Quiet(e) /\ obj' = [obj EXCEPT ![e] = "freed"]
            /\ epc \ {e} \subseteq epc' /\ epc' \subseteq epc /\ UNCHANGED mine,
         UNCHANGED <<listVars, workerVars, dbgVars>>
  PROVE  IInv'
<1>1. /\ TypeOK /\ e \in Enclaves /\ obj[e] = "alive" /\ e \notin mine
      /\ \A u \in Threads \ {t} : Busy(u) => op[u].e # e
  BY DEF IInv, HolderMeaning
<1>2. Alone(t) /\ op'[t].pc = "idle" /\ op'[t].e = 0
  BY <1>1, IdleCall, NewCall DEF Return
<1>3. TypeOK'
  BY <1>1, <1>2 DEF TypeOK, Alone, Calls, Pcs, listVars, workerVars, dbgVars
<1>4. /\ ~Busy(t)' /\ op'[t].pc \notin ListedAt /\ op[t].pc # "query" /\ op'[t].pc # "query"
      /\ UNCHANGED <<list, listLock>>
  BY <1>2 DEF Busy, ListedAt, Creating, Terminating, listVars
<1>5. /\ mine' \subseteq mine \cup {e}
      /\ \A d \in Enclaves \ {e} : obj'[d] = obj[d]
      /\ \A d \in mine' : obj'[d] = "alive"
  BY <1>1 DEF TypeOK, IInv, HolderMeaning
<1>6. HolderMeaning'
  <2>1. ASSUME NEW u \in Threads, Busy(u)'
        PROVE  /\ u # t /\ op'[u].e \in Enclaves /\ obj'[op'[u].e] = "alive" /\ op'[u].e \notin mine'
               /\ op'[u] = op[u] /\ Busy(u) /\ (op'[u].pc = "push" => op'[u].e \in epc')
    <3>1. u # t
      BY <1>4, <2>1
    <3>2. /\ op'[u] = op[u] /\ Busy(u) /\ op[u].e \in Enclaves /\ obj[op[u].e] = "alive"
          /\ op[u].e \notin mine /\ op[u].e # e /\ (op[u].pc = "push" => op[u].e \in epc)
      BY <1>1, <1>2, <2>1, <3>1, OtherCalls
    <3> QED BY <1>5, <3>1, <3>2
  <2>2. ASSUME NEW u \in Threads, Busy(u)', NEW v \in Threads \ {u}, Busy(v)'
        PROVE  op'[u].e # op'[v].e
    BY <2>1, <2>2 DEF IInv, HolderMeaning
  <2> QED BY <1>5, <2>1, <2>2 DEF HolderMeaning
<1>7. ListMeaning'
  <2>1. op[t].pc \in ListedAt => Listed(e)
    BY DEF Listed
  <2>2. op[t].pc \notin ListedAt => ~Listed(e)
    <3>1. \A u \in Threads \ {t} : op[u].pc \in ListedAt => op[u].e # e
      BY <1>1, <1>2, OtherCalls
    <3> QED BY <1>1, <3>1 DEF Listed
  <2>3. ASSUME NEW d \in Enclaves PROVE Listed(d)' <=> Listed(d)
    <3>1. CASE d # e
      BY <1>2, <1>4, <3>1 DEF Listed, Alone
    <3>2. CASE d = e
      <4>1. CASE op[t].pc \in ListedAt
        BY <2>1, <3>2, <4>1 DEF Listed
      <4>2. CASE op[t].pc \notin ListedAt
        BY <1>1, <1>2, <1>4, <2>2, <3>2, <4>2 DEF Listed, Alone
      <4> QED BY <4>1, <4>2
    <3> QED BY <3>1, <3>2
  <2>4. \A d \in Enclaves : Listed(d) => d \in epc'
    BY <2>2 DEF IInv, ListMeaning
  <2> QED BY <1>1, <1>4, <2>3, <2>4, ListKept DEF IInv
<1>8. LockMeaning'
  BY <1>2, <1>4 DEF IInv, LockMeaning, Alone
<1>9. WorkerMeaning'
  <2>1. ASSUME NEW d \in Enclaves, obj'[d] # "alive" PROVE Quiet(d)'
    <3>1. Quiet(d)
      BY <1>1, <1>5, <2>1 DEF IInv, WorkerMeaning
    <3> QED BY <3>1, SameWorkers
  <2>2. ASSUME NEW d \in mine' PROVE Settled(d)'
    <3>1. Settled(d)
      BY <2>2 DEF IInv, WorkerMeaning
    <3> QED BY <3>1, SameWorkers
  <2>3. ASSUME NEW u \in Threads, Busy(u)' PROVE WorkersAt(op[u].pc, op[u].e)'
    <3>1. u # t
      BY <1>4, <2>3
    <3>2. op'[u] = op[u] /\ WorkersAt(op[u].pc, op[u].e)
      BY <1>2, <2>3, <3>1, OtherCalls
    <3>3. PICK d, q : d = op[u].e /\ q = op[u].pc
      OBVIOUS
    <3>4. WorkersAt(q, d)'
      BY <3>2, <3>3, SameWorkers
    <3> QED BY <3>2, <3>3, <3>4
  <2> QED BY <2>1, <2>2, <2>3 DEF WorkerMeaning
<1> QED BY <1>3, <1>6, <1>7, <1>8, <1>9 DEF IInv

LEMMA EndInv ==
  ASSUME IInv, NEW t \in Threads,
         CreateReturns(t) \/ CreateFails(t) \/ DestructorFails(t) \/ Delete(t)
  PROVE  IInv'
<1> USE DEF CreateReturns, CreateFails, DestructorFails, Delete
<1>1. Busy(t) /\ Return(t) /\ UNCHANGED <<listVars, workerVars, dbgVars>>
  BY DEF Busy, Creating, Terminating
<1>2. PICK e : e = op[t].e
  OBVIOUS
<1>3. WorkersAt(op[t].pc, e)
  BY <1>1, <1>2 DEF IInv, WorkerMeaning
<1>4. CASE CreateReturns(t) \/ DestructorFails(t)
  <2>1. /\ op[t].pc \in ListedAt /\ Settled(e) /\ mine' = mine \cup {e} /\ UNCHANGED <<obj, epc>>
    BY <1>2, <1>3, <1>4 DEF ListedAt, Creating, Terminating, WorkersAt, Settled, Quiet, memVars
  <2> QED BY <1>1, <1>2, <2>1, EndStep
<1>5. CASE CreateFails(t) \/ Delete(t)
  <2>1. /\ op[t].pc \notin ListedAt /\ Quiet(e) /\ obj' = [obj EXCEPT ![e] = "freed"]
        /\ epc \ {e} \subseteq epc' /\ epc' \subseteq epc /\ UNCHANGED mine
    BY <1>2, <1>3, <1>5 DEF ListedAt, Creating, Terminating, WorkersAt
  <2> QED BY <1>1, <1>2, <2>1, EndStep
<1> QED BY <1>4, <1>5

LEMMA TerminateInv ==
  ASSUME IInv, NEW t \in Threads, Terminate(t) PROVE IInv'
<1>1. PICK e \in mine : /\ op' = [op EXCEPT ![t] = [Idle EXCEPT !.pc = "stop", !.e = e]]
                        /\ mine' = mine \ {e}
  BY DEF Terminate
<1>2. /\ TypeOK /\ op[t].pc = "idle" /\ e \in Enclaves /\ obj[e] = "alive" /\ Settled(e)
      /\ UNCHANGED <<obj, epc, list, listLock>> /\ UNCHANGED workerVars /\ UNCHANGED dbgVars
  BY IdleCall DEF IInv, TypeOK, HolderMeaning, WorkerMeaning, Terminate, memVars, listVars
<1>3. PICK c : c = [Idle EXCEPT !.pc = "stop", !.e = e]
  OBVIOUS
<1>4. c \in Calls /\ c.pc = "stop" /\ c.e = e
  <2>1. "stop" \in Pcs /\ e \in Enclaves
    BY <1>2 DEF Pcs, Terminating
  <2>2. c = CallOn("stop", e)
    BY <1>3 DEF CallOn
  <2> QED BY <2>1, <2>2, FirstCall
<1>5. Alone(t) /\ op'[t] = c
  BY <1>1, <1>2, <1>3, <1>4, NewCall
<1>6. TypeOK'
  BY <1>1, <1>2, <1>5 DEF TypeOK, Alone, Calls, Pcs, workerVars, dbgVars
<1>7. ~Busy(t) /\ Busy(t)' /\ op[t].pc \notin ListedAt /\ op'[t].pc \in ListedAt
  BY <1>2, <1>4, <1>5 DEF Busy, ListedAt, Creating, Terminating
<1>8. HolderMeaning'
  <2>1. ASSUME NEW u \in Threads, Busy(u)', NEW v \in Threads \ {u}, Busy(v)'
        PROVE  op'[u].e # op'[v].e
    BY <1>1, <1>4, <1>5, <2>1, OtherCalls
  <2>2. ASSUME NEW u \in Threads, Busy(u)'
        PROVE  /\ op'[u].e \in Enclaves /\ obj'[op'[u].e] = "alive" /\ op'[u].e \notin mine'
               /\ op'[u].pc = "push" => op'[u].e \in epc'
    BY <1>1, <1>2, <1>4, <1>5, <2>2, OtherCalls
  <2>3. \A d \in mine' : obj'[d] = "alive"
    BY <1>1, <1>2 DEF IInv, HolderMeaning
  <2> QED BY <2>1, <2>2, <2>3 DEF HolderMeaning
<1>9. ListMeaning'
  <2>1. ASSUME NEW d \in Enclaves PROVE Listed(d)' <=> Listed(d)
    <3>1. CASE d = e
      BY <1>1, <1>4, <1>5, <1>7, <3>1 DEF Listed
    <3>2. CASE d # e
      BY <1>1, <1>4, <1>5, <1>7, <3>2 DEF Listed, Alone
    <3> QED BY <3>1, <3>2
  <2>2. \A d \in Enclaves : Listed(d) => d \in epc'
    BY <1>2 DEF IInv, ListMeaning
  <2> QED BY <1>2, <2>1, <2>2, ListKept DEF IInv
<1>10. LockMeaning'
  BY <1>2, <1>4, <1>5 DEF IInv, LockMeaning, Alone
<1>11. WorkerMeaning'
  <2>1. \A d \in Enclaves : obj'[d] # "alive" => Quiet(d)'
    BY <1>2, SameWorkers DEF IInv, WorkerMeaning
  <2>2. \A d \in mine' : Settled(d)'
    BY <1>1, <1>2, SameWorkers DEF IInv, WorkerMeaning
  <2>3. ASSUME NEW u \in Threads, Busy(u)' PROVE WorkersAt(op[u].pc, op[u].e)'
    <3>1. CASE u = t
      <4>1. WorkersAt("stop", e)
        BY <1>2 DEF WorkersAt
      <4>2. WorkersAt("stop", e)'
        BY <1>2, <4>1, SameWorkers
      <4> QED BY <1>4, <1>5, <3>1, <4>2
    <3>2. CASE u # t
      <4>1. op'[u] = op[u] /\ WorkersAt(op[u].pc, op[u].e)
        BY <1>5, <2>3, <3>2, OtherCalls
      <4>2. PICK d, q : d = op[u].e /\ q = op[u].pc
        OBVIOUS
      <4>3. WorkersAt(q, d)'
        BY <1>2, <4>1, <4>2, SameWorkers
      <4> QED BY <4>1, <4>2, <4>3
    <3> QED BY <3>1, <3>2
  <2> QED BY <2>1, <2>2, <2>3 DEF WorkerMeaning
<1> QED BY <1>6, <1>8, <1>9, <1>10, <1>11 DEF IInv

-----------------------------------------------------------------------------
(* What the list becomes. *)
LEMMA PushedFirst ==
  ASSUME NEW S, NEW q \in Seq(S), NEW e \in S
  PROVE  /\ <<e>> \o q \in Seq(S) /\ Len(<<e>> \o q) = Len(q) + 1
         /\ (<<e>> \o q)[1] = e /\ \A i \in 1 .. Len(q) : (<<e>> \o q)[i + 1] = q[i]
<1>1. <<e>> \in Seq(S) /\ Len(<<e>>) = 1 /\ <<e>>[1] = e
  OBVIOUS
<1> QED BY <1>1, ConcatProperties

LEMMA RemovedOnce ==
  ASSUME NEW S, NEW q \in Seq(S), NEW k \in 1 .. Len(q), \A i \in 1 .. Len(q) : q[i] = q[k] => i = k
  PROVE  /\ RemoveFirst(q, q[k]) \in Seq(S) /\ Len(RemoveFirst(q, q[k])) = Len(q) - 1
         /\ \A i \in 1 .. Len(q) - 1 :
               RemoveFirst(q, q[k])[i] = IF i < k THEN q[i] ELSE q[i + 1]
<1> DEFINE a == SubSeq(q, 1, k - 1)
           b == SubSeq(q, k + 1, Len(q))
<1>1. RemoveFirst(q, q[k]) = a \o b
  <2>1. {i \in 1 .. Len(q) : q[i] = q[k]} = {k}
    OBVIOUS
  <2>2. Min({k}) = k
    BY DEF Min
  <2>3. SelectInSeq(q, LAMBDA v : v = q[k]) = k
    BY <2>1, <2>2 DEF SelectInSeq
  <2> QED BY <2>3 DEF RemoveFirst, RemoveAt
<1>2. Len(q) \in Nat /\ \A i \in 1 .. Len(q) : q[i] \in S
  OBVIOUS
<1>3. a \in Seq(S) /\ Len(a) = k - 1 /\ \A i \in 1 .. k - 1 : a[i] = q[i]
  <2>1. /\ a \in Seq(S) /\ Len(a) = IF 1 <= k - 1 THEN k - 1 - 1 + 1 ELSE 0
        /\ \A i \in 1 .. k - 1 - 1 + 1 : a[i] = q[1 + i - 1]
    BY <1>2, SubSeqProperties
  <2> HIDE DEF a
  <2> QED BY <2>1
<1>4. b \in Seq(S) /\ Len(b) = Len(q) - k /\ \A i \in 1 .. Len(q) - k : b[i] = q[k + i]
  <2>1. /\ b \in Seq(S) /\ Len(b) = IF k + 1 <= Len(q) THEN Len(q) - (k + 1) + 1 ELSE 0
        /\ \A i \in 1 .. Len(q) - (k + 1) + 1 : b[i] = q[k + 1 + i - 1]
    BY <1>2, SubSeqProperties
  <2> HIDE DEF b
  <2> QED BY <1>2, <2>1
<1> HIDE DEF a, b
<1>5. /\ a \o b \in Seq(S) /\ Len(a \o b) = Len(a) + Len(b)
      /\ \A i \in 1 .. Len(a) + Len(b) : (a \o b)[i] = IF i <= Len(a) THEN a[i] ELSE b[i - Len(a)]
  BY <1>3, <1>4, ConcatProperties
<1>6. Len(a \o b) = Len(q) - 1
  BY <1>2, <1>3, <1>4, <1>5
<1>7. ASSUME NEW i \in 1 .. Len(q) - 1
      PROVE  (a \o b)[i] = IF i < k THEN q[i] ELSE q[i + 1]
  <2>1. CASE i < k
    BY <1>2, <1>3, <1>4, <1>5, <2>1
  <2>2. CASE i >= k
    <3>1. i - (k - 1) \in 1 .. Len(q) - k /\ k + (i - (k - 1)) = i + 1
      BY <1>2, <2>2
    <3>2. i \in 1 .. Len(a) + Len(b) /\ ~(i <= Len(a)) /\ i - Len(a) = i - (k - 1)
      BY <1>2, <1>3, <1>4, <2>2
    <3>3. (a \o b)[i] = b[i - (k - 1)]
      BY <1>5, <3>2
    <3>4. b[i - (k - 1)] = q[i + 1]
      BY <1>4, <3>1
    <3>5. ~(i < k)
      BY <1>2, <2>2
    <3> QED BY <3>3, <3>4, <3>5
  <2>3. i < k \/ i >= k
    BY <1>2
  <2> QED BY <2>1, <2>2, <2>3
<1> QED BY <1>1, <1>5, <1>6, <1>7

(* A step of t on the list, with its lock free; no query is under way. *)
LEMMA ListStep ==
  ASSUME IInv, NEW t \in Threads, Busy(t), listLock = NoThread,
         NEW p \in {"dbgRead", "delete"}, Goto(t, p), op[t].pc \in {"push", "remove"},
         list' \in Seq(Enclaves), UNCHANGED <<obj, epc, listLock, workerVars, dbgVars, mine>>,
         ListMeaning'
  PROVE  IInv'
<1>1. /\ TypeOK /\ p \in Pcs /\ p \in Creating \cup Terminating /\ op[t].e \in Enclaves
      /\ WorkersAt(op[t].pc, op[t].e)
  BY DEF IInv, Pcs, Creating, Terminating, HolderMeaning, WorkerMeaning
<1>2. Alone(t) /\ op'[t].pc = p /\ op'[t].e = op[t].e
  BY <1>1, GotoCall
<1>3. TypeOK'
  BY <1>1, <1>2 DEF TypeOK, Alone, Calls, Pcs, workerVars, dbgVars
<1>4. HolderMeaning'
  <2>1. ASSUME NEW u \in Threads, Busy(u)'
        PROVE  Busy(u) /\ op'[u].e = op[u].e /\ (op'[u].pc = "push" => op[u].pc = "push")
    BY <1>2, <2>1, OtherCalls
  <2> QED BY <2>1 DEF IInv, HolderMeaning
<1>5. LockMeaning'
  <2>1. \A u \in Threads : op[u].pc # "query"
    BY ThreadAssumption DEF IInv, LockMeaning
  <2>2. \A u \in Threads : op'[u].pc # "query"
    BY <1>2, <2>1 DEF Alone
  <2> QED BY <2>2, ThreadAssumption DEF LockMeaning
<1>6. WorkerMeaning'
  <2>1. \A d \in Enclaves : obj'[d] # "alive" => Quiet(d)'
    BY SameWorkers DEF IInv, WorkerMeaning
  <2>2. \A d \in mine' : Settled(d)'
    BY SameWorkers DEF IInv, WorkerMeaning
  <2>3. ASSUME NEW u \in Threads, Busy(u)' PROVE WorkersAt(op[u].pc, op[u].e)'
    <3>1. PICK d, q : d = op'[u].e /\ q = op'[u].pc
      OBVIOUS
    <3>2. WorkersAt(q, d)
      <4>1. CASE u = t
        BY <1>1, <1>2, <3>1, <4>1 DEF WorkersAt
      <4>2. CASE u # t
        BY <1>2, <2>3, <3>1, <4>2, OtherCalls
      <4> QED BY <4>1, <4>2
    <3>3. WorkersAt(q, d)'
      BY <3>2, SameWorkers
    <3> QED BY <3>1, <3>3
  <2> QED BY <2>1, <2>2, <2>3 DEF WorkerMeaning
<1> QED BY <1>3, <1>4, <1>5, <1>6 DEF IInv

LEMMA PushInv ==
  ASSUME IInv, NEW t \in Threads, Push(t) PROVE IInv'
<1> USE DEF Push
<1>1. /\ TypeOK /\ Busy(t) /\ op[t].pc = "push" /\ op[t].e \in Enclaves /\ op[t].e \in epc
      /\ list \in Seq(Enclaves)
  BY DEF IInv, HolderMeaning, Busy, Creating, TypeOK
<1>2. PICK e \in Enclaves : e = op[t].e
  BY <1>1
<1>3. Alone(t) /\ op'[t].pc = "dbgRead" /\ op'[t].e = e
  BY <1>1, <1>2, GotoCall DEF Pcs, Creating
<1>4. /\ list' \in Seq(Enclaves) /\ Len(list') = Len(list) + 1
      /\ list'[1] = e /\ \A i \in 1 .. Len(list) : list'[i + 1] = list[i]
  BY <1>1, <1>2, PushedFirst
<1>5. \A i \in 1 .. Len(list) : list[i] # e
  BY <1>1, <1>2 DEF ToSet
<1>6. \A d \in Enclaves : Listed(d)' <=> Listed(d) \/ d = e
  <2>1. op[t].pc \notin ListedAt /\ op'[t].pc \in ListedAt
    BY <1>1, <1>3 DEF ListedAt, Creating, Terminating
  <2> QED BY <1>3, <2>1 DEF Listed, Alone
<1>7. ASSUME NEW j \in 1 .. Len(list')
      PROVE  j = 1 \/ (j - 1 \in 1 .. Len(list) /\ list'[j] = list[j - 1])
  <2>1. Len(list) \in Nat
    BY <1>1
  <2>2. CASE j # 1
    <3>1. j - 1 \in 1 .. Len(list) /\ (j - 1) + 1 = j
      BY <1>4, <2>1, <2>2
    <3> QED BY <1>4, <3>1
  <2> QED BY <2>2
<1>8. /\ \A i, j \in 1 .. Len(list) : list[i] = list[j] => i = j
      /\ \A i \in 1 .. Len(list) : Listed(list[i]) /\ list[i] \in Enclaves
      /\ \A d \in Enclaves : Listed(d) => d \in epc /\ \E i \in 1 .. Len(list) : list[i] = d
  BY <1>1 DEF IInv, ListMeaning
<1>9. ListMeaning'
  <2>1. DOMAIN list' = 1 .. Len(list') /\ Len(list) \in Nat
    BY <1>1, <1>4
  <2>2. ASSUME NEW i \in DOMAIN list', NEW j \in DOMAIN list', list'[i] = list'[j] PROVE i = j
    BY <1>4, <1>5, <1>7, <1>8, <2>1, <2>2
  <2>3. ASSUME NEW i \in DOMAIN list' PROVE Listed(list[i])'
    <3>1. PICK d \in Enclaves : d = list'[i]
      BY <1>4, <2>1
    <3>2. d = e \/ Listed(d)
      BY <1>4, <1>7, <1>8, <2>1, <3>1
    <3>3. Listed(d)'
      BY <1>6, <3>2
    <3> QED BY <3>1, <3>3
  <2>4. ASSUME NEW d \in Enclaves, Listed(d)'
        PROVE  d \in epc' /\ \E i \in DOMAIN list' : list'[i] = d
    <3>1. CASE d = e
      <4>1. 1 \in DOMAIN list' /\ list'[1] = d
        BY <1>4, <2>1, <3>1
      <4> QED BY <1>1, <1>2, <3>1, <4>1 DEF memVars
    <3>2. CASE d # e
      <4>1. d \in epc /\ \E i \in 1 .. Len(list) : list[i] = d
        BY <1>6, <1>8, <2>4, <3>2
      <4>2. PICK i \in 1 .. Len(list) : list[i] = d
        BY <4>1
      <4>3. i + 1 \in DOMAIN list' /\ list'[i + 1] = d
        BY <1>4, <2>1, <4>2
      <4> QED BY <4>1, <4>3 DEF memVars
    <3> QED BY <3>1, <3>2
  <2> QED BY <2>2, <2>3, <2>4 DEF ListMeaning
<1> QED BY <1>1, <1>4, <1>9, ListStep DEF memVars

LEMMA RemoveInv ==
  ASSUME IInv, NEW t \in Threads, RemoveInstance(t) PROVE IInv'
<1> USE DEF RemoveInstance
<1>1. /\ TypeOK /\ Busy(t) /\ op[t].pc = "remove" /\ op[t].e \in Enclaves
      /\ list \in Seq(Enclaves) /\ op[t].e \notin mine
      /\ \A u \in Threads \ {t} : Busy(u) => op[u].e # op[t].e
  BY DEF IInv, HolderMeaning, Busy, Terminating, TypeOK
<1>2. PICK e \in Enclaves : e = op[t].e
  BY <1>1
<1>3. Alone(t) /\ op'[t].pc = "delete" /\ op'[t].e = e
  BY <1>1, <1>2, GotoCall DEF Pcs, Terminating
<1>4. /\ \A i, j \in 1 .. Len(list) : list[i] = list[j] => i = j
      /\ \A i \in 1 .. Len(list) : Listed(list[i]) /\ list[i] \in Enclaves
      /\ \A d \in Enclaves : Listed(d) => d \in epc /\ \E i \in 1 .. Len(list) : list[i] = d
  BY <1>1 DEF IInv, ListMeaning
<1>5. op[t].pc \in ListedAt /\ op'[t].pc \notin ListedAt
  BY <1>1, <1>3 DEF ListedAt, Creating, Terminating
<1>6. PICK k \in 1 .. Len(list) : list[k] = e
  BY <1>1, <1>2, <1>4, <1>5 DEF Listed
<1>7. /\ list' \in Seq(Enclaves) /\ Len(list') = Len(list) - 1
      /\ \A i \in 1 .. Len(list) - 1 : list'[i] = IF i < k THEN list[i] ELSE list[i + 1]
  <2>1. list' = RemoveFirst(list, list[k])
    BY <1>2, <1>6
  <2>2. \A i \in 1 .. Len(list) : list[i] = list[k] => i = k
    BY <1>4
  <2> QED BY <1>1, <2>1, <2>2, RemovedOnce
<1>8. ASSUME NEW d \in Enclaves PROVE Listed(d)' <=> Listed(d) /\ d # e
  <2>1. \A u \in Threads \ {t} : op[u].pc \in ListedAt => op[u].e # e
    BY <1>1, <1>2, <1>3, OtherCalls
  <2>2. CASE d = e
    BY <1>1, <1>2, <1>3, <1>5, <2>1, <2>2 DEF Listed, Alone
  <2>3. CASE d # e
    BY <1>2, <1>3, <1>5, <2>3 DEF Listed, Alone
  <2> QED BY <2>2, <2>3
<1>9. Len(list) \in Nat /\ DOMAIN list' = 1 .. Len(list) - 1
  BY <1>1, <1>7
<1>10. ASSUME NEW i \in 1 .. Len(list) - 1
       PROVE  \E j \in 1 .. Len(list) : /\ list'[i] = list[j] /\ j # k
                                        /\ j = IF i < k THEN i ELSE i + 1
  BY <1>6, <1>7, <1>9
<1>11. ListMeaning'
  <2>1. ASSUME NEW i \in DOMAIN list', NEW j \in DOMAIN list', list'[i] = list'[j] PROVE i = j
    <3>1. PICK a \in 1 .. Len(list) : list'[i] = list[a] /\ a = IF i < k THEN i ELSE i + 1
      BY <1>9, <1>10
    <3>2. PICK b \in 1 .. Len(list) : list'[j] = list[b] /\ b = IF j < k THEN j ELSE j + 1
      BY <1>9, <1>10
    <3>3. a = b
      BY <1>4, <2>1, <3>1, <3>2
    <3> QED BY <1>9, <3>1, <3>2, <3>3
  <2>2. ASSUME NEW i \in DOMAIN list' PROVE Listed(list[i])'
    <3>1. PICK j \in 1 .. Len(list) : list'[i] = list[j] /\ j # k
      BY <1>9, <1>10
    <3>2. PICK d \in Enclaves : d = list[j]
      BY <1>4
    <3>3. Listed(d) /\ d # e
      BY <1>4, <1>6, <3>1, <3>2
    <3>4. Listed(d)'
      BY <1>8, <3>3
    <3> QED BY <3>1, <3>2, <3>4
  <2>3. ASSUME NEW d \in Enclaves, Listed(d)'
        PROVE  d \in epc' /\ \E i \in DOMAIN list' : list'[i] = d
    <3>1. d # e /\ d \in epc /\ \E i \in 1 .. Len(list) : list[i] = d
      BY <1>4, <1>8, <2>3
    <3>2. PICK j \in 1 .. Len(list) : list[j] = d
      BY <3>1
    <3>3. j # k
      BY <1>6, <3>1, <3>2
    <3>4. CASE j < k
      BY <1>7, <1>9, <3>1, <3>2, <3>4 DEF memVars
    <3>5. CASE j > k
      <4>1. j - 1 \in DOMAIN list' /\ (j - 1) + 1 = j /\ ~(j - 1 < k)
        BY <1>9, <3>5
      <4>2. list'[j - 1] = d
        BY <1>7, <1>9, <3>2, <4>1
      <4> QED BY <3>1, <4>1, <4>2 DEF memVars
    <3> QED BY <3>3, <3>4, <3>5
  <2> QED BY <2>1, <2>2, <2>3 DEF ListMeaning
<1> QED BY <1>1, <1>7, <1>11, ListStep DEF memVars


-----------------------------------------------------------------------------
(* The steps of a query.  It is about no enclave of its own. *)
LEMMA QueryKeeps ==
  ASSUME IInv, NEW t \in Threads, Alone(t), op[t].pc \in {"idle", "query"},
         op'[t].pc \in {"idle", "query"}, listLock' \in Threads \cup {NoThread},
         UNCHANGED <<memVars, list, workerVars, dbgVars, mine>>, LockMeaning'
  PROVE  IInv'
<1>1. ~Busy(t) /\ ~Busy(t)' /\ op[t].pc \notin ListedAt /\ op'[t].pc \notin ListedAt
  BY DEF Busy, ListedAt, Creating, Terminating
<1>2. TypeOK'
  BY DEF IInv, TypeOK, Alone, Calls, Pcs, memVars, workerVars, dbgVars
<1>3. ASSUME NEW u \in Threads, Busy(u)'
      PROVE  u # t /\ Busy(u) /\ op'[u] = op[u] /\ WorkersAt(op[u].pc, op[u].e)
  BY <1>1, <1>3, OtherCalls
<1>4. HolderMeaning'
  <2>1. HolderMeaning
    BY DEF IInv
  <2> QED BY <1>3, <2>1 DEF HolderMeaning, memVars
<1>5. ListMeaning'
  <2>1. ASSUME NEW d \in Enclaves PROVE Listed(d)' <=> Listed(d)
    BY <1>1 DEF Listed, Alone
  <2>2. \A d \in Enclaves : Listed(d) => d \in epc'
    BY DEF IInv, ListMeaning, memVars
  <2> QED BY <2>1, <2>2, ListKept DEF IInv
<1>6. WorkerMeaning'
  <2>1. \A d \in Enclaves : obj'[d] # "alive" => Quiet(d)'
    BY SameWorkers DEF IInv, WorkerMeaning, memVars
  <2>2. \A d \in mine' : Settled(d)'
    BY SameWorkers DEF IInv, WorkerMeaning
  <2>3. ASSUME NEW u \in Threads, Busy(u)' PROVE WorkersAt(op[u].pc, op[u].e)'
    <3>1. PICK d, q : d = op[u].e /\ q = op[u].pc
      OBVIOUS
    <3>2. WorkersAt(q, d)'
      BY <1>3, <2>3, <3>1, SameWorkers
    <3> QED BY <1>3, <2>3, <3>1, <3>2
  <2> QED BY <2>1, <2>2, <2>3 DEF WorkerMeaning
<1> QED BY <1>2, <1>4, <1>5, <1>6 DEF IInv

(* A query begins: nobody else has the lock, and the list is not empty. *)
QueryFirst == [Idle EXCEPT !.pc = "query", !.i = 1]

LEMMA QueryInv ==
  ASSUME IInv, NEW t \in Threads, Query(t) PROVE IInv'
<1> USE DEF Query
<1>1. TypeOK /\ LockMeaning /\ op[t].pc = "idle" /\ list # <<>> /\ list \in Seq(Enclaves)
  BY IdleCall DEF IInv, TypeOK
<1>2. QueryFirst \in Calls /\ QueryFirst.pc = "query" /\ QueryFirst.i = 1
  <2>1. PICK a : a = [Idle EXCEPT !.pc = "query"]
    OBVIOUS
  <2>2. a \in Calls /\ a.pc = "query"
    BY <2>1, IdleCall DEF Calls, Pcs
  <2>3. QueryFirst = [a EXCEPT !.i = 1]
    BY <2>1, IdleCall DEF Calls, QueryFirst
  <2> QED BY <2>2, <2>3 DEF Calls
<1>3. op' = [op EXCEPT ![t] = QueryFirst]
  BY DEF QueryFirst
<1>4. Alone(t) /\ op'[t].pc = "query" /\ op'[t].i = 1
  BY <1>1, <1>2, <1>3, NewCall
<1>5. 1 \in DOMAIN list
  BY <1>1
<1>6. LockMeaning'
  <2>1. \A u \in Threads \ {t} : op'[u].pc # "query" /\ listLock' # u
    BY <1>1, <1>4, ThreadAssumption DEF LockMeaning, Alone
  <2> QED BY <1>4, <1>5, <2>1 DEF LockMeaning
<1> QED BY <1>1, <1>4, <1>6, QueryKeeps

(* It goes on to the next entry, or ends. *)
LEMMA VisitInv ==
  ASSUME IInv, NEW t \in Threads, Visit(t) PROVE IInv'
<1> USE DEF Visit
<1>1. TypeOK /\ LockMeaning /\ op[t].pc = "query" /\ list \in Seq(Enclaves) /\ listLock = t
  BY DEF IInv, TypeOK, LockMeaning
<1>2. op \in [Threads -> Calls] /\ op[t] \in Calls /\ op[t].i \in DOMAIN list
  BY <1>1 DEF TypeOK, Calls, Pcs, LockMeaning
<1>3. PICK n : n = op[t].i + 1
  OBVIOUS
<1>4. n \in Nat /\ n \in DOMAIN list
  BY <1>1, <1>2, <1>3
<1>5. PICK c : c = [op[t] EXCEPT !.i = n]
  OBVIOUS
<1>6. c \in Calls /\ c.pc = "query" /\ c.i = n
  BY <1>1, <1>2, <1>4, <1>5 DEF Calls
<1>7. op' = [op EXCEPT ![t] = c]
  BY <1>2, <1>3, <1>5
<1>8. Alone(t) /\ op'[t].pc = "query" /\ op'[t].i = n
  BY <1>1, <1>6, <1>7, NewCall
<1>9. list' = list /\ listLock' = listLock
  BY DEF listVars
<1>10. LockMeaning'
  BY <1>1, <1>4, <1>8, <1>9 DEF LockMeaning, Alone
<1> QED BY <1>1, <1>8, <1>9, <1>10, QueryKeeps

LEMMA QueryReturnsInv ==
  ASSUME IInv, NEW t \in Threads, QueryReturns(t) PROVE IInv'
<1> USE DEF QueryReturns
<1>1. TypeOK /\ LockMeaning /\ op[t].pc = "query" /\ listLock = t
  BY DEF IInv, LockMeaning
<1>2. Alone(t) /\ op'[t].pc = "idle"
  BY <1>1, IdleCall, NewCall DEF Return
<1>3. LockMeaning'
  <2>1. \A u \in Threads \ {t} : op'[u].pc # "query"
    BY <1>1, <1>2 DEF LockMeaning, Alone
  <2> QED BY <1>2, <2>1, ThreadAssumption DEF LockMeaning
<1> QED BY <1>1, <1>2, <1>3, QueryKeeps

-----------------------------------------------------------------------------
LEMMA InitIInv ==
  Init => IInv
<1> SUFFICES ASSUME Init PROVE IInv
  OBVIOUS
<1>1. \A t \in Threads : op[t] = Idle /\ op[t].pc = "idle" /\ ~Busy(t) /\ op[t].pc \notin ListedAt
  BY IdleCall DEF Init, Busy, ListedAt, Creating, Terminating
<1>2. NoWorkers \in [host : Nat, enclave : Nat]
  BY DEF NoWorkers
<1>3. TypeOK
  <2>1. op \in [Threads -> Calls]
    BY IdleCall DEF Init
  <2>2. dbgHead \in 0 .. MaxEnclaves /\ dbgNext \in [Enclaves -> 0 .. MaxEnclaves]
    BY BoundAssumption DEF Init, NULL
  <2> QED BY <1>2, <2>1, <2>2 DEF Init, TypeOK, Calls, Pcs
<1>4. HolderMeaning
  BY <1>1 DEF Init, HolderMeaning
<1>5. ListMeaning
  <2>1. \A e : ~Listed(e)
    BY <1>1 DEF Init, Listed
  <2> QED BY <2>1 DEF Init, ListMeaning
<1>6. LockMeaning
  BY <1>1, ThreadAssumption DEF Init, LockMeaning
<1>7. WorkerMeaning
  BY <1>1 DEF Init, WorkerMeaning, Quiet, Settled
<1> QED BY <1>3, <1>4, <1>5, <1>6, <1>7 DEF IInv

LEMMA StutterIInv ==
  ASSUME IInv, UNCHANGED vars PROVE IInv'
BY DEF vars, IInv, TypeOK, HolderMeaning, ListMeaning, LockMeaning, WorkerMeaning,
       Busy, Listed, Quiet, Settled, WorkersAt

(* One case per action of the module. *)
LEMMA NextIInv ==
  ASSUME Faultless, IInv, [Next]_vars PROVE IInv'
<1>1. ASSUME NEW t \in Threads, CreateStep(t) PROVE IInv'
  BY <1>1, BuildStep, PushInv, PushFailsStep, DebugStep, EcallStep, StartStep, ManagerStep, EndInv
     DEF CreateStep
<1>2. ASSUME NEW t \in Threads, TerminateStep(t) PROVE IInv'
  BY <1>2, ManagerStep, DestructorStep, EndInv, RemoveInv DEF TerminateStep
<1>3. ASSUME NEW t \in Threads, QueryStep(t) PROVE IInv'
  BY <1>3, VisitInv, QueryReturnsInv DEF QueryStep
<1> QED BY <1>1, <1>2, <1>3, CreateInv, TerminateInv, QueryInv, StutterIInv DEF Next

LEMMA Invariance ==
  ASSUME Faultless PROVE Spec => []IInv
BY InitIInv, NextIInv, PTL DEF Spec

-----------------------------------------------------------------------------
LEMMA ListedIsLive ==
  ASSUME IInv, NEW e, Listed(e) PROVE obj[e] = "alive"
BY DEF IInv, Listed, HolderMeaning, ListedAt, Busy

LEMMA QueriedIsLive ==
  IInv => QueryReachesLive
<1> SUFFICES ASSUME IInv, NEW t \in Threads, op[t].pc = "query"
             PROVE  /\ op[t].i \in DOMAIN list
                    /\ obj[list[op[t].i]] = "alive" /\ list[op[t].i] \in epc
  BY DEF QueryReachesLive
<1>1. op[t].i \in DOMAIN list
  BY DEF IInv, LockMeaning
<1>2. PICK e \in Enclaves : e = list[op[t].i]
  <2>1. \A i \in DOMAIN list : list[i] \in Enclaves
    BY DEF IInv, TypeOK
  <2> QED BY <1>1, <2>1
<1>3. Listed(e)
  BY <1>1, <1>2 DEF IInv, ListMeaning
<1>4. e \in epc /\ obj[e] = "alive"
  BY <1>3, ListedIsLive DEF IInv, ListMeaning
<1> QED BY <1>1, <1>2, <1>4

LEMMA AllAccounted ==
  IInv => InstancesAccounted
<1> SUFFICES ASSUME IInv PROVE InstancesAccounted
  OBVIOUS
<1>1. TypeOK
  BY DEF IInv
<1>2. ASSUME NEW e \in mine
      PROVE  /\ obj[e] = "alive" /\ e \in epc
             /\ Cardinality({i \in DOMAIN list : list[i] = e}) = 1
             /\ e \in manager => running[e] = want[e]
             /\ e \notin manager => running[e] = NoWorkers
  <2>1. e \in Enclaves /\ obj[e] = "alive" /\ Settled(e) /\ Listed(e)
    BY <1>1 DEF IInv, TypeOK, HolderMeaning, WorkerMeaning, Listed
  <2>2. e \in epc /\ \E i \in DOMAIN list : list[i] = e
    BY <2>1 DEF IInv, ListMeaning
  <2>3. PICK k \in DOMAIN list : list[k] = e
    BY <2>2
  <2>4. {i \in DOMAIN list : list[i] = e} = {k}
    BY <2>3 DEF IInv, ListMeaning
  <2>5. Cardinality({i \in DOMAIN list : list[i] = e}) = 1
    BY <2>4, FS_Singleton
  <2> QED BY <2>1, <2>2, <2>5 DEF Settled
<1>3. ASSUME NEW e \in Enclaves, obj[e] = "freed"
      PROVE  e \notin ToSet(list) /\ e \notin manager /\ running[e] = NoWorkers
  <2>1. Quiet(e) /\ obj[e] # "alive"
    BY <1>3 DEF IInv, WorkerMeaning
  <2>2. \A i \in DOMAIN list : list[i] # e
    BY <2>1, ListedIsLive DEF IInv, ListMeaning
  <2> QED BY <2>1, <2>2, <1>1 DEF Quiet, ToSet, TypeOK
<1> QED BY <1>1, <1>2, <1>3 DEF InstancesAccounted

(* QueryReachesLive, for every number of threads and enclaves: the exception *)
(* handler of a thread, in oe_query_enclave_instance, never touches an       *)
(* enclave that a concurrent oe_terminate_enclave or failed                  *)
(* oe_sgx_build_enclave has freed.  The lock is held for the whole walk, and *)
(* a listed enclave is alive because it leaves the list before it is freed.  *)
THEOREM QueriesReachLiveEnclaves ==
  ASSUME Faultless PROVE Spec => []QueryReachesLive
BY Invariance, QueriedIsLive, PTL

(* InstancesAccounted, for every number of threads, enclaves and workers: an *)
(* enclave oe_create_enclave has returned is in the list once, with all its  *)
(* workers or, after a failed termination, none; a freed one has left no     *)
(* entry, manager or worker.                                                 *)
THEOREM EnclavesCompleteOrGone ==
  ASSUME Faultless PROVE Spec => []InstancesAccounted
BY Invariance, AllAccounted, PTL

=============================================================================
