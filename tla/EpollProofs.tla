---------------------------- MODULE EpollProofs ----------------------------
(***************************************************************************)
(* Proofs about Epoll, and so about the steps of FdTable, for every set of  *)
(* threads, every size of the table and every number of objects and of      *)
(* error paths: a number the client holds denotes the file it was opened    *)
(* for, every descriptor of the host has one owner, and the mappings of the  *)
(* epoll objects follow the host's registrations.                           *)
(***************************************************************************)
EXTENDS Epoll, FiniteSetTheorems, SequenceTheorems, WellFoundedInduction, TLAPS

Closing == {"foreach", "visit", "release"}
Owning == {"assign", "assign2", "undo", "reassign"}

(* The table is an array. *)
SizeMeaning == \E n \in 0 .. IntMax : table \in [0 .. n - 1 -> 0 .. MaxDesc]

(* Objects are allocated in order, each with one host descriptor at most. *)
Occupied == {h \in Descs : host[h] # 0}
AllocMeaning ==
    \E n \in 0 .. MaxDesc :
        /\ \A d \in Descs : desc[d].st = "none" <=> d > n
        /\ Cardinality(Occupied) <= n

(* A live object has a host descriptor to itself, which denotes its file. *)
ObjectMeaning ==
    /\ \A d \in Descs : Live(d) =>
          /\ desc[d].hfd \in Descs /\ desc[d].file # 0
          /\ host[desc[d].hfd] = desc[d].file
    /\ \A c, d \in Descs : Live(c) /\ Live(d) /\ desc[c].hfd = desc[d].hfd => c = d

(* The objects that a call has made, or taken out of the table, and will     *)
(* store or close; and the slot it will store to or empty.                   *)
Objects(t) == {op[t].d, op[t].n} \ {NULL}
Slot(t) ==
    IF op[t].pc \in Closing \cup {"assign2"} THEN {op[t].fd}
    ELSE IF op[t].pc = "reassign" THEN {op[t].to} ELSE {}

ShapeOK(t) ==
    /\ op[t].pc \in {"assign", "assign2", "undo"} <=> op[t].d # NULL
    /\ op[t].pc \in {"assign2", "reassign"} => op[t].n # NULL
    /\ op[t].n # NULL => op[t].pc \in Owning /\ op[t].n # op[t].d
    /\ op[t].pc \notin {"idle", "assign", "undo"} => inited

(* Such an object is live and not in the table, but for the first object of  *)
(* a socket pair: its slot is set early, and never emptied if all fails.     *)
ObjectsOK(t) ==
    \A x \in Objects(t) :
        /\ Live(x)
        /\ \A i \in DOMAIN table : table[i] = x =>
              \/ op[t].pc = "undo" /\ i \in stale
              \/ op[t].pc = "assign2" /\ i = op[t].fd

SlotOK(t) ==
    \A i \in Slot(t) :
        /\ i \in Fds /\ held[i] = 0 /\ i \notin stale
        /\ op[t].pc = "assign2" => i \in DOMAIN table /\ table[i] = op[t].d
        /\ op[t].pc \in Closing =>
              i \in DOMAIN table /\ table[i] # NULL /\ ~Live(table[i])
        /\ op[t].pc = "reassign" /\ i \in DOMAIN table /\ table[i] # NULL => Live(table[i])

CallMeaning == \A t \in Threads : ShapeOK(t) /\ ObjectsOK(t) /\ SlotOK(t)

(* No two calls have an object or a slot in common, and nobody makes a       *)
(* number while a dup2 is under way.                                         *)
ApartMeaning ==
    \A t, u \in Threads : t # u =>
        /\ Objects(t) \cap Objects(u) = {} /\ Slot(t) \cap Slot(u) = {}
        /\ op[t].pc = "reassign" => ~MakesNumber(u)

(* A slot is empty, or has an object of its own and a reason: the client     *)
(* holds the number, a call is about it, or it was given up.  Before         *)
(* _initialize has succeeded there are only the files of its failed runs.    *)
SlotMeaning ==
    /\ \A i, j \in DOMAIN table : table[i] # NULL /\ table[i] = table[j] => i = j
    /\ \A i \in DOMAIN table : table[i] # NULL =>
          /\ desc[table[i]].st # "none"
          /\ inited => held[i] # 0 \/ i \in stale \/ \E t \in Threads : i \in Slot(t)
          /\ ~inited => i < NumStd /\ Live(table[i])

(* A number the client holds, and a slot that was given up. *)
HeldMeaning ==
    /\ \A fd \in Fds : held[fd] # 0 =>
          /\ inited /\ fd \in DOMAIN table
          /\ Live(table[fd]) /\ desc[table[fd]].file = held[fd]
    /\ \A i \in stale : inited /\ i \in DOMAIN table /\ table[i] # NULL /\ held[i] = 0

(* A host descriptor that was not given up is an object's in use. *)
Reached(d) == d \in TableEntries \/ InCall(d)
HostMeaning ==
    \A h \in Descs : host[h] # 0 /\ h \notin lost =>
        \E d \in Descs : Live(d) /\ desc[d].hfd = h /\ Reached(d)

(* What a thread in oe_epoll_ctl has noted. *)
EvMeaning ==
    /\ DOMAIN ev = Threads
    /\ \A t \in Threads : op[t].pc = "ctlMap" =>
          ev[t].e \in Descs /\ ev[t].data \in Data /\ ev[t].cmd \in {"add", "mod", "del"}

(* The inductive invariant. *)
IInv ==
    /\ TypeOK /\ SizeMeaning /\ AllocMeaning /\ ObjectMeaning /\ CallMeaning
    /\ ApartMeaning /\ SlotMeaning /\ HeldMeaning /\ HostMeaning /\ EvMeaning

-----------------------------------------------------------------------------
(* Numbers, objects and host descriptors.                                    *)

(* A set of numbers has a least one. *)
LEMMA MinExists ==
  ASSUME NEW S, S \subseteq Nat, S # {}
  PROVE  Min(S) \in S /\ \A y \in S : Min(S) <= y
<1>1. PICK R : R = OpToRel(<, Nat) /\ IsWellFoundedOn(R, Nat)
  BY NatLessThanWellFounded
<1>2. R = {ss \in Nat \X Nat : ss[1] < ss[2]}
  BY <1>1 DEF OpToRel
<1>3. PICK x \in S : \A y \in S : ~ (<<y, x>> \in R)
  BY <1>1, WFMin
<1>4. ASSUME NEW y \in S PROVE x <= y
  <2>1. x \in Nat /\ y \in Nat
    OBVIOUS
  <2>2. y < x => <<y, x>> \in R
    BY <1>2, <2>1
  <2> QED BY <1>3, <2>1, <2>2
<1> QED BY <1>4 DEF Min

LEMMA FreshIsNext ==
  ASSUME AllocMeaning
  PROVE  /\ Fresh \in 1 .. MaxDesc + 1
         /\ \A d \in Descs : desc[d].st = "none" <=> d >= Fresh
         /\ Cardinality(Occupied) < Fresh /\ Cardinality(Occupied) \in Nat
         /\ IsFiniteSet(Occupied)
<1>0. MaxDesc \in Nat
  BY SizeAssumption
<1>1. PICK n \in 0 .. MaxDesc :
        (\A d \in Descs : desc[d].st = "none" <=> d > n) /\ Cardinality(Occupied) <= n
  BY DEF AllocMeaning
<1>2. {d \in Descs : desc[d].st # "none"} = 1 .. n
  BY <1>0, <1>1 DEF Descs
<1>3. Cardinality(1 .. n) = n
  <2>1. Cardinality(1 .. n) = IF 1 > n THEN 0 ELSE n - 1 + 1
    BY <1>1, FS_Interval, 1 \in Int, n \in Int
  <2> QED BY <1>0, <1>1, <2>1
<1>4. Fresh = n + 1
  <2>1. Fresh = 1 + Cardinality(1 .. n)
    BY <1>2, Zenon DEF Fresh
  <2> QED BY <1>3, <2>1
<1>5. IsFiniteSet(Descs)
  BY <1>0, FS_Interval, 1 \in Int, MaxDesc \in Int DEF Descs
<1>6. IsFiniteSet(Occupied) /\ Cardinality(Occupied) \in Nat
  BY <1>5, FS_Subset, FS_CardinalityType DEF Occupied
<1> QED BY <1>0, <1>1, <1>4, <1>6 DEF Descs

(* While an object can be allocated, the host has a free number. *)
LEMMA FreeExists ==
  ASSUME AllocMeaning, Fresh <= MaxDesc
  PROVE  /\ FreeHostFd \in Descs /\ host[FreeHostFd] = 0
         /\ Fresh \in Descs
<1>0. MaxDesc \in Nat
  BY SizeAssumption
<1>1. Cardinality(Descs) = MaxDesc
  <2>1. Cardinality(1 .. MaxDesc) = IF 1 > MaxDesc THEN 0 ELSE MaxDesc - 1 + 1
    BY <1>0, FS_Interval, 1 \in Int, MaxDesc \in Int
  <2> QED BY <1>0, <2>1 DEF Descs
<1>2. PICK S : S = {h \in Descs : host[h] = 0}
  OBVIOUS
<1>3. S # {}
  <2>1. S = {} => Occupied = Descs
    BY <1>2 DEF Occupied
  <2> QED BY <1>0, <1>1, <2>1, FreshIsNext
<1>4. Min(S) \in S
  BY <1>2, <1>3, MinExists DEF Descs
<1> QED BY <1>0, <1>2, <1>4, FreshIsNext DEF FreeHostFd, Descs

(* Objects are allocated, and take the host numbers F at most. *)
LEMMA AllocStep ==
  ASSUME AllocMeaning, NEW k \in Nat, Fresh + k - 1 <= MaxDesc,
         NEW F, IsFiniteSet(F), Cardinality(F) <= k,
         Occupied' \subseteq Occupied \cup F,
         \A d \in Descs : desc'[d].st = "none" <=>
             desc[d].st = "none" /\ ~(Fresh <= d /\ d < Fresh + k)
  PROVE  AllocMeaning'
<1>0. MaxDesc \in Nat
  BY SizeAssumption
<1>1. PICK n \in 0 .. MaxDesc : n = Fresh - 1 + k
  BY <1>0, FreshIsNext
<1>2. \A d \in Descs : desc'[d].st = "none" <=> d > n
  BY <1>0, <1>1, FreshIsNext DEF Descs
<1>3. /\ IsFiniteSet(Occupied \cup F) /\ Cardinality(Occupied \cup F) \in Nat
      /\ Cardinality(Occupied \cup F) <= Cardinality(Occupied) + Cardinality(F)
  <2>1. /\ IsFiniteSet(Occupied \cup F) /\ IsFiniteSet(Occupied \cap F)
        /\ Cardinality(Occupied \cup F) =
             Cardinality(Occupied) + Cardinality(F) - Cardinality(Occupied \cap F)
    BY FreshIsNext, FS_Union, FS_Subset
  <2> QED BY <2>1, FreshIsNext, FS_CardinalityType
<1>4. /\ Cardinality(Occupied') \in Nat
      /\ Cardinality(Occupied') <= Cardinality(Occupied \cup F)
  BY <1>3, FS_Subset, FS_CardinalityType
<1>5. Cardinality(Occupied') <= n
  BY <1>1, <1>3, <1>4, FreshIsNext, FS_CardinalityType
<1>6. (\A d \in Descs : desc'[d].st = "none" <=> d > n) /\ Cardinality(Occupied') <= n
  BY <1>2, <1>5
<1> QED BY <1>6 DEF AllocMeaning

(* No object is allocated; host numbers may be closed. *)
LEMMA AllocKept ==
  ASSUME AllocMeaning, Occupied' \subseteq Occupied,
         \A d \in Descs : desc'[d].st = "none" <=> desc[d].st = "none"
  PROVE  AllocMeaning'
<1>1. Fresh \in Nat /\ MaxDesc \in Nat /\ Fresh + 0 - 1 <= MaxDesc
  BY FreshIsNext, SizeAssumption
<1>2. IsFiniteSet({}) /\ Cardinality({}) = 0
  BY FS_EmptySet
<1>3. \A d \in Descs : ~(Fresh <= d /\ d < Fresh + 0)
  BY <1>1 DEF Descs
<1> QED BY <1>1, <1>2, <1>3, AllocStep

-----------------------------------------------------------------------------
(* The table.                                                                *)

(* Table tb is the table, perhaps grown by empty slots. *)
Grown(tb) ==
    /\ \E n \in 0 .. IntMax : tb \in [0 .. n - 1 -> 0 .. MaxDesc]
    /\ DOMAIN table \subseteq DOMAIN tb
    /\ \A i \in DOMAIN tb : tb[i] = IF i \in DOMAIN table THEN table[i] ELSE NULL

(* The same, with object d stored in slot s. *)
Stores(tb, s, d) ==
    /\ \E n \in 0 .. IntMax : tb \in [0 .. n - 1 -> 0 .. MaxDesc]
    /\ DOMAIN table \subseteq DOMAIN tb /\ s \in DOMAIN tb /\ s \in Fds
    /\ \A i \in DOMAIN tb :
          tb[i] = IF i = s THEN d ELSE IF i \in DOMAIN table THEN table[i] ELSE NULL

LEMMA SizeIs ==
  ASSUME SizeMeaning
  PROVE  /\ TableSize \in 0 .. IntMax /\ DOMAIN table = 0 .. TableSize - 1
         /\ table \in [0 .. TableSize - 1 -> 0 .. MaxDesc]
         /\ DOMAIN table \subseteq Fds
<1>0. IntMax \in Nat
  BY SizeAssumption
<1>1. PICK n \in 0 .. IntMax : table \in [0 .. n - 1 -> 0 .. MaxDesc]
  BY DEF SizeMeaning
<1>2. DOMAIN table = 0 .. n - 1
  BY <1>1
<1>3. Cardinality(0 .. n - 1) = n
  <2>1. Cardinality(0 .. n - 1) = IF 0 > n - 1 THEN 0 ELSE n - 1 - 0 + 1
    BY <1>0, <1>1, FS_Interval, 0 \in Int, n - 1 \in Int
  <2> QED BY <1>0, <1>1, <2>1
<1>4. TableSize = n
  BY <1>2, <1>3 DEF TableSize
<1> QED BY <1>0, <1>1, <1>2, <1>4 DEF Fds

(* What _resize_table leaves. *)
LEMMA ResizeGrows ==
  ASSUME SizeMeaning, NEW n \in Nat, NEW tb \in ResizeResults(n)
  PROVE  Grown(tb)
<1>0. IntMax \in Nat /\ MaxDesc \in Nat /\ TableChunk \in Nat \ {0}
  BY SizeAssumption
<1>1. CASE tb = table
  BY <1>1, SizeIs DEF Grown, SizeMeaning
<1>2. CASE tb # table
  <2>1. PICK m : m = Resized(n)
    OBVIOUS
  <2>2. tb = [i \in 0 .. m - 1 |-> IF i \in DOMAIN table THEN table[i] ELSE NULL] /\ m > TableSize
    BY <1>2, <2>1 DEF ResizeResults
  <2>3. PICK k \in Int : k = ((n + TableChunk - 1) \div TableChunk) * TableChunk
    BY <1>0
  <2>4. Min({IntMax, k}) \in {IntMax, k} /\ Min({IntMax, k}) <= IntMax
    <3>1. \E x \in {IntMax, k} : \A y \in {IntMax, k} : x <= y
      BY <1>0
    <3> QED BY <1>0, <3>1 DEF Min
  <2>5. m \in Int /\ m <= IntMax
    BY <1>0, <2>1, <2>3, <2>4 DEF Resized
  <2>6. m \in 0 .. IntMax /\ DOMAIN table \subseteq 0 .. m - 1
    BY <1>0, <2>2, <2>5, SizeIs
  <2>7. tb \in [0 .. m - 1 -> 0 .. MaxDesc]
    BY <1>0, <2>2, SizeIs DEF NULL
  <2> QED BY <2>2, <2>6, <2>7 DEF Grown
<1> QED BY <1>1, <1>2

(* What oe_fdtable_assign leaves: the slot was empty, or is new. *)
LEMMA AssignStores ==
  ASSUME SizeMeaning, NEW d \in Descs, NEW a \in Assigned(d)
  PROVE  /\ Stores(a.table, a.fd, d)
         /\ a.fd \in DOMAIN table => table[a.fd] = NULL
<1>0. IntMax \in Nat /\ MaxDesc \in Nat /\ d \in 0 .. MaxDesc
  BY SizeAssumption DEF Descs
<1>1. CASE FreeSlots(table) # {}
  <2>1. PICK s : s = Min(FreeSlots(table))
    OBVIOUS
  <2>2. s \in FreeSlots(table)
    <3>1. FreeSlots(table) \subseteq Nat
      BY SizeIs DEF FreeSlots, Fds
    <3> QED BY <1>1, <2>1, <3>1, MinExists
  <2>3. a = [table |-> [table EXCEPT ![s] = d], fd |-> s]
    BY <1>1, <2>1 DEF Assigned
  <2>4. [table EXCEPT ![s] = d] \in [0 .. TableSize - 1 -> 0 .. MaxDesc]
    BY <1>0, <2>2, SizeIs DEF FreeSlots
  <2> QED BY <2>2, <2>3, <2>4, SizeIs DEF FreeSlots, Stores
<1>2. CASE FreeSlots(table) = {}
  <2>1. PICK tb \in ResizeResults(TableSize + 1) :
          FreeSlots(tb) # {} /\ a = [table |-> [tb EXCEPT ![TableSize] = d], fd |-> TableSize]
    BY <1>2 DEF Assigned
  <2>2. Grown(tb)
    BY <2>1, SizeIs, ResizeGrows
  <2>3. PICK n \in 0 .. IntMax : tb \in [0 .. n - 1 -> 0 .. MaxDesc]
    BY <2>2 DEF Grown
  <2>4. n > TableSize
    <3>1. PICK i \in DOMAIN tb : tb[i] = NULL
      BY <2>1 DEF FreeSlots
    <3>2. i \notin DOMAIN table
      BY <1>2, <2>2, <3>1 DEF FreeSlots, Grown
    <3> QED BY <1>0, <2>3, <3>1, <3>2, SizeIs
  <2>5. TableSize \in DOMAIN tb /\ TableSize \notin DOMAIN table /\ TableSize \in Fds
    BY <1>0, <2>3, <2>4, SizeIs DEF Fds
  <2>6. [tb EXCEPT ![TableSize] = d] \in [0 .. n - 1 -> 0 .. MaxDesc]
    BY <1>0, <2>3
  <2> QED BY <2>1, <2>2, <2>3, <2>5, <2>6 DEF Grown, Stores
<1> QED BY <1>1, <1>2

LEMMA StoresType ==
  ASSUME NEW s, NEW d, Stores(table', s, d)
  PROVE  /\ SizeMeaning' /\ DOMAIN table' \subseteq Fds
         /\ \A i \in DOMAIN table' : table'[i] \in 0 .. MaxDesc
<1>0. IntMax \in Nat
  BY SizeAssumption
<1>1. PICK n \in 0 .. IntMax : table' \in [0 .. n - 1 -> 0 .. MaxDesc]
  BY DEF Stores
<1>2. DOMAIN table' = 0 .. n - 1
  BY <1>1
<1>3. SizeMeaning'
  BY <1>1 DEF SizeMeaning
<1>4. 0 .. n - 1 \subseteq Fds
  BY <1>0, <1>1 DEF Fds
<1> QED BY <1>1, <1>2, <1>3, <1>4

-----------------------------------------------------------------------------
(* Calls.                                                                    *)

Pcs == {"idle", "assign", "assign2", "undo", "reassign", "foreach",
        "visit", "release", "ctlMap", "waitLock"}
Calls == [pc : Pcs, fd : Fds, d : 0 .. MaxDesc, n : 0 .. MaxDesc, to : 0 .. IntMax]

(* Only the call of t moves. *)
Moves(t) == op' \in [Threads -> Calls] /\ \A u \in Threads \ {t} : op'[u] = op[u]

LEMMA GotoMoves ==
  ASSUME TypeOK, NEW t \in Threads, NEW r \in Calls, Goto(t, r)
  PROVE  Moves(t) /\ op'[t] = r
BY DEF TypeOK, Goto, Moves, Calls, Pcs

LEMMA IdleType ==
  Idle \in Calls
BY SizeAssumption DEF Idle, Calls, Pcs, Fds, NULL

(* The other calls go on as before: their objects live, and no slot that     *)
(* one of them, or an object of theirs, has is taken.                        *)
LEMMA OtherCalls ==
  ASSUME TypeOK, CallMeaning, NEW t \in Threads, Moves(t), inited => inited',
         stale \subseteq stale',
         \A u \in Threads \ {t} : \A x \in Objects(u) :
             /\ Live(x)'
             /\ \A i \in DOMAIN table' : table'[i] = x => i \in DOMAIN table /\ table[i] = x,
         \A u \in Threads \ {t} : \A i \in Slot(u) :
             /\ held'[i] = 0 /\ i \notin stale'
             /\ i \in DOMAIN table => i \in DOMAIN table' /\ table'[i] = table[i]
             /\ i \in DOMAIN table' /\ i \notin DOMAIN table => table'[i] = NULL
             /\ i \in DOMAIN table => (Live(table[i])' <=> Live(table[i]))
  PROVE  \A u \in Threads \ {t} : ShapeOK(u)' /\ ObjectsOK(u)' /\ SlotOK(u)'
<1> SUFFICES ASSUME NEW u \in Threads \ {t} PROVE ShapeOK(u)' /\ ObjectsOK(u)' /\ SlotOK(u)'
  OBVIOUS
<1>1. op'[u] = op[u] /\ ShapeOK(u) /\ ObjectsOK(u) /\ SlotOK(u)
  BY DEF Moves, CallMeaning
<1>2. Objects(u)' = Objects(u) /\ Slot(u)' = Slot(u)
  BY <1>1 DEF Objects, Slot
<1>3. ShapeOK(u)'
  BY <1>1 DEF ShapeOK
<1>4. ObjectsOK(u)'
  BY <1>1, <1>2 DEF ObjectsOK
<1>5. SlotOK(u)'
  BY <1>1, <1>2 DEF SlotOK, Live
<1> QED BY <1>3, <1>4, <1>5

LEMMA StillApart ==
  ASSUME ApartMeaning, NEW t \in Threads, Moves(t),
         \A u \in Threads \ {t} :
             /\ Objects(t)' \cap Objects(u) = {} /\ Slot(t)' \cap Slot(u) = {}
             /\ op'[t].pc = "reassign" => ~MakesNumber(u)
             /\ MakesNumber(t)' => op[u].pc # "reassign"
  PROVE  ApartMeaning'
<1>1. \A u \in Threads \ {t} :
        /\ Objects(u)' = Objects(u) /\ Slot(u)' = Slot(u)
        /\ op'[u].pc = op[u].pc /\ (MakesNumber(u)' <=> MakesNumber(u))
  BY DEF Moves, Objects, Slot, MakesNumber
<1>2. ASSUME NEW u \in Threads, NEW v \in Threads, u # v
      PROVE  /\ Objects(u)' \cap Objects(v)' = {} /\ Slot(u)' \cap Slot(v)' = {}
             /\ op'[u].pc = "reassign" => ~MakesNumber(v)'
  <2>1. CASE u # t /\ v # t
    BY <1>1, <1>2, <2>1 DEF ApartMeaning
  <2>2. CASE u = t
    BY <1>1, <1>2, <2>2
  <2>3. CASE v = t
    BY <1>1, <1>2, <2>3
  <2> QED BY <2>1, <2>2, <2>3
<1> QED BY <1>2 DEF ApartMeaning

-----------------------------------------------------------------------------
(* Objects come and go.                                                      *)

DescTypes ==
    [Descs -> [st : {"none", "live", "freed"}, kind : AllKinds,
               hfd : 0 .. MaxDesc, file : 0 .. MaxDesc]]

(* The objects of N are new, each over a host number that was free. *)
Adds(N) ==
    /\ N \subseteq Descs /\ desc' \in DescTypes /\ host' \in [Descs -> 0 .. MaxDesc]
    /\ \A d \in Descs \ N : desc'[d] = desc[d]
    /\ \A d \in N :
          /\ desc[d].st = "none" /\ desc'[d].st = "live"
          /\ desc'[d].hfd \in Descs /\ host[desc'[d].hfd] = 0
          /\ desc'[d].file # 0 /\ host'[desc'[d].hfd] = desc'[d].file
    /\ \A c, d \in N : desc'[c].hfd = desc'[d].hfd => c = d
    /\ \A h \in Descs : host'[h] = host[h] \/ \E d \in N : desc'[d].hfd = h

LEMMA AddsObjects ==
  ASSUME ObjectMeaning, NEW N, Adds(N)
  PROVE  /\ ObjectMeaning'
         /\ \A d \in N : Live(d)' /\ ~Live(d)
         /\ \A d \in Descs : Live(d) => /\ d \notin N /\ Live(d)' /\ desc'[d] = desc[d]
                                        /\ host'[desc[d].hfd] = host[desc[d].hfd]
<1>0. \A d \in Descs : d # NULL
  BY SizeAssumption DEF Descs, NULL
<1>1. \A d \in N : Live(d)' /\ ~Live(d)
  BY <1>0 DEF Adds, Live
<1>2. ASSUME NEW d \in Descs, Live(d)
      PROVE  /\ d \notin N /\ Live(d)' /\ desc'[d] = desc[d]
             /\ host'[desc[d].hfd] = host[desc[d].hfd]
  <2>1. d \notin N /\ desc'[d] = desc[d] /\ Live(d)'
    BY <1>1, <1>2 DEF Adds, Live
  <2>2. desc[d].hfd \in Descs /\ host[desc[d].hfd] # 0
    BY <1>2 DEF ObjectMeaning
  <2> QED BY <2>1, <2>2 DEF Adds
<1>3. ASSUME NEW d \in Descs, Live(d)'
      PROVE  /\ desc'[d].hfd \in Descs /\ desc'[d].file # 0
             /\ host'[desc'[d].hfd] = desc'[d].file
  <2>1. CASE d \in N
    BY <2>1 DEF Adds
  <2>2. CASE d \notin N
    BY <1>2, <1>3, <2>2 DEF Adds, Live, ObjectMeaning
  <2> QED BY <2>1, <2>2
<1>4. ASSUME NEW c \in Descs, NEW d \in Descs, Live(c)', Live(d)', desc'[c].hfd = desc'[d].hfd
      PROVE  c = d
  <2>1. \A x \in Descs : x \notin N /\ Live(x)' => Live(x) /\ desc'[x] = desc[x]
    BY DEF Adds, Live
  <2>2. \A x \in Descs, y \in N : Live(x) => desc[x].hfd # desc'[y].hfd
    BY DEF ObjectMeaning, Adds
  <2> QED BY <1>4, <2>1, <2>2 DEF Adds, ObjectMeaning
<1> QED BY <1>1, <1>2, <1>3, <1>4 DEF ObjectMeaning

LEMMA NewObject ==
  ASSUME TypeOK, AllocMeaning, Fresh <= MaxDesc, NEW k \in AllKinds, NEW f \in Descs,
         desc' = [desc EXCEPT ![Fresh] = NewDesc(k, f)],
         host' = [host EXCEPT ![FreeHostFd] = f]
  PROVE  Adds({Fresh}) /\ AllocMeaning' /\ Fresh \in Descs /\ desc'[Fresh].file = f
<1>1. PICK n, h : n = Fresh /\ h = FreeHostFd
  OBVIOUS
<1>2. n \in Descs /\ h \in Descs /\ host[h] = 0 /\ desc[n].st = "none"
  BY <1>1, FreeExists, FreshIsNext
<1>3. f \in 0 .. MaxDesc /\ h \in 0 .. MaxDesc /\ f # 0
  BY <1>2, SizeAssumption DEF Descs
<1>4. PICK r : r = NewDesc(k, f)
  OBVIOUS
<1>5. /\ r.st = "live" /\ r.hfd = h /\ r.file = f
      /\ r \in [st : {"none", "live", "freed"}, kind : AllKinds,
                hfd : 0 .. MaxDesc, file : 0 .. MaxDesc]
  BY <1>1, <1>3, <1>4 DEF NewDesc
<1>6. desc' \in DescTypes /\ desc'[n] = r /\ \A d \in Descs \ {n} : desc'[d] = desc[d]
  BY <1>1, <1>2, <1>4, <1>5 DEF TypeOK, DescTypes
<1>7. /\ host' \in [Descs -> 0 .. MaxDesc] /\ host'[h] = f
      /\ \A g \in Descs : host'[g] = host[g] \/ g = h
  BY <1>1, <1>2, <1>3 DEF TypeOK
<1>8. Adds({n})
  BY <1>2, <1>3, <1>5, <1>6, <1>7 DEF Adds
<1>9. AllocMeaning'
  <2>1. IsFiniteSet({h}) /\ Cardinality({h}) <= 1
    <3>1. IsFiniteSet({h}) /\ Cardinality({h}) = 1
      BY FS_Singleton
    <3> QED BY <3>1
  <2>2. Occupied' \subseteq Occupied \cup {h}
    BY <1>7 DEF Occupied
  <2>3. \A d \in Descs : desc'[d].st = "none" <=> desc[d].st = "none" /\ ~(n <= d /\ d < n + 1)
    <3>1. \A d \in Descs : (n <= d /\ d < n + 1) <=> d = n
      BY <1>2, SizeAssumption DEF Descs
    <3> QED BY <1>5, <1>6, <3>1
  <2>4. n + 1 - 1 <= MaxDesc /\ 1 \in Nat
    BY <1>1, <1>2, SizeAssumption DEF Descs
  <2> QED BY <1>1, <2>1, <2>2, <2>3, <2>4, AllocStep
<1> QED BY <1>1, <1>2, <1>5, <1>6, <1>8, <1>9

(* The objects of D are closed. *)
LEMMA FreesObjects ==
  ASSUME TypeOK, AllocMeaning, ObjectMeaning, NEW D, D \subseteq Descs,
         \A d \in D : Live(d), FreeDescs(D)
  PROVE  /\ AllocMeaning' /\ ObjectMeaning' /\ reg' \subseteq reg
         /\ desc' \in DescTypes /\ host' \in [Descs -> 0 .. MaxDesc]
         /\ \A d \in D : ~Live(d)'
         /\ \A d \in Descs \ D : desc'[d] = desc[d] /\ (Live(d)' <=> Live(d))
         /\ \A d \in Descs : desc'[d].st = "none" <=> desc[d].st = "none"
         /\ \A h \in Descs : host'[h] # 0 => host[h] # 0 /\ \A d \in D : desc[d].hfd # h
<1>1. host' = [h \in Descs |-> IF h \in {desc[d].hfd : d \in D} THEN 0 ELSE host[h]]
  BY DEF FreeDescs, HostClose
<1>2. desc' = [d \in Descs |-> IF d \in D THEN Freed ELSE desc[d]]
  BY DEF FreeDescs
<1>3. reg' \subseteq reg
  BY DEF FreeDescs, HostClose
<1>4. Freed.st = "freed" /\ Freed \in [st : {"none", "live", "freed"}, kind : AllKinds,
                                       hfd : 0 .. MaxDesc, file : 0 .. MaxDesc]
  BY SizeAssumption DEF Freed, AllKinds
<1>5. desc' \in DescTypes
  BY <1>2, <1>4 DEF DescTypes, TypeOK
<1>6. host' \in [Descs -> 0 .. MaxDesc]
  BY <1>1, SizeAssumption DEF TypeOK
<1>7. \A h \in Descs : host'[h] # 0 => host'[h] = host[h] /\ \A d \in D : desc[d].hfd # h
  BY <1>1
<1>8. /\ \A d \in D : ~Live(d)' /\ Live(d)
      /\ \A d \in Descs \ D : desc'[d] = desc[d] /\ (Live(d)' <=> Live(d))
      /\ \A d \in Descs : desc'[d].st = "none" <=> desc[d].st = "none"
  BY <1>2, <1>4 DEF Live
<1>9. AllocMeaning'
  <2>1. Occupied' \subseteq Occupied
    BY <1>7 DEF Occupied
  <2> QED BY <1>8, <2>1, AllocKept
<1>10. ObjectMeaning'
  <2>1. ASSUME NEW d \in Descs, Live(d)'
        PROVE  /\ d \notin D /\ Live(d) /\ desc'[d] = desc[d]
               /\ desc[d].hfd \in Descs /\ desc[d].file # 0
               /\ host'[desc[d].hfd] = desc[d].file
    <3>1. d \notin D /\ Live(d) /\ desc'[d] = desc[d]
      BY <1>8, <2>1
    <3>2. \A c \in D : desc[c].hfd # desc[d].hfd
      BY <1>8, <3>1 DEF ObjectMeaning
    <3> QED BY <1>1, <3>1, <3>2 DEF ObjectMeaning
  <2> QED BY <2>1 DEF ObjectMeaning
<1> QED BY <1>3, <1>5, <1>6, <1>7, <1>8, <1>9, <1>10

-----------------------------------------------------------------------------
(* Steps that leave the table alone.                                         *)

Ownership ==
    /\ SizeMeaning /\ AllocMeaning /\ ObjectMeaning /\ CallMeaning
    /\ ApartMeaning /\ SlotMeaning /\ HeldMeaning /\ HostMeaning

LEMMA FdTypes ==
  ASSUME TypeOK, UNCHANGED <<fdlock, map, elock>>, op' \in [Threads -> Calls],
         inited' \in BOOLEAN, DOMAIN table' \subseteq Fds,
         \A i \in DOMAIN table' : table'[i] \in 0 .. MaxDesc,
         desc' \in DescTypes, host' \in [Descs -> 0 .. MaxDesc], reg' \subseteq reg,
         held' \in [Fds -> 0 .. MaxDesc]
  PROVE  TypeOK'
BY DEF TypeOK, Calls, Pcs, DescTypes

LEMMA EvKept ==
  ASSUME EvMeaning, NEW t \in Threads, Moves(t), UNCHANGED ev, op'[t].pc # "ctlMap"
  PROVE  EvMeaning'
BY DEF EvMeaning, Moves

(* The objects that are referred to. *)
LEMMA References ==
  ASSUME TypeOK, CallMeaning
  PROVE  /\ \A t \in Threads : Objects(t) \subseteq Descs /\ \A x \in Objects(t) : Live(x)
         /\ \A i \in DOMAIN table : table[i] # NULL => table[i] \in Descs
<1>1. \A d \in 0 .. MaxDesc : d # NULL => d \in Descs
  BY SizeAssumption DEF Descs, NULL
<1>2. \A i \in DOMAIN table : table[i] # NULL => table[i] \in Descs
  BY <1>1 DEF TypeOK
<1>3. ASSUME NEW t \in Threads PROVE Objects(t) \subseteq Descs
  <2>1. op[t].d \in 0 .. MaxDesc /\ op[t].n \in 0 .. MaxDesc
    BY DEF TypeOK
  <2> QED BY <1>1, <2>1 DEF Objects
<1> QED BY <1>2, <1>3 DEF CallMeaning, ObjectsOK

LEMMA SlotsKept ==
  ASSUME SlotMeaning, HeldMeaning, UNCHANGED <<table, inited, held, stale>>,
         NEW t \in Threads, Moves(t),
         \A i \in Slot(t) : i \in DOMAIN table /\ table[i] # NULL => i \in Slot(t)',
         \A i \in DOMAIN table : table[i] # NULL =>
             /\ desc[table[i]].st # "none" => desc'[table[i]].st # "none"
             /\ Live(table[i]) /\ (held[i] # 0 \/ ~inited) =>
                   Live(table[i])' /\ desc'[table[i]].file = desc[table[i]].file
  PROVE  SlotMeaning' /\ HeldMeaning'
<1>1. \A u \in Threads \ {t} : Slot(u)' = Slot(u)
  BY DEF Moves, Slot
<1>2. ASSUME NEW i \in DOMAIN table, table[i] # NULL, NEW u \in Threads, i \in Slot(u)
      PROVE  \E v \in Threads : i \in Slot(v)'
  BY <1>1, <1>2
<1>3. SlotMeaning'
  <2>1. \A i, j \in DOMAIN table : table[i] # NULL /\ table[i] = table[j] => i = j
    BY DEF SlotMeaning
  <2>2. ASSUME NEW i \in DOMAIN table, table[i] # NULL
        PROVE  /\ desc'[table[i]].st # "none"
               /\ inited => held[i] # 0 \/ i \in stale \/ \E v \in Threads : i \in Slot(v)'
               /\ ~inited => i < NumStd /\ Live(table[i])'
    <3>1. /\ desc[table[i]].st # "none"
          /\ inited => held[i] # 0 \/ i \in stale \/ \E u \in Threads : i \in Slot(u)
          /\ ~inited => i < NumStd /\ Live(table[i])
      BY <2>2 DEF SlotMeaning
    <3> QED BY <1>2, <2>2, <3>1
  <2> QED BY <2>1, <2>2 DEF SlotMeaning
<1>4. HeldMeaning'
  <2>1. ASSUME NEW fd \in Fds, held[fd] # 0
        PROVE  /\ inited /\ fd \in DOMAIN table
               /\ Live(table[fd])' /\ desc'[table[fd]].file = held[fd]
    BY <2>1 DEF HeldMeaning, Live
  <2>2. \A i \in stale : inited /\ i \in DOMAIN table /\ table[i] # NULL /\ held[i] = 0
    BY DEF HeldMeaning
  <2> QED BY <2>1, <2>2 DEF HeldMeaning, Live
<1> QED BY <1>3, <1>4

(* Objects in use stay so, and a host number that comes into use is an       *)
(* object's.                                                                 *)
LEMMA HostKept ==
  ASSUME HostMeaning, lost \subseteq lost',
         \A h \in Descs : host'[h] # 0 /\ h \notin lost' =>
             \/ host[h] # 0
             \/ \E d \in Descs : Live(d)' /\ desc'[d].hfd = h /\ Reached(d)',
         \A d \in Descs : Live(d) /\ Reached(d) /\ desc[d].hfd \notin lost'
                            /\ host'[desc[d].hfd] # 0 =>
             Live(d)' /\ desc'[d].hfd = desc[d].hfd /\ Reached(d)'
  PROVE  HostMeaning'
<1> SUFFICES ASSUME NEW h \in Descs, host'[h] # 0, h \notin lost'
             PROVE  \E d \in Descs : Live(d)' /\ desc'[d].hfd = h /\ Reached(d)'
  BY DEF HostMeaning
<1>1. CASE host[h] # 0
  <2>1. PICK d \in Descs : Live(d) /\ desc[d].hfd = h /\ Reached(d)
    BY <1>1 DEF HostMeaning
  <2>2. Live(d)' /\ desc'[d].hfd = h /\ Reached(d)'
    BY <2>1
  <2> QED BY <2>2
<1>2. CASE host[h] = 0
  BY <1>2
<1> QED BY <1>1, <1>2

LEMMA ReachedByCall ==
  ASSUME NEW t \in Threads, NEW d \in Objects(t)
  PROVE  Reached(d)
BY DEF Objects, Reached, InCall

(* An object referred to stays so, unless the step takes its reference away. *)
LEMMA StillReached ==
  ASSUME NEW t \in Threads, Moves(t), UNCHANGED table,
         NEW d \in Descs, Reached(d), d \in Objects(t) => d \in Objects(t)'
  PROVE  Reached(d)'
<1>0. d # NULL
  BY SizeAssumption DEF Descs, NULL
<1>1. CASE d \in TableEntries
  BY <1>1 DEF Reached, TableEntries
<1>2. CASE \E u \in Threads : d \in {op[u].d, op[u].n}
  <2>1. PICK u \in Threads : d \in {op[u].d, op[u].n}
    BY <1>2
  <2>2. CASE u = t
    <3>1. d \in {op'[t].d, op'[t].n}
      BY <1>0, <2>1, <2>2 DEF Objects
    <3> QED BY <3>1 DEF Reached, InCall
  <2>3. CASE u # t
    <3>1. d \in {op'[u].d, op'[u].n}
      BY <2>1, <2>3 DEF Moves
    <3> QED BY <3>1 DEF Reached, InCall
  <2> QED BY <2>2, <2>3
<1> QED BY <1>1, <1>2 DEF Reached, InCall

(* A step of a call that owns nothing and takes nothing. *)
LEMMA QuietStep ==
  ASSUME TypeOK, Ownership, NEW t \in Threads, Moves(t),
         UNCHANGED <<table, inited, desc, host, held, lost, stale>>,
         op[t].pc \notin Owning, op'[t].pc \notin Owning,
         op'[t].d = NULL, op'[t].n = NULL, Slot(t)' = Slot(t),
         op[t].pc \in Closing <=> op'[t].pc \in Closing,
         op'[t].pc # "idle" => inited
  PROVE  Ownership'
<1>1. /\ ShapeOK(t) /\ ObjectsOK(t) /\ SlotOK(t)
      /\ Objects(t) = {} /\ Objects(t)' = {}
  BY DEF Ownership, CallMeaning, ShapeOK, Objects, Owning
<1>2. SizeMeaning' /\ AllocMeaning' /\ ObjectMeaning'
  BY DEF Ownership, SizeMeaning, AllocMeaning, Occupied, ObjectMeaning, Live
<1>3. CallMeaning'
  <2>1. \A u \in Threads \ {t} : ShapeOK(u)' /\ ObjectsOK(u)' /\ SlotOK(u)'
    <3>1. \A u \in Threads \ {t} : \A x \in Objects(u) : Live(x)'
      BY DEF Ownership, CallMeaning, ObjectsOK, Live
    <3>2. \A u \in Threads \ {t} : \A i \in Slot(u) : held'[i] = 0 /\ i \notin stale'
      BY DEF Ownership, CallMeaning, SlotOK
    <3> QED BY <3>1, <3>2, OtherCalls DEF Ownership, Live
  <2>2. ShapeOK(t)'
    BY <1>1 DEF ShapeOK, Owning
  <2>3. ObjectsOK(t)'
    BY <1>1 DEF ObjectsOK
  <2>4. SlotOK(t)'
    BY <1>1 DEF SlotOK, Live, Owning
  <2> QED BY <2>1, <2>2, <2>3, <2>4 DEF CallMeaning
<1>4. ApartMeaning'
  <2>1. ~MakesNumber(t)' /\ op'[t].pc # "reassign"
    BY DEF MakesNumber, Owning
  <2> QED BY <1>1, <2>1, StillApart DEF Ownership, ApartMeaning
<1>5. SlotMeaning' /\ HeldMeaning'
  BY SlotsKept DEF Ownership, Live
<1>6. HostMeaning'
  <2>1. \A d \in Descs : Live(d) /\ Reached(d) => Live(d)' /\ Reached(d)'
    BY <1>1, StillReached DEF Live
  <2> QED BY <2>1, HostKept DEF Ownership
<1> QED BY <1>2, <1>3, <1>4, <1>5, <1>6 DEF Ownership

-----------------------------------------------------------------------------
(* oe_epoll_ctl, oe_epoll_wait and the walk of oe_close.                     *)

Mappings == [fd : Fds, data : Data]

LEMMA FirstIs ==
  ASSUME NEW S, NEW m \in Seq(S), NEW fd
  PROVE  First(m, fd) = 0 \/ First(m, fd) \in 1 .. Len(m)
<1>1. CASE \A i \in DOMAIN m : m[i].fd # fd
  BY <1>1 DEF First
<1>2. CASE \E i \in DOMAIN m : m[i].fd = fd
  <2>1. PICK J : J = {j \in DOMAIN m : m[j].fd = fd}
    OBVIOUS
  <2>2. J # {} /\ J \subseteq Nat /\ J \subseteq 1 .. Len(m)
    BY <1>2, <2>1
  <2>3. First(m, fd) = Min(J)
    BY <1>2, <2>1 DEF First
  <2> QED BY <2>2, <2>3, MinExists
<1> QED BY <1>1, <1>2

LEMMA WithoutType ==
  ASSUME NEW S, NEW m \in Seq(S), NEW fd
  PROVE  Without(m, fd) \in Seq(S)
<1>1. PICK i : i = First(m, fd)
  OBVIOUS
<1>2. CASE i = 0
  BY <1>1, <1>2 DEF Without
<1>3. CASE i # 0
  <2>1. i \in 1 .. Len(m) /\ Len(m) \in Nat
    BY <1>1, <1>3, FirstIs
  <2>2. PICK q : q = [m EXCEPT ![i] = m[Len(m)]]
    OBVIOUS
  <2>3. q \in Seq(S) /\ Len(q) = Len(m)
    BY <2>1, <2>2
  <2>4. Without(m, fd) = SubSeq(q, 1, Len(m) - 1)
    BY <1>1, <1>3, <2>2 DEF Without
  <2>5. SubSeq(q, 1, Len(m) - 1) \in Seq(S)
    BY <2>1, <2>3
  <2> QED BY <2>4, <2>5
<1> QED BY <1>2, <1>3

LEMMA ForeachLockKeeps ==
  ASSUME IInv, NEW t \in Threads, ForeachLock(t) PROVE IInv'
<1>1. op[t].pc = "foreach" /\ TypeOK /\ Ownership /\ EvMeaning /\ op[t] \in Calls
  BY DEF IInv, Ownership, ForeachLock, TypeOK, Calls, Pcs
<1>2. PICK r : r = [op[t] EXCEPT !.pc = "visit", !.to = 0]
  OBVIOUS
<1>3. r \in Calls /\ r.pc = "visit" /\ r.fd = op[t].fd /\ r.d = op[t].d /\ r.n = op[t].n
  <2>1. 0 \in 0 .. IntMax
    BY SizeAssumption
  <2> QED BY <1>1, <1>2, <2>1 DEF Calls, Pcs
<1>4. Moves(t) /\ op'[t] = r
  BY <1>1, <1>2, <1>3, GotoMoves DEF ForeachLock
<1>5. UNCHANGED <<table, inited, desc, host, reg, held, lost, stale, map, elock, ev>>
  BY DEF ForeachLock, hostVars, ghostVars, epVars
<1>6. op[t].d = NULL /\ op[t].n = NULL /\ inited
  BY <1>1 DEF Ownership, CallMeaning, ShapeOK, Owning
<1>7. Slot(t)' = Slot(t)
  BY <1>1, <1>3, <1>4 DEF Slot, Closing
<1>8. Ownership'
  BY <1>1, <1>3, <1>4, <1>5, <1>6, <1>7, QuietStep DEF Owning, Closing
<1>9. TypeOK'
  BY <1>1, <1>4, <1>5 DEF ForeachLock, TypeOK, Moves, Calls, Pcs
<1> QED BY <1>1, <1>3, <1>4, <1>5, <1>8, <1>9, EvKept DEF IInv, Ownership

LEMMA ForeachUnlockKeeps ==
  ASSUME IInv, NEW t \in Threads, ForeachUnlock(t) PROVE IInv'
<1>1. op[t].pc = "visit" /\ TypeOK /\ Ownership /\ EvMeaning /\ op[t] \in Calls
  BY DEF IInv, Ownership, ForeachUnlock, TypeOK, Calls, Pcs
<1>2. PICK r : r = [op[t] EXCEPT !.pc = "release", !.to = 0]
  OBVIOUS
<1>3. r \in Calls /\ r.pc = "release" /\ r.fd = op[t].fd /\ r.d = op[t].d /\ r.n = op[t].n
  <2>1. 0 \in 0 .. IntMax
    BY SizeAssumption
  <2> QED BY <1>1, <1>2, <2>1 DEF Calls, Pcs
<1>4. Moves(t) /\ op'[t] = r
  BY <1>1, <1>2, <1>3, GotoMoves DEF ForeachUnlock
<1>5. UNCHANGED <<table, inited, desc, host, reg, held, lost, stale, map, elock, ev>>
  BY DEF ForeachUnlock, hostVars, ghostVars, epVars
<1>6. op[t].d = NULL /\ op[t].n = NULL /\ inited
  BY <1>1 DEF Ownership, CallMeaning, ShapeOK, Owning
<1>7. Slot(t)' = Slot(t)
  BY <1>1, <1>3, <1>4 DEF Slot, Closing
<1>8. Ownership'
  BY <1>1, <1>3, <1>4, <1>5, <1>6, <1>7, QuietStep DEF Owning, Closing
<1>9. TypeOK'
  BY <1>1, <1>4, <1>5 DEF ForeachUnlock, TypeOK, Moves, Calls, Pcs
<1> QED BY <1>1, <1>3, <1>4, <1>5, <1>8, <1>9, EvKept DEF IInv, Ownership

LEMMA VisitKeeps ==
  ASSUME IInv, NEW t \in Threads, Visit(t) PROVE IInv'
<1>1. /\ op[t].pc = "visit" /\ ToVisit(t) # {} /\ TypeOK /\ Ownership /\ EvMeaning
      /\ op[t] \in Calls
  BY DEF IInv, Ownership, Visit, TypeOK, Calls, Pcs
<1>2. PICK i : i = Min(ToVisit(t))
  OBVIOUS
<1>3. i \in DOMAIN table /\ i \in Fds /\ table[i] \in Descs
  <2>1. ToVisit(t) \subseteq Nat
    BY <1>1 DEF ToVisit, TypeOK, Fds
  <2>2. i \in ToVisit(t)
    BY <1>1, <1>2, <2>1, MinExists
  <2> QED BY <1>1, <2>2 DEF ToVisit, EpollDescs, TypeOK
<1>4. PICK r : r = [op[t] EXCEPT !.to = i + 1]
  OBVIOUS
<1>5. r \in Calls /\ r.pc = "visit" /\ r.fd = op[t].fd /\ r.d = op[t].d /\ r.n = op[t].n
  <2>1. i + 1 \in 0 .. IntMax
    BY <1>3, SizeAssumption DEF Fds
  <2> QED BY <1>1, <1>4, <2>1 DEF Calls, Pcs
<1>6. Moves(t) /\ op'[t] = r
  BY <1>1, <1>2, <1>4, <1>5, GotoMoves DEF Visit
<1>7. UNCHANGED <<table, inited, fdlock, desc, host, reg, held, lost, stale, elock, ev>>
  BY DEF Visit, hostVars, ghostVars
<1>8. op[t].d = NULL /\ op[t].n = NULL /\ inited
  BY <1>1 DEF Ownership, CallMeaning, ShapeOK, Owning
<1>9. Slot(t)' = Slot(t)
  BY <1>1, <1>5, <1>6 DEF Slot, Closing
<1>10. Ownership'
  BY <1>1, <1>5, <1>6, <1>7, <1>8, <1>9, QuietStep DEF Owning, Closing
<1>11. map' \in [Descs -> Seq(Mappings)]
  <2>1. map' = [map EXCEPT ![table[i]] = Without(map[table[i]], op[t].fd)]
    BY <1>2 DEF Visit
  <2>2. map \in [Descs -> Seq(Mappings)]
    BY <1>1 DEF TypeOK, Mappings
  <2>3. Without(map[table[i]], op[t].fd) \in Seq(Mappings)
    BY <1>3, <2>2, WithoutType
  <2> QED BY <1>3, <2>1, <2>2, <2>3
<1>12. TypeOK'
  BY <1>1, <1>6, <1>7, <1>11 DEF TypeOK, Moves, Calls, Pcs, Mappings
<1> QED BY <1>1, <1>5, <1>6, <1>7, <1>10, <1>12, EvKept DEF IInv, Ownership

(* A number that is held as one of some kind. *)
LEMMA HeldObject ==
  ASSUME TypeOK, Ownership, NEW fd \in Fds, NEW types, HeldAs(fd, types)
  PROVE  /\ inited /\ fd \in DOMAIN table /\ table[fd] \in Descs /\ Live(table[fd])
         /\ desc[table[fd]].kind \in types /\ _get_fd(fd) = table[fd]
         /\ desc[table[fd]].hfd \in Descs /\ host[desc[table[fd]].hfd] = held[fd]
         /\ held[fd] \in Descs
<1>1. held[fd] # 0 /\ held[fd] \in 0 .. MaxDesc
  BY DEF HeldAs, Holds, TypeOK
<1>2. /\ inited /\ fd \in DOMAIN table /\ Live(table[fd]) /\ desc[table[fd]].file = held[fd]
  BY <1>1 DEF Ownership, HeldMeaning
<1>3. table[fd] \in Descs
  BY <1>2, References DEF Ownership, Live
<1>4. _get_fd(fd) = table[fd]
  BY <1>2 DEF _get_fd
<1>5. desc[table[fd]].kind \in types
  BY <1>4 DEF HeldAs, oe_fdtable_get
<1> QED BY <1>1, <1>2, <1>3, <1>4, <1>5, SizeAssumption DEF Ownership, ObjectMeaning, Descs

LEMMA CtlHostKeeps ==
  ASSUME IInv, NEW t \in Threads, CtlHost(t) PROVE IInv'
<1>1. op[t] = Idle /\ TypeOK /\ Ownership /\ EvMeaning
  BY DEF IInv, Ownership, CtlHost
<1>2. PICK epfd \in Fds, fd \in Fds, cmd \in {"add", "mod", "del"}, x \in Data :
        /\ HeldAs(epfd, {"epoll"}) /\ HeldAs(fd, {"file", "socket"})
        /\ elock' = [elock EXCEPT ![table[epfd]] = t]
        /\ reg' = HostEpollCtl(table[epfd], fd, cmd).reg
        /\ ev' = [ev EXCEPT ![t] = [NoEv EXCEPT
              !.e = table[epfd], !.cmd = cmd, !.data = x,
              !.rv = HostEpollCtl(table[epfd], fd, cmd).rv]]
        /\ Goto(t, [Idle EXCEPT !.pc = "ctlMap", !.fd = fd, !.to = epfd])
  BY DEF CtlHost
<1>3. PICK r : r = [Idle EXCEPT !.pc = "ctlMap", !.fd = fd, !.to = epfd]
  OBVIOUS
<1>4. r \in Calls /\ r.pc = "ctlMap" /\ r.d = NULL /\ r.n = NULL
  <2>1. epfd \in 0 .. IntMax /\ NULL \in 0 .. MaxDesc
    BY SizeAssumption DEF Fds, NULL
  <2> QED BY <1>3, <2>1 DEF Idle, Calls, Pcs
<1>5. Moves(t) /\ op'[t] = r
  BY <1>1, <1>2, <1>3, <1>4, GotoMoves
<1>6. UNCHANGED <<table, inited, fdlock, desc, host, held, lost, stale, map>>
  BY DEF CtlHost, ghostVars
<1>7. inited /\ table[epfd] \in Descs
  BY <1>1, <1>2, HeldObject
<1>8. Slot(t)' = Slot(t)
  BY <1>1, <1>4, <1>5 DEF Slot, Closing, Idle
<1>9. Ownership'
  BY <1>1, <1>4, <1>5, <1>6, <1>7, <1>8, QuietStep DEF Owning, Closing, Idle
<1>10. reg' \subseteq [ep : Descs, hfd : Descs, file : Descs, fd : Fds]
  <2>1. PICK h : h = desc[table[fd]].hfd
    OBVIOUS
  <2>2. h \in Descs /\ host[h] \in Descs /\ host[desc[table[epfd]].hfd] \in Descs
    BY <1>1, <1>2, <2>1, HeldObject
  <2>3. PICK new : new = [ep |-> host[desc[table[epfd]].hfd], hfd |-> h, file |-> host[h], fd |-> fd]
    OBVIOUS
  <2>4. new \in [ep : Descs, hfd : Descs, file : Descs, fd : Fds]
    BY <2>2, <2>3
  <2>5. reg' \subseteq reg \cup {new}
    BY <1>2, <2>1, <2>3 DEF HostEpollCtl
  <2> QED BY <1>1, <2>4, <2>5 DEF TypeOK
<1>11. elock' \in [Descs -> Threads \cup {NoThread}]
  BY <1>1, <1>2 DEF TypeOK
<1>12. TypeOK'
  BY <1>1, <1>5, <1>6, <1>10, <1>11 DEF TypeOK, Moves, Calls, Pcs
<1>13. EvMeaning'
  <2>1. /\ DOMAIN ev' = Threads /\ ev'[t].e = table[epfd] /\ ev'[t].data = x /\ ev'[t].cmd = cmd
        /\ \A u \in Threads \ {t} : ev'[u] = ev[u]
    BY <1>1, <1>2 DEF EvMeaning, NoEv
  <2> QED BY <1>1, <1>5, <1>7, <2>1 DEF EvMeaning, Moves
<1> QED BY <1>9, <1>12, <1>13 DEF IInv, Ownership

(* A call that owned nothing returns. *)
LEMMA QuietReturn ==
  ASSUME TypeOK, Ownership, NEW t \in Threads, Return(t),
         op[t].pc \in {"ctlMap", "waitLock"},
         UNCHANGED <<table, inited, desc, host, held, lost, stale>>
  PROVE  Ownership' /\ Moves(t) /\ op'[t] = Idle
<1>1. Moves(t) /\ op'[t] = Idle
  BY IdleType, GotoMoves DEF Return
<1>2. Slot(t)' = Slot(t)
  BY <1>1 DEF Slot, Closing, Idle
<1> QED BY <1>1, <1>2, QuietStep DEF Owning, Closing, Idle

LEMMA CtlMapKeeps ==
  ASSUME IInv, NEW t \in Threads, CtlMap(t) PROVE IInv'
<1>1. op[t].pc = "ctlMap" /\ TypeOK /\ Ownership /\ EvMeaning
  BY DEF IInv, Ownership, CtlMap
<1>2. UNCHANGED <<table, inited, fdlock, desc, host, reg, held, lost, stale>>
  BY DEF CtlMap, hostVars, ghostVars
<1>3. Ownership' /\ Moves(t) /\ op'[t] = Idle
  BY <1>1, <1>2, QuietReturn DEF CtlMap
<1>4. PICK e, m, fd, x : e = ev[t].e /\ m = map[e] /\ fd = op[t].fd /\ x = ev[t].data
  OBVIOUS
<1>5. e \in Descs /\ m \in Seq(Mappings) /\ fd \in Fds /\ x \in Data
  BY <1>1, <1>4 DEF EvMeaning, TypeOK, Mappings
<1>6. PICK q : /\ map' = [map EXCEPT ![e] = q]
               /\ \/ q = m
                  \/ q = Append(m, [fd |-> fd, data |-> x])
                  \/ q = [i \in DOMAIN m |-> IF i = First(m, fd)
                                             THEN [m[i] EXCEPT !.data = x] ELSE m[i]]
                  \/ q = Without(m, fd)
  <2>1. PICK full :
          map' = [map EXCEPT ![e] =
            IF ev[t].rv # 0 THEN m
            ELSE CASE ev[t].cmd = "add" ->
                        IF full THEN m ELSE Append(m, [fd |-> fd, data |-> x])
                   [] ev[t].cmd = "mod" ->
                        [i \in DOMAIN m |-> IF i = First(m, fd)
                                            THEN [m[i] EXCEPT !.data = x] ELSE m[i]]
                   [] ev[t].cmd = "del" -> Without(m, fd)]
    BY <1>4 DEF CtlMap
  <2>2. ev[t].cmd \in {"add", "mod", "del"}
    BY <1>1 DEF EvMeaning
  <2>3. CASE ev[t].rv # 0 \/ (ev[t].cmd = "add" /\ full)
    BY <2>1, <2>3
  <2>4. CASE ev[t].rv = 0 /\ ev[t].cmd = "add" /\ ~full
    BY <2>1, <2>4
  <2>5. CASE ev[t].rv = 0 /\ ev[t].cmd = "mod"
    BY <2>1, <2>5
  <2>6. CASE ev[t].rv = 0 /\ ev[t].cmd = "del"
    BY <2>1, <2>6
  <2> QED BY <2>2, <2>3, <2>4, <2>5, <2>6
<1>7. q \in Seq(Mappings)
  <2>1. CASE q = Append(m, [fd |-> fd, data |-> x])
    <3>1. [fd |-> fd, data |-> x] \in Mappings
      BY <1>5 DEF Mappings
    <3> QED BY <1>5, <2>1, <3>1
  <2>2. CASE q = [i \in DOMAIN m |-> IF i = First(m, fd)
                                     THEN [m[i] EXCEPT !.data = x] ELSE m[i]]
    <3>1. \A i \in DOMAIN m : m[i] \in Mappings /\ [m[i] EXCEPT !.data = x] \in Mappings
      <4>1. \A i \in DOMAIN m : m[i] \in Mappings
        BY <1>5
      <4>2. \A y \in Mappings : [y EXCEPT !.data = x] \in Mappings
        BY <1>5 DEF Mappings
      <4> QED BY <4>1, <4>2
    <3>2. DOMAIN m = 1 .. Len(m) /\ Len(m) \in Nat
      BY <1>5
    <3>3. q \in [1 .. Len(m) -> Mappings]
      BY <2>2, <3>1, <3>2
    <3> QED BY <3>2, <3>3
  <2> QED BY <1>5, <1>6, <2>1, <2>2, WithoutType
<1>8. map' \in [Descs -> Seq(Mappings)]
  BY <1>1, <1>5, <1>6, <1>7 DEF TypeOK, Mappings
<1>9. elock' \in [Descs -> Threads \cup {NoThread}]
  BY <1>1 DEF TypeOK, CtlMap
<1>10. TypeOK'
  BY <1>1, <1>2, <1>3, <1>8, <1>9 DEF TypeOK, Moves, Calls, Pcs, Mappings
<1>11. EvMeaning'
  <2>1. DOMAIN ev' = Threads /\ \A u \in Threads \ {t} : ev'[u] = ev[u]
    BY <1>1 DEF EvMeaning, CtlMap
  <2> QED BY <1>1, <1>3, <2>1 DEF EvMeaning, Moves, Idle
<1> QED BY <1>3, <1>10, <1>11 DEF IInv, Ownership

LEMMA WaitHostKeeps ==
  ASSUME IInv, NEW t \in Threads, WaitHost(t) PROVE IInv'
<1>1. op[t] = Idle /\ TypeOK /\ Ownership /\ EvMeaning
  BY DEF IInv, Ownership, WaitHost
<1>2. PICK epfd \in Fds :
        /\ HeldAs(epfd, {"epoll"})
        /\ \E r : ev' = [ev EXCEPT ![t] = r]
        /\ Goto(t, [Idle EXCEPT !.pc = "waitLock", !.fd = epfd])
  BY DEF WaitHost
<1>3. PICK r : r = [Idle EXCEPT !.pc = "waitLock", !.fd = epfd]
  OBVIOUS
<1>4. r \in Calls /\ r.pc = "waitLock" /\ r.d = NULL /\ r.n = NULL
  <2>1. 0 \in 0 .. IntMax /\ NULL \in 0 .. MaxDesc
    BY SizeAssumption DEF NULL
  <2> QED BY <1>3, <2>1 DEF Idle, Calls, Pcs
<1>5. Moves(t) /\ op'[t] = r
  BY <1>1, <1>2, <1>3, <1>4, GotoMoves
<1>6. UNCHANGED <<table, inited, fdlock, desc, host, reg, held, lost, stale, map, elock>>
  BY DEF WaitHost, hostVars, ghostVars
<1>7. inited
  BY <1>1, <1>2, HeldObject
<1>8. Slot(t)' = Slot(t)
  BY <1>1, <1>4, <1>5 DEF Slot, Closing, Idle
<1>9. Ownership'
  BY <1>1, <1>4, <1>5, <1>6, <1>7, <1>8, QuietStep DEF Owning, Closing, Idle
<1>10. TypeOK'
  BY <1>1, <1>5, <1>6 DEF TypeOK, Moves, Calls, Pcs
<1>11. EvMeaning'
  <2>1. DOMAIN ev' = Threads /\ \A u \in Threads \ {t} : ev'[u] = ev[u]
    BY <1>1, <1>2 DEF EvMeaning
  <2> QED BY <1>1, <1>4, <1>5, <2>1 DEF EvMeaning, Moves
<1> QED BY <1>9, <1>10, <1>11 DEF IInv, Ownership

LEMMA WaitLockKeeps ==
  ASSUME IInv, NEW t \in Threads, WaitLock(t) PROVE IInv'
<1>1. op[t].pc = "waitLock" /\ TypeOK /\ Ownership /\ EvMeaning
  BY DEF IInv, Ownership, WaitLock
<1>2. UNCHANGED <<table, inited, fdlock, desc, host, reg, held, lost, stale, map, elock>>
  BY DEF WaitLock, hostVars, ghostVars
<1>3. Ownership' /\ Moves(t) /\ op'[t] = Idle
  BY <1>1, <1>2, QuietReturn DEF WaitLock
<1>4. TypeOK'
  BY <1>1, <1>2, <1>3 DEF TypeOK, Moves, Calls, Pcs
<1>5. EvMeaning'
  <2>1. DOMAIN ev' = Threads /\ \A u \in Threads \ {t} : ev'[u] = ev[u]
    BY <1>1 DEF EvMeaning, WaitLock
  <2> QED BY <1>1, <1>3, <2>1 DEF EvMeaning, Moves, Idle
<1> QED BY <1>3, <1>4, <1>5 DEF IInv, Ownership

-----------------------------------------------------------------------------
(* Calls that make objects.                                                  *)

(* The entries of the table are not among the new objects. *)
LEMMA EntriesOld ==
  ASSUME TypeOK, Ownership, NEW N, Adds(N), NEW i \in DOMAIN table, NEW x, x = table[i]
  PROVE  /\ x \notin N /\ (Live(x)' <=> Live(x))
         /\ x # NULL => desc'[x] = desc[x]
<1>1. CASE x = NULL
  <2>1. NULL \notin Descs
    BY SizeAssumption DEF Descs, NULL
  <2> QED BY <1>1, <2>1 DEF Adds, Live
<1>2. CASE x # NULL
  <2>1. x \in Descs /\ desc[x].st # "none"
    BY <1>2, References DEF Ownership, SlotMeaning
  <2> QED BY <1>2, <2>1 DEF Adds, Live
<1> QED BY <1>1, <1>2

(* The other calls keep what they have. *)
LEMMA AddsCalls ==
  ASSUME TypeOK, Ownership, NEW t \in Threads, NEW N, Moves(t), Adds(N),
         UNCHANGED <<table, inited, stale>>,
         \A u \in Threads \ {t} : \A i \in Slot(u) : held'[i] = 0
  PROVE  /\ \A u \in Threads \ {t} : ShapeOK(u)' /\ ObjectsOK(u)' /\ SlotOK(u)'
         /\ \A u \in Threads : N \cap Objects(u) = {}
<1>1. \A u \in Threads : \A x \in Objects(u) : x \in Descs /\ Live(x)
  BY References DEF Ownership
<1>2. \A u \in Threads : \A x \in Objects(u) : x \notin N /\ Live(x)'
  BY <1>1, AddsObjects DEF Ownership
<1>3. \A u \in Threads : \A i \in Slot(u) : i \notin stale
  BY DEF Ownership, CallMeaning, SlotOK
<1>4. \A u \in Threads \ {t} : ShapeOK(u)' /\ ObjectsOK(u)' /\ SlotOK(u)'
  BY <1>2, <1>3, EntriesOld, OtherCalls DEF Ownership
<1> QED BY <1>2, <1>4

(* An object in use stays so when others are added. *)
LEMMA AddsHost ==
  ASSUME TypeOK, Ownership, NEW t \in Threads, NEW N, Moves(t), Adds(N),
         UNCHANGED <<table, lost>>, Objects(t) = {}, Objects(t)' = N
  PROVE  HostMeaning'
<1>1. \A d \in Descs : Live(d) /\ Reached(d) => Live(d)' /\ desc'[d].hfd = desc[d].hfd /\ Reached(d)'
  BY AddsObjects, StillReached DEF Ownership
<1>2. ASSUME NEW h \in Descs, host'[h] # 0, host[h] = 0
      PROVE  \E d \in Descs : Live(d)' /\ desc'[d].hfd = h /\ Reached(d)'
  <2>1. PICK d \in N : desc'[d].hfd = h
    BY <1>2 DEF Adds
  <2>2. Live(d)' /\ d \in Descs
    BY <2>1, AddsObjects DEF Ownership, Adds
  <2>3. Reached(d)'
    BY <2>1, ReachedByCall DEF Objects, Reached, InCall
  <2> QED BY <2>1, <2>2, <2>3
<1> QED BY <1>1, <1>2, HostKept DEF Ownership

LEMMA Makes ==
  ASSUME TypeOK, Ownership, NEW t \in Threads, op[t] = Idle, NoReplacement, Moves(t),
         NEW N, Adds(N), AllocMeaning', Objects(t)' = N,
         op'[t].pc = "assign", op'[t].d # NULL, op'[t].n # op'[t].d,
         UNCHANGED <<table, inited, held, lost, stale>>
  PROVE  Ownership'
<1>1. Objects(t) = {} /\ Slot(t) = {} /\ Slot(t)' = {}
  BY DEF Objects, Slot, Idle, Closing
<1>2. SizeMeaning' /\ ObjectMeaning'
  BY AddsObjects DEF Ownership, SizeMeaning
<1>3. \A u \in Threads : \A i \in Slot(u) : held'[i] = 0
  BY DEF Ownership, CallMeaning, SlotOK
<1>4. /\ \A u \in Threads \ {t} : ShapeOK(u)' /\ ObjectsOK(u)' /\ SlotOK(u)'
      /\ \A u \in Threads : N \cap Objects(u) = {}
  BY <1>3, AddsCalls
<1>5. CallMeaning'
  <2>1. ShapeOK(t)'
    BY DEF ShapeOK, Owning
  <2>2. ObjectsOK(t)'
    BY EntriesOld, AddsObjects DEF ObjectsOK, Ownership
  <2>3. SlotOK(t)'
    BY <1>1 DEF SlotOK
  <2> QED BY <1>4, <2>1, <2>2, <2>3 DEF CallMeaning
<1>6. ApartMeaning'
  BY <1>1, <1>4, StillApart DEF Ownership, NoReplacement
<1>7. SlotMeaning' /\ HeldMeaning'
  BY <1>1, EntriesOld, SlotsKept DEF Ownership
<1>8. HostMeaning'
  BY <1>1, AddsHost
<1> QED BY <1>2, <1>5, <1>6, <1>7, <1>8 DEF Ownership

(* One object, over a new file or over one that is open already. *)
LEMMA MakesOne ==
  ASSUME IInv, NEW t \in Threads, op[t] = Idle, NoReplacement, Fresh <= MaxDesc,
         NEW k \in AllKinds, NEW f \in Descs,
         desc' = [desc EXCEPT ![Fresh] = NewDesc(k, f)],
         host' = [host EXCEPT ![FreeHostFd] = f],
         Goto(t, [Idle EXCEPT !.pc = "assign", !.d = Fresh]),
         UNCHANGED <<table, inited, fdlock, reg, held, lost, stale, map, elock, ev>>
  PROVE  IInv'
<1>1. TypeOK /\ Ownership /\ EvMeaning
  BY DEF IInv, Ownership
<1>2. Adds({Fresh}) /\ AllocMeaning' /\ Fresh \in Descs
  BY <1>1, NewObject DEF Ownership
<1>3. PICK n : n = Fresh
  OBVIOUS
<1>4. PICK r : r = [Idle EXCEPT !.pc = "assign", !.d = n]
  OBVIOUS
<1>5. r \in Calls /\ r.pc = "assign" /\ r.d = n /\ r.n = NULL /\ n # NULL
  <2>1. n \in 0 .. MaxDesc /\ n # NULL /\ NULL \in 0 .. MaxDesc /\ 0 \in 0 .. IntMax /\ 0 \in Fds
    BY <1>2, <1>3, SizeAssumption DEF Descs, NULL, Fds
  <2> QED BY <1>4, <2>1 DEF Calls, Pcs, Idle
<1>6. Moves(t) /\ op'[t] = r
  BY <1>1, <1>3, <1>4, <1>5, GotoMoves
<1>7. Objects(t)' = {n}
  BY <1>5, <1>6 DEF Objects
<1>8. Ownership'
  BY <1>1, <1>2, <1>3, <1>5, <1>6, <1>7, Makes
<1>9. TypeOK'
  BY <1>1, <1>2, <1>6, FdTypes DEF Adds, Moves, TypeOK
<1> QED BY <1>1, <1>5, <1>6, <1>8, <1>9, EvKept DEF IInv, Ownership

LEMMA OpenKeeps ==
  ASSUME IInv, NEW t \in Threads, Fd(Open(t)) PROVE IInv'
<1>1. AllocMeaning
  BY DEF IInv
<1>2. Fresh <= MaxDesc
  BY <1>1, FreshIsNext, SizeAssumption DEF Fd, Open, CanAllocate
<1>3. Fresh \in Descs
  BY <1>1, <1>2, FreeExists
<1>4. PICK k \in Kinds : /\ desc' = [desc EXCEPT ![Fresh] = NewDesc(k, Fresh)]
                         /\ host' = [host EXCEPT ![FreeHostFd] = Fresh]
  BY DEF Fd, Open, FreshFile
<1>5. k \in AllKinds
  BY <1>4, KindAssumption
<1> QED BY <1>2, <1>3, <1>4, <1>5, MakesOne DEF Fd, Open, ghostVars, epVars

LEMMA AcceptKeeps ==
  ASSUME IInv, NEW t \in Threads, Fd(Accept(t)) PROVE IInv'
<1>1. AllocMeaning
  BY DEF IInv
<1>2. Fresh <= MaxDesc
  BY <1>1, FreshIsNext, SizeAssumption DEF Fd, Accept, CanAllocate
<1>3. Fresh \in Descs
  BY <1>1, <1>2, FreeExists
<1>4. /\ desc' = [desc EXCEPT ![Fresh] = NewDesc("socket", Fresh)]
      /\ host' = [host EXCEPT ![FreeHostFd] = Fresh]
  BY DEF Fd, Accept, FreshFile
<1>5. "socket" \in AllKinds
  BY DEF AllKinds
<1> QED BY <1>2, <1>3, <1>4, <1>5, MakesOne DEF Fd, Accept, ghostVars, epVars

LEMMA DupKeeps ==
  ASSUME IInv, NEW t \in Threads, Fd(Dup(t)) PROVE IInv'
<1>1. TypeOK /\ Ownership /\ AllocMeaning
  BY DEF IInv, Ownership
<1>2. Fresh <= MaxDesc
  BY <1>1, FreshIsNext, SizeAssumption DEF Fd, Dup, CanAllocate
<1>3. PICK fd \in Fds : HeldAs(fd, {"file", "socket"}) /\ DupObject(_get_fd(fd))
  BY DEF Fd, Dup
<1>4. PICK k, f : k = desc[_get_fd(fd)].kind /\ f = host[desc[_get_fd(fd)].hfd]
  OBVIOUS
<1>5. k \in AllKinds /\ f \in Descs
  BY <1>1, <1>3, <1>4, HeldObject DEF AllKinds
<1>6. /\ desc' = [desc EXCEPT ![Fresh] = NewDesc(k, f)]
      /\ host' = [host EXCEPT ![FreeHostFd] = f]
  BY <1>3, <1>4 DEF DupObject
<1> QED BY <1>2, <1>5, <1>6, MakesOne DEF Fd, Dup, ghostVars, epVars

(* oe_socketpair: two objects. *)
LEMMA PairMade ==
  ASSUME IInv, NEW t \in Threads, Fd(SocketPair(t))
  PROVE  /\ Adds({Fresh, Fresh + 1}) /\ AllocMeaning' /\ Fresh \in Descs /\ Fresh + 1 \in Descs
         /\ desc'[Fresh].file = Fresh /\ desc'[Fresh + 1].file = Fresh + 1
<1>1. TypeOK /\ AllocMeaning /\ MaxDesc \in Nat
  BY SizeAssumption DEF IInv
<1>2. PICK n, h, g : n = Fresh /\ h = FreeHostFd /\ g = Min({x \in Descs : host[x] = 0} \ {h})
  OBVIOUS
<1>3. Fresh + 1 <= MaxDesc
  BY <1>1, FreshIsNext, SizeAssumption DEF Fd, SocketPair, CanAllocate
<1>4. /\ n \in Descs /\ n + 1 \in Descs /\ h \in Descs /\ host[h] = 0
      /\ desc[n].st = "none" /\ desc[n + 1].st = "none"
  <2>1. n \in Nat /\ n >= 1 /\ n + 1 <= MaxDesc
    BY <1>1, <1>2, <1>3, FreshIsNext
  <2>2. n \in Descs /\ n + 1 \in Descs
    BY <1>1, <2>1 DEF Descs
  <2> QED BY <1>1, <1>2, <1>3, <2>1, <2>2, FreshIsNext, FreeExists
<1>5. g \in Descs /\ host[g] = 0 /\ g # h
  <2>1. PICK S : S = {x \in Descs : host[x] = 0} \ {h}
    OBVIOUS
  <2>2. S # {}
    <3>1. S = {} => Occupied \cup {h} = Descs
      BY <1>4, <2>1 DEF Occupied
    <3>2. Cardinality(Occupied \cup {h}) <= Cardinality(Occupied) + 1
      <4>1. IsFiniteSet(Occupied) /\ Cardinality(Occupied) \in Nat
        BY <1>1, FreshIsNext
      <4>2. Cardinality(Occupied \cup {h}) =
              IF h \in Occupied THEN Cardinality(Occupied) ELSE Cardinality(Occupied) + 1
        BY <4>1, FS_AddElement
      <4> QED BY <4>1, <4>2
    <3>3. Cardinality(Descs) = MaxDesc
      <4>1. Cardinality(1 .. MaxDesc) = IF 1 > MaxDesc THEN 0 ELSE MaxDesc - 1 + 1
        BY <1>1, FS_Interval, 1 \in Int, MaxDesc \in Int
      <4> QED BY <1>1, <4>1 DEF Descs
    <3>4. /\ Cardinality(Occupied) \in Nat /\ Cardinality(Occupied) < n /\ n + 1 <= MaxDesc
          /\ n \in Nat
      BY <1>1, <1>2, <1>3, FreshIsNext
    <3> QED BY <1>1, <3>1, <3>2, <3>3, <3>4
  <2>3. Min(S) \in S
    BY <2>1, <2>2, MinExists DEF Descs
  <2> QED BY <1>2, <2>1, <2>3
<1>6. PICK r1, r2 : r1 = NewDesc("socket", n) /\ r2 = [NewDesc("socket", n + 1) EXCEPT !.hfd = g]
  OBVIOUS
<1>7. /\ r1.st = "live" /\ r1.hfd = h /\ r1.file = n
      /\ r2.st = "live" /\ r2.hfd = g /\ r2.file = n + 1
      /\ {r1, r2} \subseteq [st : {"none", "live", "freed"}, kind : AllKinds,
                             hfd : 0 .. MaxDesc, file : 0 .. MaxDesc]
  <2>1. {n, n + 1, h, g} \subseteq 0 .. MaxDesc
    BY <1>1, <1>4, <1>5 DEF Descs
  <2> QED BY <1>2, <1>6, <2>1 DEF NewDesc, AllKinds
<1>8. /\ desc' = [desc EXCEPT ![n] = r1, ![n + 1] = r2]
      /\ host' = [host EXCEPT ![h] = n, ![g] = n + 1]
  BY <1>2, <1>6 DEF Fd, SocketPair, FreshFile, FreeHostFd
<1>9. n # n + 1 /\ n # 0 /\ n + 1 # 0 /\ n \in 0 .. MaxDesc /\ n + 1 \in 0 .. MaxDesc
  BY <1>1, <1>4 DEF Descs
<1>10. /\ desc' \in DescTypes /\ desc'[n] = r1 /\ desc'[n + 1] = r2
       /\ \A d \in Descs \ {n, n + 1} : desc'[d] = desc[d]
  BY <1>1, <1>4, <1>7, <1>8, <1>9 DEF TypeOK, DescTypes
<1>11. /\ host' \in [Descs -> 0 .. MaxDesc] /\ host'[h] = n /\ host'[g] = n + 1
       /\ \A x \in Descs : host'[x] = host[x] \/ x = h \/ x = g
  BY <1>1, <1>4, <1>5, <1>8, <1>9 DEF TypeOK
<1>12. Adds({n, n + 1})
  BY <1>4, <1>5, <1>7, <1>9, <1>10, <1>11 DEF Adds
<1>13. AllocMeaning'
  <2>1. IsFiniteSet({h, g}) /\ Cardinality({h, g}) <= 2
    <3>1. IsFiniteSet({h}) /\ Cardinality({h}) = 1
      BY FS_Singleton
    <3>2. /\ IsFiniteSet({h} \cup {g})
          /\ Cardinality({h} \cup {g}) = IF g \in {h} THEN Cardinality({h}) ELSE Cardinality({h}) + 1
      BY <3>1, FS_AddElement
    <3>3. {h, g} = {h} \cup {g}
      OBVIOUS
    <3> QED BY <3>1, <3>2, <3>3
  <2>2. Occupied' \subseteq Occupied \cup {h, g}
    BY <1>11 DEF Occupied
  <2>3. \A d \in Descs : desc'[d].st = "none" <=> desc[d].st = "none" /\ ~(n <= d /\ d < n + 2)
    <3>1. \A d \in Descs : (n <= d /\ d < n + 2) <=> d \in {n, n + 1}
      BY <1>1, <1>4 DEF Descs
    <3> QED BY <1>7, <1>10, <3>1
  <2>4. n + 2 - 1 <= MaxDesc /\ 2 \in Nat
    BY <1>1, <1>4 DEF Descs
  <2> QED BY <1>1, <1>2, <2>1, <2>2, <2>3, <2>4, AllocStep
<1> QED BY <1>2, <1>4, <1>7, <1>10, <1>12, <1>13

LEMMA SocketPairKeeps ==
  ASSUME IInv, NEW t \in Threads, Fd(SocketPair(t)) PROVE IInv'
<1>1. TypeOK /\ Ownership /\ EvMeaning /\ MaxDesc \in Nat
  BY SizeAssumption DEF IInv, Ownership
<1>2. PICK n : n = Fresh
  OBVIOUS
<1>3. Adds({n, n + 1}) /\ AllocMeaning' /\ n \in Descs /\ n + 1 \in Descs
  BY <1>2, PairMade
<1>4. n # n + 1 /\ n # 0 /\ n + 1 # 0 /\ n \in 0 .. MaxDesc /\ n + 1 \in 0 .. MaxDesc
  BY <1>1, <1>3 DEF Descs
<1>5. PICK r : r = [Idle EXCEPT !.pc = "assign", !.d = n, !.n = n + 1]
  OBVIOUS
<1>6. r \in Calls /\ r.pc = "assign" /\ r.d = n /\ r.n = n + 1
  <2>1. 0 \in 0 .. IntMax /\ 0 \in Fds
    BY SizeAssumption DEF Fds
  <2> QED BY <1>4, <1>5, <2>1 DEF Calls, Pcs, Idle
<1>7. Moves(t) /\ op'[t] = r
  BY <1>1, <1>2, <1>5, <1>6, GotoMoves DEF Fd, SocketPair
<1>8. Objects(t)' = {n, n + 1}
  BY <1>4, <1>6, <1>7 DEF Objects, NULL
<1>9. UNCHANGED <<table, inited, fdlock, reg, held, lost, stale, map, elock, ev>>
  BY DEF Fd, SocketPair, ghostVars, epVars
<1>10. Ownership'
  BY <1>1, <1>3, <1>4, <1>6, <1>7, <1>8, <1>9, Makes DEF Fd, SocketPair, NULL
<1>11. TypeOK'
  BY <1>1, <1>3, <1>7, <1>9, FdTypes DEF Adds, Moves, TypeOK
<1> QED BY <1>1, <1>6, <1>7, <1>9, <1>10, <1>11, EvKept DEF IInv, Ownership

(* A host descriptor whose object is freed at once, and is lost. *)
LEMMA AcceptTruncatedKeeps ==
  ASSUME IInv, NEW t \in Threads, Fd(AcceptTruncated(t)) PROVE IInv'
<1>1. TypeOK /\ Ownership /\ EvMeaning /\ AllocMeaning /\ ObjectMeaning /\ MaxDesc \in Nat
  BY SizeAssumption DEF IInv, Ownership
<1>2. PICK n, h : n = Fresh /\ h = FreeHostFd
  OBVIOUS
<1>3. n \in Descs /\ h \in Descs /\ host[h] = 0 /\ desc[n].st = "none"
  <2>1. Fresh <= MaxDesc
    BY <1>1, FreshIsNext DEF Fd, AcceptTruncated, CanAllocate
  <2> QED BY <1>1, <1>2, <2>1, FreshIsNext, FreeExists
<1>4. /\ desc' = [desc EXCEPT ![n] = Freed] /\ host' = [host EXCEPT ![h] = n]
      /\ lost' = lost \cup {h}
      /\ UNCHANGED <<table, inited, fdlock, reg, op, held, stale, map, elock, ev>>
  BY <1>2 DEF Fd, AcceptTruncated, FreshFile, epVars
<1>5. Freed.st = "freed" /\ Freed \in [st : {"none", "live", "freed"}, kind : AllKinds,
                                       hfd : 0 .. MaxDesc, file : 0 .. MaxDesc]
  BY <1>1 DEF Freed, AllKinds
<1>6. desc' \in DescTypes /\ desc'[n] = Freed /\ \A d \in Descs \ {n} : desc'[d] = desc[d]
  BY <1>1, <1>3, <1>4, <1>5 DEF TypeOK, DescTypes
<1>7. /\ host' \in [Descs -> 0 .. MaxDesc]
      /\ \A g \in Descs : host'[g] = host[g] \/ g = h
  <2>1. n \in 0 .. MaxDesc
    BY <1>1, <1>3 DEF Descs
  <2> QED BY <1>1, <1>3, <1>4, <2>1 DEF TypeOK
<1>8. \A d \in Descs : (Live(d)' <=> Live(d)) /\ (Live(d) => desc'[d] = desc[d])
  BY <1>3, <1>5, <1>6 DEF Live
<1>9. \A d \in Descs : Live(d) => desc[d].hfd \in Descs /\ host'[desc[d].hfd] = host[desc[d].hfd]
  BY <1>1, <1>3, <1>7 DEF ObjectMeaning
<1>10. SizeMeaning' /\ ObjectMeaning'
  BY <1>1, <1>4, <1>8, <1>9 DEF Ownership, SizeMeaning, ObjectMeaning
<1>11. AllocMeaning'
  <2>1. IsFiniteSet({h}) /\ Cardinality({h}) <= 1
    <3>1. IsFiniteSet({h}) /\ Cardinality({h}) = 1
      BY FS_Singleton
    <3> QED BY <3>1
  <2>2. Occupied' \subseteq Occupied \cup {h}
    BY <1>7 DEF Occupied
  <2>3. \A d \in Descs : desc'[d].st = "none" <=> desc[d].st = "none" /\ ~(n <= d /\ d < n + 1)
    <3>1. \A d \in Descs : (n <= d /\ d < n + 1) <=> d = n
      BY <1>1, <1>3 DEF Descs
    <3> QED BY <1>5, <1>6, <3>1
  <2>4. n + 1 - 1 <= MaxDesc /\ 1 \in Nat
    BY <1>1, <1>3 DEF Descs
  <2> QED BY <1>1, <1>2, <2>1, <2>2, <2>3, <2>4, AllocStep
<1>12. Moves(t) /\ op'[t] = op[t]
  BY <1>1, <1>4 DEF Moves, TypeOK, Calls, Pcs
<1>13. ASSUME NEW i \in DOMAIN table, NEW x, x = table[i]
       PROVE  /\ Live(x)' <=> Live(x)
              /\ x # NULL => x \in Descs /\ desc'[x] = desc[x]
  <2>1. x # NULL => x \in Descs /\ desc[x].st # "none"
    BY <1>1, <1>13, References DEF Ownership, SlotMeaning
  <2> QED BY <1>3, <1>6, <1>8, <2>1 DEF Live
<1>14. CallMeaning'
  <2>1. \A u \in Threads : \A x \in Objects(u) : Live(x)'
    BY <1>1, <1>8, References DEF Ownership
  <2>2. ASSUME NEW u \in Threads PROVE ShapeOK(u)' /\ ObjectsOK(u)' /\ SlotOK(u)'
    <3>1. ShapeOK(u) /\ ObjectsOK(u) /\ SlotOK(u)
      BY <1>1 DEF Ownership, CallMeaning
    <3>2. Objects(u)' = Objects(u) /\ Slot(u)' = Slot(u)
      BY <1>4 DEF Objects, Slot
    <3>3. ShapeOK(u)' /\ ObjectsOK(u)'
      BY <1>4, <2>1, <3>1, <3>2 DEF ShapeOK, ObjectsOK
    <3>4. SlotOK(u)'
      BY <1>4, <1>13, <3>1, <3>2 DEF SlotOK
    <3> QED BY <3>3, <3>4
  <2> QED BY <2>2 DEF CallMeaning
<1>15. ApartMeaning'
  BY <1>1, <1>4 DEF Ownership, ApartMeaning, Objects, Slot, MakesNumber
<1>16. SlotMeaning' /\ HeldMeaning'
  <2>1. Slot(t)' = Slot(t)
    BY <1>4 DEF Slot
  <2> QED BY <1>1, <1>4, <1>12, <1>13, <2>1, SlotsKept DEF Ownership
<1>17. HostMeaning'
  <2>1. \A d \in Descs : Reached(d) => Reached(d)'
    BY <1>4 DEF Reached, TableEntries, InCall
  <2>2. \A g \in Descs : host'[g] # 0 /\ g \notin lost' => host[g] # 0
    BY <1>4, <1>7
  <2> QED BY <1>1, <1>4, <1>8, <2>1, <2>2, HostKept DEF Ownership
<1>18. TypeOK'
  BY <1>1, <1>4, <1>6, <1>7, <1>12, FdTypes DEF Moves, TypeOK
<1>19. EvMeaning'
  BY <1>1, <1>4 DEF EvMeaning
<1> QED BY <1>10, <1>11, <1>14, <1>15, <1>16, <1>17, <1>18, <1>19 DEF IInv

-----------------------------------------------------------------------------
(* An object is stored in the table.                                         *)

LEMMA StoresSlots ==
  ASSUME TypeOK, Ownership, inited, NEW t \in Threads, Moves(t),
         NEW s, NEW d \in Descs, Live(d), Stores(table', s, d),
         UNCHANGED <<inited, desc, host, stale>>, s \notin stale, held[s] = 0,
         \A i \in DOMAIN table : table[i] # d,
         \A fd \in Fds :
             \/ held'[fd] = held[fd]
             \/ /\ fd \in DOMAIN table' /\ table'[fd] \in Descs /\ fd \notin stale
                /\ Live(table'[fd]) /\ held'[fd] = desc[table'[fd]].file,
         \A i \in Slot(t) \cup {s} : i \in DOMAIN table' => i \in Slot(t)' \/ held'[i] # 0
  PROVE  SlotMeaning' /\ HeldMeaning'
<1>1. /\ DOMAIN table \subseteq DOMAIN table' /\ s \in DOMAIN table' /\ DOMAIN table' \subseteq Fds
      /\ \A i \in DOMAIN table' :
            table'[i] = IF i = s THEN d ELSE IF i \in DOMAIN table THEN table[i] ELSE NULL
  BY StoresType DEF Stores
<1>2. d # NULL
  BY SizeAssumption DEF Descs, NULL
<1>3. \A fd \in Fds : held[fd] # 0 => held'[fd] # 0
  BY DEF Ownership, ObjectMeaning
<1>4. \A u \in Threads \ {t} : Slot(u)' = Slot(u)
  BY DEF Moves, Slot
<1>5. ASSUME NEW i \in DOMAIN table', NEW j \in DOMAIN table', table'[i] # NULL, table'[i] = table'[j]
      PROVE  i = j
  BY <1>1, <1>2, <1>5 DEF Ownership, SlotMeaning
<1>6. ASSUME NEW i \in DOMAIN table', table'[i] # NULL
      PROVE  /\ desc'[table'[i]].st # "none"
             /\ held'[i] # 0 \/ i \in stale' \/ \E u \in Threads : i \in Slot(u)'
  <2>1. CASE i = s
    BY <1>1, <1>6, <2>1 DEF Live
  <2>2. CASE i # s
    <3>1. i \in DOMAIN table /\ table'[i] = table[i] /\ i \in Fds
      BY <1>1, <1>6, <2>2
    <3>2. /\ desc[table[i]].st # "none"
          /\ held[i] # 0 \/ i \in stale \/ \E u \in Threads : i \in Slot(u)
      BY <1>6, <3>1 DEF Ownership, SlotMeaning
    <3> QED BY <1>3, <1>4, <1>6, <3>1, <3>2
  <2> QED BY <2>1, <2>2
<1>7. SlotMeaning'
  BY <1>5, <1>6 DEF SlotMeaning
<1>8. ASSUME NEW fd \in Fds, held'[fd] # 0
      PROVE  /\ fd \in DOMAIN table' /\ Live(table'[fd]) /\ desc[table'[fd]].file = held'[fd]
  <2>1. CASE held'[fd] = held[fd]
    <3>1. fd # s /\ fd \in DOMAIN table /\ Live(table[fd]) /\ desc[table[fd]].file = held[fd]
      BY <1>8, <2>1 DEF Ownership, HeldMeaning
    <3> QED BY <1>1, <2>1, <3>1
  <2> QED BY <1>8, <2>1
<1>9. ASSUME NEW i \in stale PROVE i \in DOMAIN table' /\ table'[i] # NULL /\ held'[i] = 0
  <2>1. i \in DOMAIN table /\ table[i] # NULL /\ held[i] = 0 /\ i # s
    BY DEF Ownership, HeldMeaning
  <2> QED BY <1>1, <2>1
<1>10. HeldMeaning'
  BY <1>8, <1>9 DEF HeldMeaning, Live
<1> QED BY <1>7, <1>10

LEMMA StoresCalls ==
  ASSUME TypeOK, Ownership, NEW t \in Threads, Moves(t),
         NEW s, NEW d \in Objects(t), Stores(table', s, d),
         UNCHANGED <<inited, desc, host, stale>>,
         \A u \in Threads \ {t} : s \notin Slot(u),
         \A u \in Threads \ {t} : \A i \in Slot(u) : held'[i] = 0
  PROVE  \A u \in Threads \ {t} : ShapeOK(u)' /\ ObjectsOK(u)' /\ SlotOK(u)'
<1>1. ASSUME NEW u \in Threads \ {t}, NEW x \in Objects(u)
      PROVE  /\ Live(x)'
             /\ \A i \in DOMAIN table' : table'[i] = x => i \in DOMAIN table /\ table[i] = x
  <2>1. Live(x) /\ x # NULL
    BY References DEF Ownership, Live
  <2>2. x # d
    BY DEF Ownership, ApartMeaning
  <2> QED BY <2>1, <2>2 DEF Live, Stores
<1>2. ASSUME NEW u \in Threads \ {t}, NEW i \in Slot(u)
      PROVE  /\ held'[i] = 0 /\ i \notin stale'
             /\ i \in DOMAIN table => i \in DOMAIN table' /\ table'[i] = table[i]
             /\ i \in DOMAIN table' /\ i \notin DOMAIN table => table'[i] = NULL
  <2>1. i # s /\ i \notin stale
    BY DEF Ownership, CallMeaning, SlotOK
  <2> QED BY <2>1 DEF Stores
<1>3. ASSUME NEW u \in Threads \ {t}, NEW i \in Slot(u), i \in DOMAIN table
      PROVE  Live(table[i])' <=> Live(table[i])
  BY <1>2, <1>3 DEF Live
<1> QED BY <1>1, <1>2, <1>3, OtherCalls DEF Ownership

LEMMA StoresHost ==
  ASSUME TypeOK, Ownership, NEW t \in Threads, Moves(t),
         NEW s, NEW d, Stores(table', s, d), UNCHANGED <<desc, host, lost>>,
         s \in DOMAIN table /\ table[s] # NULL => table[s] \in Objects(t)',
         \A x \in Objects(t) : x = d \/ x \in Objects(t)' \/ \E i \in DOMAIN table \ {s} : table[i] = x
  PROVE  HostMeaning'
<1>1. \A i \in DOMAIN table \ {s} : i \in DOMAIN table' /\ table'[i] = table[i]
  BY DEF Stores
<1>2. s \in DOMAIN table' /\ table'[s] = d
  BY DEF Stores
<1>3. ASSUME NEW x \in Descs, Reached(x) PROVE Reached(x)'
  <2>0. x # NULL
    BY SizeAssumption DEF Descs, NULL
  <2>1. ASSUME NEW i \in DOMAIN table \ {s}, table[i] = x PROVE Reached(x)'
    BY <1>1, <2>1 DEF Reached, TableEntries
  <2>2. ASSUME x \in Objects(t)' PROVE Reached(x)'
    BY <2>2 DEF Objects, Reached, InCall
  <2>3. CASE x \in TableEntries
    BY <2>0, <2>1, <2>2, <2>3 DEF TableEntries
  <2>4. CASE \E u \in Threads : x \in {op[u].d, op[u].n}
    <3>1. PICK u \in Threads : x \in {op[u].d, op[u].n}
      BY <2>4
    <3>2. CASE u = t
      <4>1. x \in Objects(t)
        BY <2>0, <3>1, <3>2 DEF Objects
      <4>2. CASE x = d
        BY <1>2, <4>2 DEF Reached, TableEntries
      <4> QED BY <2>1, <2>2, <4>1, <4>2
    <3>3. CASE u # t
      <4>1. x \in {op'[u].d, op'[u].n}
        BY <3>1, <3>3 DEF Moves
      <4> QED BY <4>1 DEF Reached, InCall
    <3> QED BY <3>2, <3>3
  <2> QED BY <1>3, <2>3, <2>4 DEF Reached, InCall
<1> QED BY <1>3, HostKept DEF Ownership, Live

(* The slot that oe_fdtable_assign finds is nobody's. *)
LEMMA EmptySlot ==
  ASSUME TypeOK, Ownership, NEW t \in Threads, op[t].pc \in {"assign", "assign2"},
         NEW s \in Fds, s \in DOMAIN table => table[s] = NULL
  PROVE  held[s] = 0 /\ s \notin stale /\ \A u \in Threads : s \notin Slot(u)
<1>1. held[s] = 0
  BY DEF Ownership, HeldMeaning, Live
<1>2. s \notin stale
  BY DEF Ownership, HeldMeaning
<1>3. ASSUME NEW u \in Threads, s \in Slot(u) PROVE FALSE
  <2>1. SlotOK(u) /\ ShapeOK(u)
    BY DEF Ownership, CallMeaning
  <2>2. op[u].pc # "reassign"
    BY DEF Ownership, ApartMeaning, MakesNumber
  <2>3. op[u].pc \in Closing \/ op[u].pc = "assign2"
    BY <1>3, <2>2 DEF Slot
  <2> QED BY <1>3, <2>1, <2>3 DEF SlotOK, ShapeOK
<1> QED BY <1>1, <1>2, <1>3

(* The types, the size and the objects after a store. *)
LEMMA StoresBasics ==
  ASSUME IInv, NEW t \in Threads, Moves(t), NEW s, NEW d, Stores(table', s, d),
         UNCHANGED <<inited, fdlock, desc, host, reg, map, elock, ev>>,
         held' \in [Fds -> 0 .. MaxDesc], op'[t].pc # "ctlMap"
  PROVE  TypeOK' /\ EvMeaning' /\ SizeMeaning' /\ AllocMeaning' /\ ObjectMeaning'
<1>1. TypeOK /\ EvMeaning /\ AllocMeaning /\ ObjectMeaning
  BY DEF IInv
<1>2. AllocMeaning' /\ ObjectMeaning'
  BY <1>1 DEF AllocMeaning, Occupied, ObjectMeaning, Live
<1>3. TypeOK'
  BY <1>1, StoresType, FdTypes DEF TypeOK, Moves, DescTypes
<1> QED BY <1>1, <1>2, <1>3, StoresType, EvKept

LEMMA AssignKeeps ==
  ASSUME IInv, NEW t \in Threads, Fd(Assign(t)) PROVE IInv'
<1>1. /\ TypeOK /\ Ownership /\ EvMeaning /\ op[t].pc = "assign" /\ inited /\ op[t] \in Calls
      /\ ShapeOK(t) /\ ObjectsOK(t) /\ SizeMeaning
  BY DEF IInv, Ownership, Fd, Assign, TableReady, CallMeaning, TypeOK, Calls, Pcs
<1>2. PICK a \in Assigned(op[t].d) :
        /\ table' = a.table
        /\ IF op[t].n = NULL
           THEN Return(t) /\ held' = [held EXCEPT ![a.fd] = desc[op[t].d].file]
           ELSE Goto(t, [op[t] EXCEPT !.pc = "assign2", !.fd = a.fd]) /\ UNCHANGED held
  BY DEF Fd, Assign
<1>3. PICK d, s : d = op[t].d /\ s = a.fd
  OBVIOUS
<1>4. UNCHANGED <<inited, fdlock, desc, host, reg, lost, stale, map, elock, ev>>
  BY DEF Fd, Assign, hostVars, epVars
<1>5. d # NULL /\ d \in Objects(t) /\ d \in Descs /\ Live(d) /\ desc[d].file \in 0 .. MaxDesc
      /\ desc[d].file # 0
  <2>1. d # NULL /\ d \in Objects(t)
    BY <1>1, <1>3 DEF ShapeOK, Objects
  <2>2. d \in Descs /\ Live(d)
    BY <1>1, <2>1, References DEF Ownership
  <2> QED BY <1>1, <2>1, <2>2 DEF Ownership, ObjectMeaning, TypeOK
<1>6. Stores(table', s, d) /\ s \in Fds /\ (s \in DOMAIN table => table[s] = NULL)
  BY <1>1, <1>2, <1>3, <1>5, AssignStores DEF Stores
<1>7. held[s] = 0 /\ s \notin stale /\ \A u \in Threads : s \notin Slot(u)
  BY <1>1, <1>6, EmptySlot
<1>8. Slot(t) = {} /\ MakesNumber(t) /\ \A i \in DOMAIN table : \A x \in Objects(t) : table[i] # x
  BY <1>1 DEF Slot, Closing, ObjectsOK, MakesNumber
<1>9. s \in DOMAIN table' /\ table'[s] = d
  BY <1>6 DEF Stores
<1>10. \A u \in Threads : \A i \in Slot(u) : held[i] = 0 /\ i # s
  BY <1>1, <1>7 DEF Ownership, CallMeaning, SlotOK
<1>11. CASE op[t].n = NULL
  <2>1. Moves(t) /\ op'[t] = Idle
    BY <1>1, <1>2, <1>11, IdleType, GotoMoves DEF Return
  <2>2. held' = [held EXCEPT ![s] = desc[d].file]
    BY <1>2, <1>3, <1>11
  <2>3. /\ held' \in [Fds -> 0 .. MaxDesc] /\ held'[s] = desc[d].file
        /\ \A fd \in Fds \ {s} : held'[fd] = held[fd]
    BY <1>1, <1>5, <1>6, <2>2 DEF TypeOK
  <2>4. Objects(t) = {d} /\ Objects(t)' = {} /\ Slot(t)' = {}
    BY <1>3, <1>5, <1>11, <2>1 DEF Objects, Slot, Idle, Closing
  <2>5. TypeOK' /\ EvMeaning' /\ SizeMeaning' /\ AllocMeaning' /\ ObjectMeaning'
    BY <1>4, <1>6, <2>1, <2>3, StoresBasics DEF Idle
  <2>6. SlotMeaning' /\ HeldMeaning'
    BY <1>1, <1>4, <1>5, <1>6, <1>7, <1>8, <1>9, <2>1, <2>3, StoresSlots
  <2>7. \A u \in Threads \ {t} : \A i \in Slot(u) : held'[i] = 0
    <3>1. \A u \in Threads : Slot(u) \subseteq Fds
      BY <1>1 DEF Ownership, CallMeaning, SlotOK
    <3> QED BY <1>10, <2>3, <3>1
  <2>8. \A u \in Threads \ {t} : ShapeOK(u)' /\ ObjectsOK(u)' /\ SlotOK(u)'
    BY <1>1, <1>4, <1>5, <1>6, <1>7, <2>1, <2>7, StoresCalls
  <2>9. ShapeOK(t)' /\ ObjectsOK(t)' /\ SlotOK(t)'
    BY <2>1, <2>4 DEF ShapeOK, ObjectsOK, SlotOK, Idle, Owning
  <2>10. CallMeaning'
    BY <2>8, <2>9 DEF CallMeaning
  <2>11. ApartMeaning'
    <3>1. op'[t].pc # "reassign" /\ ~MakesNumber(t)'
      BY <2>1 DEF MakesNumber, Idle
    <3> QED BY <1>1, <2>1, <2>4, <3>1, StillApart DEF Ownership
  <2>12. HostMeaning'
    BY <1>1, <1>4, <1>6, <2>1, <2>4, StoresHost
  <2> QED BY <2>5, <2>6, <2>10, <2>11, <2>12 DEF IInv
<1>12. CASE op[t].n # NULL
  <2>1. PICK r : r = [op[t] EXCEPT !.pc = "assign2", !.fd = s]
    OBVIOUS
  <2>2. r \in Calls /\ r.pc = "assign2" /\ r.fd = s /\ r.d = d /\ r.n = op[t].n
    BY <1>1, <1>3, <1>6, <2>1 DEF Calls, Pcs
  <2>3. Moves(t) /\ op'[t] = r /\ held' = held
    BY <1>1, <1>2, <1>3, <1>12, <2>1, <2>2, GotoMoves
  <2>4. Objects(t)' = Objects(t) /\ Slot(t)' = {s}
    BY <1>3, <2>2, <2>3 DEF Objects, Slot
  <2>5. TypeOK' /\ EvMeaning' /\ SizeMeaning' /\ AllocMeaning' /\ ObjectMeaning'
    BY <1>1, <1>4, <1>6, <2>2, <2>3, StoresBasics DEF TypeOK
  <2>6. SlotMeaning' /\ HeldMeaning'
    BY <1>1, <1>4, <1>5, <1>6, <1>7, <1>8, <1>9, <2>3, <2>4, StoresSlots
  <2>7. \A u \in Threads \ {t} : ShapeOK(u)' /\ ObjectsOK(u)' /\ SlotOK(u)'
    BY <1>1, <1>4, <1>5, <1>6, <1>7, <1>10, <2>3, StoresCalls
  <2>8. ShapeOK(t)'
    BY <1>1, <1>3, <1>4, <1>12, <2>2, <2>3 DEF ShapeOK, Owning
  <2>9. ObjectsOK(t)'
    <3>1. ASSUME NEW x \in Objects(t), NEW i \in DOMAIN table', table'[i] = x PROVE i = s
      <4>1. x # NULL
        BY DEF Objects
      <4> QED BY <1>6, <1>8, <3>1, <4>1 DEF Stores
    <3>2. \A x \in Objects(t) : Live(x)'
      BY <1>1, <1>4, References DEF Ownership, Live
    <3> QED BY <2>2, <2>3, <2>4, <3>1, <3>2 DEF ObjectsOK
  <2>10. SlotOK(t)'
    BY <1>4, <1>6, <1>7, <1>9, <2>2, <2>3, <2>4 DEF SlotOK, Closing
  <2>11. CallMeaning'
    BY <2>7, <2>8, <2>9, <2>10 DEF CallMeaning
  <2>12. ApartMeaning'
    BY <1>1, <1>7, <1>8, <2>2, <2>3, <2>4, StillApart DEF Ownership, ApartMeaning
  <2>13. HostMeaning'
    BY <1>1, <1>4, <1>6, <2>3, <2>4, StoresHost
  <2> QED BY <2>5, <2>6, <2>11, <2>12, <2>13 DEF IInv
<1> QED BY <1>11, <1>12

(* oe_socketpair: the second object. *)
LEMMA Assign2Keeps ==
  ASSUME IInv, NEW t \in Threads, Fd(Assign2(t)) PROVE IInv'
<1>1. /\ TypeOK /\ Ownership /\ EvMeaning /\ op[t].pc = "assign2" /\ inited /\ op[t] \in Calls
      /\ ShapeOK(t) /\ ObjectsOK(t) /\ SlotOK(t) /\ SizeMeaning
  BY DEF IInv, Ownership, Fd, Assign2, TableReady, CallMeaning, TypeOK, Calls, Pcs
<1>2. PICK a \in Assigned(op[t].n) :
        /\ table' = a.table
        /\ held' = [held EXCEPT ![op[t].fd] = desc[op[t].d].file,
                                ![a.fd] = desc[op[t].n].file]
  BY DEF Fd, Assign2
<1>3. PICK c, d, s, fd : c = op[t].d /\ d = op[t].n /\ s = a.fd /\ fd = op[t].fd
  OBVIOUS
<1>4. UNCHANGED <<inited, fdlock, desc, host, reg, lost, stale, map, elock, ev>>
  BY DEF Fd, Assign2, hostVars, epVars
<1>5. Objects(t) = {c, d} /\ c # NULL /\ d # NULL /\ c # d
  BY <1>1, <1>3 DEF ShapeOK, Objects
<1>6. \A x \in {c, d} : /\ x \in Descs /\ Live(x) /\ desc[x].file \in 0 .. MaxDesc
                        /\ desc[x].file # 0
  <2>1. \A x \in {c, d} : x \in Descs /\ Live(x)
    BY <1>1, <1>5, References DEF Ownership
  <2> QED BY <1>1, <2>1 DEF Ownership, ObjectMeaning, TypeOK
<1>7. Stores(table', s, d) /\ s \in Fds /\ (s \in DOMAIN table => table[s] = NULL)
  <2>1. op[t].n \in Descs
    BY <1>3, <1>6
  <2>2. Stores(a.table, a.fd, op[t].n) /\ (a.fd \in DOMAIN table => table[a.fd] = NULL)
    BY <1>1, <1>2, <2>1, AssignStores
  <2> QED BY <1>2, <1>3, <2>2 DEF Stores
<1>8. held[s] = 0 /\ s \notin stale /\ \A u \in Threads : s \notin Slot(u)
  BY <1>1, <1>7, EmptySlot
<1>9. /\ Slot(t) = {fd} /\ fd \in Fds /\ fd \in DOMAIN table /\ table[fd] = c /\ fd \notin stale
      /\ fd # s
  BY <1>1, <1>3, <1>5, <1>7 DEF Slot, SlotOK, TypeOK
<1>10. \A i \in DOMAIN table : table[i] # d
  BY <1>1, <1>3, <1>5, <1>9 DEF ObjectsOK
<1>11. s \in DOMAIN table' /\ table'[s] = d /\ fd \in DOMAIN table' /\ table'[fd] = c
  BY <1>7, <1>9 DEF Stores
<1>12. /\ held' \in [Fds -> 0 .. MaxDesc] /\ held'[s] = desc[d].file /\ held'[fd] = desc[c].file
       /\ \A i \in Fds \ {s, fd} : held'[i] = held[i]
  <2>1. held' = [held EXCEPT ![fd] = desc[c].file, ![s] = desc[d].file]
    BY <1>2, <1>3
  <2> QED BY <1>1, <1>6, <1>7, <1>9, <2>1 DEF TypeOK
<1>13. Moves(t) /\ op'[t] = Idle
  BY <1>1, IdleType, GotoMoves DEF Fd, Assign2, Return
<1>14. Objects(t)' = {} /\ Slot(t)' = {}
  BY <1>13 DEF Objects, Slot, Idle, Closing
<1>15. TypeOK' /\ EvMeaning' /\ SizeMeaning' /\ AllocMeaning' /\ ObjectMeaning'
  BY <1>4, <1>7, <1>12, <1>13, StoresBasics DEF Idle
<1>16. SlotMeaning' /\ HeldMeaning'
  <2>1. \A i \in Fds :
             \/ held'[i] = held[i]
             \/ /\ i \in DOMAIN table' /\ table'[i] \in Descs /\ i \notin stale
                /\ Live(table'[i]) /\ held'[i] = desc[table'[i]].file
    BY <1>6, <1>8, <1>9, <1>11, <1>12
  <2>2. \A i \in Slot(t) \cup {s} : held'[i] # 0
    BY <1>6, <1>9, <1>12
  <2> QED BY <1>1, <1>4, <1>6, <1>7, <1>8, <1>10, <1>13, <2>1, <2>2, StoresSlots
<1>17. CallMeaning'
  <2>1. \A u \in Threads \ {t} : Slot(u) \subseteq Fds
    BY <1>1 DEF Ownership, CallMeaning, SlotOK
  <2>2. \A u \in Threads \ {t} : Slot(u) \subseteq Fds /\ fd \notin Slot(u)
    BY <1>1, <1>9, <2>1 DEF Ownership, ApartMeaning
  <2>3. \A u \in Threads \ {t} : \A i \in Slot(u) : held'[i] = 0
    BY <1>1, <1>8, <1>12, <2>2 DEF Ownership, CallMeaning, SlotOK
  <2>4. \A u \in Threads \ {t} : ShapeOK(u)' /\ ObjectsOK(u)' /\ SlotOK(u)'
    BY <1>1, <1>4, <1>5, <1>7, <1>8, <1>13, <2>3, StoresCalls
  <2>5. ShapeOK(t)' /\ ObjectsOK(t)' /\ SlotOK(t)'
    BY <1>13, <1>14 DEF ShapeOK, ObjectsOK, SlotOK, Idle, Owning
  <2> QED BY <2>4, <2>5 DEF CallMeaning
<1>18. ApartMeaning'
  <2>1. op'[t].pc # "reassign" /\ ~MakesNumber(t)'
    BY <1>13 DEF MakesNumber, Idle
  <2> QED BY <1>1, <1>13, <1>14, <2>1, StillApart DEF Ownership
<1>19. HostMeaning'
  BY <1>1, <1>4, <1>5, <1>7, <1>9, <1>13, StoresHost
<1> QED BY <1>15, <1>16, <1>17, <1>18, <1>19 DEF IInv

(* oe_fdtable_reassign: the object that is replaced, if any, is the call's. *)
LEMMA ReassignKeeps ==
  ASSUME IInv, NEW t \in Threads, Fd(Reassign(t)) PROVE IInv'
<1>1. /\ TypeOK /\ Ownership /\ EvMeaning /\ op[t].pc = "reassign" /\ inited /\ op[t] \in Calls
      /\ ShapeOK(t) /\ ObjectsOK(t) /\ SlotOK(t) /\ SizeMeaning
  BY DEF IInv, Ownership, Fd, Reassign, TableReady, CallMeaning, TypeOK, Calls, Pcs
<1>2. PICK tb \in ResizeResults(op[t].to + 1) :
        /\ op[t].to \in DOMAIN tb
        /\ table' = [tb EXCEPT ![op[t].to] = op[t].n]
        /\ held' = [held EXCEPT ![op[t].to] = desc[op[t].n].file]
        /\ IF tb[op[t].to] = NULL THEN Return(t)
           ELSE Goto(t, [Idle EXCEPT !.pc = "undo", !.d = tb[op[t].to]])
  BY DEF Fd, Reassign
<1>3. PICK d, s, old : d = op[t].n /\ s = op[t].to /\ old = tb[s]
  OBVIOUS
<1>4. UNCHANGED <<inited, fdlock, desc, host, reg, lost, stale, map, elock, ev>>
  BY DEF Fd, Reassign, hostVars, epVars
<1>5. Objects(t) = {d} /\ d # NULL /\ op[t].d = NULL /\ Slot(t) = {s}
  BY <1>1, <1>3 DEF ShapeOK, Objects, Slot, Closing
<1>6. d \in Descs /\ Live(d) /\ desc[d].file \in 0 .. MaxDesc /\ desc[d].file # 0
  <2>1. d \in Descs /\ Live(d)
    BY <1>1, <1>5, References DEF Ownership
  <2> QED BY <1>1, <2>1 DEF Ownership, ObjectMeaning, TypeOK
<1>7. Grown(tb)
  <2>1. s + 1 \in Nat
    BY <1>1, <1>3, SizeAssumption DEF Calls
  <2> QED BY <1>1, <1>2, <1>3, <2>1, ResizeGrows
<1>8. Stores(table', s, d) /\ s \in Fds
  <2>1. PICK n \in 0 .. IntMax : tb \in [0 .. n - 1 -> 0 .. MaxDesc]
    BY <1>7 DEF Grown
  <2>2. s \in 0 .. n - 1 /\ s \in Fds /\ d \in 0 .. MaxDesc
    BY <1>2, <1>3, <1>6, <2>1, SizeAssumption DEF Fds, Descs
  <2>3. table' = [tb EXCEPT ![s] = d]
    BY <1>2, <1>3
  <2>4. table' \in [0 .. n - 1 -> 0 .. MaxDesc] /\ DOMAIN table' = DOMAIN tb
    BY <2>1, <2>2, <2>3
  <2>5. \A i \in DOMAIN tb : table'[i] = IF i = s THEN d ELSE tb[i]
    BY <2>1, <2>3
  <2> QED BY <1>7, <2>1, <2>2, <2>4, <2>5 DEF Grown, Stores
<1>9. old = IF s \in DOMAIN table THEN table[s] ELSE NULL
  BY <1>2, <1>3, <1>7 DEF Grown
<1>10. held[s] = 0 /\ s \notin stale /\ (old # NULL => Live(old) /\ old \in Descs)
  BY <1>1, <1>5, <1>9, References DEF SlotOK, Ownership
<1>11. \A i \in DOMAIN table : table[i] # d
  BY <1>1, <1>5 DEF ObjectsOK
<1>12. /\ held' \in [Fds -> 0 .. MaxDesc] /\ held'[s] = desc[d].file
       /\ \A i \in Fds \ {s} : held'[i] = held[i]
  <2>1. held' = [held EXCEPT ![s] = desc[d].file]
    BY <1>2, <1>3
  <2> QED BY <1>1, <1>6, <1>8, <2>1 DEF TypeOK
<1>13. /\ Moves(t) /\ op'[t].n = NULL /\ op'[t].d = old
       /\ op'[t].pc = IF old = NULL THEN "idle" ELSE "undo"
  <2>1. CASE old = NULL
    <3>1. Moves(t) /\ op'[t] = Idle
      BY <1>1, <1>2, <1>3, <2>1, IdleType, GotoMoves DEF Return
    <3> QED BY <2>1, <3>1 DEF Idle
  <2>2. CASE old # NULL
    <3>1. PICK r : r = [Idle EXCEPT !.pc = "undo", !.d = old]
      OBVIOUS
    <3>2. r \in Calls /\ r.pc = "undo" /\ r.d = old /\ r.n = NULL
      <4>1. old \in 0 .. MaxDesc /\ NULL \in 0 .. MaxDesc /\ 0 \in 0 .. IntMax /\ 0 \in Fds
        BY <1>10, <2>2, SizeAssumption DEF Descs, NULL, Fds
      <4> QED BY <3>1, <4>1 DEF Calls, Pcs, Idle
    <3>3. Moves(t) /\ op'[t] = r
      BY <1>1, <1>2, <1>3, <2>2, <3>1, <3>2, GotoMoves
    <3> QED BY <2>2, <3>2, <3>3
  <2> QED BY <2>1, <2>2
<1>14. Objects(t)' = {old} \ {NULL} /\ Slot(t)' = {}
  BY <1>13 DEF Objects, Slot, Closing
<1>15. TypeOK' /\ EvMeaning' /\ SizeMeaning' /\ AllocMeaning' /\ ObjectMeaning'
  BY <1>4, <1>8, <1>12, <1>13, StoresBasics
<1>16. SlotMeaning' /\ HeldMeaning'
  <2>1. s \in DOMAIN table' /\ table'[s] = d
    BY <1>8 DEF Stores
  <2> QED BY <1>1, <1>4, <1>5, <1>6, <1>8, <1>10, <1>11, <1>12, <1>13, <2>1, StoresSlots
<1>17. CallMeaning'
  <2>1. \A u \in Threads \ {t} : Slot(u) \subseteq Fds
    BY <1>1 DEF Ownership, CallMeaning, SlotOK
  <2>2. \A u \in Threads \ {t} : Slot(u) \subseteq Fds /\ s \notin Slot(u)
    BY <1>1, <1>5, <2>1 DEF Ownership, ApartMeaning
  <2>3. \A u \in Threads \ {t} : \A i \in Slot(u) : held'[i] = 0
    BY <1>1, <1>12, <2>2 DEF Ownership, CallMeaning, SlotOK
  <2>4. \A u \in Threads \ {t} : ShapeOK(u)' /\ ObjectsOK(u)' /\ SlotOK(u)'
    <3>1. d \in Objects(t) /\ \A u \in Threads \ {t} : s \notin Slot(u)
      BY <1>5, <2>2
    <3> QED BY <1>1, <1>4, <1>8, <1>13, <2>3, <3>1, StoresCalls
  <2>5. ShapeOK(t)' /\ SlotOK(t)'
    BY <1>13, <1>14 DEF ShapeOK, SlotOK, Owning
  <2>6. ObjectsOK(t)'
    <3>1. ASSUME old # NULL, NEW i \in DOMAIN table', table'[i] = old PROVE FALSE
      <4>1. s \in DOMAIN table /\ table[s] = old /\ old # d
        BY <1>9, <1>11, <3>1
      <4>2. i # s /\ i \in DOMAIN table /\ table[i] = old
        BY <1>8, <3>1, <4>1 DEF Stores
      <4> QED BY <1>1, <3>1, <4>1, <4>2 DEF Ownership, SlotMeaning
    <3>2. old # NULL => Live(old)'
      BY <1>4, <1>10 DEF Live
    <3> QED BY <1>14, <3>1, <3>2 DEF ObjectsOK
  <2> QED BY <2>4, <2>5, <2>6 DEF CallMeaning
<1>18. ApartMeaning'
  <2>1. op'[t].pc # "reassign" /\ ~MakesNumber(t)'
    BY <1>13 DEF MakesNumber
  <2>2. ASSUME NEW u \in Threads \ {t}, old # NULL, old \in Objects(u) PROVE FALSE
    <3>1. s \in DOMAIN table /\ table[s] = old
      BY <1>9, <2>2
    <3>2. ObjectsOK(u) /\ s \notin Slot(u)
      BY <1>1, <1>5 DEF Ownership, CallMeaning, ApartMeaning
    <3> QED BY <1>10, <2>2, <3>1, <3>2 DEF ObjectsOK, Slot
  <2> QED BY <1>1, <1>13, <1>14, <2>1, <2>2, StillApart DEF Ownership
<1>19. HostMeaning'
  BY <1>1, <1>4, <1>5, <1>8, <1>9, <1>13, <1>14, StoresHost
<1> QED BY <1>15, <1>16, <1>17, <1>18, <1>19 DEF IInv

-----------------------------------------------------------------------------
(* A call that fails gives up its number: the objects are to be closed.      *)

LEMMA GivesUp ==
  ASSUME IInv, NEW t \in Threads, Moves(t), op[t].pc \in {"assign", "assign2", "reassign"},
         op'[t].pc = "undo", op'[t].d # NULL, op'[t].n # op'[t].d,
         Objects(t)' = Objects(t), stale \subseteq stale',
         \A i \in stale' \ stale : i \in Slot(t) /\ op[t].pc = "assign2",
         \A i \in Slot(t) : i \in DOMAIN table /\ table[i] # NULL => i \in stale',
         UNCHANGED <<table, inited, fdlock, desc, host, reg, held, lost, map, elock, ev>>
  PROVE  IInv'
<1>1. TypeOK /\ Ownership /\ EvMeaning /\ ShapeOK(t) /\ ObjectsOK(t) /\ SlotOK(t)
  BY DEF IInv, Ownership, CallMeaning
<1>2. Slot(t)' = {} /\ \A u \in Threads \ {t} : Slot(u)' = Slot(u)
  BY DEF Slot, Closing, Moves
<1>3. SizeMeaning' /\ AllocMeaning' /\ ObjectMeaning'
  BY <1>1 DEF Ownership, SizeMeaning, AllocMeaning, Occupied, ObjectMeaning, Live
<1>4. \A i \in stale' \ stale :
        inited /\ i \in DOMAIN table /\ table[i] # NULL /\ held[i] = 0
  BY <1>1 DEF SlotOK, ShapeOK
<1>5. CallMeaning'
  <2>1. \A u \in Threads : \A x \in Objects(u) : Live(x)'
    BY <1>1, References DEF Ownership, Live
  <2>2. \A u \in Threads \ {t} : \A i \in Slot(u) : held'[i] = 0 /\ i \notin stale'
    BY <1>1 DEF Ownership, CallMeaning, SlotOK, ApartMeaning
  <2>3. \A u \in Threads \ {t} : ShapeOK(u)' /\ ObjectsOK(u)' /\ SlotOK(u)'
    BY <1>1, <2>1, <2>2, OtherCalls DEF Ownership, Live
  <2>4. ShapeOK(t)' /\ SlotOK(t)'
    BY <1>2 DEF ShapeOK, SlotOK, Owning
  <2>5. ObjectsOK(t)'
    <3>1. ASSUME NEW x \in Objects(t), NEW i \in DOMAIN table, table[i] = x PROVE i \in stale'
      <4>1. op[t].pc = "assign2" /\ i = op[t].fd /\ x # NULL
        BY <1>1, <3>1 DEF ObjectsOK, Objects
      <4> QED BY <3>1, <4>1 DEF Slot
    <3> QED BY <2>1, <3>1 DEF ObjectsOK
  <2> QED BY <2>3, <2>4, <2>5 DEF CallMeaning
<1>6. ApartMeaning'
  <2>1. op'[t].pc # "reassign" /\ ~MakesNumber(t)'
    BY DEF MakesNumber
  <2>2. \A u \in Threads \ {t} : Objects(t) \cap Objects(u) = {}
    BY <1>1 DEF Ownership, ApartMeaning
  <2> QED BY <1>1, <1>2, <2>1, <2>2, StillApart DEF Ownership
<1>7. SlotMeaning'
  <2>1. \A i, j \in DOMAIN table : table[i] # NULL /\ table[i] = table[j] => i = j
    BY <1>1 DEF Ownership, SlotMeaning
  <2>2. ASSUME NEW i \in DOMAIN table, table[i] # NULL
        PROVE  /\ desc[table[i]].st # "none"
               /\ inited => held[i] # 0 \/ i \in stale' \/ \E u \in Threads : i \in Slot(u)'
               /\ ~inited => i < NumStd /\ Live(table[i])
    <3>1. /\ desc[table[i]].st # "none"
          /\ inited => held[i] # 0 \/ i \in stale \/ \E u \in Threads : i \in Slot(u)
          /\ ~inited => i < NumStd /\ Live(table[i])
      BY <1>1, <2>2 DEF Ownership, SlotMeaning
    <3>2. ASSUME NEW u \in Threads, i \in Slot(u)
          PROVE  i \in stale' \/ \E v \in Threads : i \in Slot(v)'
      BY <1>2, <2>2, <3>2
    <3> QED BY <3>1, <3>2
  <2> QED BY <2>1, <2>2 DEF SlotMeaning, Live
<1>8. HeldMeaning'
  <2>1. \A i \in stale' : inited /\ i \in DOMAIN table /\ table[i] # NULL /\ held[i] = 0
    BY <1>1, <1>4 DEF Ownership, HeldMeaning
  <2> QED BY <1>1, <2>1 DEF Ownership, HeldMeaning, Live
<1>9. HostMeaning'
  <2>1. \A d \in Descs : Live(d) /\ Reached(d) => Live(d)' /\ Reached(d)'
    BY StillReached DEF Live
  <2> QED BY <1>1, <2>1, HostKept DEF Ownership
<1>10. TypeOK'
  BY <1>1, FdTypes DEF Moves, TypeOK, DescTypes
<1> QED BY <1>1, <1>3, <1>5, <1>6, <1>7, <1>8, <1>9, <1>10, EvKept DEF IInv

LEMMA AssignFailsKeeps ==
  ASSUME IInv, NEW t \in Threads, Fd(AssignFails(t)) PROVE IInv'
<1>1. TypeOK /\ op[t] \in Calls /\ op[t].pc = "assign" /\ ShapeOK(t)
  BY DEF IInv, Fd, AssignFails, TypeOK, Calls, Pcs, CallMeaning
<1>2. PICK r : r = [op[t] EXCEPT !.pc = "undo"]
  OBVIOUS
<1>3. r \in Calls /\ r.pc = "undo" /\ r.d = op[t].d /\ r.n = op[t].n
  BY <1>1, <1>2 DEF Calls, Pcs
<1>4. Moves(t) /\ op'[t] = r
  BY <1>1, <1>2, <1>3, GotoMoves DEF Fd, AssignFails
<1>5. Objects(t)' = Objects(t) /\ Slot(t) = {} /\ r.d # NULL /\ r.n # r.d
  BY <1>1, <1>3, <1>4 DEF Objects, Slot, Closing, ShapeOK
<1>6. UNCHANGED <<table, inited, fdlock, desc, host, reg, held, lost, stale, map, elock, ev>>
  BY DEF Fd, AssignFails, hostVars, ghostVars, epVars
<1> QED BY <1>1, <1>3, <1>4, <1>5, <1>6, GivesUp

LEMMA Assign2FailsKeeps ==
  ASSUME IInv, NEW t \in Threads, Fd(Assign2Fails(t)) PROVE IInv'
<1>1. TypeOK /\ op[t] \in Calls /\ op[t].pc = "assign2" /\ ShapeOK(t)
  BY DEF IInv, Fd, Assign2Fails, TypeOK, Calls, Pcs, CallMeaning
<1>2. PICK r : r = [op[t] EXCEPT !.pc = "undo"]
  OBVIOUS
<1>3. r \in Calls /\ r.pc = "undo" /\ r.d = op[t].d /\ r.n = op[t].n
  BY <1>1, <1>2 DEF Calls, Pcs
<1>4. Moves(t) /\ op'[t] = r
  BY <1>1, <1>2, <1>3, GotoMoves DEF Fd, Assign2Fails
<1>5. Objects(t)' = Objects(t) /\ Slot(t) = {op[t].fd} /\ r.d # NULL /\ r.n # r.d
  BY <1>1, <1>3, <1>4 DEF Objects, Slot, Closing, ShapeOK
<1>6. /\ UNCHANGED <<table, inited, fdlock, desc, host, reg, held, lost, map, elock, ev>>
      /\ stale' = stale \cup {op[t].fd}
  BY DEF Fd, Assign2Fails, hostVars, epVars
<1> QED BY <1>1, <1>3, <1>4, <1>5, <1>6, GivesUp

LEMMA ReassignFailsKeeps ==
  ASSUME IInv, NEW t \in Threads, Fd(ReassignFails(t)) PROVE IInv'
<1>1. TypeOK /\ op[t] \in Calls /\ op[t].pc = "reassign" /\ ShapeOK(t)
  BY DEF IInv, Fd, ReassignFails, TypeOK, Calls, Pcs, CallMeaning
<1>2. PICK r : r = [Idle EXCEPT !.pc = "undo", !.d = op[t].n]
  OBVIOUS
<1>3. r \in Calls /\ r.pc = "undo" /\ r.d = op[t].n /\ r.n = NULL
  BY <1>1, <1>2, IdleType DEF Calls, Pcs, Idle
<1>4. Moves(t) /\ op'[t] = r
  BY <1>1, <1>2, <1>3, GotoMoves DEF Fd, ReassignFails
<1>5. Objects(t)' = Objects(t) /\ Slot(t) = {op[t].to} /\ r.d # NULL /\ r.n # r.d
  BY <1>1, <1>3, <1>4 DEF Objects, Slot, Closing, ShapeOK
<1>6. /\ UNCHANGED <<table, inited, fdlock, desc, host, reg, held, lost, stale, map, elock, ev>>
      /\ op[t].to \notin DOMAIN table
  BY DEF Fd, ReassignFails, hostVars, ghostVars, epVars
<1> QED BY <1>1, <1>3, <1>4, <1>5, <1>6, GivesUp

-----------------------------------------------------------------------------
(* Objects are closed, or given up.                                          *)

(* The other calls keep their objects and their slots. *)
LEMMA FreesCalls ==
  ASSUME TypeOK, Ownership, NEW t \in Threads, Moves(t), NEW D, D \subseteq Descs,
         \A d \in D : Live(d), FreeDescs(D), UNCHANGED <<table, inited, stale>>,
         \A u \in Threads \ {t} : D \cap Objects(u) = {},
         \A u \in Threads \ {t} : \A i \in Slot(u) :
             held'[i] = 0 /\ (i \in DOMAIN table => table[i] \notin D)
  PROVE  \A u \in Threads \ {t} : ShapeOK(u)' /\ ObjectsOK(u)' /\ SlotOK(u)'
<1>1. \A d \in Descs \ D : Live(d)' <=> Live(d)
  BY FreesObjects DEF Ownership
<1>2. \A u \in Threads \ {t} : \A x \in Objects(u) : Live(x)'
  BY <1>1, References DEF Ownership
<1>3. ASSUME NEW u \in Threads \ {t}, NEW i \in Slot(u), i \in DOMAIN table
      PROVE  Live(table[i])' <=> Live(table[i])
  <2>1. PICK x : x = table[i]
    OBVIOUS
  <2>2. x # NULL => x \in Descs \ D
    BY <1>3, <2>1, References DEF Ownership
  <2>3. Live(x)' <=> Live(x)
    BY <1>1, <2>2 DEF Live
  <2> QED BY <2>1, <2>3
<1>4. \A u \in Threads \ {t} : \A i \in Slot(u) : i \notin stale
  BY DEF Ownership, CallMeaning, SlotOK
<1> QED BY <1>2, <1>3, <1>4, OtherCalls DEF Ownership

(* The objects that stay in use. *)
LEMMA FreesHost ==
  ASSUME TypeOK, Ownership, NEW t \in Threads, Moves(t), NEW D, D \subseteq Descs,
         \A d \in D : Live(d), FreeDescs(D), UNCHANGED <<table, lost>>,
         Objects(t) \subseteq D
  PROVE  HostMeaning'
<1>1. /\ \A d \in Descs \ D : desc'[d] = desc[d] /\ (Live(d)' <=> Live(d))
      /\ \A h \in Descs : host'[h] # 0 => host[h] # 0 /\ \A d \in D : desc[d].hfd # h
  BY FreesObjects DEF Ownership
<1>2. ASSUME NEW d \in Descs, Live(d), Reached(d), host'[desc[d].hfd] # 0
      PROVE  Live(d)' /\ desc'[d].hfd = desc[d].hfd /\ Reached(d)'
  <2>1. d \notin D
    BY <1>1, <1>2 DEF Ownership, ObjectMeaning
  <2> QED BY <1>1, <1>2, <2>1, StillReached
<1> QED BY <1>1, <1>2, HostKept DEF Ownership

LEMMA UndoKeeps ==
  ASSUME IInv, NEW t \in Threads, Fd(Undo(t)) PROVE IInv'
<1>1. TypeOK /\ Ownership /\ EvMeaning /\ op[t].pc = "undo" /\ ObjectsOK(t)
  BY DEF IInv, Ownership, Fd, Undo, CallMeaning
<1>2. PICK D : D = Objects(t)
  OBVIOUS
<1>3. D \subseteq Descs /\ \A d \in D : Live(d)
  BY <1>1, <1>2, References DEF Ownership
<1>4. FreeDescs(D) /\ UNCHANGED <<table, inited, fdlock, held, lost, stale, map, elock, ev>>
  BY <1>2 DEF Fd, Undo, Objects, epVars
<1>5. Moves(t) /\ op'[t] = Idle
  BY <1>1, IdleType, GotoMoves DEF Fd, Undo, Return
<1>6. Objects(t)' = {} /\ Slot(t)' = {} /\ Slot(t) = {}
  BY <1>1, <1>5 DEF Objects, Slot, Idle, Closing
<1>7. /\ AllocMeaning' /\ ObjectMeaning' /\ reg' \subseteq reg
      /\ desc' \in DescTypes /\ host' \in [Descs -> 0 .. MaxDesc]
      /\ \A d \in Descs \ D : desc'[d] = desc[d] /\ (Live(d)' <=> Live(d))
      /\ \A d \in Descs : desc'[d].st = "none" <=> desc[d].st = "none"
  BY <1>1, <1>3, <1>4, FreesObjects DEF Ownership
<1>8. \A i \in DOMAIN table : table[i] \in D => i \in stale /\ held[i] = 0 /\ inited
  BY <1>1, <1>2 DEF ObjectsOK, Ownership, HeldMeaning
<1>9. CallMeaning'
  <2>1. \A u \in Threads \ {t} : D \cap Objects(u) = {}
    BY <1>1, <1>2 DEF Ownership, ApartMeaning
  <2>2. \A u \in Threads : \A i \in Slot(u) : held'[i] = 0 /\ i \notin stale
    BY <1>1, <1>4 DEF Ownership, CallMeaning, SlotOK
  <2>3. \A u \in Threads \ {t} : ShapeOK(u)' /\ ObjectsOK(u)' /\ SlotOK(u)'
    BY <1>1, <1>3, <1>4, <1>5, <1>8, <2>1, <2>2, FreesCalls
  <2>4. ShapeOK(t)' /\ ObjectsOK(t)' /\ SlotOK(t)'
    BY <1>5, <1>6 DEF ShapeOK, ObjectsOK, SlotOK, Idle, Owning
  <2> QED BY <2>3, <2>4 DEF CallMeaning
<1>10. ApartMeaning'
  <2>1. op'[t].pc # "reassign" /\ ~MakesNumber(t)'
    BY <1>5 DEF MakesNumber, Idle
  <2> QED BY <1>1, <1>5, <1>6, <2>1, StillApart DEF Ownership
<1>11. SlotMeaning' /\ HeldMeaning'
  <2>1. ASSUME NEW i \in DOMAIN table, NEW x, x = table[i], x # NULL
        PROVE  /\ desc[x].st # "none" => desc'[x].st # "none"
               /\ Live(x) /\ (held[i] # 0 \/ ~inited) => Live(x)' /\ desc'[x].file = desc[x].file
    <3>1. x \in Descs
      BY <1>1, <2>1, References DEF Ownership
    <3> QED BY <1>7, <1>8, <2>1, <3>1
  <2>2. \A i \in DOMAIN table : table[i] # NULL =>
          /\ desc[table[i]].st # "none" => desc'[table[i]].st # "none"
          /\ Live(table[i]) /\ (held[i] # 0 \/ ~inited) =>
                Live(table[i])' /\ desc'[table[i]].file = desc[table[i]].file
    BY <1>4, <2>1 DEF Live
  <2> QED BY <1>1, <1>4, <1>5, <1>6, <2>2, SlotsKept DEF Ownership
<1>12. HostMeaning'
  BY <1>1, <1>2, <1>3, <1>4, <1>5, FreesHost
<1>13. TypeOK' /\ SizeMeaning'
  <2>1. TypeOK'
    BY <1>1, <1>4, <1>5, <1>7, FdTypes DEF Moves, TypeOK
  <2> QED BY <1>1, <1>4, <2>1 DEF Ownership, SizeMeaning
<1>14. EvMeaning'
  BY <1>1, <1>4, <1>5, EvKept DEF Idle
<1> QED BY <1>7, <1>9, <1>10, <1>11, <1>12, <1>13, <1>14 DEF IInv

(* The host descriptors of the objects are lost. *)
LEMMA UndoFailsKeeps ==
  ASSUME IInv, NEW t \in Threads, Fd(UndoFails(t)) PROVE IInv'
<1>1. TypeOK /\ Ownership /\ EvMeaning /\ op[t].pc = "undo"
  BY DEF IInv, Ownership, Fd, UndoFails
<1>2. /\ UNCHANGED <<table, inited, fdlock, desc, host, reg, held, stale, map, elock, ev>>
      /\ lost' = lost \cup {desc[d].hfd : d \in Objects(t)}
  BY DEF Fd, UndoFails, Objects, hostVars, epVars
<1>3. Moves(t) /\ op'[t] = Idle
  BY <1>1, IdleType, GotoMoves DEF Fd, UndoFails, Return
<1>4. Objects(t)' = {} /\ Slot(t)' = {} /\ Slot(t) = {}
  BY <1>1, <1>3 DEF Objects, Slot, Idle, Closing
<1>5. SizeMeaning' /\ AllocMeaning' /\ ObjectMeaning'
  BY <1>1, <1>2 DEF Ownership, SizeMeaning, AllocMeaning, Occupied, ObjectMeaning, Live
<1>6. CallMeaning'
  <2>1. \A u \in Threads : \A x \in Objects(u) : Live(x)'
    BY <1>1, <1>2, References DEF Ownership, Live
  <2>2. \A u \in Threads : \A i \in Slot(u) : held'[i] = 0 /\ i \notin stale'
    BY <1>1, <1>2 DEF Ownership, CallMeaning, SlotOK
  <2>3. \A u \in Threads \ {t} : ShapeOK(u)' /\ ObjectsOK(u)' /\ SlotOK(u)'
    BY <1>1, <1>2, <1>3, <2>1, <2>2, OtherCalls DEF Ownership, Live
  <2>4. ShapeOK(t)' /\ ObjectsOK(t)' /\ SlotOK(t)'
    BY <1>3, <1>4 DEF ShapeOK, ObjectsOK, SlotOK, Idle, Owning
  <2> QED BY <2>3, <2>4 DEF CallMeaning
<1>7. ApartMeaning'
  <2>1. op'[t].pc # "reassign" /\ ~MakesNumber(t)'
    BY <1>3 DEF MakesNumber, Idle
  <2> QED BY <1>1, <1>3, <1>4, <2>1, StillApart DEF Ownership
<1>8. SlotMeaning' /\ HeldMeaning'
  BY <1>1, <1>2, <1>3, <1>4, SlotsKept DEF Ownership, Live
<1>9. HostMeaning'
  <2>1. ASSUME NEW d \in Descs, Live(d), Reached(d), desc[d].hfd \notin lost'
        PROVE  Live(d)' /\ desc'[d].hfd = desc[d].hfd /\ Reached(d)'
    <3>1. d \notin Objects(t)
      BY <1>2, <2>1
    <3> QED BY <1>2, <1>3, <2>1, <3>1, StillReached DEF Live
  <2> QED BY <1>1, <1>2, <2>1, HostKept DEF Ownership
<1>10. TypeOK'
  BY <1>1, <1>2, <1>3, FdTypes DEF Moves, TypeOK, DescTypes
<1>11. EvMeaning'
  BY <1>1, <1>2, <1>3, EvKept DEF Idle
<1> QED BY <1>5, <1>6, <1>7, <1>8, <1>9, <1>10, <1>11 DEF IInv

-----------------------------------------------------------------------------
(* A number is taken away from the client: oe_close and oe_dup2.             *)

(* What a call will store to or empty is among the numbers it relies on. *)
LEMMA SlotIsUsed ==
  ASSUME NEW u \in Threads
  PROVE  Slot(u) \subseteq Using(u)
<1>1. CASE op[u].pc \in Closing \cup {"assign2"}
  BY <1>1 DEF Slot, Using, Closing
<1>2. CASE op[u].pc = "reassign"
  BY <1>2 DEF Slot, Using, Closing
<1>3. CASE op[u].pc \notin Closing \cup {"assign2", "reassign"}
  BY <1>3 DEF Slot
<1> QED BY <1>1, <1>2, <1>3

LEMMA SlotTaken ==
  ASSUME TypeOK, SlotMeaning, HeldMeaning, inited, NEW t \in Threads, Moves(t),
         NEW s \in Fds, s \notin stale, Slot(t) = {}, Slot(t)' = {s},
         UNCHANGED <<table, inited, stale>>, held' = [held EXCEPT ![s] = 0],
         \A i \in DOMAIN table : table[i] # NULL =>
             /\ desc[table[i]].st # "none" => desc'[table[i]].st # "none"
             /\ Live(table[i]) /\ i # s =>
                   Live(table[i])' /\ desc'[table[i]].file = desc[table[i]].file
  PROVE  SlotMeaning' /\ HeldMeaning' /\ held' \in [Fds -> 0 .. MaxDesc]
<1>1. /\ held' \in [Fds -> 0 .. MaxDesc] /\ held'[s] = 0
      /\ \A i \in Fds \ {s} : held'[i] = held[i]
  BY SizeAssumption DEF TypeOK
<1>2. \A u \in Threads : \A i \in Slot(u) : \E v \in Threads : i \in Slot(v)'
  <2>1. \A u \in Threads \ {t} : Slot(u)' = Slot(u)
    BY DEF Moves, Slot
  <2> QED BY <2>1
<1>3. DOMAIN table \subseteq Fds
  BY DEF TypeOK
<1>4. SlotMeaning'
  <2>1. \A i, j \in DOMAIN table : table[i] # NULL /\ table[i] = table[j] => i = j
    BY DEF SlotMeaning
  <2>2. ASSUME NEW i \in DOMAIN table, table[i] # NULL
        PROVE  /\ desc'[table[i]].st # "none"
               /\ held'[i] # 0 \/ i \in stale \/ \E v \in Threads : i \in Slot(v)'
    <3>1. /\ desc[table[i]].st # "none"
          /\ held[i] # 0 \/ i \in stale \/ \E u \in Threads : i \in Slot(u)
      BY <2>2 DEF SlotMeaning
    <3>2. i = s => \E v \in Threads : i \in Slot(v)'
      OBVIOUS
    <3>3. i # s => held'[i] = held[i]
      BY <1>1, <1>3
    <3> QED BY <1>2, <2>2, <3>1, <3>2, <3>3
  <2> QED BY <2>1, <2>2 DEF SlotMeaning
<1>5. HeldMeaning'
  <2>1. ASSUME NEW fd \in Fds, held'[fd] # 0
        PROVE  fd \in DOMAIN table /\ Live(table[fd])' /\ desc'[table[fd]].file = held'[fd]
    <3>1. fd # s /\ held'[fd] = held[fd]
      BY <1>1, <2>1
    <3>2. fd \in DOMAIN table /\ Live(table[fd]) /\ desc[table[fd]].file = held[fd]
      BY <2>1, <3>1 DEF HeldMeaning
    <3> QED BY <3>1, <3>2 DEF Live
  <2>2. \A i \in stale : i \in DOMAIN table /\ table[i] # NULL /\ held'[i] = 0
    BY <1>1, <1>3 DEF HeldMeaning
  <2> QED BY <2>1, <2>2 DEF HeldMeaning, Live
<1> QED BY <1>1, <1>4, <1>5

LEMMA CloseKeeps ==
  ASSUME IInv, NEW t \in Threads, Fd(Close(t)) PROVE IInv'
<1>1. TypeOK /\ Ownership /\ EvMeaning /\ op[t] = Idle /\ inited
  BY DEF IInv, Ownership, Fd, Close, TableReady
<1>2. PICK fd \in Fds :
        /\ HeldAs(fd, AllKinds) /\ Unused(t, fd)
        /\ FreeDescs({_get_fd(fd)})
        /\ Goto(t, [Idle EXCEPT !.pc = "foreach", !.fd = fd])
        /\ held' = [held EXCEPT ![fd] = 0]
  BY DEF Fd, Close
<1>3. UNCHANGED <<table, inited, fdlock, lost, stale, map, elock, ev>>
  BY DEF Fd, Close, epVars
<1>4. PICK d : d = table[fd]
  OBVIOUS
<1>5. /\ fd \in DOMAIN table /\ d \in Descs /\ Live(d) /\ d # NULL /\ FreeDescs({d})
      /\ fd \notin stale /\ held[fd] # 0
  <2>1. fd \in DOMAIN table /\ d \in Descs /\ Live(d) /\ _get_fd(fd) = d
    BY <1>1, <1>2, <1>4, HeldObject
  <2>2. held[fd] # 0
    BY <1>2 DEF HeldAs, Holds
  <2> QED BY <1>1, <1>2, <2>1, <2>2 DEF Live, Ownership, HeldMeaning
<1>6. PICK r : r = [Idle EXCEPT !.pc = "foreach", !.fd = fd]
  OBVIOUS
<1>7. r \in Calls /\ r.pc = "foreach" /\ r.fd = fd /\ r.d = NULL /\ r.n = NULL
  BY <1>6, IdleType DEF Calls, Pcs, Idle
<1>8. Moves(t) /\ op'[t] = r
  BY <1>1, <1>2, <1>6, <1>7, GotoMoves
<1>9. Objects(t) = {} /\ Objects(t)' = {} /\ Slot(t) = {} /\ Slot(t)' = {fd}
  BY <1>1, <1>7, <1>8 DEF Objects, Slot, Idle, Closing
<1>10. /\ AllocMeaning' /\ ObjectMeaning' /\ reg' \subseteq reg
       /\ desc' \in DescTypes /\ host' \in [Descs -> 0 .. MaxDesc] /\ ~Live(d)'
       /\ \A c \in Descs \ {d} : desc'[c] = desc[c] /\ (Live(c)' <=> Live(c))
       /\ \A c \in Descs : desc'[c].st = "none" <=> desc[c].st = "none"
  BY <1>1, <1>5, FreesObjects DEF Ownership
<1>11. \A i \in DOMAIN table : table[i] = d => i = fd
  BY <1>1, <1>4, <1>5 DEF Ownership, SlotMeaning
<1>12. \A u \in Threads \ {t} : fd \notin Slot(u)
  BY <1>2, SlotIsUsed DEF Unused
<1>13. SlotMeaning' /\ HeldMeaning' /\ held' \in [Fds -> 0 .. MaxDesc]
  <2>1. ASSUME NEW i \in DOMAIN table, NEW x, x = table[i], x # NULL
        PROVE  /\ desc[x].st # "none" => desc'[x].st # "none"
               /\ Live(x) /\ i # fd => Live(x)' /\ desc'[x].file = desc[x].file
    <3>1. x \in Descs
      BY <1>1, <2>1, References DEF Ownership
    <3> QED BY <1>10, <1>11, <2>1, <3>1
  <2>2. \A i \in DOMAIN table : table[i] # NULL =>
          /\ desc[table[i]].st # "none" => desc'[table[i]].st # "none"
          /\ Live(table[i]) /\ i # fd =>
                Live(table[i])' /\ desc'[table[i]].file = desc[table[i]].file
    BY <1>3, <2>1 DEF Live
  <2> QED BY <1>1, <1>2, <1>3, <1>5, <1>8, <1>9, <2>2, SlotTaken DEF Ownership
<1>14. CallMeaning'
  <2>1. ASSUME NEW u \in Threads \ {t}, d \in Objects(u) PROVE FALSE
    <3>1. ObjectsOK(u)
      BY <1>1 DEF Ownership, CallMeaning
    <3> QED BY <1>4, <1>5, <1>12, <2>1, <3>1 DEF ObjectsOK, Slot
  <2>2. ASSUME NEW u \in Threads \ {t}, NEW i \in Slot(u)
        PROVE  held'[i] = 0 /\ (i \in DOMAIN table => table[i] \notin {d})
    <3>1. i # fd /\ i \in Fds /\ held[i] = 0
      BY <1>1, <1>12 DEF Ownership, CallMeaning, SlotOK
    <3> QED BY <1>1, <1>2, <1>11, <3>1 DEF TypeOK
  <2>3. {d} \subseteq Descs /\ (\A c \in {d} : Live(c)) /\ \A u \in Threads \ {t} : {d} \cap Objects(u) = {}
    BY <1>5, <2>1
  <2>4. \A u \in Threads \ {t} : ShapeOK(u)' /\ ObjectsOK(u)' /\ SlotOK(u)'
    BY <1>1, <1>3, <1>5, <1>8, <2>2, <2>3, FreesCalls
  <2>5. ShapeOK(t)' /\ ObjectsOK(t)'
    BY <1>1, <1>3, <1>7, <1>8, <1>9 DEF ShapeOK, ObjectsOK, Owning
  <2>6. SlotOK(t)'
    <3>1. held'[fd] = 0 /\ fd \in DOMAIN table' /\ table'[fd] = d /\ fd \notin stale'
      BY <1>1, <1>2, <1>3, <1>4, <1>5 DEF TypeOK
    <3>2. ~Live(table[fd])'
      BY <1>10, <3>1 DEF Live
    <3> QED BY <1>5, <1>7, <1>8, <1>9, <3>1, <3>2 DEF SlotOK, Closing
  <2> QED BY <2>4, <2>5, <2>6 DEF CallMeaning
<1>15. ApartMeaning'
  <2>1. op'[t].pc # "reassign" /\ ~MakesNumber(t)'
    BY <1>7, <1>8 DEF MakesNumber
  <2> QED BY <1>1, <1>8, <1>9, <1>12, <2>1, StillApart DEF Ownership
<1>16. HostMeaning'
  <2>1. {d} \subseteq Descs /\ (\A c \in {d} : Live(c)) /\ Objects(t) \subseteq {d}
    BY <1>5, <1>9
  <2> QED BY <1>1, <1>3, <1>5, <1>8, <2>1, FreesHost
<1>17. TypeOK' /\ SizeMeaning'
  <2>1. TypeOK'
    BY <1>1, <1>3, <1>8, <1>10, <1>13, FdTypes DEF Moves, TypeOK
  <2> QED BY <1>1, <1>3, <2>1 DEF Ownership, SizeMeaning
<1>18. EvMeaning'
  BY <1>1, <1>3, <1>7, <1>8, EvKept
<1> QED BY <1>10, <1>13, <1>14, <1>15, <1>16, <1>17, <1>18 DEF IInv

(* oe_fdtable_release: the slot of the object that oe_close has freed. *)
LEMMA ReleaseKeeps ==
  ASSUME IInv, NEW t \in Threads, Fd(Release(t)) PROVE IInv'
<1>1. /\ TypeOK /\ Ownership /\ EvMeaning /\ op[t].pc = "release" /\ SlotOK(t) /\ ShapeOK(t)
      /\ inited /\ SizeMeaning
  BY DEF IInv, Ownership, Fd, Release, TableReady, CallMeaning
<1>2. PICK s : s = op[t].fd
  OBVIOUS
<1>3. /\ table' = [table EXCEPT ![s] = NULL]
      /\ UNCHANGED <<inited, fdlock, desc, host, reg, held, lost, stale, map, elock, ev>>
  BY <1>2 DEF Fd, Release, hostVars, ghostVars, epVars
<1>4. /\ Slot(t) = {s} /\ s \in DOMAIN table /\ ~Live(table[s]) /\ held[s] = 0 /\ s \notin stale
      /\ Objects(t) = {}
  BY <1>1, <1>2 DEF Slot, SlotOK, Closing, Objects, ShapeOK, Owning
<1>5. Moves(t) /\ op'[t] = Idle
  BY <1>1, IdleType, GotoMoves DEF Fd, Release, Return
<1>6. Objects(t)' = {} /\ Slot(t)' = {}
  BY <1>5 DEF Objects, Slot, Idle, Closing
<1>7. /\ DOMAIN table' = DOMAIN table /\ table'[s] = NULL
      /\ \A i \in DOMAIN table \ {s} : table'[i] = table[i]
      /\ SizeMeaning' /\ \A i \in DOMAIN table' : table'[i] \in 0 .. MaxDesc
  <2>1. NULL \in 0 .. MaxDesc
    BY SizeAssumption DEF NULL
  <2>2. PICK n \in 0 .. IntMax : table \in [0 .. n - 1 -> 0 .. MaxDesc]
    BY <1>1 DEF SizeMeaning
  <2>3. table' \in [0 .. n - 1 -> 0 .. MaxDesc]
    BY <1>3, <2>1, <2>2
  <2>4. SizeMeaning'
    BY <2>3 DEF SizeMeaning
  <2> QED BY <1>3, <1>4, <2>2, <2>3, <2>4
<1>8. AllocMeaning' /\ ObjectMeaning'
  BY <1>1, <1>3 DEF Ownership, AllocMeaning, Occupied, ObjectMeaning, Live
<1>9. CallMeaning'
  <2>1. ASSUME NEW u \in Threads \ {t}, NEW x \in Objects(u)
        PROVE  /\ Live(x)'
               /\ \A i \in DOMAIN table' : table'[i] = x => i \in DOMAIN table /\ table[i] = x
    <3>1. Live(x) /\ x # NULL
      BY <1>1, References DEF Ownership, Live
    <3> QED BY <1>3, <1>7, <3>1 DEF Live
  <2>2. ASSUME NEW u \in Threads \ {t}, NEW i \in Slot(u)
        PROVE  /\ held'[i] = 0 /\ i \notin stale'
               /\ i \in DOMAIN table => i \in DOMAIN table' /\ table'[i] = table[i]
               /\ i \in DOMAIN table' /\ i \notin DOMAIN table => table'[i] = NULL
    <3>1. i # s
      BY <1>1, <1>4 DEF Ownership, ApartMeaning
    <3>2. held[i] = 0 /\ i \notin stale
      BY <1>1 DEF Ownership, CallMeaning, SlotOK
    <3> QED BY <1>3, <1>7, <3>1, <3>2
  <2>3. ASSUME NEW u \in Threads \ {t}, NEW i \in Slot(u), i \in DOMAIN table
        PROVE  Live(table[i])' <=> Live(table[i])
    BY <1>3, <2>2, <2>3 DEF Live
  <2>4. \A u \in Threads \ {t} : ShapeOK(u)' /\ ObjectsOK(u)' /\ SlotOK(u)'
    BY <1>1, <1>3, <1>5, <2>1, <2>2, <2>3, OtherCalls DEF Ownership
  <2>5. ShapeOK(t)' /\ ObjectsOK(t)' /\ SlotOK(t)'
    BY <1>5, <1>6 DEF ShapeOK, ObjectsOK, SlotOK, Idle, Owning
  <2> QED BY <2>4, <2>5 DEF CallMeaning
<1>10. ApartMeaning'
  <2>1. op'[t].pc # "reassign" /\ ~MakesNumber(t)'
    BY <1>5 DEF MakesNumber, Idle
  <2> QED BY <1>1, <1>5, <1>6, <2>1, StillApart DEF Ownership
<1>11. SlotMeaning'
  <2>1. ASSUME NEW i \in DOMAIN table, NEW j \in DOMAIN table, table'[i] # NULL, table'[i] = table'[j]
        PROVE  i = j
    BY <1>1, <1>7, <2>1 DEF Ownership, SlotMeaning
  <2>2. ASSUME NEW i \in DOMAIN table, table'[i] # NULL
        PROVE  /\ desc[table'[i]].st # "none"
               /\ held[i] # 0 \/ i \in stale \/ \E u \in Threads : i \in Slot(u)'
    <3>1. i # s /\ table'[i] = table[i]
      BY <1>7, <2>2
    <3>2. /\ desc[table[i]].st # "none"
          /\ held[i] # 0 \/ i \in stale \/ \E u \in Threads : i \in Slot(u)
      BY <1>1, <2>2, <3>1 DEF Ownership, SlotMeaning
    <3>3. \A u \in Threads \ {t} : Slot(u)' = Slot(u)
      BY <1>5 DEF Moves, Slot
    <3> QED BY <1>4, <3>1, <3>2, <3>3
  <2> QED BY <1>1, <1>3, <1>7, <2>1, <2>2 DEF SlotMeaning
<1>12. HeldMeaning'
  <2>1. ASSUME NEW fd \in Fds, held[fd] # 0
        PROVE  fd \in DOMAIN table' /\ Live(table'[fd]) /\ desc[table'[fd]].file = held[fd]
    BY <1>1, <1>4, <1>7, <2>1 DEF Ownership, HeldMeaning
  <2>2. \A i \in stale : i \in DOMAIN table' /\ table'[i] # NULL /\ held[i] = 0
    BY <1>1, <1>4, <1>7 DEF Ownership, HeldMeaning
  <2> QED BY <1>1, <1>3, <2>1, <2>2 DEF HeldMeaning, Live
<1>13. HostMeaning'
  <2>1. ASSUME NEW d \in Descs, Live(d), Reached(d) PROVE Reached(d)'
    <3>1. CASE d \in TableEntries
      <4>1. PICK i \in DOMAIN table : table[i] = d
        BY <3>1 DEF TableEntries
      <4>2. i # s
        BY <1>4, <2>1, <4>1
      <4>3. i \in DOMAIN table' /\ table'[i] = d
        BY <1>7, <4>1, <4>2
      <4> QED BY <4>3 DEF Reached, TableEntries
    <3>2. CASE \E u \in Threads : d \in {op[u].d, op[u].n}
      <4>1. PICK u \in Threads : d \in {op[u].d, op[u].n}
        BY <3>2
      <4>2. u # t
        BY <1>4, <2>1, <4>1 DEF Objects, Live
      <4>3. d \in {op'[u].d, op'[u].n}
        BY <1>5, <4>1, <4>2 DEF Moves
      <4> QED BY <4>3 DEF Reached, InCall
    <3> QED BY <2>1, <3>1, <3>2 DEF Reached, InCall
  <2> QED BY <1>1, <1>3, <2>1, HostKept DEF Ownership, Live
<1>14. TypeOK'
  BY <1>1, <1>3, <1>5, <1>7, FdTypes DEF Moves, TypeOK, DescTypes
<1>15. EvMeaning'
  BY <1>1, <1>3, <1>5, EvKept DEF Idle
<1> QED BY <1>7, <1>8, <1>9, <1>10, <1>11, <1>12, <1>13, <1>14, <1>15 DEF IInv

LEMMA Dup2Keeps ==
  ASSUME IInv, NEW t \in Threads, NEW target \in Fds, Fd(Dup2(t, target)) PROVE IInv'
<1>1. TypeOK /\ Ownership /\ EvMeaning /\ AllocMeaning /\ op[t] = Idle /\ inited
  BY DEF IInv, Ownership, Fd, Dup2, TableReady
<1>2. PICK fd \in Fds \ {target} :
        /\ HeldAs(fd, {"file", "socket"}) /\ DupObject(_get_fd(fd))
        /\ Goto(t, [Idle EXCEPT !.pc = "reassign", !.fd = fd, !.n = Fresh, !.to = target])
  BY DEF Fd, Dup2
<1>3. /\ UNCHANGED <<table, inited, fdlock, reg, lost, stale, map, elock, ev>>
      /\ held' = [held EXCEPT ![target] = 0] /\ target \notin stale
      /\ \A u \in Threads \ {t} : target \notin Using(u) /\ ~MakesNumber(u)
  BY DEF Fd, Dup2, epVars
<1>4. PICK k, f, n : k = desc[_get_fd(fd)].kind /\ f = host[desc[_get_fd(fd)].hfd] /\ n = Fresh
  OBVIOUS
<1>5. k \in AllKinds /\ f \in Descs
  BY <1>1, <1>2, <1>4, HeldObject DEF AllKinds
<1>6. /\ desc' = [desc EXCEPT ![Fresh] = NewDesc(k, f)]
      /\ host' = [host EXCEPT ![FreeHostFd] = f]
  BY <1>2, <1>4 DEF DupObject
<1>7. Adds({n}) /\ AllocMeaning' /\ n \in Descs
  <2>1. Fresh <= MaxDesc
    BY <1>1, FreshIsNext, SizeAssumption DEF Fd, Dup2, CanAllocate
  <2> QED BY <1>1, <1>4, <1>5, <1>6, <2>1, NewObject
<1>8. PICK r : r = [Idle EXCEPT !.pc = "reassign", !.fd = fd, !.n = n, !.to = target]
  OBVIOUS
<1>9. /\ r \in Calls /\ r.pc = "reassign" /\ r.d = NULL /\ r.n = n /\ r.to = target
      /\ n # NULL
  <2>1. n \in 0 .. MaxDesc /\ target \in 0 .. IntMax /\ n # NULL
    BY <1>7, SizeAssumption DEF Descs, Fds, NULL
  <2> QED BY <1>8, <2>1, IdleType DEF Calls, Pcs, Idle
<1>10. Moves(t) /\ op'[t] = r
  BY <1>1, <1>2, <1>4, <1>8, <1>9, GotoMoves
<1>11. Objects(t) = {} /\ Objects(t)' = {n} /\ Slot(t) = {} /\ Slot(t)' = {target}
  BY <1>1, <1>9, <1>10 DEF Objects, Slot, Idle, Closing
<1>12. \A u \in Threads \ {t} : target \notin Slot(u)
  BY <1>3, SlotIsUsed
<1>13. \A i \in DOMAIN table : table[i] # NULL =>
          /\ desc[table[i]].st # "none" => desc'[table[i]].st # "none"
          /\ Live(table[i]) => Live(table[i])' /\ desc'[table[i]].file = desc[table[i]].file
  BY <1>1, <1>3, <1>7, EntriesOld DEF Live
<1>14. SlotMeaning' /\ HeldMeaning' /\ held' \in [Fds -> 0 .. MaxDesc]
  BY <1>1, <1>3, <1>10, <1>11, <1>13, SlotTaken DEF Ownership
<1>15. CallMeaning' /\ \A u \in Threads : {n} \cap Objects(u) = {}
  <2>1. ASSUME NEW u \in Threads \ {t}, NEW i \in Slot(u) PROVE held'[i] = 0
    <3>1. i \in Fds /\ held[i] = 0
      BY <1>1 DEF Ownership, CallMeaning, SlotOK
    <3> QED BY <1>1, <1>3, <3>1 DEF TypeOK
  <2>2. /\ \A u \in Threads \ {t} : ShapeOK(u)' /\ ObjectsOK(u)' /\ SlotOK(u)'
        /\ \A u \in Threads : {n} \cap Objects(u) = {}
    BY <1>1, <1>3, <1>7, <1>10, <2>1, AddsCalls
  <2>3. ShapeOK(t)'
    BY <1>1, <1>3, <1>9, <1>10 DEF ShapeOK, Owning
  <2>4. ObjectsOK(t)'
    <3>1. Live(n)'
      BY <1>1, <1>7, AddsObjects DEF Ownership
    <3>2. \A i \in DOMAIN table : table[i] # n
      BY <1>1, <1>7, EntriesOld
    <3> QED BY <1>3, <1>11, <3>1, <3>2 DEF ObjectsOK
  <2>5. SlotOK(t)'
    <3>1. held'[target] = 0
      BY <1>1, <1>3 DEF TypeOK
    <3>2. ASSUME target \in DOMAIN table, table[target] # NULL PROVE Live(table[target])'
      <4>1. held[target] # 0
        BY <1>1, <1>3, <1>11, <1>12, <3>2 DEF Ownership, SlotMeaning
      <4>2. Live(table[target])
        BY <1>1, <4>1 DEF Ownership, HeldMeaning
      <4> QED BY <1>13, <3>2, <4>2
    <3> QED BY <1>3, <1>9, <1>10, <1>11, <3>1, <3>2 DEF SlotOK, Closing
  <2> QED BY <2>2, <2>3, <2>4, <2>5 DEF CallMeaning
<1>16. ApartMeaning'
  <2>1. \A u \in Threads \ {t} : op[u].pc # "reassign"
    BY <1>3 DEF MakesNumber
  <2> QED BY <1>1, <1>3, <1>10, <1>11, <1>12, <1>15, <2>1, StillApart DEF Ownership
<1>17. ObjectMeaning' /\ HostMeaning' /\ SizeMeaning'
  <2>1. ObjectMeaning'
    BY <1>1, <1>7, AddsObjects DEF Ownership
  <2>2. HostMeaning'
    BY <1>1, <1>3, <1>7, <1>10, <1>11, AddsHost
  <2> QED BY <1>1, <1>3, <2>1, <2>2 DEF Ownership, SizeMeaning
<1>18. TypeOK'
  BY <1>1, <1>3, <1>7, <1>10, <1>14, FdTypes DEF Adds, Moves, TypeOK
<1>19. EvMeaning'
  BY <1>1, <1>3, <1>9, <1>10, EvKept
<1> QED BY <1>7, <1>14, <1>15, <1>16, <1>17, <1>18, <1>19 DEF IInv

-----------------------------------------------------------------------------
(* _initialize.                                                              *)

(* The console files are new objects, over as many free host numbers; the    *)
(* host descriptors of the ones they replace are lost.                       *)
LEMMA StdFilesMade ==
  ASSUME TypeOK, AllocMeaning, NEW n \in Nat, Fresh + n - 1 <= MaxDesc,
         NEW tb, Grown(tb), 0 .. n - 1 \subseteq DOMAIN tb, MakeStdFiles(n, tb)
  PROVE  /\ Adds(StdFiles(n)) /\ AllocMeaning'
         /\ \A d \in StdFiles(n) : desc'[d].file = d /\ desc'[d].kind = "file"
<1>1. PICK dup \in [0 .. n - 1 -> {h \in Descs : host[h] = 0}] :
        /\ \A i, j \in 0 .. n - 1 : i < j => dup[i] < dup[j]
        /\ desc' = [d \in Descs |->
              IF d \in StdFiles(n)
              THEN [st |-> "live", kind |-> "file", hfd |-> dup[d - Fresh],
                    file |-> FreshFile + (d - Fresh)]
              ELSE desc[d]]
        /\ host' = [h \in Descs |->
              IF \E i \in 0 .. n - 1 : h = dup[i]
              THEN FreshFile + (CHOOSE i \in 0 .. n - 1 : h = dup[i])
              ELSE host[h]]
  BY DEF MakeStdFiles
<1>2. PICK m : m = Fresh
  OBVIOUS
<1>3. m \in Nat /\ m >= 1 /\ m + n - 1 <= MaxDesc /\ MaxDesc \in Nat
  BY <1>2, FreshIsNext, SizeAssumption
<1>4. StdFiles(n) = m .. m + n - 1
  BY <1>2 DEF StdFiles
<1>5. PICK N : N = m .. m + n - 1
  OBVIOUS
<1>6. /\ N \subseteq Descs
      /\ \A d \in N : d - m \in 0 .. n - 1 /\ m + (d - m) = d /\ d \in 0 .. MaxDesc /\ d # 0
      /\ \A i \in 0 .. n - 1 : m + i \in N /\ (m + i) - m = i
  BY <1>3, <1>5 DEF Descs
<1>7. \A i \in 0 .. n - 1 : dup[i] \in Descs /\ host[dup[i]] = 0 /\ dup[i] \in 0 .. MaxDesc
  BY <1>1, <1>3 DEF Descs
<1>8. ASSUME NEW i \in 0 .. n - 1, NEW j \in 0 .. n - 1, dup[i] = dup[j] PROVE i = j
  <2>1. dup[i] \in Int /\ dup[j] \in Int
    BY <1>7
  <2>2. ~(i < j) /\ ~(j < i)
    BY <1>1, <1>8, <2>1
  <2> QED BY <2>2
<1>9. /\ \A d \in Descs \ N : desc'[d] = desc[d]
      /\ \A d \in N : desc'[d] = [st |-> "live", kind |-> "file", hfd |-> dup[d - m], file |-> d]
  BY <1>1, <1>2, <1>4, <1>5, <1>6 DEF FreshFile
<1>10. ASSUME NEW d \in N
       PROVE  /\ desc'[d].st = "live" /\ desc'[d].file = d /\ desc'[d].hfd = dup[d - m]
              /\ desc'[d].kind = "file"
              /\ desc'[d] \in [st : {"none", "live", "freed"}, kind : AllKinds,
                               hfd : 0 .. MaxDesc, file : 0 .. MaxDesc]
  <2>1. PICK h : h = dup[d - m]
    OBVIOUS
  <2>2. h \in 0 .. MaxDesc /\ d \in 0 .. MaxDesc
    BY <1>6, <1>7, <2>1
  <2>3. desc'[d] = [st |-> "live", kind |-> "file", hfd |-> h, file |-> d]
    BY <1>9, <2>1
  <2> QED BY <2>1, <2>2, <2>3 DEF AllKinds
<1>11. desc' \in DescTypes
  <2>1. DOMAIN desc' = Descs /\ desc' = [d \in Descs |-> desc'[d]]
    BY <1>1
  <2>2. \A d \in Descs : desc'[d] \in [st : {"none", "live", "freed"}, kind : AllKinds,
                                       hfd : 0 .. MaxDesc, file : 0 .. MaxDesc]
    BY <1>9, <1>10 DEF TypeOK
  <2> QED BY <2>1, <2>2 DEF DescTypes
<1>12. ASSUME NEW i \in 0 .. n - 1 PROVE host'[dup[i]] = m + i
  <2>1. (CHOOSE j \in 0 .. n - 1 : dup[i] = dup[j]) = i
    BY <1>8
  <2>2. host'[dup[i]] = m + (CHOOSE j \in 0 .. n - 1 : dup[i] = dup[j])
    BY <1>1, <1>2, <1>7 DEF FreshFile
  <2> QED BY <2>1, <2>2
<1>13. \A h \in Descs : host'[h] = host[h] \/ \E i \in 0 .. n - 1 : h = dup[i]
  BY <1>1
<1>14. host' \in [Descs -> 0 .. MaxDesc]
  <2>1. DOMAIN host' = Descs /\ host' = [h \in Descs |-> host'[h]]
    BY <1>1
  <2>2. \A i \in 0 .. n - 1 : host'[dup[i]] \in 0 .. MaxDesc
    BY <1>6, <1>12
  <2>3. \A h \in Descs : host'[h] \in 0 .. MaxDesc
    BY <1>13, <2>2 DEF TypeOK
  <2> QED BY <2>1, <2>3
<1>15. Adds(N)
  <2>1. \A d \in N : desc[d].st = "none"
    BY <1>2, <1>5, <1>6, FreshIsNext
  <2>2. \A d \in N : /\ desc'[d].st = "live" /\ desc'[d].file = d /\ desc'[d].hfd = dup[d - m]
                     /\ host'[dup[d - m]] = d /\ dup[d - m] \in Descs /\ host[dup[d - m]] = 0
    BY <1>6, <1>7, <1>10, <1>12
  <2>3. ASSUME NEW c \in N, NEW d \in N, desc'[c].hfd = desc'[d].hfd PROVE c = d
    <3>1. c - m \in 0 .. n - 1 /\ d - m \in 0 .. n - 1 /\ m + (c - m) = c /\ m + (d - m) = d
      BY <1>6
    <3>2. dup[c - m] = dup[d - m]
      BY <2>2, <2>3
    <3>3. c - m = d - m
      BY <1>8, <3>1, <3>2
    <3> QED BY <3>1, <3>3
  <2>4. ASSUME NEW h \in Descs, host'[h] # host[h] PROVE \E d \in N : desc'[d].hfd = h
    <3>1. PICK i \in 0 .. n - 1 : h = dup[i]
      BY <1>13, <2>4
    <3>2. m + i \in N /\ (m + i) - m = i
      BY <1>6
    <3>3. desc'[m + i].hfd = h
      BY <2>2, <3>1, <3>2
    <3> QED BY <3>2, <3>3
  <2> QED BY <1>6, <1>9, <1>11, <1>14, <2>1, <2>2, <2>3, <2>4 DEF Adds
<1>16. AllocMeaning'
  <2>1. PICK F : F = {dup[i] : i \in 0 .. n - 1}
    OBVIOUS
  <2>2. IsFiniteSet(0 .. n - 1) /\ Cardinality(0 .. n - 1) = n
    <3>1. Cardinality(0 .. n - 1) = IF 0 > n - 1 THEN 0 ELSE n - 1 - 0 + 1
      BY FS_Interval, 0 \in Int, n - 1 \in Int
    <3>2. IsFiniteSet(0 .. n - 1)
      BY FS_Interval, 0 \in Int, n - 1 \in Int
    <3> QED BY <3>1, <3>2
  <2>3. dup \in Surjection(0 .. n - 1, F)
    BY <1>1, <2>1 DEF Surjection
  <2>4. IsFiniteSet(F) /\ Cardinality(F) <= n
    BY <2>2, <2>3, FS_Surjection
  <2>5. Occupied' \subseteq Occupied \cup F
    BY <1>13, <2>1 DEF Occupied
  <2>6. \A d \in Descs : desc'[d].st = "none" <=> desc[d].st = "none" /\ ~(m <= d /\ d < m + n)
    <3>1. \A d \in Descs : (m <= d /\ d < m + n) <=> d \in N
      BY <1>3, <1>5 DEF Descs
    <3> QED BY <1>9, <1>10, <3>1
  <2> QED BY <1>2, <1>3, <2>4, <2>5, <2>6, AllocStep
<1> QED BY <1>4, <1>5, <1>10, <1>15, <1>16

(* Before _initialize has succeeded no call has a slot and nothing is held. *)
LEMMA Uninitialized ==
  ASSUME TypeOK, Ownership, ~inited
  PROVE  /\ \A u \in Threads : Slot(u) = {} /\ op[u].pc \in {"idle", "assign", "undo"}
         /\ stale = {} /\ \A fd \in Fds : held[fd] = 0
<1>1. \A u \in Threads : op[u].pc \in {"idle", "assign", "undo"}
  BY DEF Ownership, CallMeaning, ShapeOK
<1>2. \A u \in Threads : Slot(u) = {}
  BY <1>1 DEF Slot, Closing
<1> QED BY <1>1, <1>2 DEF Ownership, HeldMeaning

(* What the two outcomes of _initialize have in common. *)
LEMMA StdFilesStep ==
  ASSUME IInv, ~inited, NEW n \in Nat, Fresh + n - 1 <= MaxDesc,
         NEW tb, Grown(tb), 0 .. n - 1 \subseteq DOMAIN tb, MakeStdFiles(n, tb),
         \A u \in Threads : Objects(u)' = Objects(u) /\ Slot(u)' = {} /\ ShapeOK(u)'
                              /\ op'[u].pc \in {"idle", "assign", "undo"}
  PROVE  /\ SizeMeaning' /\ AllocMeaning' /\ ObjectMeaning' /\ CallMeaning' /\ ApartMeaning'
         /\ HostMeaning' /\ Adds(StdFiles(n))
         /\ DOMAIN table' = DOMAIN tb /\ DOMAIN table' \subseteq Fds
         /\ \A i \in DOMAIN table' : table'[i] \in 0 .. MaxDesc
         /\ \A i \in DOMAIN table' : i < n =>
               table'[i] = Fresh + i /\ table'[i] \in StdFiles(n) /\ desc'[table'[i]].file = Fresh + i
         /\ \A i \in DOMAIN table' : i >= n =>
               table'[i] = (IF i \in DOMAIN table THEN table[i] ELSE NULL)
         /\ \A i, j \in DOMAIN table' : table'[i] # NULL /\ table'[i] = table'[j] => i = j
         /\ \A i \in DOMAIN table' : table'[i] # NULL => Live(table[i])' /\ desc'[table'[i]].st # "none"
<1>1. TypeOK /\ Ownership /\ AllocMeaning
  BY DEF IInv, Ownership
<1>2. PICK m, N : m = Fresh /\ N = StdFiles(n)
  OBVIOUS
<1>3. m \in Nat /\ m >= 1 /\ m + n - 1 <= MaxDesc /\ MaxDesc \in Nat
  BY <1>1, <1>2, FreshIsNext, SizeAssumption
<1>4. Adds(N) /\ AllocMeaning' /\ \A d \in N : desc'[d].file = d
  BY <1>1, <1>2, StdFilesMade
<1>5. N = m .. m + n - 1
  BY <1>2 DEF StdFiles
<1>6. table' = [i \in DOMAIN tb |-> IF i < n THEN m + i ELSE tb[i]]
  BY <1>2 DEF MakeStdFiles
<1>7. PICK k \in 0 .. IntMax : tb \in [0 .. k - 1 -> 0 .. MaxDesc]
  BY DEF Grown
<1>8. DOMAIN tb = 0 .. k - 1 /\ DOMAIN table' = 0 .. k - 1 /\ 0 .. k - 1 \subseteq Fds
  BY <1>6, <1>7, SizeAssumption DEF Fds
<1>9. \A i \in 0 .. k - 1 : i < n => table'[i] = m + i /\ m + i \in N /\ m + i \in 0 .. MaxDesc
  BY <1>3, <1>5, <1>6, <1>8
<1>10. \A i \in 0 .. k - 1 : i >= n => table'[i] = IF i \in DOMAIN table THEN table[i] ELSE NULL
  BY <1>6, <1>8 DEF Grown
<1>11. table' \in [0 .. k - 1 -> 0 .. MaxDesc]
  BY <1>6, <1>7, <1>8, <1>9
<1>12. SizeMeaning'
  BY <1>11 DEF SizeMeaning
<1>13. /\ ObjectMeaning' /\ \A d \in N : Live(d)' /\ ~Live(d)
       /\ \A d \in Descs : Live(d) => d \notin N /\ Live(d)' /\ desc'[d] = desc[d]
  BY <1>1, <1>4, AddsObjects DEF Ownership
<1>14. \A i \in DOMAIN table : table[i] # NULL => table[i] \in Descs /\ Live(table[i])
  BY <1>1, References DEF Ownership, SlotMeaning
<1>15. ASSUME NEW i \in 0 .. k - 1, NEW j \in 0 .. k - 1, table'[i] # NULL, table'[i] = table'[j]
       PROVE  i = j
  <2>1. CASE i < n /\ j < n
    BY <1>3, <1>9, <1>15, <2>1
  <2>2. CASE i < n /\ j >= n
    BY <1>9, <1>10, <1>13, <1>14, <1>15, <2>2
  <2>3. CASE i >= n /\ j < n
    BY <1>9, <1>10, <1>13, <1>14, <1>15, <2>3
  <2>4. CASE i >= n /\ j >= n
    BY <1>1, <1>10, <1>15, <2>4 DEF Ownership, SlotMeaning
  <2> QED BY <2>1, <2>2, <2>3, <2>4
<1>16. ASSUME NEW i \in 0 .. k - 1, table'[i] # NULL
       PROVE  Live(table[i])' /\ desc'[table'[i]].st # "none"
  <2>1. PICK x : x = table'[i]
    OBVIOUS
  <2>2. Live(x)'
    <3>1. CASE i < n
      BY <1>9, <1>13, <2>1, <3>1
    <3>2. CASE i >= n
      BY <1>10, <1>13, <1>14, <1>16, <2>1, <3>2
    <3> QED BY <3>1, <3>2
  <2> QED BY <2>1, <2>2 DEF Live
<1>17. CallMeaning'
  <2>1. ASSUME NEW u \in Threads, NEW x \in Objects(u)
        PROVE  Live(x)' /\ \A i \in 0 .. k - 1 : table'[i] # x
    <3>1. x \in Descs /\ Live(x) /\ x # NULL
      BY <1>1, References DEF Ownership, Live
    <3>2. \A i \in DOMAIN table : table[i] # x
      <4>1. ObjectsOK(u)
        BY <1>1 DEF Ownership, CallMeaning
      <4>2. stale = {} /\ op[u].pc # "assign2"
        BY <1>1, Uninitialized
      <4> QED BY <4>1, <4>2 DEF ObjectsOK
    <3>3. x \notin N /\ Live(x)'
      BY <1>13, <3>1
    <3> QED BY <1>9, <1>10, <3>1, <3>2, <3>3
  <2>2. \A u \in Threads : ObjectsOK(u)' /\ SlotOK(u)'
    BY <1>8, <2>1 DEF ObjectsOK, SlotOK
  <2> QED BY <2>2 DEF CallMeaning
<1>18. ApartMeaning'
  <2>1. \A u \in Threads : op'[u].pc # "reassign"
    OBVIOUS
  <2>2. \A u, v \in Threads : u # v => Objects(u) \cap Objects(v) = {}
    BY <1>1 DEF Ownership, ApartMeaning
  <2> QED BY <2>1, <2>2 DEF ApartMeaning
<1>19. HostMeaning'
  <2>1. lost' = lost \cup {desc[tb[i]].hfd : i \in {j \in 0 .. n - 1 : tb[j] # NULL}}
    BY DEF MakeStdFiles
  <2>2. ASSUME NEW i \in DOMAIN table, i < n, table[i] # NULL
        PROVE  desc[table[i]].hfd \in lost'
    <3>1. i \in DOMAIN tb /\ tb[i] = table[i] /\ i \in 0 .. n - 1
      BY <1>8, <2>2 DEF Grown
    <3> QED BY <2>1, <2>2, <3>1
  <2>3. ASSUME NEW d \in N PROVE Reached(d)'
    <3>1. d - m \in 0 .. n - 1 /\ m + (d - m) = d
      BY <1>3, <1>5
    <3>2. d - m \in 0 .. k - 1 /\ table'[d - m] = d
      BY <1>8, <1>9, <3>1
    <3> QED BY <1>8, <3>2 DEF Reached, TableEntries
  <2>4. ASSUME NEW d \in Descs, Live(d), Reached(d), desc[d].hfd \notin lost'
        PROVE  Live(d)' /\ desc'[d].hfd = desc[d].hfd /\ Reached(d)'
    <3>0. d # NULL
      BY <2>4 DEF Live
    <3>1. CASE d \in TableEntries
      <4>1. PICK i \in DOMAIN table : table[i] = d
        BY <3>1 DEF TableEntries
      <4>2. i \in 0 .. k - 1 /\ i >= n
        BY <1>8, <2>2, <2>4, <3>0, <4>1 DEF Grown
      <4>3. i \in DOMAIN table' /\ table'[i] = d
        BY <1>8, <1>10, <4>1, <4>2
      <4>4. Reached(d)'
        BY <4>3 DEF Reached, TableEntries
      <4> QED BY <1>13, <2>4, <4>4
    <3>2. CASE \E u \in Threads : d \in {op[u].d, op[u].n}
      <4>1. PICK u \in Threads : d \in {op[u].d, op[u].n}
        BY <3>2
      <4>2. d \in Objects(u)'
        BY <3>0, <4>1 DEF Objects
      <4>3. Reached(d)'
        BY <4>2 DEF Objects, Reached, InCall
      <4> QED BY <1>13, <2>4, <4>3
    <3> QED BY <2>4, <3>1, <3>2 DEF Reached, InCall
  <2>5. ASSUME NEW h \in Descs, host'[h] # 0, host[h] = 0
        PROVE  \E d \in Descs : Live(d)' /\ desc'[d].hfd = h /\ Reached(d)'
    <3>1. PICK d \in N : desc'[d].hfd = h
      BY <1>4, <2>5 DEF Adds
    <3>2. d \in Descs /\ Live(d)' /\ Reached(d)'
      BY <1>4, <1>13, <2>3 DEF Adds
    <3> QED BY <3>1, <3>2
  <2> QED BY <1>1, <2>1, <2>4, <2>5, HostKept DEF Ownership
<1>20. \A i \in 0 .. k - 1 : table'[i] \in 0 .. MaxDesc
  BY <1>11
<1> QED BY <1>2, <1>4, <1>8, <1>9, <1>10, <1>12, <1>13, <1>15, <1>16, <1>17, <1>18, <1>19, <1>20

LEMMA GrownSize ==
  ASSUME NEW tb, Grown(tb), NEW n \in Nat, n > 0 => Cardinality(DOMAIN tb) >= n
  PROVE  0 .. n - 1 \subseteq DOMAIN tb
<1>1. PICK k \in 0 .. IntMax : tb \in [0 .. k - 1 -> 0 .. MaxDesc]
  BY DEF Grown
<1>2. k \in Nat /\ DOMAIN tb = 0 .. k - 1
  BY <1>1, SizeAssumption
<1>3. Cardinality(0 .. k - 1) = k
  <2>1. Cardinality(0 .. k - 1) = IF 0 > k - 1 THEN 0 ELSE k - 1 - 0 + 1
    BY <1>2, FS_Interval, 0 \in Int, k - 1 \in Int
  <2> QED BY <1>2, <2>1
<1> QED BY <1>2, <1>3

LEMMA InitializeKeeps ==
  ASSUME IInv, Fd(Initialize) PROVE IInv'
<1>1. TypeOK /\ Ownership /\ EvMeaning /\ ~inited /\ AllocMeaning /\ SizeMeaning
  BY DEF IInv, Ownership, Fd, Initialize
<1>2. PICK tb \in ResizeResults(TableChunk) :
        Cardinality(DOMAIN tb) >= TableChunk /\ MakeStdFiles(NumStd, tb)
  BY DEF Fd, Initialize
<1>3. NumStd \in Nat /\ TableChunk \in Nat /\ NumStd <= TableChunk /\ MaxDesc \in Nat
  BY SizeAssumption
<1>4. Grown(tb) /\ 0 .. NumStd - 1 \subseteq DOMAIN tb
  <2>1. Grown(tb)
    BY <1>1, <1>2, <1>3, ResizeGrows
  <2>2. 0 .. TableChunk - 1 \subseteq DOMAIN tb
    BY <1>2, <1>3, <2>1, GrownSize
  <2> QED BY <1>3, <2>1, <2>2
<1>5. /\ UNCHANGED <<fdlock, reg, op, stale, map, elock, ev>> /\ inited' = TRUE
      /\ Fresh + NumStd - 1 <= MaxDesc
  BY DEF Fd, Initialize, epVars, CanAllocate
<1>6. PICK m : m = Fresh
  OBVIOUS
<1>7. m \in Nat /\ m >= 1 /\ m + NumStd - 1 <= MaxDesc
  BY <1>1, <1>5, <1>6, FreshIsNext
<1>8. held' = [fd \in Fds |-> IF fd < NumStd THEN m + fd ELSE held[fd]]
  BY <1>6 DEF Fd, Initialize, FreshFile
<1>9. /\ stale = {} /\ \A fd \in Fds : held[fd] = 0
      /\ \A u \in Threads : Objects(u)' = Objects(u) /\ Slot(u)' = {} /\ ShapeOK(u)'
                              /\ op'[u].pc \in {"idle", "assign", "undo"}
  <2>1. /\ stale = {} /\ \A fd \in Fds : held[fd] = 0
        /\ \A u \in Threads : Slot(u) = {} /\ op[u].pc \in {"idle", "assign", "undo"}
    BY <1>1, Uninitialized
  <2>2. \A u \in Threads : ShapeOK(u)
    BY <1>1 DEF Ownership, CallMeaning
  <2>3. \A u \in Threads : ShapeOK(u)'
    BY <1>5, <2>2 DEF ShapeOK
  <2> QED BY <1>5, <2>1, <2>3 DEF Objects, Slot
<1>10. /\ SizeMeaning' /\ AllocMeaning' /\ ObjectMeaning' /\ CallMeaning' /\ ApartMeaning'
       /\ HostMeaning' /\ Adds(StdFiles(NumStd))
       /\ DOMAIN table' = DOMAIN tb /\ DOMAIN table' \subseteq Fds
       /\ \A i \in DOMAIN table' : table'[i] \in 0 .. MaxDesc
       /\ \A i \in DOMAIN table' : i < NumStd =>
             table'[i] = m + i /\ desc'[table'[i]].file = m + i
       /\ \A i \in DOMAIN table' : i >= NumStd =>
             table'[i] = (IF i \in DOMAIN table THEN table[i] ELSE NULL)
       /\ \A i, j \in DOMAIN table' : table'[i] # NULL /\ table'[i] = table'[j] => i = j
       /\ \A i \in DOMAIN table' : table'[i] # NULL => Live(table[i])' /\ desc'[table'[i]].st # "none"
  BY <1>1, <1>2, <1>3, <1>4, <1>5, <1>6, <1>9, StdFilesStep
<1>11. \A fd \in Fds : /\ fd \in Nat
                       /\ fd < NumStd => held'[fd] = m + fd /\ m + fd # 0 /\ m + fd # NULL
                                           /\ m + fd \in 0 .. MaxDesc /\ fd \in DOMAIN table'
                       /\ fd >= NumStd => held'[fd] = 0
  BY <1>3, <1>4, <1>7, <1>8, <1>9, <1>10, SizeAssumption DEF Fds, NULL
<1>12. SlotMeaning'
  <2>1. ASSUME NEW i \in DOMAIN table', table'[i] # NULL PROVE held'[i] # 0
    <3>1. i \in Fds
      BY <1>10
    <3>2. CASE i < NumStd
      BY <1>11, <3>1, <3>2
    <3>3. CASE i >= NumStd
      <4>1. i \in DOMAIN table /\ table[i] # NULL
        BY <1>10, <2>1, <3>3
      <4>2. i < NumStd
        BY <1>1, <4>1 DEF Ownership, SlotMeaning
      <4> QED BY <1>3, <1>11, <3>1, <3>3, <4>2
    <3> QED BY <1>3, <1>11, <3>1, <3>2, <3>3
  <2> QED BY <1>5, <1>10, <2>1 DEF SlotMeaning
<1>13. HeldMeaning'
  <2>1. ASSUME NEW fd \in Fds, held'[fd] # 0
        PROVE  fd \in DOMAIN table' /\ Live(table[fd])' /\ desc'[table'[fd]].file = held'[fd]
    <3>1. fd < NumStd
      BY <1>3, <1>11, <2>1
    <3> QED BY <1>10, <1>11, <3>1
  <2> QED BY <1>5, <1>9, <2>1 DEF HeldMeaning
<1>14. TypeOK'
  <2>1. held' \in [Fds -> 0 .. MaxDesc]
    <3>1. \A fd \in Fds : (IF fd < NumStd THEN m + fd ELSE held[fd]) \in 0 .. MaxDesc
      BY <1>3, <1>9, <1>11
    <3> QED BY <1>8, <3>1
  <2>2. op' \in [Threads -> Calls]
    BY <1>1, <1>5 DEF TypeOK, Calls, Pcs
  <2> QED BY <1>1, <1>5, <1>10, <2>1, <2>2, FdTypes DEF Adds
<1>15. EvMeaning'
  BY <1>1, <1>5 DEF EvMeaning
<1> QED BY <1>10, <1>12, <1>13, <1>14, <1>15 DEF IInv

LEMMA InitializeFailsKeeps ==
  ASSUME IInv, NEW t \in Threads, Fd(InitializeFails(t)) PROVE IInv'
<1>1. /\ TypeOK /\ Ownership /\ EvMeaning /\ ~inited /\ AllocMeaning /\ SizeMeaning
      /\ op[t].pc = "assign" /\ op[t] \in Calls
  BY DEF IInv, Ownership, Fd, InitializeFails, TypeOK, Calls, Pcs
<1>2. PICK n \in 0 .. NumStd - 1, tb \in ResizeResults(TableChunk) :
        /\ CanAllocate(n + NumStd)
        /\ n > 0 => Cardinality(DOMAIN tb) >= TableChunk
        /\ MakeStdFiles(n, tb)
  BY DEF Fd, InitializeFails
<1>3. /\ NumStd \in Nat /\ TableChunk \in Nat /\ NumStd <= TableChunk /\ MaxDesc \in Nat
      /\ n \in Nat /\ n < NumStd /\ Fresh \in Nat
  BY <1>1, <1>2, SizeAssumption, FreshIsNext
<1>4. Grown(tb) /\ 0 .. n - 1 \subseteq DOMAIN tb /\ Fresh + n - 1 <= MaxDesc
  <2>1. Grown(tb)
    BY <1>1, <1>2, <1>3, ResizeGrows
  <2>2. n > 0 => 0 .. TableChunk - 1 \subseteq DOMAIN tb
    BY <1>2, <1>3, <2>1, GrownSize
  <2>3. Fresh + n - 1 <= MaxDesc
    BY <1>2, <1>3 DEF CanAllocate
  <2> QED BY <1>3, <2>1, <2>2, <2>3
<1>5. UNCHANGED <<inited, fdlock, reg, held, stale, map, elock, ev>>
  BY DEF Fd, InitializeFails, epVars
<1>6. PICK r : r = [op[t] EXCEPT !.pc = "undo"]
  OBVIOUS
<1>7. r \in Calls /\ r.pc = "undo" /\ r.d = op[t].d /\ r.n = op[t].n
  BY <1>1, <1>6 DEF Calls, Pcs
<1>8. Moves(t) /\ op'[t] = r
  BY <1>1, <1>6, <1>7, GotoMoves DEF Fd, InitializeFails
<1>9. /\ stale = {} /\ \A fd \in Fds : held[fd] = 0
      /\ \A u \in Threads : Objects(u)' = Objects(u) /\ Slot(u)' = {} /\ ShapeOK(u)'
                              /\ op'[u].pc \in {"idle", "assign", "undo"}
  <2>1. /\ stale = {} /\ \A fd \in Fds : held[fd] = 0
        /\ \A u \in Threads : Slot(u) = {} /\ op[u].pc \in {"idle", "assign", "undo"}
    BY <1>1, Uninitialized
  <2>2. \A u \in Threads : ShapeOK(u)
    BY <1>1 DEF Ownership, CallMeaning
  <2>3. ASSUME NEW u \in Threads
        PROVE  Objects(u)' = Objects(u) /\ Slot(u)' = {} /\ ShapeOK(u)'
                 /\ op'[u].pc \in {"idle", "assign", "undo"}
    <3>1. CASE u = t
      BY <1>1, <1>5, <1>7, <1>8, <2>2, <3>1 DEF Objects, Slot, ShapeOK, Closing, Owning
    <3>2. CASE u # t
      <4>1. op'[u] = op[u]
        BY <1>8, <3>2 DEF Moves
      <4>2. ShapeOK(u)'
        BY <1>5, <2>2, <4>1 DEF ShapeOK
      <4> QED BY <2>1, <4>1, <4>2 DEF Objects, Slot
    <3> QED BY <3>1, <3>2
  <2> QED BY <2>1, <2>3
<1>10. /\ SizeMeaning' /\ AllocMeaning' /\ ObjectMeaning' /\ CallMeaning' /\ ApartMeaning'
       /\ HostMeaning' /\ Adds(StdFiles(n)) /\ DOMAIN table' \subseteq Fds
       /\ \A i \in DOMAIN table' : table'[i] \in 0 .. MaxDesc
       /\ \A i \in DOMAIN table' : i >= n =>
             table'[i] = (IF i \in DOMAIN table THEN table[i] ELSE NULL)
       /\ \A i, j \in DOMAIN table' : table'[i] # NULL /\ table'[i] = table'[j] => i = j
       /\ \A i \in DOMAIN table' : table'[i] # NULL => Live(table[i])' /\ desc'[table'[i]].st # "none"
  BY <1>1, <1>2, <1>3, <1>4, <1>9, StdFilesStep
<1>11. SlotMeaning'
  <2>1. ASSUME NEW i \in DOMAIN table', table'[i] # NULL PROVE i < NumStd
    <3>1. i \in Nat
      BY <1>10, SizeAssumption DEF Fds
    <3>2. CASE i >= n
      BY <1>1, <1>10, <2>1, <3>2 DEF Ownership, SlotMeaning
    <3>3. CASE i < n
      BY <1>3, <3>1, <3>3
    <3> QED BY <1>3, <3>1, <3>2, <3>3
  <2> QED BY <1>1, <1>5, <1>10, <2>1 DEF SlotMeaning
<1>12. HeldMeaning'
  BY <1>5, <1>9 DEF HeldMeaning
<1>13. TypeOK'
  BY <1>1, <1>5, <1>8, <1>10, FdTypes DEF Adds, Moves, TypeOK
<1>14. EvMeaning'
  BY <1>1, <1>5, <1>7, <1>8, EvKept
<1> QED BY <1>10, <1>11, <1>12, <1>13, <1>14 DEF IInv

-----------------------------------------------------------------------------
(* The theorems.                                                             *)

LEMMA InitIInv ==
  Init => IInv
<1> SUFFICES ASSUME Init PROVE IInv
  OBVIOUS
<1>0. /\ IntMax \in Nat /\ MaxDesc \in Nat /\ 0 \in 0 .. MaxDesc /\ 0 \in 0 .. IntMax
      /\ NULL = 0 /\ NULL \notin Descs
  BY SizeAssumption DEF NULL, Descs
<1>1. /\ DOMAIN table = {} /\ table = [i \in {} |-> NULL] /\ inited = FALSE /\ stale = {}
      /\ \A d \in Descs : desc[d].st = "none" /\ ~Live(d)
      /\ \A h \in Descs : host[h] = 0
      /\ \A fd \in Fds : held[fd] = 0
      /\ \A t \in Threads : op[t] = Idle
  BY DEF Init, Live
<1>2. TypeOK
  <2>1. op \in [Threads -> Calls]
    BY IdleType DEF Init
  <2>2. desc \in DescTypes
    BY <1>0 DEF Init, DescTypes, AllKinds
  <2>3. map \in [Descs -> Seq([fd : Fds, data : Data])]
    BY DEF Init
  <2> QED BY <1>0, <1>1, <2>1, <2>2, <2>3 DEF Init, TypeOK, Calls, Pcs, DescTypes
<1>3. SizeMeaning
  <2>1. 0 .. 0 - 1 = {} /\ 0 \in 0 .. IntMax
    BY <1>0
  <2>2. table \in [0 .. 0 - 1 -> 0 .. MaxDesc]
    BY <1>1, <2>1
  <2> QED BY <2>1, <2>2 DEF SizeMeaning
<1>4. AllocMeaning
  <2>1. Occupied = {}
    BY <1>1 DEF Occupied
  <2>2. Cardinality(Occupied) <= 0
    BY <2>1, FS_EmptySet
  <2>3. \A d \in Descs : desc[d].st = "none" <=> d > 0
    BY <1>0, <1>1 DEF Descs
  <2> QED BY <1>0, <2>2, <2>3 DEF AllocMeaning
<1>5. \A t \in Threads : Objects(t) = {} /\ Slot(t) = {} /\ op[t].pc = "idle"
  BY <1>1 DEF Objects, Slot, Idle, Closing
<1>6. CallMeaning
  BY <1>1, <1>5 DEF CallMeaning, ShapeOK, ObjectsOK, SlotOK, Idle, Owning
<1>7. ApartMeaning
  BY <1>5 DEF ApartMeaning
<1>8. ObjectMeaning /\ SlotMeaning /\ HeldMeaning /\ HostMeaning
  BY <1>1 DEF ObjectMeaning, SlotMeaning, HeldMeaning, HostMeaning
<1>9. EvMeaning
  BY <1>5 DEF EvMeaning, Init
<1> QED BY <1>2, <1>3, <1>4, <1>6, <1>7, <1>8, <1>9 DEF IInv

LEMMA NextIInv ==
  ASSUME IInv, [Next]_vars
  PROVE  IInv'
<1>1. CASE UNCHANGED vars
  <2>1. UNCHANGED <<table, inited, fdlock, desc, host, reg, op, held, lost, stale, dupd,
                    map, elock, ev>>
    BY <1>1 DEF vars, fdVars, epVars, hostVars, ghostVars
  <2>2. TypeOK' /\ SizeMeaning' /\ AllocMeaning' /\ ObjectMeaning' /\ EvMeaning'
    BY <2>1 DEF IInv, TypeOK, SizeMeaning, AllocMeaning, Occupied, ObjectMeaning, Live, EvMeaning
  <2>3. CallMeaning' /\ ApartMeaning'
    BY <2>1 DEF IInv, CallMeaning, ShapeOK, ObjectsOK, SlotOK, ApartMeaning, Objects, Slot,
                Live, MakesNumber
  <2>4. SlotMeaning' /\ HeldMeaning' /\ HostMeaning'
    BY <2>1 DEF IInv, SlotMeaning, HeldMeaning, HostMeaning, Slot, Live, Reached,
                TableEntries, InCall
  <2> QED BY <2>2, <2>3, <2>4 DEF IInv
<1>2. CASE Fd(Initialize)
  BY <1>2, InitializeKeeps
<1>3. ASSUME NEW t \in Threads, Step(t) PROVE IInv'
  <2>1. CASE \/ Fd(InitializeFails(t)) \/ Fd(Open(t)) \/ Fd(SocketPair(t))
             \/ Fd(Accept(t)) \/ Fd(AcceptTruncated(t)) \/ Fd(Dup(t))
    BY <2>1, InitializeFailsKeeps, OpenKeeps, SocketPairKeeps, AcceptKeeps,
       AcceptTruncatedKeeps, DupKeeps
  <2>2. CASE \/ Fd(Assign(t)) \/ Fd(AssignFails(t)) \/ Fd(Assign2(t)) \/ Fd(Assign2Fails(t))
             \/ Fd(Undo(t)) \/ Fd(UndoFails(t))
    BY <2>2, AssignKeeps, AssignFailsKeeps, Assign2Keeps, Assign2FailsKeeps, UndoKeeps,
       UndoFailsKeeps
  <2>3. CASE \E to \in Fds : NotRegistered(to) /\ Fd(Dup2(t, to))
    BY <2>3, Dup2Keeps
  <2>4. CASE Fd(Reassign(t)) \/ Fd(ReassignFails(t)) \/ Fd(Close(t)) \/ Fd(Release(t))
    BY <2>4, ReassignKeeps, ReassignFailsKeeps, CloseKeeps, ReleaseKeeps
  <2>5. CASE \/ ForeachLock(t) \/ Visit(t) \/ ForeachUnlock(t)
             \/ CtlHost(t) \/ CtlMap(t) \/ WaitHost(t) \/ WaitLock(t)
    BY <2>5, ForeachLockKeeps, VisitKeeps, ForeachUnlockKeeps, CtlHostKeeps, CtlMapKeeps,
       WaitHostKeeps, WaitLockKeeps
  <2> QED BY <1>3, <2>1, <2>2, <2>3, <2>4, <2>5 DEF Step
<1> QED BY <1>1, <1>2, <1>3 DEF Next

(* The invariant holds in every reachable state: objects, slots of the table *)
(* and descriptors of the host each have one owner, whatever the threads'    *)
(* calls of oe_open, oe_dup2, oe_close and the others do in between.         *)
THEOREM Invariance ==
  Spec => []IInv
<1>1. Init => IInv
  BY InitIInv
<1>2. IInv /\ [Next]_vars => IInv'
  BY NextIInv
<1> QED BY <1>1, <1>2, PTL DEF Spec

(* What a number means follows from the owners of objects and slots. *)
LEMMA OwnedNumbers ==
  ASSUME IInv
  PROVE  FdMeansFile
<1>1. TypeOK /\ Ownership
  BY DEF IInv, Ownership
<1>2. ASSUME NEW fd \in Fds, held[fd] # 0
      PROVE  fd \in DOMAIN table /\ Live(table[fd]) /\ host[desc[table[fd]].hfd] = held[fd]
  <2>1. fd \in DOMAIN table /\ Live(table[fd]) /\ desc[table[fd]].file = held[fd]
    BY <1>1, <1>2 DEF Ownership, HeldMeaning
  <2>2. table[fd] \in Descs
    BY <1>1, <2>1, References DEF Ownership, Live
  <2> QED BY <1>1, <2>1, <2>2 DEF Ownership, ObjectMeaning
<1>3. ASSUME NEW i \in DOMAIN table, table[i] # NULL
      PROVE  \/ Live(table[i]) \/ i \in stale
             \/ \E t \in Threads : op[t].fd = i /\ op[t].pc \in {"foreach", "visit", "release"}
  <2>1. CASE ~inited
    BY <1>1, <1>3, <2>1 DEF Ownership, SlotMeaning
  <2>2. CASE held[i] # 0
    BY <1>1, <1>2, <2>2 DEF TypeOK
  <2>3. ASSUME NEW t \in Threads, i \in Slot(t)
        PROVE  Live(table[i]) \/ (op[t].fd = i /\ op[t].pc \in {"foreach", "visit", "release"})
    <3>1. SlotOK(t) /\ ShapeOK(t)
      BY <1>1 DEF Ownership, CallMeaning
    <3>2. CASE op[t].pc \in Closing
      BY <2>3, <3>2 DEF Slot, Closing
    <3>3. CASE op[t].pc = "assign2"
      <4>1. table[i] = op[t].d /\ op[t].d \in Objects(t)
        BY <2>3, <3>1, <3>3 DEF SlotOK, ShapeOK, Objects
      <4> QED BY <1>1, <4>1, References DEF Ownership
    <3>4. CASE op[t].pc = "reassign"
      BY <1>3, <2>3, <3>1, <3>4 DEF SlotOK
    <3> QED BY <2>3, <3>2, <3>3, <3>4 DEF Slot
  <2> QED BY <1>1, <1>3, <2>1, <2>2, <2>3 DEF Ownership, SlotMeaning
<1>4. SlotsLive
  BY <1>1, <1>3 DEF SlotsLive, Ownership, SlotMeaning
<1> QED BY <1>1, <1>2, <1>4 DEF FdMeansFile, Holds

(* Every descriptor the host keeps has an owner, and one only. *)
LEMMA OwnedDescriptors ==
  ASSUME IInv
  PROVE  HostFdAccounted
<1> SUFFICES ASSUME NEW h \in Descs, host[h] # 0, h \notin lost
             PROVE  Cardinality({d \in Descs : /\ Live(d) /\ desc[d].hfd = h
                                               /\ d \in TableEntries \/ InCall(d)}) = 1
  BY DEF HostFdAccounted
<1>1. PICK d \in Descs : Live(d) /\ desc[d].hfd = h /\ Reached(d)
  BY DEF IInv, HostMeaning
<1>2. \A c \in Descs : Live(c) /\ desc[c].hfd = h => c = d
  BY <1>1 DEF IInv, ObjectMeaning
<1>3. {c \in Descs : Live(c) /\ desc[c].hfd = h /\ (c \in TableEntries \/ InCall(c))} = {d}
  BY <1>1, <1>2 DEF Reached
<1> QED BY <1>3, FS_Singleton

(* A number the client holds leads to a live object of its own whose host    *)
(* descriptor denotes the file it was opened for, whatever oe_open, oe_dup,  *)
(* oe_dup2, oe_socketpair, oe_accept and oe_close of other threads do at the *)
(* same time, and whichever of their error paths are taken.                  *)
THEOREM NumbersMeanFiles ==
  Spec => []FdMeansFile
<1>1. IInv => FdMeansFile
  BY OwnedNumbers
<1> QED BY <1>1, Invariance, PTL

(* Every descriptor the host keeps for the enclave belongs to exactly one    *)
(* object in the table or in a running call: none is leaked and none is      *)
(* shared, but for those that the error paths named in the model give up.    *)
THEOREM HostDescriptorsOwned ==
  Spec => []HostFdAccounted
<1>1. IInv => HostFdAccounted
  BY OwnedDescriptors
<1> QED BY <1>1, Invariance, PTL

-----------------------------------------------------------------------------
(* The loop of _epoll_wait over the reported events.  Compact is a recursive  *)
(* function: that it exists and what it computes is shown for every sequence  *)
(* by the least number of turns for which it would fail.                      *)

(* The states of the loop of _epoll_wait over the reported events s. *)
Start(s) == [s |-> s, i |-> 1, n |-> Len(s)]
Runs(e, s, f, n) == f = [k \in 0 .. n |-> IF k = 0 THEN Start(s) ELSE Turn(e, f[k - 1])]

(* A run of the loop exists for every number of turns: if not, take the      *)
(* least number for which it does not.                                       *)
LEMMA RunsExist ==
  ASSUME NEW e, NEW s, NEW n \in Nat
  PROVE  \E f : Runs(e, s, f, n)
<1> DEFINE Bad == {m \in Nat : ~ \E f : Runs(e, s, f, m)}
<1>1. SUFFICES ASSUME Bad # {} PROVE FALSE
  OBVIOUS
<1>2. PICK m : m = Min(Bad)
  OBVIOUS
<1>3. m \in Bad /\ \A y \in Bad : m <= y
  BY <1>1, <1>2, MinExists
<1> HIDE DEF Bad
<1>4. m \in Nat /\ ~ \E f : Runs(e, s, f, m)
  BY <1>3 DEF Bad
<1>5. m # 0
  <2>1. PICK f : f = [k \in 0 .. 0 |-> Start(s)]
    OBVIOUS
  <2>2. Runs(e, s, f, 0)
    <3>1. \A k \in 0 .. 0 : k = 0
      OBVIOUS
    <3>2. [k \in 0 .. 0 |-> Start(s)] = [k \in 0 .. 0 |-> IF k = 0 THEN Start(s) ELSE Turn(e, f[k - 1])]
      BY <3>1, Zenon
    <3> QED BY <2>1, <3>2, Zenon DEF Runs
  <2> QED BY <1>4, <2>2
<1>6. m - 1 \in Nat /\ m - 1 \notin Bad
  BY <1>3, <1>4, <1>5
<1>7. PICK f : Runs(e, s, f, m - 1)
  BY <1>6 DEF Bad
<1>8. PICK g : g = [k \in 0 .. m |-> IF k = m THEN Turn(e, f[m - 1]) ELSE f[k]]
  OBVIOUS
<1>9. Runs(e, s, g, m)
  <2>1. ASSUME NEW k \in 0 .. m
        PROVE  g[k] = IF k = 0 THEN Start(s) ELSE Turn(e, g[k - 1])
    <3>1. CASE k = m
      BY <1>4, <1>5, <1>6, <1>8, <3>1
    <3>2. CASE k # m
      <4>1. k \in 0 .. m - 1 /\ (k # 0 => k - 1 \in 0 .. m /\ k - 1 # m)
        BY <1>4, <3>2
      <4>2. f[k] = IF k = 0 THEN Start(s) ELSE Turn(e, f[k - 1])
        <5> DEFINE F == [j \in 0 .. m - 1 |-> IF j = 0 THEN Start(s) ELSE Turn(e, f[j - 1])]
        <5>1. f = F
          BY <1>7, Zenon DEF Runs
        <5>2. F[k] = IF k = 0 THEN Start(s) ELSE Turn(e, f[k - 1])
          BY <4>1, Zenon
        <5> HIDE DEF F
        <5> QED BY <5>1, <5>2, Zenon
      <4>3. g[k] = f[k] /\ (k # 0 => g[k - 1] = f[k - 1])
        BY <1>8, <3>2, <4>1
      <4>4. CASE k = 0
        BY <4>2, <4>3, <4>4
      <4>5. CASE k # 0
        BY <4>2, <4>3, <4>5, Zenon
      <4> QED BY <4>4, <4>5
    <3> QED BY <3>1, <3>2
  <2>2. g = [k \in 0 .. m |-> g[k]]
    BY <1>8
  <2>3. [k \in 0 .. m |-> g[k]] = [k \in 0 .. m |-> IF k = 0 THEN Start(s) ELSE Turn(e, g[k - 1])]
    BY <2>1, Zenon
  <2> QED BY <2>2, <2>3, Zenon DEF Runs
<1> QED BY <1>4, <1>9

(* What Compact returns is what a run of Len(s) turns leaves. *)
LEMMA CompactRuns ==
  ASSUME NEW e, NEW s \in Seq(Fds)
  PROVE  \E f : Runs(e, s, f, Len(s)) /\ Compact(e, s) = SubSeq(f[Len(s)].s, 1, f[Len(s)].n)
<1>1. PICK f : f = CHOOSE g : Runs(e, s, g, Len(s))
  OBVIOUS
<1>2. Runs(e, s, f, Len(s))
  BY <1>1, RunsExist, LenProperties, Zenon
<1>3. Compact(e, s) = SubSeq(f[Len(s)].s, 1, f[Len(s)].n)
  BY <1>1, Zenon DEF Compact, Runs, Start
<1> QED BY <1>2, <1>3

Looked(e, s, k, p) ==
    /\ \E q \in [1 .. Len(s) -> Fds], i \in 1 .. Len(s) + 1, n \in 0 .. Len(s) :
          p = [s |-> q, i |-> i, n |-> n]
    /\ p.n - p.i + 1 = Len(s) - k
    /\ \A a, b \in 1 .. p.n : p.s[a] = p.s[b] => a = b
    /\ \A a \in 1 .. p.i - 1 : p.s[a] \in Mapped(e)
    /\ \A a \in 1 .. p.n : \E b \in 1 .. Len(s) : p.s[a] = s[b]
    /\ \A b \in 1 .. Len(s) : s[b] \in Mapped(e) => \E a \in 1 .. p.n : p.s[a] = s[b]

(* A turn keeps what has been looked at mapped, and loses no event that is. *)
LEMMA TurnLooks ==
  ASSUME NEW e, NEW s \in Seq(Fds), NEW k \in 0 .. Len(s) - 1, NEW p, Looked(e, s, k, p)
  PROVE  Looked(e, s, k + 1, Turn(e, p))
<1> DEFINE L == Len(s)  M == Mapped(e)
<1>1. L \in Nat
  BY LenProperties
<1>2. PICK q \in [1 .. L -> Fds], i \in 1 .. L + 1, n \in 0 .. L : p = [s |-> q, i |-> i, n |-> n]
  BY DEF Looked
<1>3. p.s = q /\ p.i = i /\ p.n = n
  BY <1>2
<1>4. /\ n - i + 1 = L - k
      /\ \A a, b \in 1 .. n : q[a] = q[b] => a = b
      /\ \A a \in 1 .. i - 1 : q[a] \in M
      /\ \A a \in 1 .. n : \E b \in 1 .. L : q[a] = s[b]
      /\ \A b \in 1 .. L : s[b] \in M => \E a \in 1 .. n : q[a] = s[b]
  BY <1>3 DEF Looked
<1> HIDE DEF L, M
<1>5. i \in 1 .. n /\ i \in 1 .. L /\ n \in 1 .. L
  BY <1>1, <1>4 DEF L
<1>6. CASE q[i] \in M
  <2>1. PICK t : t = Turn(e, p)
    OBVIOUS
  <2>2. t = [s |-> q, i |-> i + 1, n |-> n]
    BY <1>2, <1>3, <1>6, <2>1 DEF Turn, M
  <2>3. t.s = q /\ t.i = i + 1 /\ t.n = n /\ i + 1 \in 1 .. L + 1
    BY <1>1, <1>5, <2>2
  <2>4. n - (i + 1) + 1 = L - (k + 1)
    BY <1>1, <1>4, <1>5
  <2>5. \A a \in 1 .. (i + 1) - 1 : q[a] \in M
    BY <1>4, <1>5, <1>6
  <2>6. Looked(e, s, k + 1, t)
    BY <1>4, <2>2, <2>3, <2>4, <2>5 DEF Looked, L, M
  <2> QED BY <2>1, <2>6
<1>7. CASE q[i] \notin M
  <2>1. PICK t : t = Turn(e, p)
    OBVIOUS
  <2>2. PICK q2 : q2 = [q EXCEPT ![i] = q[n]]
    OBVIOUS
  <2>3. t = [s |-> q2, i |-> i, n |-> n - 1]
    BY <1>2, <1>3, <1>7, <2>1, <2>2 DEF Turn, M
  <2>4. t.s = q2 /\ t.i = i /\ t.n = n - 1 /\ n - 1 \in 0 .. L /\ q2 \in [1 .. L -> Fds]
    BY <1>1, <1>5, <2>2, <2>3
  <2>5. \A a \in 1 .. L : q2[a] = IF a = i THEN q[n] ELSE q[a]
    BY <2>2
  <2>6. (n - 1) - i + 1 = L - (k + 1)
    BY <1>1, <1>4, <1>5
  <2>7. ASSUME NEW a \in 1 .. n - 1, NEW b \in 1 .. n - 1, q2[a] = q2[b] PROVE a = b
    <3>1. a \in 1 .. n /\ b \in 1 .. n /\ a \in 1 .. L /\ b \in 1 .. L /\ a # n /\ b # n /\ n \in 1 .. n
      BY <1>1, <1>5
    <3> QED BY <1>4, <2>5, <2>7, <3>1
  <2>8. \A a \in 1 .. i - 1 : q2[a] \in M
    BY <1>1, <1>4, <1>5, <2>5
  <2>9. ASSUME NEW a \in 1 .. n - 1 PROVE \E b \in 1 .. L : q2[a] = s[b]
    <3>1. a \in 1 .. n /\ n \in 1 .. n /\ a \in 1 .. L
      BY <1>1, <1>5
    <3>2. q2[a] = q[n] \/ q2[a] = q[a]
      BY <2>5, <3>1
    <3> QED BY <1>4, <3>1, <3>2
  <2>10. ASSUME NEW b \in 1 .. L, s[b] \in M PROVE \E a \in 1 .. n - 1 : q2[a] = s[b]
    <3>1. PICK a \in 1 .. n : q[a] = s[b]
      BY <1>4, <2>10
    <3>2. a # i
      BY <1>7, <2>10, <3>1
    <3>3. CASE a = n
      <4>1. i \in 1 .. n - 1 /\ q2[i] = s[b]
        BY <1>1, <1>5, <2>5, <3>1, <3>2, <3>3
      <4> QED BY <4>1
    <3>4. CASE a # n
      <4>1. a \in 1 .. n - 1 /\ q2[a] = s[b]
        BY <1>1, <1>5, <2>5, <3>1, <3>2, <3>4
      <4> QED BY <4>1
    <3> QED BY <3>3, <3>4
  <2>11. Looked(e, s, k + 1, t)
    BY <2>3, <2>4, <2>6, <2>7, <2>8, <2>9, <2>10 DEF Looked, L, M
  <2> QED BY <2>1, <2>11
<1> QED BY <1>6, <1>7

Distinct(s) == \A j, k \in DOMAIN s : s[j] = s[k] => j = k

(* So does every number of turns, again by the least one that would not. *)
LEMMA RunsLook ==
  ASSUME NEW e, NEW s \in Seq(Fds), Distinct(s), NEW f, Runs(e, s, f, Len(s))
  PROVE  Looked(e, s, Len(s), f[Len(s)])
<1> DEFINE Bad == {k \in 0 .. Len(s) : ~Looked(e, s, k, f[k])}
<1>0. Len(s) \in Nat /\ s \in [1 .. Len(s) -> Fds]
  BY LenProperties, SeqDef
<1>1. SUFFICES ASSUME Bad # {} PROVE FALSE
  BY <1>0
<1>2. PICK m : m = Min(Bad)
  OBVIOUS
<1>3. m \in Bad /\ \A y \in Bad : m <= y
  <2>1. Bad \subseteq Nat
    BY <1>0
  <2> QED BY <1>1, <1>2, <2>1, MinExists
<1> HIDE DEF Bad
<1>4. m \in 0 .. Len(s) /\ ~Looked(e, s, m, f[m])
  BY <1>3 DEF Bad
<1>5. f[m] = IF m = 0 THEN Start(s) ELSE Turn(e, f[m - 1])
  <2> DEFINE F == [j \in 0 .. Len(s) |-> IF j = 0 THEN Start(s) ELSE Turn(e, f[j - 1])]
  <2>1. f = F
    BY Zenon DEF Runs
  <2>2. F[m] = IF m = 0 THEN Start(s) ELSE Turn(e, f[m - 1])
    BY <1>4, Zenon
  <2> HIDE DEF F
  <2> QED BY <2>1, <2>2, Zenon
<1>6. m # 0
  <2>1. PICK p : p = Start(s)
    OBVIOUS
  <2>2. p = [s |-> s, i |-> 1, n |-> Len(s)] /\ p.s = s /\ p.i = 1 /\ p.n = Len(s)
    BY <2>1 DEF Start
  <2>3. 1 \in 1 .. Len(s) + 1 /\ Len(s) \in 0 .. Len(s) /\ DOMAIN s = 1 .. Len(s)
    BY <1>0
  <2>4. Looked(e, s, 0, p)
    BY <1>0, <2>2, <2>3 DEF Looked, Distinct
  <2> QED BY <1>4, <1>5, <2>1, <2>4
<1>7. m - 1 \in 0 .. Len(s) - 1 /\ m - 1 \in 0 .. Len(s) /\ (m - 1) + 1 = m
  BY <1>0, <1>4, <1>6
<1>8. Looked(e, s, m - 1, f[m - 1])
  <2>1. m - 1 \notin Bad
    BY <1>0, <1>3, <1>4, <1>7
  <2> QED BY <1>7, <2>1 DEF Bad
<1>9. Looked(e, s, (m - 1) + 1, Turn(e, f[m - 1]))
  BY <1>7, <1>8, TurnLooks
<1> QED BY <1>4, <1>5, <1>6, <1>7, <1>9

(* What oe_epoll_wait hands out *)
LEMMA CompactKeepsMapped ==
  ASSUME NEW e, NEW s \in Seq(Fds), Distinct(s)
  PROVE  /\ ToSet(Compact(e, s)) = ToSet(s) \cap Mapped(e)
         /\ Len(Compact(e, s)) = Cardinality(ToSet(Compact(e, s)))
<1>0. Len(s) \in Nat /\ s \in [1 .. Len(s) -> Fds] /\ DOMAIN s = 1 .. Len(s)
  BY LenProperties, SeqDef
<1>1. PICK f : Runs(e, s, f, Len(s)) /\ Compact(e, s) = SubSeq(f[Len(s)].s, 1, f[Len(s)].n)
  BY CompactRuns
<1>2. PICK p : p = f[Len(s)]
  OBVIOUS
<1>3. Looked(e, s, Len(s), p)
  BY <1>1, <1>2, RunsLook
<1>4. PICK q \in [1 .. Len(s) -> Fds], i \in 1 .. Len(s) + 1, n \in 0 .. Len(s) :
        p = [s |-> q, i |-> i, n |-> n]
  BY <1>3 DEF Looked
<1>5. p.s = q /\ p.i = i /\ p.n = n
  BY <1>4
<1>6. /\ n - i + 1 = 0
      /\ \A a, b \in 1 .. n : q[a] = q[b] => a = b
      /\ \A a \in 1 .. i - 1 : q[a] \in Mapped(e)
      /\ \A a \in 1 .. n : \E b \in 1 .. Len(s) : q[a] = s[b]
      /\ \A b \in 1 .. Len(s) : s[b] \in Mapped(e) => \E a \in 1 .. n : q[a] = s[b]
  BY <1>0, <1>3, <1>5 DEF Looked
<1>7. PICK c : c = Compact(e, s)
  OBVIOUS
<1>8. c = SubSeq(q, 1, n)
  BY <1>1, <1>2, <1>5, <1>7
<1>9. c = [a \in 1 .. n |-> q[a]]
  BY <1>0, <1>8
<1>10. DOMAIN c = 1 .. n /\ Len(c) = n /\ \A a \in 1 .. n : c[a] = q[a]
  BY <1>0, <1>9
<1>11. ToSet(c) = {q[a] : a \in 1 .. n}
  BY <1>10, Zenon DEF ToSet
<1>12. ToSet(s) = {s[a] : a \in 1 .. Len(s)}
  BY <1>0, Zenon DEF ToSet
<1>13. {q[a] : a \in 1 .. n} = {s[a] : a \in 1 .. Len(s)} \cap Mapped(e)
  <2>1. \A a \in 1 .. n : q[a] \in Mapped(e)
    BY <1>0, <1>6
  <2>2. PICK M : M = Mapped(e)
    OBVIOUS
  <2>3. ASSUME NEW x \in {q[a] : a \in 1 .. n} PROVE x \in {s[a] : a \in 1 .. Len(s)} \cap M
    BY <1>6, <2>1, <2>2
  <2>4. ASSUME NEW x \in {s[a] : a \in 1 .. Len(s)} \cap M PROVE x \in {q[a] : a \in 1 .. n}
    <3>1. PICK b \in 1 .. Len(s) : x = s[b]
      BY <2>4
    <3>2. PICK a \in 1 .. n : q[a] = s[b]
      BY <1>6, <2>2, <2>4, <3>1
    <3> QED BY <3>1, <3>2
  <2> QED BY <2>2, <2>3, <2>4
<1>14. Cardinality({q[a] : a \in 1 .. n}) = n
  <2>1. c \in Bijection(1 .. n, {q[a] : a \in 1 .. n})
    BY <1>6, <1>9, <1>10 DEF Bijection, Injection, Surjection, IsInjective
  <2>2. n \in Nat
    BY <1>0
  <2>3. ExistsBijection(1 .. n, {q[a] : a \in 1 .. n})
    BY <2>1, Zenon DEF ExistsBijection
  <2> QED BY <2>2, <2>3, FS_CountingElements
<1> QED BY <1>7, <1>10, <1>11, <1>12, <1>13, <1>14

-----------------------------------------------------------------------------
(* Maps and registrations: the second inductive invariant, PollInv, which     *)
(* relates the mappings of the epoll objects, the host's registrations and    *)
(* the calls between the two.                                                 *)

(* Every open file has a name that was given out, and one descriptor unless  *)
(* it has been duplicated, which no epoll instance has.                      *)
FileMeaning ==
    /\ \A h \in Descs : host[h] # 0 => desc[host[h]].st # "none"
    /\ \A g, h \in Descs : host[g] # 0 /\ host[g] = host[h] => g = h \/ host[g] \in dupd
    /\ \A f \in dupd : f \in Descs /\ desc[f].st # "none"
    /\ \A e \in EpollDescs : desc[e].file \notin dupd

(* A registration is between open files. *)
RegMeaning ==
    \A r \in reg : \E g, h \in Descs : host[g] = r.ep /\ host[h] = r.file

(* An epoll object that no number denotes yet has nothing registered. *)
NewMeaning ==
    /\ \A d \in Descs : desc[d].st = "none" => map[d] = <<>>
    /\ \A t \in Threads : \A x \in Objects(t) :
          op[t].pc # "undo" /\ desc[x].kind = "epoll" =>
             map[x] = <<>> /\ \A r \in reg : r.ep # desc[x].file

(* No number is mapped twice. *)
UniqueMeaning ==
    \A e \in Descs : \A j, k \in DOMAIN map[e] : map[e][j].fd = map[e][k].fd => j = k

(* The numbers of epoll objects; the registration of a number with one; and   *)
(* a change of it that the host has made and the map has yet to follow.      *)
Polls == {i \in Fds : Holds(i) /\ desc[table[i]].kind = "epoll"}
Key(i, fd) == [ep |-> held[i], hfd |-> desc[table[fd]].hfd, file |-> held[fd], fd |-> fd]
Pending(i, fd, cmd) ==
    \E t \in Threads : /\ op[t].pc = "ctlMap" /\ op[t].to = i /\ op[t].fd = fd
                       /\ ev[t].cmd = cmd /\ ev[t].rv = 0

(* Thread t is closing number fd, and has yet to tell the object of number i. *)
ToTell(t, i, fd) ==
    op[t].fd = fd /\ (op[t].pc = "foreach" \/ (op[t].pc = "visit" /\ op[t].to <= i))

(* A mapped number is registered, about to be unmapped, or being closed. *)
MappedMeaning ==
    \A i \in Polls : \A fd \in Mapped(table[i]) :
        \/ Holds(fd) /\ (Key(i, fd) \in reg \/ Pending(i, fd, "del"))
        \/ \E t \in Threads : ToTell(t, i, fd)

(* A registration of a file with one descriptor is of the number the client  *)
(* holds for it, which is mapped or about to be.                             *)
RegisteredMeaning ==
    ~MapAllocFails =>
        \A i \in Polls : \A r \in reg : r.ep = held[i] /\ r.file \notin dupd =>
            /\ Holds(r.fd) /\ r = Key(i, r.fd)
            /\ r.fd \in Mapped(table[i]) \/ Pending(i, r.fd, "add")

(* Who is between the host's answer and the map. *)
CtlMeaning ==
    \A t \in Threads : op[t].pc = "ctlMap" =>
        /\ op[t].to \in Polls /\ Holds(op[t].fd)
        /\ ev[t].e = table[op[t].to] /\ elock[ev[t].e] = t
        /\ ev[t].rv = 0 /\ ev[t].cmd = "add" =>
              op[t].fd \notin Mapped(ev[t].e) /\ Key(op[t].to, op[t].fd) \in reg
        /\ ev[t].rv = 0 /\ ev[t].cmd = "del" => Key(op[t].to, op[t].fd) \notin reg

(* The walk of oe_close has the table's lock. *)
VisitMeaning == \A t \in Threads : op[t].pc = "visit" => fdlock = t

(* What a thread in oe_epoll_wait has noted: each reported number once. *)
WaitMeaning ==
    \A t \in Threads : op[t].pc = "waitLock" =>
        ev[t].e \in Descs /\ ev[t].events \in Seq(Fds) /\ Distinct(ev[t].events)

(* The second inductive invariant. *)
PollInv ==
    /\ FileMeaning /\ RegMeaning /\ NewMeaning /\ UniqueMeaning /\ MappedMeaning
    /\ RegisteredMeaning /\ CtlMeaning /\ VisitMeaning /\ WaitMeaning

-----------------------------------------------------------------------------
(* A step of FdTable, seen from the epoll objects. *)

(* Calls inside the epoll device or the walk of oe_close do not move, and no *)
(* call gets there.                                                          *)
CallsStay ==
    /\ op' \in [Threads -> Calls]
    /\ \A u \in Threads :
        /\ op[u].pc \in {"ctlMap", "foreach", "visit"} => op'[u] = op[u]
        /\ op'[u].pc \in {"ctlMap", "visit", "waitLock"} => op'[u] = op[u]

(* What it may do to numbers and registrations. *)
NumbersCarry ==
    /\ \A fd \in Fds : held[fd] # 0 /\ held'[fd] # 0 =>
          held'[fd] = held[fd] /\ table'[fd] = table[fd] /\ desc'[table[fd]] = desc[table[fd]]
    /\ \A fd \in Fds : held[fd] = 0 /\ held'[fd] # 0 =>
          /\ \A t \in Threads : op[t].pc \in Closing => op[t].fd # fd
          /\ desc'[table'[fd]].kind = "epoll" =>
                map[table'[fd]] = <<>> /\ \A r \in reg : r.ep # held'[fd]
    /\ \A fd \in Fds : held[fd] # 0 /\ held'[fd] = 0 =>
          /\ \A t \in Threads : op[t].pc = "ctlMap" => fd # op[t].fd /\ fd # op[t].to
          /\ \/ \A i \in Polls : fd \notin Mapped(table[i])
             \/ /\ \E t \in Threads : op'[t].fd = fd /\ op'[t].pc = "foreach"
                /\ held[fd] \in dupd \/ \A r \in reg' : r.file # held[fd]
    /\ reg' \subseteq reg
    /\ \A r \in reg : \A i, fd \in Fds :
          r = Key(i, fd) /\ held[i] # 0 /\ held[fd] # 0 /\ held'[i] # 0 /\ held'[fd] # 0 => r \in reg'
    /\ \A r \in reg' : r.file \in dupd => r.file \in dupd'

(* Mapped numbers are numbers. *)
LEMMA MappedType ==
  ASSUME TypeOK, NEW e \in Descs PROVE Mapped(e) \subseteq Fds
<1>1. PICK m : m = map[e]
  OBVIOUS
<1>2. m \in Seq(Mappings)
  BY <1>1 DEF TypeOK, Mappings
<1>3. \A j \in DOMAIN m : m[j] \in Mappings
  BY <1>2
<1>4. \A j \in DOMAIN m : m[j].fd \in Fds
  BY <1>3 DEF Mappings
<1> QED BY <1>1, <1>4 DEF Mapped

(* A step of FdTable that meets both keeps what relates maps, registrations  *)
(* and calls.                                                                *)
LEMMA Carried ==
  ASSUME IInv, PollInv, CallsStay, NumbersCarry, UNCHANGED <<fdlock, epVars>>
  PROVE  /\ UniqueMeaning' /\ MappedMeaning' /\ RegisteredMeaning' /\ CtlMeaning'
         /\ VisitMeaning' /\ WaitMeaning'
<1>0. /\ map' = map /\ elock' = elock /\ ev' = ev /\ fdlock' = fdlock /\ TypeOK /\ HeldMeaning
      /\ held \in [Fds -> 0 .. MaxDesc] /\ \A t \in Threads : op[t].fd \in Fds
  BY DEF epVars, IInv, TypeOK
<1>1. UniqueMeaning'
  BY <1>0 DEF PollInv, UniqueMeaning
<1>2. VisitMeaning' /\ WaitMeaning'
  BY <1>0 DEF PollInv, VisitMeaning, WaitMeaning, CallsStay
<1>3. ASSUME NEW i \in Polls', held[i] # 0
      PROVE  i \in Polls /\ held'[i] = held[i] /\ table'[i] = table[i]
             /\ Mapped(table[i])' = Mapped(table[i])
  <2>1. i \in Fds /\ held'[i] # 0 /\ desc'[table'[i]].kind = "epoll"
    BY DEF Polls, Holds
  <2>2. held'[i] = held[i] /\ table'[i] = table[i] /\ desc'[table[i]] = desc[table[i]]
    BY <1>3, <2>1 DEF NumbersCarry
  <2>3. Mapped(table[i])' = Mapped(table[i])
    BY <1>0, <2>2 DEF Mapped
  <2> QED BY <1>3, <2>1, <2>2, <2>3 DEF Polls, Holds
<1>4. ASSUME NEW i \in Polls', held[i] = 0
      PROVE  Mapped(table[i])' = {} /\ \A r \in reg' : r.ep # held'[i]
  <2>1. i \in Fds /\ held'[i] # 0 /\ desc'[table'[i]].kind = "epoll"
    BY DEF Polls, Holds
  <2>2. map[table'[i]] = <<>> /\ \A r \in reg : r.ep # held'[i]
    BY <1>4, <2>1 DEF NumbersCarry
  <2>3. DOMAIN map'[table'[i]] = {}
    BY <1>0, <2>2
  <2>4. Mapped(table[i])' = {}
    BY <2>3 DEF Mapped
  <2> QED BY <2>2, <2>4 DEF NumbersCarry
<1>5. ASSUME NEW i \in Fds, NEW fd \in Fds, held[i] # 0, held[fd] # 0, held'[i] # 0, held'[fd] # 0
      PROVE  Key(i, fd)' = Key(i, fd) /\ (Key(i, fd) \in reg' <=> Key(i, fd) \in reg)
  <2>1. Key(i, fd)' = Key(i, fd)
    BY <1>5 DEF NumbersCarry, Key
  <2> QED BY <1>5, <2>1 DEF NumbersCarry
<1>6. \A t \in Threads : op[t].pc = "ctlMap" <=> op'[t].pc = "ctlMap"
  BY DEF CallsStay
<1>7. \A i, fd, cmd : Pending(i, fd, cmd) <=> Pending(i, fd, cmd)'
  BY <1>0, <1>6 DEF Pending, CallsStay
<1>8. MappedMeaning'
  <2> SUFFICES ASSUME NEW i \in Polls', NEW fd \in Mapped(table[i])'
               PROVE  \/ Holds(fd)' /\ (Key(i, fd)' \in reg' \/ Pending(i, fd, "del")')
                      \/ \E t \in Threads : ToTell(t, i, fd)'
    BY DEF MappedMeaning
  <2>1. i \in Polls /\ i \in Fds /\ held[i] # 0 /\ held'[i] # 0 /\ fd \in Mapped(table[i])
    BY <1>3, <1>4 DEF Polls, Holds
  <2>2. CASE \E t \in Threads : ToTell(t, i, fd)
    BY <2>2 DEF ToTell, CallsStay
  <2>3. CASE Holds(fd) /\ (Key(i, fd) \in reg \/ Pending(i, fd, "del"))
    <3>1. fd \in Fds /\ held[fd] # 0
      <4>1. table[i] \in Descs
        BY <1>0, <2>1, References DEF IInv, HeldMeaning, Live
      <4> QED BY <1>0, <2>1, <2>3, <4>1, MappedType DEF Holds
    <3>2. CASE held'[fd] # 0
      BY <1>5, <1>7, <2>1, <2>3, <3>1, <3>2 DEF Holds
    <3>3. CASE held'[fd] = 0
      <4>1. \E t \in Threads : op'[t].fd = fd /\ op'[t].pc = "foreach"
        BY <2>1, <3>1, <3>3 DEF NumbersCarry
      <4> QED BY <4>1 DEF ToTell
    <3> QED BY <3>2, <3>3
  <2> QED BY <2>1, <2>2, <2>3 DEF PollInv, MappedMeaning
<1>9. RegisteredMeaning'
  <2> SUFFICES ASSUME ~MapAllocFails, NEW i \in Polls', NEW r \in reg', r.ep = held'[i],
                      r.file \notin dupd'
               PROVE  /\ Holds(r.fd)' /\ r = Key(i, r.fd)'
                      /\ r.fd \in Mapped(table[i])' \/ Pending(i, r.fd, "add")'
    BY DEF RegisteredMeaning
  <2>1. i \in Polls /\ i \in Fds /\ held[i] # 0 /\ held'[i] # 0 /\ held'[i] = held[i]
        /\ Mapped(table[i])' = Mapped(table[i])
    BY <1>3, <1>4 DEF Polls, Holds
  <2>2. r \in reg /\ r.file \notin dupd /\ r.fd \in Fds
    BY <1>0 DEF NumbersCarry, TypeOK
  <2>3. /\ Holds(r.fd) /\ r = Key(i, r.fd)
        /\ r.fd \in Mapped(table[i]) \/ Pending(i, r.fd, "add")
    BY <2>1, <2>2 DEF PollInv, RegisteredMeaning
  <2>4. r.file = held[r.fd] /\ held[r.fd] # 0
    BY <2>3 DEF Key, Holds
  <2>5. held'[r.fd] # 0
    <3>1. SUFFICES ASSUME held'[r.fd] = 0 PROVE FALSE
      OBVIOUS
    <3>2. /\ \A t \in Threads : op[t].pc = "ctlMap" => r.fd # op[t].fd
          /\ r.fd \notin Mapped(table[i]) \/ r.file # held[r.fd]
      BY <2>1, <2>2, <2>4, <3>1 DEF NumbersCarry
    <3> QED BY <2>3, <2>4, <3>2 DEF Pending
  <2>6. Key(i, r.fd)' = Key(i, r.fd)
    BY <1>5, <2>1, <2>2, <2>4, <2>5
  <2> QED BY <1>7, <2>1, <2>3, <2>5, <2>6 DEF Holds
<1>10. CtlMeaning'
  <2> SUFFICES ASSUME NEW t \in Threads, op'[t].pc = "ctlMap"
               PROVE  /\ (op[t].to \in Polls)' /\ Holds(op[t].fd)'
                      /\ ev'[t].e = table'[op'[t].to] /\ elock'[ev'[t].e] = t
                      /\ ev'[t].rv = 0 /\ ev'[t].cmd = "add" =>
                            op'[t].fd \notin Mapped(ev[t].e)' /\ Key(op[t].to, op[t].fd)' \in reg'
                      /\ ev'[t].rv = 0 /\ ev'[t].cmd = "del" => Key(op[t].to, op[t].fd)' \notin reg'
    BY DEF CtlMeaning
  <2>1. PICK o, i, fd, e : o = op[t] /\ i = op[t].to /\ fd = op[t].fd /\ e = ev[t].e
    OBVIOUS
  <2>2. op'[t] = op[t] /\ op[t].pc = "ctlMap" /\ ev'[t] = ev[t]
    BY <1>0 DEF CallsStay
  <2>3. /\ i \in Polls /\ held[fd] # 0 /\ e = table[i] /\ elock[e] = t
        /\ ev[t].rv = 0 /\ ev[t].cmd = "add" => fd \notin Mapped(e) /\ Key(i, fd) \in reg
        /\ ev[t].rv = 0 /\ ev[t].cmd = "del" => Key(i, fd) \notin reg
    BY <2>1, <2>2 DEF PollInv, CtlMeaning, Holds
  <2>4. fd \in Fds /\ i \in Fds /\ held[i] # 0 /\ desc[table[i]].kind = "epoll"
    BY <1>0, <2>1, <2>3 DEF Polls, Holds
  <2>5. held'[fd] # 0 /\ held'[i] # 0
    BY <2>1, <2>2, <2>3, <2>4 DEF NumbersCarry
  <2>6. table'[i] = table[i] /\ i \in Polls'
    BY <2>4, <2>5 DEF NumbersCarry, Polls, Holds
  <2>7. Key(i, fd)' = Key(i, fd) /\ (Key(i, fd) \in reg' <=> Key(i, fd) \in reg)
    BY <1>5, <2>3, <2>4, <2>5
  <2>8. Mapped(e)' = Mapped(e)
    BY <1>0 DEF Mapped
  <2> QED BY <1>0, <2>1, <2>2, <2>3, <2>5, <2>6, <2>7, <2>8 DEF Holds
<1> QED BY <1>1, <1>2, <1>8, <1>9, <1>10

(* Objects are made over new files, or over a file that is then known to     *)
(* have several descriptors.                                                 *)
FilesOpen ==
    /\ \A d \in Descs : desc[d].st # "none" => desc'[d] = desc[d]
    /\ \A d \in Descs : desc[d].st = "none" /\ desc'[d].st = "live" /\ desc'[d].kind = "epoll" =>
          desc'[d].file = d
    /\ \A h \in Descs : host'[h] # host[h] =>
          /\ host[h] = 0 /\ host'[h] \in Descs /\ desc'[host'[h]].st # "none"
          /\ host'[h] \in dupd' \/ desc[host'[h]].st = "none"
    /\ \A g, h \in Descs : host'[g] # host[g] /\ host'[h] # host[h] /\ host'[g] = host'[h] =>
          g = h \/ host'[g] \in dupd'
    /\ dupd \subseteq dupd'
    /\ \A f \in dupd' \ dupd :
          f \in Descs /\ desc[f].st # "none" /\ \A e \in EpollDescs : desc[e].file # f
    /\ reg' = reg

(* Opening keeps files and registrations apart. *)
LEMMA FilesOpened ==
  ASSUME TypeOK, FileMeaning, RegMeaning, FilesOpen
  PROVE  FileMeaning' /\ RegMeaning'
<1>0. /\ \A h \in Descs : host[h] # 0 => host[h] \in Descs /\ desc[host[h]].st # "none"
      /\ \A r \in reg : r.ep \in Descs /\ r.file \in Descs
  <2>1. \A x \in 0 .. MaxDesc : x # 0 => x \in Descs
    BY SizeAssumption DEF Descs
  <2> QED BY <2>1 DEF TypeOK, FileMeaning
<1>1. \A d \in Descs : desc[d].st # "none" => desc'[d].st # "none"
  BY DEF FilesOpen
<1>2. ASSUME NEW h \in Descs, host'[h] # 0 PROVE desc'[host'[h]].st # "none"
  <2>1. CASE host'[h] = host[h]
    BY <1>0, <1>1, <1>2, <2>1
  <2>2. CASE host'[h] # host[h]
    BY <2>2 DEF FilesOpen
  <2> QED BY <2>1, <2>2
<1>3. ASSUME NEW g \in Descs, NEW h \in Descs, host'[g] # 0, host'[g] = host'[h]
      PROVE  g = h \/ host'[g] \in dupd'
  <2>1. CASE host'[g] = host[g] /\ host'[h] = host[h]
    BY <1>3, <2>1 DEF FileMeaning, FilesOpen
  <2>2. CASE host'[g] # host[g] /\ host'[h] = host[h]
    <3>1. desc[host'[g]].st # "none"
      BY <1>0, <1>3, <2>2
    <3> QED BY <2>2, <3>1 DEF FilesOpen
  <2>3. CASE host'[g] = host[g] /\ host'[h] # host[h]
    <3>1. desc[host'[h]].st # "none"
      BY <1>0, <1>3, <2>3
    <3> QED BY <1>3, <2>3, <3>1 DEF FilesOpen
  <2>4. CASE host'[g] # host[g] /\ host'[h] # host[h]
    BY <1>3, <2>4 DEF FilesOpen
  <2> QED BY <2>1, <2>2, <2>3, <2>4
<1>4. \A f \in dupd' : f \in Descs /\ desc[f].st # "none" /\ desc'[f].st # "none"
  BY <1>1 DEF FileMeaning, FilesOpen
<1>5. ASSUME NEW e \in Descs, desc'[e].st = "live", desc'[e].kind = "epoll"
      PROVE  desc'[e].file \notin dupd'
  <2>1. CASE desc[e].st = "none"
    BY <1>4, <1>5, <2>1 DEF FilesOpen
  <2>2. CASE desc[e].st # "none"
    <3>1. desc'[e] = desc[e] /\ e \in EpollDescs
      BY <1>5, <2>2 DEF FilesOpen, EpollDescs
    <3> QED BY <3>1 DEF FilesOpen, FileMeaning
  <2> QED BY <2>1, <2>2
<1>6. FileMeaning'
  BY <1>2, <1>3, <1>4, <1>5 DEF FileMeaning, EpollDescs
<1>7. RegMeaning'
  <2>1. \A h \in Descs : host[h] # 0 => host'[h] = host[h]
    BY DEF FilesOpen
  <2>2. ASSUME NEW r \in reg PROVE \E g, h \in Descs : host'[g] = r.ep /\ host'[h] = r.file
    <3>1. PICK g \in Descs, h \in Descs : host[g] = r.ep /\ host[h] = r.file
      BY DEF RegMeaning
    <3>2. host[g] # 0 /\ host[h] # 0
      BY <1>0, <3>1, SizeAssumption DEF Descs
    <3> QED BY <2>1, <3>1, <3>2
  <2> QED BY <2>2 DEF RegMeaning, FilesOpen
<1> QED BY <1>6, <1>7

(* Closing the descriptors of the objects D: registrations end with their    *)
(* files, and with nothing else.                                             *)
LEMMA FilesClosed ==
  ASSUME TypeOK, FileMeaning, RegMeaning, NEW D, D \subseteq Descs, FreeDescs(D)
  PROVE  /\ FileMeaning' /\ RegMeaning' /\ reg' \subseteq reg
         /\ \A r \in reg' : r.file \in dupd => r.file \in dupd'
         /\ \A r \in reg : (\E g, h \in Descs : host'[g] = r.ep /\ host'[h] = r.file) => r \in reg'
         /\ \A d \in Descs : desc'[d] = desc[d] \/ desc'[d].kind = "file"
         /\ \A d \in Descs : desc'[d].st = "none" => desc[d].st = "none"
<1>0. \A r \in reg : r.ep \in Descs /\ r.file \in Descs
  BY DEF TypeOK
<1>1. host' = [h \in Descs |-> IF h \in {desc[d].hfd : d \in D} THEN 0 ELSE host[h]]
  BY DEF FreeDescs, HostClose
<1>2. PICK open : open = {host'[h] : h \in Descs}
  OBVIOUS
<1>3. reg' = {r \in reg : r.file \in open /\ r.ep \in open} /\ dupd' = dupd \cap open
  <2> DEFINE h2 == [h \in Descs |-> IF h \in {desc[d].hfd : d \in D} THEN 0 ELSE host[h]]
  <2>1. /\ reg' = {r \in reg : r.file \in {h2[h] : h \in Descs} /\ r.ep \in {h2[h] : h \in Descs}}
        /\ dupd' = dupd \cap {h2[h] : h \in Descs}
    BY DEF FreeDescs, HostClose
  <2>2. host' = h2
    BY <1>1
  <2> HIDE DEF h2
  <2> QED BY <1>2, <2>1, <2>2
<1>4. desc' = [d \in Descs |-> IF d \in D THEN Freed ELSE desc[d]]
  BY DEF FreeDescs
<1>5. \A h \in Descs : host'[h] = 0 \/ host'[h] = host[h]
  BY <1>1
<1>6. \A d \in Descs : desc'[d] = desc[d] \/ (desc'[d].kind = "file" /\ desc'[d].st = "freed")
  BY <1>4 DEF Freed
<1>7. FileMeaning'
  <2>0. \A x \in 0 .. MaxDesc : x # 0 => x \in Descs
    BY SizeAssumption DEF Descs
  <2>1. \A h \in Descs : host'[h] # 0 => host'[h] \in Descs /\ desc'[host'[h]].st # "none"
    <3>1. ASSUME NEW h \in Descs, host'[h] # 0 PROVE host'[h] \in Descs /\ desc'[host'[h]].st # "none"
      <4>1. host'[h] = host[h] /\ host[h] \in Descs /\ desc[host[h]].st # "none"
        BY <1>5, <2>0, <3>1 DEF TypeOK, FileMeaning
      <4> QED BY <1>6, <4>1
    <3> QED BY <3>1
  <2>2. \A g, h \in Descs : host'[g] # 0 /\ host'[g] = host'[h] => g = h \/ host'[g] \in dupd'
    BY <1>2, <1>3, <1>5 DEF FileMeaning
  <2>3. \A f \in dupd' : f \in Descs /\ desc'[f].st # "none"
    BY <1>3, <1>6 DEF FileMeaning
  <2>4. \A e \in EpollDescs' : e \in EpollDescs /\ desc'[e] = desc[e]
    BY <1>6 DEF EpollDescs
  <2>5. \A e \in EpollDescs' : desc'[e].file \notin dupd'
    BY <1>3, <2>4 DEF FileMeaning
  <2> QED BY <2>1, <2>2, <2>3, <2>5 DEF FileMeaning
<1>8. RegMeaning'
  BY <1>2, <1>3 DEF RegMeaning
<1> QED BY <1>2, <1>3, <1>6, <1>7, <1>8

(* Objects that no number denotes yet. *)
LEMMA NewKept ==
  ASSUME IInv, PollInv, IInv', map' = map, reg' \subseteq reg,
         \A d \in Descs : desc'[d].st = "none" => desc[d].st = "none",
         \A d \in Descs : desc[d].st # "none" => desc'[d] = desc[d] \/ desc'[d].kind = "file",
         \A d \in Descs : desc[d].st = "none" /\ desc'[d].st = "live" /\ desc'[d].kind = "epoll" =>
             desc'[d].file = d,
         \A u \in Threads : \A x \in Objects(u)' :
             \/ op'[u].pc = "undo"
             \/ x \in Objects(u) /\ op[u].pc # "undo"
             \/ x \in Descs /\ desc[x].st = "none"
  PROVE  NewMeaning'
<1>1. \A d \in Descs : desc'[d].st = "none" => map'[d] = <<>>
  BY DEF PollInv, NewMeaning
<1>2. ASSUME NEW u \in Threads, NEW x \in Objects(u)', op'[u].pc # "undo", desc'[x].kind = "epoll"
      PROVE  map'[x] = <<>> /\ \A r \in reg' : r.ep # desc'[x].file
  <2>1. CASE x \in Objects(u) /\ op[u].pc # "undo"
    <3>1. x \in Descs /\ desc[x].st = "live"
      BY <2>1, References DEF IInv, Live
    <3>2. desc'[x] = desc[x]
      BY <1>2, <3>1
    <3> QED BY <1>2, <2>1, <3>1, <3>2 DEF PollInv, NewMeaning
  <2>2. CASE x \in Descs /\ desc[x].st = "none"
    <3>1. desc'[x].st = "live"
      <4>1. ObjectsOK(u)'
        BY DEF IInv, CallMeaning
      <4> QED BY <1>2, <4>1 DEF ObjectsOK, Live
    <3>2. desc'[x].file = x /\ map[x] = <<>>
      BY <1>2, <2>2, <3>1 DEF PollInv, NewMeaning
    <3>3. \A r \in reg : r.ep \in Descs /\ desc[r.ep].st # "none"
      <4>1. ASSUME NEW r \in reg PROVE r.ep \in Descs /\ desc[r.ep].st # "none"
        <5>1. PICK g \in Descs : host[g] = r.ep
          BY DEF PollInv, RegMeaning
        <5>2. r.ep \in Descs /\ r.ep # 0
          BY SizeAssumption DEF IInv, TypeOK, Descs
        <5> QED BY <5>1, <5>2 DEF PollInv, FileMeaning
      <4> QED BY <4>1
    <3> QED BY <2>2, <3>2, <3>3
  <2> QED BY <1>2, <2>1, <2>2
<1> QED BY <1>1, <1>2 DEF NewMeaning

(* A call that stays outside the epoll device and the walk. *)
LEMMA OthersStay ==
  ASSUME TypeOK, NEW t \in Threads, Moves(t), op[t].pc \notin {"ctlMap", "foreach", "visit"},
         op'[t].pc \notin {"ctlMap", "visit", "waitLock"}
  PROVE  CallsStay
BY DEF Moves, CallsStay

(* A step that opens nothing. *)
LEMMA NothingOpens ==
  ASSUME UNCHANGED <<desc, host, reg, dupd>>
  PROVE  FilesOpen
BY DEF FilesOpen

(* The numbers stay as they are. *)
LEMMA OpensKeep ==
  ASSUME IInv, PollInv, IInv', CallsStay, FilesOpen, UNCHANGED <<fdlock, epVars, held>>,
         \A fd \in Fds : held[fd] # 0 => table'[fd] = table[fd],
         \A u \in Threads : \A x \in Objects(u)' :
             \/ op'[u].pc = "undo"
             \/ x \in Objects(u) /\ op[u].pc # "undo"
             \/ x \in Descs /\ desc[x].st = "none"
  PROVE  PollInv'
<1>1. FileMeaning' /\ RegMeaning'
  BY FilesOpened DEF IInv, PollInv
<1>2. ASSUME NEW fd \in Fds, held[fd] # 0
      PROVE  table'[fd] = table[fd] /\ desc'[table[fd]] = desc[table[fd]]
  <2>1. table[fd] \in Descs /\ Live(table[fd])
    BY <1>2, References DEF IInv, HeldMeaning, Live
  <2> QED BY <1>2, <2>1 DEF FilesOpen, Live
<1>3. NumbersCarry
  BY <1>2 DEF NumbersCarry, FilesOpen
<1>4. NewMeaning'
  <2>1. \A d \in Descs : desc'[d].st = "none" => desc[d].st = "none"
    BY DEF FilesOpen
  <2> QED BY <2>1, NewKept DEF FilesOpen, epVars
<1> QED BY <1>1, <1>3, <1>4, Carried DEF PollInv

(* A step that changes no object, file or number. *)
LEMMA QuietKeeps ==
  ASSUME IInv, PollInv, IInv', NEW t \in Threads, Moves(t),
         op[t].pc \notin {"ctlMap", "foreach", "visit"},
         op'[t].pc \notin {"ctlMap", "visit", "waitLock"},
         UNCHANGED <<fdlock, desc, host, reg, held, dupd, epVars>>,
         \A fd \in Fds : held[fd] # 0 => table'[fd] = table[fd],
         op'[t].pc = "undo" \/ Objects(t)' = {}
  PROVE  PollInv'
<1>1. CallsStay /\ FilesOpen
  BY OthersStay, NothingOpens DEF IInv
<1>2. \A u \in Threads : \A x \in Objects(u)' :
        \/ op'[u].pc = "undo"
        \/ x \in Objects(u) /\ op[u].pc # "undo"
        \/ x \in Descs /\ desc[x].st = "none"
  BY DEF Moves, Objects
<1> QED BY <1>1, <1>2, OpensKeep

(* The error paths of the assignments, and the release of a slot. *)
LEMMA AssignFailsPolls ==
  ASSUME IInv, PollInv, IInv', NEW t \in Threads, Fd(AssignFails(t)) PROVE PollInv'
<1>1. /\ op[t].pc = "assign" /\ TypeOK
      /\ UNCHANGED <<table, fdlock, desc, host, reg, held, dupd, epVars>>
  BY DEF Fd, AssignFails, hostVars, ghostVars, IInv
<1>2. Moves(t) /\ op'[t].pc = "undo"
  BY <1>1 DEF Fd, AssignFails, Goto, Moves, TypeOK, Calls, Pcs
<1> QED BY <1>1, <1>2, QuietKeeps

LEMMA Assign2FailsPolls ==
  ASSUME IInv, PollInv, IInv', NEW t \in Threads, Fd(Assign2Fails(t)) PROVE PollInv'
<1>1. /\ op[t].pc = "assign2" /\ TypeOK
      /\ UNCHANGED <<table, fdlock, desc, host, reg, held, dupd, epVars>>
  BY DEF Fd, Assign2Fails, hostVars, IInv
<1>2. Moves(t) /\ op'[t].pc = "undo"
  BY <1>1 DEF Fd, Assign2Fails, Goto, Moves, TypeOK, Calls, Pcs
<1> QED BY <1>1, <1>2, QuietKeeps

LEMMA ReassignFailsPolls ==
  ASSUME IInv, PollInv, IInv', NEW t \in Threads, Fd(ReassignFails(t)) PROVE PollInv'
<1>1. /\ op[t].pc = "reassign" /\ TypeOK
      /\ UNCHANGED <<table, fdlock, desc, host, reg, held, dupd, epVars>>
  BY DEF Fd, ReassignFails, hostVars, ghostVars, IInv
<1>2. op' \in [Threads -> Calls] /\ op' = [op EXCEPT ![t] = [Idle EXCEPT !.pc = "undo", !.d = op[t].n]]
  BY DEF Fd, ReassignFails, Goto, IInv, TypeOK, Calls, Pcs
<1>3. Moves(t) /\ op'[t].pc = "undo"
  BY <1>1, <1>2 DEF Moves, TypeOK, Idle
<1> QED BY <1>1, <1>3, QuietKeeps

LEMMA UndoFailsPolls ==
  ASSUME IInv, PollInv, IInv', NEW t \in Threads, Fd(UndoFails(t)) PROVE PollInv'
<1>1. /\ op[t].pc = "undo" /\ TypeOK
      /\ UNCHANGED <<table, fdlock, desc, host, reg, held, dupd, epVars>>
  BY DEF Fd, UndoFails, hostVars, ghostVars, IInv
<1>2. Moves(t) /\ op'[t] = Idle
  BY <1>1, IdleType, GotoMoves DEF Fd, UndoFails, Return
<1>3. op'[t].pc = "idle" /\ Objects(t)' = {}
  BY <1>2 DEF Idle, Objects
<1> QED BY <1>1, <1>2, <1>3, QuietKeeps

LEMMA ReleasePolls ==
  ASSUME IInv, PollInv, IInv', NEW t \in Threads, Fd(Release(t)) PROVE PollInv'
<1>1. /\ op[t].pc = "release" /\ TypeOK /\ table' = [table EXCEPT ![op[t].fd] = NULL]
      /\ UNCHANGED <<fdlock, desc, host, reg, held, dupd, epVars>>
  BY DEF Fd, Release, hostVars, ghostVars, IInv
<1>2. Moves(t) /\ op'[t] = Idle
  BY <1>1, IdleType, GotoMoves DEF Fd, Release, Return
<1>3. op'[t].pc = "idle" /\ Objects(t)' = {}
  BY <1>2 DEF Idle, Objects
<1>4. held[op[t].fd] = 0
  BY <1>1 DEF IInv, CallMeaning, SlotOK, Slot, Closing
<1>5. \A fd \in Fds : held[fd] # 0 => table'[fd] = table[fd]
  BY <1>1, <1>4 DEF IInv, HeldMeaning
<1> QED BY <1>1, <1>2, <1>3, <1>5, QuietKeeps

(* One object is made, over a new file or one that now has two descriptors. *)
LEMMA NewObjectFiles ==
  ASSUME IInv, PollInv, Fresh <= MaxDesc, NEW k \in AllKinds, NEW f \in Descs,
         desc' = [desc EXCEPT ![Fresh] = NewDesc(k, f)],
         host' = [host EXCEPT ![FreeHostFd] = f], reg' = reg,
         \/ f = Fresh /\ dupd' = dupd
         \/ /\ k # "epoll" /\ desc[f].st # "none" /\ dupd' = dupd \cup {f}
            /\ \A e \in EpollDescs : desc[e].file # f
  PROVE  FilesOpen /\ Fresh \in Descs /\ desc[Fresh].st = "none"
<1>1. PICK n, h : n = Fresh /\ h = FreeHostFd
  OBVIOUS
<1>2. n \in Descs /\ h \in Descs /\ host[h] = 0 /\ desc[n].st = "none"
  BY <1>1, FreeExists, FreshIsNext DEF IInv
<1>3. PICK r : r = NewDesc(k, f)
  OBVIOUS
<1>4. r.st = "live" /\ r.kind = k /\ r.file = f
  BY <1>3 DEF NewDesc
<1>5. desc'[n] = r /\ \A d \in Descs \ {n} : desc'[d] = desc[d]
  BY <1>1, <1>2, <1>3 DEF IInv, TypeOK
<1>6. host'[h] = f /\ \A g \in Descs : host'[g] = host[g] \/ g = h
  BY <1>1, <1>2 DEF IInv, TypeOK
<1>7. \A d \in Descs : desc[d].st # "none" => desc'[d] = desc[d]
  BY <1>2, <1>5
<1>8. CASE f = n /\ dupd' = dupd
  <2>1. \A d \in Descs : desc[d].st = "none" /\ desc'[d].st = "live" => desc'[d].file = d
    BY <1>4, <1>5, <1>8
  <2>2. desc'[f].st # "none" /\ desc[f].st = "none"
    BY <1>2, <1>4, <1>5, <1>8
  <2> QED BY <1>1, <1>2, <1>6, <1>7, <1>8, <2>1, <2>2 DEF FilesOpen
<1>9. CASE /\ k # "epoll" /\ desc[f].st # "none" /\ dupd' = dupd \cup {f}
           /\ \A e \in EpollDescs : desc[e].file # f
  <2>1. \A d \in Descs : desc[d].st = "none" /\ desc'[d].st = "live" => desc'[d].kind # "epoll"
    BY <1>4, <1>5, <1>9
  <2>2. desc'[f].st # "none" /\ f \in dupd'
    BY <1>7, <1>9
  <2> QED BY <1>1, <1>2, <1>6, <1>7, <1>9, <2>1, <2>2 DEF FilesOpen
<1> QED BY <1>1, <1>8, <1>9

(* A file that an object of another kind is about is no epoll instance. *)
LEMMA OtherFile ==
  ASSUME IInv, PollInv, NEW d \in Descs, Live(d), desc[d].kind # "epoll"
  PROVE  /\ \A e \in EpollDescs : desc[e].file # host[desc[d].hfd]
         /\ host[desc[d].hfd] \in Descs /\ desc[host[desc[d].hfd]].st # "none"
<1>1. /\ desc[d].hfd \in Descs /\ host[desc[d].hfd] # 0 /\ host[desc[d].hfd] = desc[d].file
      /\ host[desc[d].hfd] \in 0 .. MaxDesc
  BY DEF IInv, ObjectMeaning, TypeOK
<1>2. ASSUME NEW e \in EpollDescs, desc[e].file = host[desc[d].hfd] PROVE FALSE
  <2>1. e \in Descs /\ Live(e) /\ e # d
    BY SizeAssumption DEF EpollDescs, Live, Descs, NULL
  <2>2. desc[e].hfd \in Descs /\ host[desc[e].hfd] = desc[e].file /\ desc[e].hfd # desc[d].hfd
    BY <2>1 DEF IInv, ObjectMeaning
  <2>3. desc[e].file \in dupd
    BY <1>1, <1>2, <2>2 DEF PollInv, FileMeaning
  <2> QED BY <2>3 DEF PollInv, FileMeaning
<1> QED BY <1>1, <1>2, SizeAssumption DEF PollInv, FileMeaning, Descs

(* A call of an idle thread makes one object. *)
LEMMA MakesOnePolls ==
  ASSUME IInv, PollInv, IInv', NEW t \in Threads, op[t] = Idle,
         FilesOpen, Fresh \in Descs, desc[Fresh].st = "none",
         Goto(t, [Idle EXCEPT !.pc = "assign", !.d = Fresh]),
         UNCHANGED <<table, fdlock, held, epVars>>
  PROVE  PollInv'
<1>1. op' \in [Threads -> Calls] /\ op' = [op EXCEPT ![t] = [Idle EXCEPT !.pc = "assign", !.d = Fresh]]
  BY DEF Goto, IInv, TypeOK, Calls, Pcs
<1>2. PICK n : n = Fresh
  OBVIOUS
<1>3. Moves(t) /\ op'[t] = [Idle EXCEPT !.pc = "assign", !.d = n]
  BY <1>1, <1>2 DEF Moves, IInv, TypeOK
<1>4. op[t].pc = "idle" /\ op'[t].pc = "assign" /\ Objects(t)' \subseteq {n}
  BY <1>3 DEF Idle, Objects
<1>5. CallsStay
  BY <1>3, <1>4, OthersStay DEF IInv
<1>6. \A u \in Threads : \A x \in Objects(u)' :
        \/ op'[u].pc = "undo"
        \/ x \in Objects(u) /\ op[u].pc # "undo"
        \/ x \in Descs /\ desc[x].st = "none"
  BY <1>2, <1>3, <1>4 DEF Moves, Objects
<1> QED BY <1>5, <1>6, OpensKeep

(* oe_open, oe_socket and oe_epoll_create1. *)
LEMMA OpenPolls ==
  ASSUME IInv, PollInv, IInv', NEW t \in Threads, Fd(Open(t)) PROVE PollInv'
<1>1. Fresh <= MaxDesc
  BY FreshIsNext, SizeAssumption DEF Fd, Open, CanAllocate, IInv
<1>2. Fresh \in Descs
  BY <1>1, FreeExists DEF IInv
<1>3. PICK k \in Kinds : /\ desc' = [desc EXCEPT ![Fresh] = NewDesc(k, Fresh)]
                         /\ host' = [host EXCEPT ![FreeHostFd] = Fresh]
  BY DEF Fd, Open, FreshFile
<1>4. k \in AllKinds /\ reg' = reg /\ dupd' = dupd
  BY <1>3, KindAssumption DEF Fd, Open, ghostVars
<1>5. FilesOpen /\ desc[Fresh].st = "none"
  BY <1>1, <1>2, <1>3, <1>4, NewObjectFiles
<1> QED BY <1>2, <1>5, MakesOnePolls DEF Fd, Open, ghostVars

(* oe_accept. *)
LEMMA AcceptPolls ==
  ASSUME IInv, PollInv, IInv', NEW t \in Threads, Fd(Accept(t)) PROVE PollInv'
<1>1. Fresh <= MaxDesc
  BY FreshIsNext, SizeAssumption DEF Fd, Accept, CanAllocate, IInv
<1>2. Fresh \in Descs
  BY <1>1, FreeExists DEF IInv
<1>3. /\ desc' = [desc EXCEPT ![Fresh] = NewDesc("socket", Fresh)]
      /\ host' = [host EXCEPT ![FreeHostFd] = Fresh]
  BY DEF Fd, Accept, FreshFile
<1>4. "socket" \in AllKinds /\ reg' = reg /\ dupd' = dupd
  BY DEF Fd, Accept, ghostVars, AllKinds
<1>5. FilesOpen /\ desc[Fresh].st = "none"
  BY <1>1, <1>2, <1>3, <1>4, NewObjectFiles
<1> QED BY <1>2, <1>5, MakesOnePolls DEF Fd, Accept, ghostVars

(* What oe_dup and oe_dup2 do to the files. *)
LEMMA DupFiles ==
  ASSUME IInv, PollInv, Fresh <= MaxDesc, NEW fd \in Fds, HeldAs(fd, {"file", "socket"}),
         DupObject(_get_fd(fd)), reg' = reg
  PROVE  FilesOpen /\ Fresh \in Descs /\ desc[Fresh].st = "none"
<1>1. TypeOK /\ Ownership
  BY DEF IInv, Ownership
<1>2. PICK d : d = _get_fd(fd)
  OBVIOUS
<1>3. d \in Descs /\ Live(d) /\ desc[d].kind \in {"file", "socket"}
  BY <1>1, <1>2, HeldObject
<1>4. PICK k, f : k = desc[d].kind /\ f = host[desc[d].hfd]
  OBVIOUS
<1>5. /\ k \in AllKinds /\ k # "epoll" /\ f \in Descs /\ desc[f].st # "none"
      /\ \A e \in EpollDescs : desc[e].file # f
  BY <1>3, <1>4, OtherFile DEF AllKinds
<1>6. /\ desc' = [desc EXCEPT ![Fresh] = NewDesc(k, f)]
      /\ host' = [host EXCEPT ![FreeHostFd] = f] /\ dupd' = dupd \cup {f}
  BY <1>2, <1>4 DEF DupObject
<1> QED BY <1>5, <1>6, NewObjectFiles

(* oe_dup. *)
LEMMA DupPolls ==
  ASSUME IInv, PollInv, IInv', NEW t \in Threads, Fd(Dup(t)) PROVE PollInv'
<1>1. Fresh <= MaxDesc
  BY FreshIsNext, SizeAssumption DEF Fd, Dup, CanAllocate, IInv
<1>2. PICK fd \in Fds : HeldAs(fd, {"file", "socket"}) /\ DupObject(_get_fd(fd))
  BY DEF Fd, Dup
<1>3. FilesOpen /\ Fresh \in Descs /\ desc[Fresh].st = "none"
  BY <1>1, <1>2, DupFiles DEF Fd, Dup
<1> QED BY <1>3, MakesOnePolls DEF Fd, Dup

(* Objects are made over files of their own. *)
LEMMA AddsFiles ==
  ASSUME TypeOK, NEW N, Adds(N), \A d \in N : desc'[d].file = d, UNCHANGED <<reg, dupd>>
  PROVE  FilesOpen
<1>1. \A d \in Descs : desc[d].st # "none" => desc'[d] = desc[d]
  BY DEF Adds
<1>2. \A d \in Descs : desc[d].st = "none" /\ desc'[d].st = "live" => desc'[d].file = d
  BY DEF Adds
<1>3. ASSUME NEW h \in Descs, host'[h] # host[h]
      PROVE  \E d \in N : desc'[d].hfd = h /\ host'[h] = d /\ host[h] = 0
                             /\ d \in Descs /\ desc[d].st = "none" /\ desc'[d].st # "none"
  <2>1. PICK d \in N : desc'[d].hfd = h
    BY <1>3 DEF Adds
  <2> QED BY <2>1 DEF Adds
<1>4. \A g, h \in Descs : host'[g] # host[g] /\ host'[h] # host[h] /\ host'[g] = host'[h] => g = h
  BY <1>3
<1> QED BY <1>1, <1>2, <1>3, <1>4 DEF FilesOpen

(* oe_socketpair. *)
LEMMA SocketPairPolls ==
  ASSUME IInv, PollInv, IInv', NEW t \in Threads, Fd(SocketPair(t)) PROVE PollInv'
<1>1. PICK n : n = Fresh
  OBVIOUS
<1>2. /\ Adds({n, n + 1}) /\ n \in Descs /\ n + 1 \in Descs
      /\ desc'[n].file = n /\ desc'[n + 1].file = n + 1
  BY <1>1, PairMade
<1>3. UNCHANGED <<table, fdlock, reg, held, dupd, epVars>> /\ op[t] = Idle /\ TypeOK
  BY DEF Fd, SocketPair, ghostVars, IInv
<1>4. FilesOpen
  BY <1>2, <1>3, AddsFiles
<1>5. /\ op' \in [Threads -> Calls]
      /\ op' = [op EXCEPT ![t] = [Idle EXCEPT !.pc = "assign", !.d = n, !.n = n + 1]]
  BY <1>1 DEF Fd, SocketPair, Goto, IInv, TypeOK, Calls, Pcs
<1>6. Moves(t) /\ op'[t] = [Idle EXCEPT !.pc = "assign", !.d = n, !.n = n + 1]
  BY <1>3, <1>5 DEF Moves, TypeOK
<1>7. op[t].pc = "idle" /\ op'[t].pc = "assign" /\ Objects(t)' \subseteq {n, n + 1}
  BY <1>3, <1>6 DEF Idle, Objects
<1>8. CallsStay
  BY <1>3, <1>6, <1>7, OthersStay
<1>9. desc[n].st = "none" /\ desc[n + 1].st = "none"
  BY <1>2 DEF Adds
<1>10. \A u \in Threads : \A x \in Objects(u)' :
        \/ op'[u].pc = "undo"
        \/ x \in Objects(u) /\ op[u].pc # "undo"
        \/ x \in Descs /\ desc[x].st = "none"
  <2>1. \A u \in Threads \ {t} : op'[u] = op[u] /\ Objects(u)' = Objects(u)
    BY <1>6 DEF Moves, Objects
  <2>2. \A u \in Threads \ {t} : \A x \in Objects(u) : op[u].pc # "undo" \/ op'[u].pc = "undo"
    BY <2>1
  <2> QED BY <1>2, <1>7, <1>9, <2>1, <2>2
<1> QED BY <1>3, <1>4, <1>8, <1>10, OpensKeep

(* The error path of oe_accept. *)
LEMMA AcceptTruncatedPolls ==
  ASSUME IInv, PollInv, IInv', NEW t \in Threads, Fd(AcceptTruncated(t)) PROVE PollInv'
<1>1. PICK n, h : n = Fresh /\ h = FreeHostFd
  OBVIOUS
<1>2. TypeOK /\ AllocMeaning /\ op' = op /\ UNCHANGED <<table, fdlock, reg, held, dupd, epVars>>
  BY DEF IInv, Fd, AcceptTruncated
<1>3. n \in Descs /\ h \in Descs /\ host[h] = 0 /\ desc[n].st = "none"
  <2>1. Fresh <= MaxDesc
    BY <1>2, FreshIsNext, SizeAssumption DEF Fd, AcceptTruncated, CanAllocate
  <2> QED BY <1>1, <1>2, <2>1, FreshIsNext, FreeExists
<1>4. desc' = [desc EXCEPT ![n] = Freed] /\ host' = [host EXCEPT ![h] = n]
  BY <1>1 DEF Fd, AcceptTruncated, FreshFile
<1>5. /\ desc'[n].st = "freed" /\ \A d \in Descs \ {n} : desc'[d] = desc[d]
      /\ host'[h] = n /\ \A g \in Descs : host'[g] = host[g] \/ g = h
  BY <1>2, <1>3, <1>4 DEF TypeOK, Freed
<1>6. FilesOpen
  BY <1>2, <1>3, <1>5 DEF FilesOpen
<1>7. CallsStay
  BY <1>2 DEF CallsStay, TypeOK, Calls, Pcs
<1>8. \A u \in Threads : \A x \in Objects(u)' : op'[u].pc = "undo" \/ (x \in Objects(u) /\ op[u].pc # "undo")
  BY <1>2 DEF Objects
<1> QED BY <1>2, <1>6, <1>7, <1>8, OpensKeep

(* The runs of _initialize. *)
LEMMA StdFilesOpen ==
  ASSUME IInv, ~inited, NEW n \in 0 .. NumStd, Fresh + n - 1 <= MaxDesc,
         NEW tb \in ResizeResults(TableChunk), n > 0 => Cardinality(DOMAIN tb) >= TableChunk,
         MakeStdFiles(n, tb), UNCHANGED <<reg, dupd>>
  PROVE  /\ FilesOpen /\ \A d \in StdFiles(n) : desc'[d].kind = "file"
         /\ \A fd \in Fds : fd < n => table'[fd] \in StdFiles(n)
<1>1. n \in Nat /\ NumStd \in Nat /\ TableChunk \in Nat /\ NumStd <= TableChunk /\ MaxDesc \in Nat
  BY SizeAssumption
<1>2. Grown(tb) /\ 0 .. n - 1 \subseteq DOMAIN tb
  <2>1. Grown(tb)
    BY <1>1, ResizeGrows DEF IInv
  <2>2. CASE n > 0
    <3>1. 0 .. TableChunk - 1 \subseteq DOMAIN tb
      BY <1>1, <2>1, <2>2, GrownSize
    <3> QED BY <1>1, <2>1, <3>1
  <2>3. CASE ~(n > 0)
    BY <1>1, <2>1, <2>3
  <2> QED BY <2>2, <2>3
<1>3. /\ Adds(StdFiles(n))
      /\ \A d \in StdFiles(n) : desc'[d].file = d /\ desc'[d].kind = "file"
  BY <1>1, <1>2, StdFilesMade DEF IInv
<1>4. FilesOpen
  BY <1>3, AddsFiles DEF IInv
<1>5. table' = [i \in DOMAIN tb |-> IF i < n THEN Fresh + i ELSE tb[i]]
  BY DEF MakeStdFiles
<1>6. Fresh \in Nat
  BY FreshIsNext, <1>1 DEF IInv
<1>7. ASSUME NEW fd \in Fds, fd < n PROVE table'[fd] \in StdFiles(n)
  <2>1. fd \in 0 .. n - 1 /\ fd \in Nat
    BY <1>1, <1>7, SizeAssumption DEF Fds
  <2>2. table'[fd] = Fresh + fd
    BY <1>2, <1>5, <1>7, <2>1
  <2> QED BY <1>1, <1>6, <2>1, <2>2 DEF StdFiles
<1> QED BY <1>3, <1>4, <1>7

(* A run of _initialize that fails. *)
LEMMA InitializeFailsPolls ==
  ASSUME IInv, PollInv, IInv', NEW t \in Threads, Fd(InitializeFails(t)) PROVE PollInv'
<1>1. /\ TypeOK /\ ~inited /\ op[t].pc = "assign" /\ UNCHANGED <<fdlock, reg, held, dupd, epVars>>
  BY DEF IInv, Fd, InitializeFails
<1>2. PICK n \in 0 .. NumStd - 1 :
        /\ CanAllocate(n + NumStd)
        /\ \E tb \in ResizeResults(TableChunk) :
            /\ n > 0 => Cardinality(DOMAIN tb) >= TableChunk
            /\ MakeStdFiles(n, tb)
  BY DEF Fd, InitializeFails
<1>3. PICK tb \in ResizeResults(TableChunk) :
            /\ n > 0 => Cardinality(DOMAIN tb) >= TableChunk
            /\ MakeStdFiles(n, tb)
  BY <1>2
<1>4. n \in 0 .. NumStd /\ Fresh + n - 1 <= MaxDesc
  BY <1>2, FreshIsNext, SizeAssumption DEF IInv, CanAllocate
<1>5. FilesOpen
  BY <1>1, <1>3, <1>4, StdFilesOpen
<1>6. \A fd \in Fds : held[fd] = 0
  BY <1>1, Uninitialized DEF IInv, Ownership
<1>7. Moves(t) /\ op'[t].pc = "undo"
  BY <1>1 DEF Fd, InitializeFails, Goto, Moves, TypeOK, Calls, Pcs
<1>8. CallsStay
  BY <1>1, <1>7, OthersStay
<1>9. \A u \in Threads : \A x \in Objects(u)' :
        op'[u].pc = "undo" \/ (x \in Objects(u) /\ op[u].pc # "undo")
  BY <1>7 DEF Moves, Objects
<1> QED BY <1>1, <1>5, <1>6, <1>8, <1>9, OpensKeep

(* The run of _initialize that succeeds: the client gets its first numbers. *)
LEMMA InitializePolls ==
  ASSUME IInv, PollInv, IInv', Fd(Initialize) PROVE PollInv'
<1>1. /\ TypeOK /\ ~inited /\ UNCHANGED <<fdlock, reg, op, dupd, epVars>>
  BY DEF IInv, Fd, Initialize
<1>2. PICK tb \in ResizeResults(TableChunk) :
            Cardinality(DOMAIN tb) >= TableChunk /\ MakeStdFiles(NumStd, tb)
  BY DEF Fd, Initialize
<1>3. NumStd \in 0 .. NumStd /\ Fresh + NumStd - 1 <= MaxDesc
  BY SizeAssumption DEF Fd, Initialize, CanAllocate
<1>4. /\ FilesOpen /\ \A d \in StdFiles(NumStd) : desc'[d].kind = "file"
      /\ \A fd \in Fds : fd < NumStd => table'[fd] \in StdFiles(NumStd)
  BY <1>1, <1>2, <1>3, StdFilesOpen
<1>5. /\ \A fd \in Fds : held[fd] = 0
      /\ \A u \in Threads : op[u].pc \in {"idle", "assign", "undo"}
  BY <1>1, Uninitialized DEF IInv, Ownership
<1>6. CallsStay
  BY <1>1 DEF CallsStay, TypeOK, Calls, Pcs
<1>7. FileMeaning' /\ RegMeaning'
  BY <1>4, FilesOpened DEF IInv, PollInv
<1>8. \A fd \in Fds : held'[fd] # 0 => fd < NumStd
  BY <1>5 DEF Fd, Initialize
<1>9. NumbersCarry
  <2>1. \A fd \in Fds : held'[fd] # 0 => desc'[table'[fd]].kind = "file"
    BY <1>4, <1>8
  <2>2. \A u \in Threads : op[u].pc \notin Closing /\ op[u].pc # "ctlMap"
    BY <1>5 DEF Closing
  <2>3. \A fd \in Fds : desc'[table'[fd]].kind = "epoll" => held'[fd] = 0
    BY <2>1
  <2> QED BY <1>1, <1>5, <2>2, <2>3 DEF NumbersCarry
<1>10. NewMeaning'
  <2>1. \A d \in Descs : desc'[d].st = "none" => desc[d].st = "none"
    BY <1>4 DEF FilesOpen
  <2>2. \A u \in Threads : \A x \in Objects(u)' : op'[u].pc = "undo" \/ (x \in Objects(u) /\ op[u].pc # "undo")
    BY <1>1 DEF Objects
  <2> QED BY <1>1, <1>4, <2>1, <2>2, NewKept DEF FilesOpen, epVars
<1> QED BY <1>1, <1>6, <1>7, <1>9, <1>10, Carried DEF PollInv

(* A number is given out: nobody is closing it, and an epoll object behind   *)
(* it has nothing registered.                                                *)
LEMMA GivenOut ==
  ASSUME IInv, PollInv, NEW t \in Threads, op[t].pc \in {"assign", "assign2", "reassign"},
         NEW s \in Fds, \A u \in Threads \ {t} : s \notin Slot(u),
         NEW d \in Objects(t)
  PROVE  /\ \A u \in Threads : op[u].pc \in Closing => op[u].fd # s
         /\ desc[d].kind = "epoll" => map[d] = <<>> /\ \A r \in reg : r.ep # desc[d].file
<1>1. ASSUME NEW u \in Threads, op[u].pc \in Closing PROVE op[u].fd # s
  <2>1. u # t
    BY <1>1 DEF Closing
  <2>2. Slot(u) = {op[u].fd}
    BY <1>1 DEF Slot
  <2> QED BY <2>1, <2>2
<1> QED BY <1>1 DEF PollInv, NewMeaning

(* The table takes an object, and the client its number. *)
LEMMA StoresPolls ==
  ASSUME IInv, PollInv, IInv', NEW t \in Threads, op[t].pc \in {"assign", "assign2", "reassign"},
         Moves(t), op'[t].pc \in {"idle", "assign2", "undo"},
         op'[t].pc = "undo" \/ Objects(t)' \subseteq Objects(t),
         UNCHANGED <<fdlock, desc, host, reg, dupd, epVars>>,
         \A fd \in Fds : held[fd] # 0 => held'[fd] = held[fd] /\ table'[fd] = table[fd],
         \A fd \in Fds : held[fd] = 0 /\ held'[fd] # 0 =>
             /\ table'[fd] \in Objects(t) /\ held'[fd] = desc[table'[fd]].file
             /\ \A u \in Threads \ {t} : fd \notin Slot(u)
  PROVE  PollInv'
<1>1. CallsStay
  BY OthersStay DEF IInv
<1>2. FileMeaning' /\ RegMeaning'
  BY FilesOpened, NothingOpens DEF IInv, PollInv
<1>3. NumbersCarry
  <2>1. ASSUME NEW fd \in Fds, held[fd] = 0, held'[fd] # 0
        PROVE  /\ \A u \in Threads : op[u].pc \in Closing => op[u].fd # fd
               /\ desc[table'[fd]].kind = "epoll" =>
                     map[table'[fd]] = <<>> /\ \A r \in reg : r.ep # held'[fd]
    BY <2>1, GivenOut
  <2> QED BY <2>1 DEF NumbersCarry
<1>4. NewMeaning'
  <2>1. \A u \in Threads : \A x \in Objects(u)' :
          op'[u].pc = "undo" \/ (x \in Objects(u) /\ op[u].pc # "undo")
    BY DEF Moves, Objects
  <2> QED BY <2>1, NewKept DEF epVars
<1> QED BY <1>1, <1>2, <1>3, <1>4, Carried DEF PollInv

(* oe_fdtable_assign. *)
LEMMA AssignPolls ==
  ASSUME IInv, PollInv, IInv', NEW t \in Threads, Fd(Assign(t)) PROVE PollInv'
<1>1. /\ TypeOK /\ Ownership /\ op[t].pc = "assign" /\ op[t] \in Calls
      /\ ShapeOK(t) /\ SizeMeaning
  BY DEF IInv, Ownership, Fd, Assign, CallMeaning, TypeOK, Calls, Pcs
<1>2. PICK a \in Assigned(op[t].d) :
        /\ table' = a.table
        /\ IF op[t].n = NULL
           THEN Return(t) /\ held' = [held EXCEPT ![a.fd] = desc[op[t].d].file]
           ELSE Goto(t, [op[t] EXCEPT !.pc = "assign2", !.fd = a.fd]) /\ UNCHANGED held
  BY DEF Fd, Assign
<1>3. PICK d, s : d = op[t].d /\ s = a.fd
  OBVIOUS
<1>4. UNCHANGED <<fdlock, desc, host, reg, dupd, epVars>>
  BY DEF Fd, Assign, hostVars
<1>5. d \in Objects(t) /\ d \in Descs
  <2>1. d # NULL /\ d \in Objects(t)
    BY <1>1, <1>3 DEF ShapeOK, Objects
  <2> QED BY <1>1, <2>1, References DEF Ownership
<1>6. Stores(table', s, d) /\ s \in Fds /\ (s \in DOMAIN table => table[s] = NULL)
  BY <1>1, <1>2, <1>3, <1>5, AssignStores DEF Stores
<1>7. held[s] = 0 /\ \A u \in Threads : s \notin Slot(u)
  BY <1>1, <1>6, EmptySlot
<1>8. \A fd \in Fds : held[fd] # 0 => table'[fd] = table[fd]
  BY <1>1, <1>6, <1>7 DEF Stores, Ownership, HeldMeaning
<1>9. table'[s] = d
  BY <1>6 DEF Stores
<1>10. CASE op[t].n = NULL
  <2>1. Moves(t) /\ op'[t] = Idle
    BY <1>1, <1>2, <1>10, IdleType, GotoMoves DEF Return
  <2>2. op'[t].pc = "idle" /\ Objects(t)' = {}
    BY <2>1 DEF Idle, Objects
  <2>3. held'[s] = desc[d].file /\ \A fd \in Fds \ {s} : held'[fd] = held[fd]
    BY <1>1, <1>2, <1>3, <1>6, <1>10 DEF TypeOK
  <2> QED BY <1>1, <1>4, <1>5, <1>7, <1>8, <1>9, <2>1, <2>2, <2>3, StoresPolls
<1>11. CASE op[t].n # NULL
  <2>1. PICK r : r = [op[t] EXCEPT !.pc = "assign2", !.fd = s]
    OBVIOUS
  <2>2. r \in Calls /\ r.pc = "assign2" /\ r.d = op[t].d /\ r.n = op[t].n
    BY <1>1, <1>6, <2>1 DEF Calls, Pcs
  <2>3. Moves(t) /\ op'[t] = r /\ held' = held
    BY <1>1, <1>2, <1>3, <1>11, <2>1, <2>2, GotoMoves
  <2>4. Objects(t)' = Objects(t)
    BY <2>2, <2>3 DEF Objects
  <2> QED BY <1>1, <1>4, <1>8, <2>2, <2>3, <2>4, StoresPolls
<1> QED BY <1>10, <1>11

(* oe_socketpair: the second assignment. *)
LEMMA Assign2Polls ==
  ASSUME IInv, PollInv, IInv', NEW t \in Threads, Fd(Assign2(t)) PROVE PollInv'
<1>1. /\ TypeOK /\ Ownership /\ op[t].pc = "assign2" /\ op[t] \in Calls
      /\ ShapeOK(t) /\ SlotOK(t) /\ SizeMeaning
  BY DEF IInv, Ownership, Fd, Assign2, CallMeaning, TypeOK, Calls, Pcs
<1>2. PICK a \in Assigned(op[t].n) :
        /\ table' = a.table
        /\ held' = [held EXCEPT ![op[t].fd] = desc[op[t].d].file,
                                ![a.fd] = desc[op[t].n].file]
  BY DEF Fd, Assign2
<1>3. PICK c, d, s, fd : c = op[t].d /\ d = op[t].n /\ s = a.fd /\ fd = op[t].fd
  OBVIOUS
<1>4. UNCHANGED <<fdlock, desc, host, reg, dupd, epVars>>
  BY DEF Fd, Assign2, hostVars
<1>5. c \in Objects(t) /\ d \in Objects(t) /\ c # NULL /\ d \in Descs
  <2>1. c \in Objects(t) /\ d \in Objects(t) /\ c # NULL
    BY <1>1, <1>3 DEF ShapeOK, Objects
  <2> QED BY <1>1, <2>1, References DEF Ownership
<1>6. Stores(table', s, d) /\ s \in Fds /\ (s \in DOMAIN table => table[s] = NULL)
  <2>1. Stores(a.table, a.fd, op[t].n) /\ (a.fd \in DOMAIN table => table[a.fd] = NULL)
    BY <1>1, <1>2, <1>3, <1>5, AssignStores
  <2> QED BY <1>2, <1>3, <2>1 DEF Stores
<1>7. held[s] = 0 /\ \A u \in Threads : s \notin Slot(u)
  BY <1>1, <1>6, EmptySlot
<1>8. /\ Slot(t) = {fd} /\ fd \in Fds /\ fd \in DOMAIN table /\ table[fd] = c /\ fd # s
      /\ held[fd] = 0
  BY <1>1, <1>3, <1>5, <1>6 DEF Slot, SlotOK, TypeOK
<1>9. \A u \in Threads \ {t} : fd \notin Slot(u)
  BY <1>1, <1>8 DEF Ownership, ApartMeaning
<1>10. \A i \in Fds : held[i] # 0 => table'[i] = table[i]
  BY <1>1, <1>6, <1>7 DEF Stores, Ownership, HeldMeaning
<1>11. table'[s] = d /\ table'[fd] = c
  BY <1>6, <1>8 DEF Stores
<1>12. /\ held'[s] = desc[d].file /\ held'[fd] = desc[c].file
       /\ \A i \in Fds \ {s, fd} : held'[i] = held[i]
  <2>1. held' = [held EXCEPT ![fd] = desc[c].file, ![s] = desc[d].file]
    BY <1>2, <1>3
  <2> QED BY <1>1, <1>6, <1>8, <2>1 DEF TypeOK
<1>13. Moves(t) /\ op'[t] = Idle
  BY <1>1, IdleType, GotoMoves DEF Fd, Assign2, Return
<1>14. op'[t].pc = "idle" /\ Objects(t)' = {}
  BY <1>13 DEF Idle, Objects
<1> QED BY <1>1, <1>4, <1>5, <1>7, <1>8, <1>9, <1>10, <1>11, <1>12, <1>13, <1>14, StoresPolls

(* oe_fdtable_reassign. *)
LEMMA ReassignPolls ==
  ASSUME IInv, PollInv, IInv', NEW t \in Threads, Fd(Reassign(t)) PROVE PollInv'
<1>1. /\ TypeOK /\ Ownership /\ op[t].pc = "reassign" /\ op[t] \in Calls
      /\ ShapeOK(t) /\ SlotOK(t) /\ SizeMeaning
  BY DEF IInv, Ownership, Fd, Reassign, CallMeaning, TypeOK, Calls, Pcs
<1>2. PICK tb \in ResizeResults(op[t].to + 1) :
        /\ op[t].to \in DOMAIN tb
        /\ table' = [tb EXCEPT ![op[t].to] = op[t].n]
        /\ held' = [held EXCEPT ![op[t].to] = desc[op[t].n].file]
        /\ IF tb[op[t].to] = NULL THEN Return(t)
           ELSE Goto(t, [Idle EXCEPT !.pc = "undo", !.d = tb[op[t].to]])
  BY DEF Fd, Reassign
<1>3. PICK d, s, old : d = op[t].n /\ s = op[t].to /\ old = tb[s]
  OBVIOUS
<1>4. UNCHANGED <<fdlock, desc, host, reg, dupd, epVars>>
  BY DEF Fd, Reassign, hostVars
<1>5. d \in Objects(t) /\ Slot(t) = {s} /\ s \in Fds /\ held[s] = 0
  BY <1>1, <1>3 DEF ShapeOK, Objects, Slot, Closing, SlotOK
<1>6. \A u \in Threads \ {t} : s \notin Slot(u)
  BY <1>1, <1>5 DEF Ownership, ApartMeaning
<1>7. Grown(tb)
  <2>1. s + 1 \in Nat
    BY <1>1, <1>3, SizeAssumption DEF Calls
  <2> QED BY <1>1, <1>2, <1>3, <2>1, ResizeGrows
<1>8. table' = [tb EXCEPT ![s] = d]
  BY <1>2, <1>3
<1>9. table'[s] = d /\ \A fd \in Fds : held[fd] # 0 => table'[fd] = table[fd]
  <2>1. s \in DOMAIN tb
    BY <1>2, <1>3
  <2> QED BY <1>1, <1>5, <1>7, <1>8, <2>1 DEF Grown, Ownership, HeldMeaning
<1>10. held'[s] = desc[d].file /\ \A i \in Fds \ {s} : held'[i] = held[i]
  BY <1>1, <1>2, <1>3, <1>5 DEF TypeOK
<1>11. /\ Moves(t) /\ op'[t].pc \in {"idle", "undo"}
       /\ op'[t].pc = "undo" \/ Objects(t)' = {}
  <2>1. old \in 0 .. MaxDesc
    BY <1>2, <1>3, <1>7 DEF Grown
  <2>2. CASE old = NULL
    <3>1. Moves(t) /\ op'[t] = Idle
      BY <1>1, <1>2, <1>3, <2>2, IdleType, GotoMoves DEF Return
    <3> QED BY <3>1 DEF Idle, Objects
  <2>3. CASE old # NULL
    <3>1. PICK r : r = [Idle EXCEPT !.pc = "undo", !.d = old]
      OBVIOUS
    <3>2. r \in Calls /\ r.pc = "undo"
      BY <2>1, <3>1, IdleType DEF Calls, Pcs, Idle
    <3>3. Moves(t) /\ op'[t] = r
      BY <1>1, <1>2, <1>3, <2>3, <3>1, <3>2, GotoMoves
    <3> QED BY <3>2, <3>3
  <2> QED BY <2>2, <2>3
<1> QED BY <1>1, <1>4, <1>5, <1>6, <1>9, <1>10, <1>11, StoresPolls

(* oe_dup2 takes its target away, which no epoll object knows. *)
LEMMA Dup2Polls ==
  ASSUME IInv, PollInv, IInv', NEW t \in Threads, NEW target \in Fds, NotRegistered(target),
         Fd(Dup2(t, target))
  PROVE  PollInv'
<1>1. TypeOK /\ op[t] = Idle /\ Fresh <= MaxDesc
  BY FreshIsNext, SizeAssumption DEF IInv, Fd, Dup2, CanAllocate
<1>2. PICK fd \in Fds \ {target} :
        /\ HeldAs(fd, {"file", "socket"}) /\ DupObject(_get_fd(fd))
        /\ Goto(t, [Idle EXCEPT !.pc = "reassign", !.fd = fd, !.n = Fresh, !.to = target])
  BY DEF Fd, Dup2
<1>3. /\ UNCHANGED <<table, fdlock, reg, epVars>> /\ held' = [held EXCEPT ![target] = 0]
      /\ \A u \in Threads \ {t} : target \notin Using(u)
  BY DEF Fd, Dup2
<1>4. PICK n : n = Fresh
  OBVIOUS
<1>5. FilesOpen /\ n \in Descs /\ desc[n].st = "none"
  BY <1>1, <1>2, <1>3, <1>4, DupFiles
<1>6. PICK r : r = [Idle EXCEPT !.pc = "reassign", !.fd = fd, !.n = n, !.to = target]
  OBVIOUS
<1>7. r \in Calls /\ r.pc = "reassign" /\ r.d = NULL /\ r.n = n
  <2>1. n \in 0 .. MaxDesc /\ target \in 0 .. IntMax
    BY <1>5, SizeAssumption DEF Descs, Fds
  <2> QED BY <1>6, <2>1, IdleType DEF Calls, Pcs, Idle
<1>8. Moves(t) /\ op'[t] = r
  BY <1>1, <1>2, <1>4, <1>6, <1>7, GotoMoves
<1>9. op[t].pc = "idle" /\ Objects(t)' \subseteq {n}
  BY <1>1, <1>7, <1>8 DEF Idle, Objects
<1>10. CallsStay
  BY <1>1, <1>7, <1>8, <1>9, OthersStay
<1>11. FileMeaning' /\ RegMeaning'
  BY <1>5, FilesOpened DEF IInv, PollInv
<1>12. \A i \in Fds : held'[i] = IF i = target THEN 0 ELSE held[i]
  BY <1>1, <1>3 DEF TypeOK
<1>13. ASSUME NEW i \in Fds, held[i] # 0
       PROVE  /\ table[i] \in Descs /\ Live(table[i])
              /\ table'[i] = table[i] /\ desc'[table[i]] = desc[table[i]]
  <2>1. table[i] \in Descs /\ Live(table[i])
    BY <1>13, References DEF IInv, HeldMeaning, Live
  <2> QED BY <1>3, <1>5, <2>1 DEF FilesOpen, Live
<1>14. \A u \in Threads : op[u].pc = "ctlMap" => target # op[u].fd /\ target # op[u].to
  <2>1. ASSUME NEW u \in Threads, op[u].pc = "ctlMap" PROVE target # op[u].fd /\ target # op[u].to
    <3>1. Using(u) = {op[u].fd, op[u].to} /\ u # t
      BY <1>9, <2>1 DEF Using
    <3> QED BY <1>3, <3>1
  <2> QED BY <2>1
<1>15. \A i \in Polls : target \notin Mapped(table[i])
  <2>1. \A i \in Polls : table[i] \in EpollDescs
    BY <1>13 DEF Polls, Holds, EpollDescs, Live
  <2> QED BY <2>1 DEF NotRegistered
<1>16. NumbersCarry
  BY <1>3, <1>5, <1>12, <1>13, <1>14, <1>15 DEF NumbersCarry, FilesOpen
<1>17. NewMeaning'
  <2>1. \A d \in Descs : desc'[d].st = "none" => desc[d].st = "none"
    BY <1>5 DEF FilesOpen
  <2>2. \A u \in Threads : \A x \in Objects(u)' :
          \/ op'[u].pc = "undo"
          \/ x \in Objects(u) /\ op[u].pc # "undo"
          \/ x \in Descs /\ desc[x].st = "none"
    <3>1. \A u \in Threads \ {t} : op'[u] = op[u] /\ Objects(u)' = Objects(u)
      BY <1>8 DEF Moves, Objects
    <3> QED BY <1>5, <1>9, <3>1
  <2> QED BY <1>3, <1>5, <2>1, <2>2, NewKept DEF FilesOpen, epVars
<1> QED BY <1>3, <1>10, <1>11, <1>16, <1>17, Carried DEF PollInv

(* The descriptors of D are closed, and some numbers taken away. *)
LEMMA FreesPolls ==
  ASSUME IInv, PollInv, IInv', CallsStay, NEW D, D \subseteq Descs, FreeDescs(D),
         UNCHANGED <<table, fdlock, epVars>>,
         \A fd \in Fds : held'[fd] = held[fd] \/ held'[fd] = 0,
         \A fd \in Fds : held'[fd] # 0 => table[fd] \notin D,
         \A fd \in Fds : held[fd] # 0 /\ held'[fd] = 0 =>
             /\ \A t \in Threads : op[t].pc = "ctlMap" => fd # op[t].fd /\ fd # op[t].to
             /\ \E t \in Threads : op'[t].fd = fd /\ op'[t].pc = "foreach"
             /\ held[fd] \in dupd \/ \A r \in reg' : r.file # held[fd],
         \A u \in Threads : Objects(u)' = {} \/ op'[u] = op[u]
  PROVE  PollInv'
<1>1. /\ FileMeaning' /\ RegMeaning' /\ reg' \subseteq reg
      /\ \A r \in reg' : r.file \in dupd => r.file \in dupd'
      /\ \A r \in reg : (\E g, h \in Descs : host'[g] = r.ep /\ host'[h] = r.file) => r \in reg'
      /\ \A d \in Descs : desc'[d] = desc[d] \/ desc'[d].kind = "file"
      /\ \A d \in Descs : desc'[d].st = "none" => desc[d].st = "none"
  BY FilesClosed DEF IInv, PollInv
<1>2. ASSUME NEW fd \in Fds, held'[fd] # 0
      PROVE  /\ held'[fd] = held[fd] /\ desc'[table[fd]] = desc[table[fd]]
             /\ desc[table[fd]].hfd \in Descs /\ host'[desc[table[fd]].hfd] = held[fd]
  <2>1. held'[fd] = held[fd] /\ table[fd] \notin D
    BY <1>2
  <2>2. table[fd] \in Descs /\ Live(table[fd])' /\ desc'[table[fd]].file = held'[fd]
    <3>1. table[fd] \in Descs
      BY <1>2, <2>1, References DEF IInv, HeldMeaning, Live
    <3> QED BY <1>2, <3>1 DEF IInv, HeldMeaning, Live
  <2>3. desc'[table[fd]] = desc[table[fd]]
    BY <2>1, <2>2 DEF FreeDescs
  <2>4. desc'[table[fd]].hfd \in Descs /\ host'[desc'[table[fd]].hfd] = desc'[table[fd]].file
    BY <2>2 DEF IInv, ObjectMeaning, Live
  <2> QED BY <2>1, <2>2, <2>3, <2>4
<1>3. ASSUME NEW r \in reg, NEW i \in Fds, NEW fd \in Fds, r = Key(i, fd), held'[i] # 0, held'[fd] # 0
      PROVE  r \in reg'
  <2>1. r.ep = held[i] /\ r.file = held[fd]
    BY <1>3 DEF Key
  <2> QED BY <1>1, <1>2, <1>3, <2>1
<1>4. NumbersCarry
  BY <1>1, <1>2, <1>3 DEF NumbersCarry
<1>5. NewMeaning'
  <2>1. \A u \in Threads : \A x \in Objects(u)' :
          op'[u].pc = "undo" \/ (x \in Objects(u) /\ op[u].pc # "undo")
    BY DEF Objects
  <2>2. \A d \in Descs : desc[d].st = "none" => desc'[d].st # "live"
    BY DEF FreeDescs, Freed
  <2> QED BY <1>1, <2>1, <2>2, NewKept DEF epVars
<1> QED BY <1>1, <1>4, <1>5, Carried DEF PollInv

(* The cleanup of a failed call, or of a dup2. *)
LEMMA UndoPolls ==
  ASSUME IInv, PollInv, IInv', NEW t \in Threads, Fd(Undo(t)) PROVE PollInv'
<1>1. TypeOK /\ op[t].pc = "undo" /\ ObjectsOK(t)
  BY DEF IInv, Fd, Undo, CallMeaning
<1>2. PICK D : D = Objects(t)
  OBVIOUS
<1>3. D \subseteq Descs
  BY <1>2, References DEF IInv
<1>4. FreeDescs(D) /\ UNCHANGED <<table, fdlock, held, epVars>>
  BY <1>2 DEF Fd, Undo, Objects
<1>5. Moves(t) /\ op'[t] = Idle
  BY <1>1, IdleType, GotoMoves DEF Fd, Undo, Return
<1>6. Objects(t)' = {} /\ op'[t].pc = "idle"
  BY <1>5 DEF Objects, Idle
<1>7. CallsStay
  BY <1>1, <1>5, <1>6, OthersStay
<1>8. \A fd \in Fds : held[fd] # 0 => table[fd] \notin D
  BY <1>1, <1>2 DEF ObjectsOK, IInv, HeldMeaning
<1>9. \A u \in Threads : Objects(u)' = {} \/ op'[u] = op[u]
  BY <1>5, <1>6 DEF Moves
<1> QED BY <1>3, <1>4, <1>7, <1>8, <1>9, FreesPolls

(* oe_close: the number is taken away with its mappings still there, and a   *)
(* file with one descriptor has lost its registrations.                      *)
LEMMA ClosePolls ==
  ASSUME IInv, PollInv, IInv', NEW t \in Threads, Fd(Close(t)) PROVE PollInv'
<1>1. TypeOK /\ Ownership /\ op[t] = Idle
  BY DEF IInv, Ownership, Fd, Close
<1>2. PICK fd \in Fds :
        /\ HeldAs(fd, AllKinds) /\ Unused(t, fd)
        /\ FreeDescs({_get_fd(fd)})
        /\ Goto(t, [Idle EXCEPT !.pc = "foreach", !.fd = fd])
        /\ held' = [held EXCEPT ![fd] = 0]
  BY DEF Fd, Close
<1>3. UNCHANGED <<table, fdlock, epVars>>
  BY DEF Fd, Close
<1>4. PICK d, h : d = table[fd] /\ h = desc[d].hfd
  OBVIOUS
<1>5. /\ fd \in DOMAIN table /\ d \in Descs /\ FreeDescs({d}) /\ h \in Descs /\ host[h] = held[fd]
      /\ held[fd] # 0 /\ Live(d)
  <2>1. /\ fd \in DOMAIN table /\ d \in Descs /\ _get_fd(fd) = d /\ h \in Descs
        /\ host[h] = held[fd] /\ Live(d)
    BY <1>1, <1>2, <1>4, HeldObject
  <2> QED BY <1>2, <2>1 DEF HeldAs, Holds
<1>6. PICK r : r = [Idle EXCEPT !.pc = "foreach", !.fd = fd]
  OBVIOUS
<1>7. r \in Calls /\ r.pc = "foreach" /\ r.fd = fd /\ r.d = NULL /\ r.n = NULL
  BY <1>6, IdleType DEF Calls, Pcs, Idle
<1>8. Moves(t) /\ op'[t] = r
  BY <1>1, <1>2, <1>6, <1>7, GotoMoves
<1>9. op[t].pc = "idle" /\ Objects(t)' = {}
  BY <1>1, <1>7, <1>8 DEF Objects, Idle
<1>10. CallsStay
  BY <1>1, <1>7, <1>8, <1>9, OthersStay
<1>11. \A i \in Fds : held'[i] = IF i = fd THEN 0 ELSE held[i]
  BY <1>1, <1>2 DEF TypeOK
<1>12. \A i \in Fds : held'[i] # 0 => table[i] \notin {d}
  BY <1>1, <1>4, <1>5, <1>11 DEF Ownership, HeldMeaning, SlotMeaning, Live
<1>13. \A u \in Threads : op[u].pc = "ctlMap" => fd # op[u].fd /\ fd # op[u].to
  <2>1. ASSUME NEW u \in Threads, op[u].pc = "ctlMap" PROVE fd # op[u].fd /\ fd # op[u].to
    <3>1. Using(u) = {op[u].fd, op[u].to} /\ u # t
      BY <1>9, <2>1 DEF Using
    <3> QED BY <1>2, <3>1 DEF Unused
  <2> QED BY <2>1
<1>14. held[fd] \in dupd \/ \A q \in reg' : q.file # held[fd]
  <2> SUFFICES ASSUME NEW q \in reg', q.file = held[fd] PROVE held[fd] \in dupd
    OBVIOUS
  <2>1. host' = [x \in Descs |-> IF x \in {desc[c].hfd : c \in {d}} THEN 0 ELSE host[x]]
    BY <1>5 DEF FreeDescs, HostClose
  <2>2. \A x \in Descs : host'[x] = IF x = h THEN 0 ELSE host[x]
    BY <1>4, <2>1
  <2>3. RegMeaning'
    BY <1>1, <1>5, FilesClosed DEF PollInv
  <2>4. PICK g \in Descs : host'[g] = held[fd]
    BY <2>3 DEF RegMeaning
  <2> QED BY <1>5, <2>2, <2>4 DEF PollInv, FileMeaning
<1>15. \A u \in Threads : Objects(u)' = {} \/ op'[u] = op[u]
  BY <1>8, <1>9 DEF Moves
<1>16. op'[t].fd = fd /\ op'[t].pc = "foreach"
  BY <1>7, <1>8
<1> QED BY <1>3, <1>5, <1>10, <1>11, <1>12, <1>13, <1>14, <1>15, <1>16, FreesPolls

(* The numbers of an array of mappings; Mapped(e) is Numbers(map[e]). *)
Numbers(m) == {m[j].fd : j \in DOMAIN m}
Once(m) == \A j, k \in DOMAIN m : m[j].fd = m[k].fd => j = k

(* Removing the first mapping of a number removes the number, and no other. *)
LEMMA WithoutRemoves ==
  ASSUME NEW S, NEW m \in Seq(S), NEW fd, Once(m)
  PROVE  Numbers(Without(m, fd)) = Numbers(m) \ {fd} /\ Once(Without(m, fd))
<1>1. PICK i, n : i = First(m, fd) /\ n = Len(m)
  OBVIOUS
<1>2. n \in Nat /\ DOMAIN m = 1 .. n
  BY <1>1
<1>3. CASE \A j \in DOMAIN m : m[j].fd # fd
  <2>1. Without(m, fd) = m
    BY <1>3 DEF Without, First
  <2> QED BY <1>3, <2>1 DEF Numbers
<1>4. CASE \E j \in DOMAIN m : m[j].fd = fd
  <2>1. PICK J : J = {j \in DOMAIN m : m[j].fd = fd}
    OBVIOUS
  <2>2. J # {} /\ J \subseteq Nat
    BY <1>2, <1>4, <2>1
  <2>3. i \in J
    BY <1>1, <1>4, <2>1, <2>2, MinExists DEF First
  <2>4. i \in 1 .. n /\ m[i].fd = fd
    BY <1>2, <2>1, <2>3
  <2>5. PICK q, w : q = [m EXCEPT ![i] = m[n]] /\ w = SubSeq(q, 1, n - 1)
    OBVIOUS
  <2>6. q \in Seq(S) /\ Len(q) = n
    BY <1>1, <1>2, <2>4, <2>5
  <2>7. Without(m, fd) = w
    BY <1>1, <1>2, <2>4, <2>5 DEF Without
  <2>8. DOMAIN w = 1 .. n - 1 /\ \A j \in 1 .. n - 1 : w[j] = q[j]
    BY <1>2, <2>5, <2>6
  <2>9. \A j \in 1 .. n - 1 : w[j] = IF j = i THEN m[n] ELSE m[j]
    BY <1>2, <2>5, <2>8
  <2>10. Once(w)
    <3>1. ASSUME NEW j \in 1 .. n - 1, NEW k \in 1 .. n - 1, w[j].fd = w[k].fd PROVE j = k
      <4>1. PICK a, b : a = (IF j = i THEN n ELSE j) /\ b = (IF k = i THEN n ELSE k)
        OBVIOUS
      <4>2. a \in 1 .. n /\ b \in 1 .. n /\ w[j] = m[a] /\ w[k] = m[b]
        BY <1>2, <2>9, <4>1
      <4>3. a = b
        BY <1>2, <3>1, <4>2 DEF Once
      <4> QED BY <1>2, <4>1, <4>3
    <3> QED BY <2>8, <3>1 DEF Once
  <2>11. \A x \in Numbers(w) : x \in Numbers(m) \ {fd}
    <3>1. ASSUME NEW j \in 1 .. n - 1 PROVE w[j].fd \in Numbers(m) /\ w[j].fd # fd
      <4>1. PICK a : a = (IF j = i THEN n ELSE j)
        OBVIOUS
      <4>2. a \in 1 .. n /\ w[j] = m[a] /\ a # i
        BY <1>2, <2>4, <2>9, <4>1
      <4>3. m[a].fd # fd
        BY <1>2, <2>4, <4>2 DEF Once
      <4> QED BY <1>2, <4>2, <4>3 DEF Numbers
    <3> QED BY <2>8, <3>1 DEF Numbers
  <2>12. \A x \in Numbers(m) \ {fd} : x \in Numbers(w)
    <3>1. ASSUME NEW a \in 1 .. n, m[a].fd # fd PROVE m[a].fd \in Numbers(w)
      <4>1. PICK j : j = (IF a = n THEN i ELSE a)
        OBVIOUS
      <4>2. j \in 1 .. n - 1 /\ w[j] = m[a]
        BY <1>2, <2>4, <2>9, <3>1, <4>1
      <4> QED BY <2>8, <4>2 DEF Numbers
    <3> QED BY <1>2, <3>1 DEF Numbers
  <2> QED BY <2>7, <2>10, <2>11, <2>12
<1> QED BY <1>3, <1>4

(* Appending a mapping of a new number adds the number, and no other. *)
LEMMA AppendAdds ==
  ASSUME NEW S, NEW m \in Seq(S), NEW x \in S, Once(m), x.fd \notin Numbers(m)
  PROVE  Numbers(Append(m, x)) = Numbers(m) \cup {x.fd} /\ Once(Append(m, x))
<1>1. PICK n, w : n = Len(m) /\ w = Append(m, x)
  OBVIOUS
<1>2. /\ n \in Nat /\ DOMAIN m = 1 .. n /\ DOMAIN w = 1 .. n + 1
      /\ \A j \in 1 .. n : w[j] = m[j]
      /\ w[n + 1] = x
  BY <1>1
<1>3. \A j \in 1 .. n : m[j].fd # x.fd
  BY <1>2 DEF Numbers
<1>4. Once(w)
  <2>1. \A j, k \in 1 .. n + 1 : w[j].fd = w[k].fd => j = k
    BY <1>2, <1>3 DEF Once
  <2> QED BY <1>2, <2>1 DEF Once
<1>5. \A j \in 1 .. n + 1 : w[j].fd \in Numbers(m) \cup {x.fd}
  BY <1>2 DEF Numbers
<1>6. \A j \in 1 .. n : m[j].fd \in Numbers(w)
  <2>1. \A j \in 1 .. n : j \in DOMAIN w /\ w[j].fd = m[j].fd
    BY <1>2
  <2> QED BY <2>1 DEF Numbers
<1>7. x.fd \in Numbers(w)
  <2>1. n + 1 \in DOMAIN w /\ w[n + 1].fd = x.fd
    BY <1>2
  <2> QED BY <2>1 DEF Numbers
<1> QED BY <1>1, <1>2, <1>4, <1>5, <1>6, <1>7 DEF Numbers

(* The numbers of epoll objects, and what is behind them. *)
LEMMA PollFacts ==
  ASSUME IInv, PollInv, NEW i \in Polls
  PROVE  /\ i \in Fds /\ held[i] # 0 /\ i \in DOMAIN table /\ table[i] \in Descs
         /\ table[i] \in EpollDescs /\ held[i] = host[desc[table[i]].hfd] /\ desc[table[i]].hfd \in Descs
         /\ \A j \in Polls : (table[j] = table[i] \/ held[j] = held[i]) => j = i
         /\ \A u \in Threads : \A x \in Objects(u) :
               x # table[i] /\ (desc[x].kind = "epoll" => desc[x].file # held[i])
<1>0. TypeOK /\ HeldMeaning /\ SlotMeaning /\ ObjectMeaning /\ CallMeaning
  BY DEF IInv
<1>1. ASSUME NEW j \in Polls
      PROVE  /\ j \in Fds /\ held[j] # 0 /\ j \in DOMAIN table /\ table[j] \in EpollDescs
             /\ table[j] \in Descs /\ Live(table[j]) /\ desc[table[j]].file = held[j]
  <2>1. j \in Fds /\ held[j] # 0 /\ desc[table[j]].kind = "epoll"
    BY DEF Polls, Holds
  <2>2. j \in DOMAIN table /\ Live(table[j]) /\ desc[table[j]].file = held[j]
    BY <1>0, <2>1 DEF HeldMeaning
  <2>3. table[j] \in Descs
    BY <1>0, <2>2, References DEF Live
  <2> QED BY <2>1, <2>2, <2>3 DEF EpollDescs, Live
<1>2. ASSUME NEW c \in EpollDescs, NEW d \in EpollDescs, desc[c].file = desc[d].file PROVE c = d
  <2>1. c \in Descs /\ Live(c) /\ d \in Descs /\ Live(d)
    BY SizeAssumption DEF EpollDescs, Live, Descs, NULL
  <2>2. /\ desc[c].hfd \in Descs /\ desc[d].hfd \in Descs
        /\ host[desc[c].hfd] = desc[c].file /\ host[desc[d].hfd] = desc[d].file /\ desc[c].file # 0
    BY <1>0, <2>1 DEF ObjectMeaning
  <2>3. desc[c].file \notin dupd
    BY DEF PollInv, FileMeaning
  <2>4. desc[c].hfd = desc[d].hfd
    BY <1>2, <2>2, <2>3 DEF PollInv, FileMeaning
  <2> QED BY <1>0, <2>1, <2>4 DEF ObjectMeaning
<1>3. ASSUME NEW j \in Polls, table[j] = table[i] \/ held[j] = held[i] PROVE j = i
  <2>1. table[j] = table[i]
    BY <1>1, <1>2, <1>3
  <2> QED BY <1>0, <1>1, <2>1 DEF SlotMeaning, Live
<1>4. ASSUME NEW u \in Threads, NEW x \in Objects(u)
      PROVE  x # table[i] /\ (desc[x].kind = "epoll" => desc[x].file # held[i])
  <2>1. x \in Descs /\ Live(x)
    BY <1>0, References
  <2>2. x # table[i]
    <3>1. SUFFICES ASSUME x = table[i] PROVE FALSE
      OBVIOUS
    <3>2. i \in stale \/ (op[u].pc = "assign2" /\ i = op[u].fd)
      BY <1>0, <1>1, <3>1 DEF CallMeaning, ObjectsOK
    <3>3. op[u].pc = "assign2" => op[u].fd \in Slot(u)
      BY DEF Slot
    <3> QED BY <1>0, <1>1, <3>2, <3>3 DEF CallMeaning, SlotOK, HeldMeaning
  <2>3. desc[x].kind = "epoll" => x \in EpollDescs
    BY <2>1 DEF EpollDescs, Live
  <2> QED BY <1>1, <1>2, <2>2, <2>3
<1> QED BY <1>0, <1>1, <1>3, <1>4 DEF ObjectMeaning

(* A step inside the epoll device or the walk changes no number. *)
NumbersStay == UNCHANGED <<table, desc, host, held, dupd>>

(* Then what is said in terms of numbers stays. *)
LEMMA SameNumbers ==
  ASSUME NumbersStay
  PROVE  /\ Polls' = Polls /\ EpollDescs' = EpollDescs
         /\ \A fd : Holds(fd)' <=> Holds(fd)
         /\ \A i, fd : Key(i, fd)' = Key(i, fd)
         /\ FileMeaning => FileMeaning'
         /\ RegMeaning /\ reg' = reg => RegMeaning'
BY DEF NumbersStay, Polls, EpollDescs, Holds, Key, FileMeaning, RegMeaning

(* Maps and registrations stay, and nobody who has yet to tell an object     *)
(* forgets to.                                                               *)
LEMMA MapsStay ==
  ASSUME IInv, PollInv, NumbersStay, UNCHANGED <<reg, map, elock>>,
         NEW t \in Threads, Moves(t), \A u \in Threads \ {t} : ev'[u] = ev[u],
         op[t].pc # "ctlMap", op'[t].pc # "ctlMap", op'[t].d = NULL, op'[t].n = NULL,
         \A i \in Polls : \A fd \in Mapped(table[i]) : ToTell(t, i, fd) => ToTell(t, i, fd)',
         VisitMeaning', WaitMeaning'
  PROVE  PollInv'
<1>1. /\ Polls' = Polls /\ \A fd : Holds(fd)' <=> Holds(fd)
      /\ \A i, fd : Key(i, fd)' = Key(i, fd)
      /\ FileMeaning' /\ RegMeaning'
  BY SameNumbers DEF PollInv
<1>2. table' = table /\ desc' = desc /\ held' = held /\ dupd' = dupd /\ map' = map /\ reg' = reg
  BY DEF NumbersStay
<1>3. \A e : Mapped(e)' = Mapped(e)
  BY <1>2 DEF Mapped
<1>4. \A i, fd, cmd : Pending(i, fd, cmd) <=> Pending(i, fd, cmd)'
  BY DEF Pending, Moves
<1>5. NewMeaning'
  <2>1. Objects(t)' = {} /\ \A u \in Threads \ {t} : Objects(u)' = Objects(u) /\ op'[u] = op[u]
    BY DEF Objects, Moves
  <2> QED BY <1>2, <2>1 DEF PollInv, NewMeaning
<1>6. UniqueMeaning'
  BY <1>2 DEF PollInv, UniqueMeaning
<1>7. MappedMeaning'
  <2>1. ASSUME NEW i \in Polls, NEW fd \in Mapped(table[i]), NEW u \in Threads, ToTell(u, i, fd)
        PROVE  ToTell(u, i, fd)'
    <3>1. CASE u = t
      BY <2>1, <3>1
    <3>2. CASE u # t
      BY <2>1, <3>2 DEF ToTell, Moves
    <3> QED BY <3>1, <3>2
  <2>2. ASSUME NEW i \in Polls, NEW fd \in Mapped(table[i])
        PROVE  \/ Holds(fd)' /\ (Key(i, fd)' \in reg' \/ Pending(i, fd, "del")')
               \/ \E u \in Threads : ToTell(u, i, fd)'
    BY <1>1, <1>2, <1>4, <2>1 DEF PollInv, MappedMeaning
  <2> QED BY <1>1, <1>2, <1>3, <2>2 DEF MappedMeaning
<1>8. RegisteredMeaning'
  BY <1>1, <1>2, <1>3, <1>4 DEF PollInv, RegisteredMeaning
<1>9. CtlMeaning'
  <2>1. \A u \in Threads : op'[u].pc = "ctlMap" => u # t /\ op'[u] = op[u] /\ ev'[u] = ev[u]
    BY DEF Moves
  <2> QED BY <1>1, <1>2, <1>3, <2>1 DEF PollInv, CtlMeaning
<1> QED BY <1>1, <1>5, <1>6, <1>7, <1>8, <1>9 DEF PollInv

(* oe_close begins its walk: it has every epoll object to tell. *)
LEMMA ForeachLockPolls ==
  ASSUME IInv, PollInv, IInv', NEW t \in Threads, ForeachLock(t) PROVE PollInv'
<1>1. op[t].pc = "foreach" /\ TypeOK /\ op[t] \in Calls /\ fdlock = NoThread /\ fdlock' = t
  BY DEF IInv, ForeachLock, TypeOK, Calls, Pcs
<1>2. PICK r : r = [op[t] EXCEPT !.pc = "visit", !.to = 0]
  OBVIOUS
<1>3. r \in Calls /\ r.pc = "visit" /\ r.to = 0 /\ r.fd = op[t].fd /\ r.d = op[t].d /\ r.n = op[t].n
  <2>1. 0 \in 0 .. IntMax
    BY SizeAssumption
  <2> QED BY <1>1, <1>2, <2>1 DEF Calls, Pcs
<1>4. Moves(t) /\ op'[t] = r
  BY <1>1, <1>2, <1>3, GotoMoves DEF ForeachLock
<1>5. NumbersStay /\ UNCHANGED <<reg, map, elock, ev>>
  BY DEF ForeachLock, hostVars, ghostVars, epVars, NumbersStay
<1>6. op'[t].d = NULL /\ op'[t].n = NULL
  BY <1>1, <1>3, <1>4 DEF IInv, CallMeaning, ShapeOK, Owning
<1>7. ASSUME NEW i \in Polls, NEW fd, ToTell(t, i, fd) PROVE ToTell(t, i, fd)'
  <2>1. 0 <= i
    BY SizeAssumption DEF Polls, Fds
  <2> QED BY <1>3, <1>4, <1>7, <2>1 DEF ToTell
<1>8. VisitMeaning'
  BY <1>1, <1>4, ThreadAssumption DEF PollInv, VisitMeaning, Moves
<1>9. WaitMeaning'
  BY <1>3, <1>4, <1>5 DEF PollInv, WaitMeaning, Moves
<1> QED BY <1>1, <1>3, <1>4, <1>5, <1>6, <1>7, <1>8, <1>9, MapsStay

(* The walk ends when no epoll object is left to tell. *)
LEMMA ForeachUnlockPolls ==
  ASSUME IInv, PollInv, IInv', NEW t \in Threads, ForeachUnlock(t) PROVE PollInv'
<1>1. op[t].pc = "visit" /\ TypeOK /\ op[t] \in Calls /\ fdlock' = NoThread /\ ToVisit(t) = {}
  BY DEF IInv, ForeachUnlock, TypeOK, Calls, Pcs
<1>2. PICK r : r = [op[t] EXCEPT !.pc = "release", !.to = 0]
  OBVIOUS
<1>3. r \in Calls /\ r.pc = "release" /\ r.d = op[t].d /\ r.n = op[t].n
  <2>1. 0 \in 0 .. IntMax
    BY SizeAssumption
  <2> QED BY <1>1, <1>2, <2>1 DEF Calls, Pcs
<1>4. Moves(t) /\ op'[t] = r
  BY <1>1, <1>2, <1>3, GotoMoves DEF ForeachUnlock
<1>5. NumbersStay /\ UNCHANGED <<reg, map, elock, ev>>
  BY DEF ForeachUnlock, hostVars, ghostVars, epVars, NumbersStay
<1>6. op'[t].d = NULL /\ op'[t].n = NULL
  BY <1>1, <1>3, <1>4 DEF IInv, CallMeaning, ShapeOK, Owning
<1>7. ASSUME NEW i \in Polls, NEW fd, ToTell(t, i, fd) PROVE FALSE
  <2>1. i \in DOMAIN table /\ table[i] \in EpollDescs /\ i \in Nat /\ op[t].to \in Nat
    BY <1>1, PollFacts, SizeAssumption DEF Fds, Calls
  <2>2. i >= op[t].to
    BY <1>1, <1>7, <2>1 DEF ToTell
  <2> QED BY <1>1, <2>1, <2>2 DEF ToVisit
<1>8. VisitMeaning'
  BY <1>1, <1>3, <1>4 DEF PollInv, VisitMeaning, Moves
<1>9. WaitMeaning'
  BY <1>3, <1>4, <1>5 DEF PollInv, WaitMeaning, Moves
<1> QED BY <1>1, <1>3, <1>4, <1>5, <1>6, <1>7, <1>8, <1>9, MapsStay

(* oe_epoll_wait, the second half. *)
LEMMA WaitLockPolls ==
  ASSUME IInv, PollInv, IInv', NEW t \in Threads, WaitLock(t) PROVE PollInv'
<1>1. /\ op[t].pc = "waitLock" /\ TypeOK /\ DOMAIN ev = Threads /\ fdlock' = fdlock
      /\ ev' = [ev EXCEPT ![t] = NoEv]
  BY DEF IInv, WaitLock, EvMeaning
<1>2. Moves(t) /\ op'[t] = Idle
  BY <1>1, IdleType, GotoMoves DEF WaitLock, Return
<1>3. op'[t].pc = "idle" /\ op'[t].d = NULL /\ op'[t].n = NULL
  BY <1>2 DEF Idle
<1>4. NumbersStay /\ UNCHANGED <<reg, map, elock>>
  BY DEF WaitLock, hostVars, ghostVars, NumbersStay
<1>5. \A u \in Threads \ {t} : ev'[u] = ev[u]
  BY <1>1
<1>6. \A i, fd : ~ToTell(t, i, fd)
  BY <1>1 DEF ToTell
<1>7. VisitMeaning' /\ WaitMeaning'
  BY <1>1, <1>2, <1>3, <1>5 DEF PollInv, VisitMeaning, WaitMeaning, Moves
<1> QED BY <1>1, <1>2, <1>3, <1>4, <1>5, <1>6, <1>7, MapsStay

(* oe_epoll_wait, the first half: the host reports each number once. *)
LEMMA WaitHostPolls ==
  ASSUME IInv, PollInv, IInv', NEW t \in Threads, WaitHost(t) PROVE PollInv'
<1>1. /\ op[t] = Idle /\ TypeOK /\ Ownership /\ DOMAIN ev = Threads /\ fdlock' = fdlock
  BY DEF IInv, Ownership, WaitHost, EvMeaning
<1>2. PICK epfd \in Fds :
        /\ HeldAs(epfd, {"epoll"})
        /\ \E rs \in SUBSET RegsOf(table[epfd]) :
            /\ rs # {}
            /\ \E s \in SetToSeqs({r.fd : r \in rs}) :
                ev' = [ev EXCEPT ![t] = [NoEv EXCEPT !.e = table[epfd], !.events = s]]
        /\ Goto(t, [Idle EXCEPT !.pc = "waitLock", !.fd = epfd])
  BY DEF WaitHost
<1>3. PICK rs \in SUBSET RegsOf(table[epfd]) : \E s \in SetToSeqs({r.fd : r \in rs}) :
        ev' = [ev EXCEPT ![t] = [NoEv EXCEPT !.e = table[epfd], !.events = s]]
  BY <1>2
<1>31. PICK s \in SetToSeqs({q.fd : q \in rs}) :
        ev' = [ev EXCEPT ![t] = [NoEv EXCEPT !.e = table[epfd], !.events = s]]
  BY <1>3
<1>4. PICK r : r = [Idle EXCEPT !.pc = "waitLock", !.fd = epfd]
  OBVIOUS
<1>5. r \in Calls /\ r.pc = "waitLock" /\ r.d = NULL /\ r.n = NULL
  BY <1>4, IdleType DEF Calls, Pcs, Idle
<1>6. Moves(t) /\ op'[t] = r
  BY <1>1, <1>2, <1>4, <1>5, GotoMoves
<1>7. NumbersStay /\ UNCHANGED <<reg, map, elock>>
  BY DEF WaitHost, hostVars, ghostVars, NumbersStay
<1>8. /\ \A u \in Threads \ {t} : ev'[u] = ev[u]
      /\ ev'[t].e = table[epfd] /\ ev'[t].events = s
  BY <1>1, <1>31 DEF NoEv
<1>9. op[t].pc = "idle" /\ \A i, fd : ~ToTell(t, i, fd)
  BY <1>1 DEF ToTell, Idle
<1>10. s \in Seq(Fds) /\ Distinct(s)
  <2>1. PICK F : F = {q.fd : q \in rs}
    OBVIOUS
  <2>2. F \subseteq Fds
    <3>1. \A q \in rs : q \in reg
      BY DEF RegsOf
    <3>2. \A q \in reg : q.fd \in Fds
      BY <1>1 DEF TypeOK
    <3> QED BY <2>1, <3>1, <3>2
  <2>3. IsFiniteSet(F) /\ Cardinality(F) \in Nat
    <3>1. 0 \in Int /\ IntMax - 1 \in Int
      BY SizeAssumption
    <3>2. IsFiniteSet(0 .. IntMax - 1)
      BY <3>1, FS_Interval
    <3> QED BY <2>2, <3>2, FS_Subset, FS_CardinalityType DEF Fds
  <2>4. PICK n \in Nat : n = Cardinality(F)
    BY <2>3
  <2>5. s \in [1 .. n -> F] /\ \A i, j \in 1 .. n : i # j => s[i] # s[j]
    BY <1>31, <2>1, <2>4 DEF SetToSeqs
  <2>6. s \in [1 .. n -> Fds]
    BY <2>2, <2>5
  <2>7. s \in Seq(Fds)
    BY <2>4, <2>6, SeqDef
  <2> QED BY <2>5, <2>7 DEF Distinct
<1>11. table[epfd] \in Descs
  BY <1>1, <1>2, HeldObject
<1>12. VisitMeaning' /\ WaitMeaning'
  BY <1>1, <1>5, <1>6, <1>8, <1>10, <1>11 DEF PollInv, VisitMeaning, WaitMeaning, Moves
<1> QED BY <1>5, <1>6, <1>7, <1>8, <1>9, <1>12, MapsStay

(* An epoll object is told: the mapping goes, and the walk is past it. *)
LEMMA VisitPolls ==
  ASSUME IInv, PollInv, IInv', NEW t \in Threads, Visit(t) PROVE PollInv'
<1>1. op[t].pc = "visit" /\ TypeOK /\ op[t] \in Calls /\ fdlock' = fdlock /\ ToVisit(t) # {}
  BY DEF IInv, Visit, TypeOK, Calls, Pcs
<1>2. PICK k, e, fd : k = Min(ToVisit(t)) /\ e = table[k] /\ fd = op[t].fd
  OBVIOUS
<1>3. /\ map' = [map EXCEPT ![e] = Without(@, fd)]
      /\ Goto(t, [op[t] EXCEPT !.to = k + 1])
      /\ NumbersStay /\ UNCHANGED <<reg, elock, ev>>
  BY <1>2 DEF Visit, hostVars, ghostVars, NumbersStay
<1>4. k \in ToVisit(t) /\ \A i \in ToVisit(t) : k <= i
  <2>1. ToVisit(t) \subseteq Nat
    BY <1>1, SizeAssumption DEF ToVisit, TypeOK, Fds
  <2> QED BY <1>1, <1>2, <2>1, MinExists
<1>5. k \in DOMAIN table /\ k \in Fds /\ e \in EpollDescs /\ e \in Descs /\ desc[e].st = "live"
  BY <1>1, <1>2, <1>4 DEF ToVisit, EpollDescs, TypeOK
<1>6. PICK r : r = [op[t] EXCEPT !.to = k + 1]
  OBVIOUS
<1>7. /\ r \in Calls /\ r.pc = "visit" /\ r.to = k + 1 /\ r.fd = fd /\ r.d = op[t].d /\ r.n = op[t].n
  <2>1. k + 1 \in 0 .. IntMax
    BY <1>5, SizeAssumption DEF Fds
  <2> QED BY <1>1, <1>2, <1>6, <2>1 DEF Calls, Pcs
<1>8. Moves(t) /\ op'[t] = r
  BY <1>1, <1>3, <1>6, <1>7, GotoMoves
<1>9. Objects(t) = {} /\ Objects(t)' = {} /\ held[fd] = 0
  BY <1>1, <1>2, <1>7, <1>8 DEF IInv, CallMeaning, ShapeOK, SlotOK, Slot, Closing, Owning, Objects
<1>10. /\ Polls' = Polls /\ \A f : Holds(f)' <=> Holds(f)
       /\ \A i, f : Key(i, f)' = Key(i, f)
       /\ FileMeaning' /\ RegMeaning'
  BY <1>3, SameNumbers DEF PollInv
<1>11. table' = table /\ desc' = desc /\ held' = held /\ dupd' = dupd
  BY <1>3 DEF NumbersStay
<1>12. PICK m, w : m = map[e] /\ w = Without(m, fd)
  OBVIOUS
<1>13. m \in Seq(Mappings) /\ Once(m)
  BY <1>1, <1>5, <1>12 DEF TypeOK, Mappings, PollInv, UniqueMeaning, Once
<1>14. map'[e] = w /\ \A d \in Descs \ {e} : map'[d] = map[d]
  BY <1>1, <1>3, <1>5, <1>12 DEF TypeOK
<1>15. Numbers(w) = Numbers(m) \ {fd} /\ Once(w)
  BY <1>12, <1>13, WithoutRemoves
<1>16. Mapped(e)' = Mapped(e) \ {fd} /\ \A d \in Descs \ {e} : Mapped(d)' = Mapped(d)
  BY <1>12, <1>14, <1>15 DEF Mapped, Numbers
<1>17. UniqueMeaning'
  BY <1>14, <1>15 DEF PollInv, UniqueMeaning, Once
<1>18. NewMeaning'
  <2>1. m = <<>> => w = <<>>
    BY <1>12 DEF Without, First
  <2>2. \A d \in Descs : map[d] = <<>> => map'[d] = <<>>
    BY <1>12, <1>14, <2>1
  <2>3. \A u \in Threads : Objects(u)' = Objects(u) /\ op'[u].pc = op[u].pc
    BY <1>1, <1>7, <1>8, <1>9 DEF Moves, Objects
  <2>4. \A u \in Threads : Objects(u) \subseteq Descs
    BY References DEF IInv
  <2> QED BY <1>3, <1>11, <2>2, <2>3, <2>4 DEF PollInv, NewMeaning
<1>19. \A i, f, cmd : Pending(i, f, cmd) <=> Pending(i, f, cmd)'
  BY <1>1, <1>3, <1>7, <1>8 DEF Pending, Moves
<1>20. MappedMeaning'
  <2> SUFFICES ASSUME NEW i \in Polls, NEW f \in Mapped(table[i])'
               PROVE  \/ Holds(f)' /\ (Key(i, f)' \in reg' \/ Pending(i, f, "del")')
                      \/ \E u \in Threads : ToTell(u, i, f)'
    BY <1>10 DEF MappedMeaning
  <2>1. /\ i \in DOMAIN table /\ table[i] \in Descs /\ table[i] \in EpollDescs /\ i \in Fds
        /\ table[i] # NULL
    BY PollFacts, SizeAssumption DEF Descs, NULL
  <2>2. f \in Mapped(table[i]) /\ (table[i] = e => f # fd)
    <3>1. Mapped(table[i])' \subseteq Mapped(table[i])
      BY <1>11, <1>16, <2>1
    <3>2. table[i] = e => Mapped(table[i])' = Mapped(e)'
      BY <1>11
    <3> QED BY <1>16, <3>1, <3>2
  <2>3. CASE \E u \in Threads : ToTell(u, i, f)
    <3>1. PICK u \in Threads : ToTell(u, i, f)
      BY <2>3
    <3>2. CASE u # t
      BY <1>8, <3>1, <3>2 DEF ToTell, Moves
    <3>3. CASE u = t
      <4>1. f = fd /\ op[t].to <= i
        BY <1>1, <1>2, <3>1, <3>3 DEF ToTell
      <4>2. i \in Int /\ op[t].to \in Int /\ k \in Int
        BY <1>1, <1>5, <2>1, SizeAssumption DEF Fds, Calls
      <4>3. i \in ToVisit(t) /\ i # k
        BY <1>2, <2>1, <2>2, <4>1, <4>2 DEF ToVisit
      <4>4. k + 1 <= i
        BY <1>4, <4>2, <4>3
      <4> QED BY <1>7, <1>8, <4>1, <4>4 DEF ToTell
    <3> QED BY <3>2, <3>3
  <2> QED BY <1>3, <1>10, <1>19, <2>2, <2>3 DEF PollInv, MappedMeaning
<1>21. RegisteredMeaning'
  <2> SUFFICES ASSUME ~MapAllocFails, NEW i \in Polls, NEW q \in reg, q.ep = held[i], q.file \notin dupd
               PROVE  /\ Holds(q.fd)' /\ q = Key(i, q.fd)'
                      /\ q.fd \in Mapped(table[i])' \/ Pending(i, q.fd, "add")'
    BY <1>3, <1>10, <1>11 DEF RegisteredMeaning
  <2>1. /\ Holds(q.fd) /\ q = Key(i, q.fd)
        /\ q.fd \in Mapped(table[i]) \/ Pending(i, q.fd, "add")
    BY DEF PollInv, RegisteredMeaning
  <2>2. q.fd # fd
    BY <1>9, <2>1 DEF Holds
  <2>3. q.fd \in Mapped(table[i]) => q.fd \in Mapped(table[i])'
    <3>1. table[i] \in Descs
      BY PollFacts
    <3>2. table[i] = e => Mapped(table[i])' = Mapped(e)' /\ Mapped(table[i]) = Mapped(e)
      BY <1>11
    <3>3. table[i] # e => Mapped(table[i])' = Mapped(table[i])
      BY <1>11, <1>16, <3>1
    <3> QED BY <1>16, <2>2, <3>2, <3>3
  <2> QED BY <1>10, <1>19, <2>1, <2>3
<1>22. CtlMeaning'
  <2>1. \A u \in Threads : op'[u].pc = "ctlMap" => op'[u] = op[u]
    BY <1>7, <1>8 DEF Moves
  <2>2. \A u \in Threads : op[u].pc = "ctlMap" => ev[u].e \in Descs
    BY DEF IInv, EvMeaning
  <2>3. \A d \in Descs : Mapped(d)' \subseteq Mapped(d)
    BY <1>16
  <2>4. \A u \in Threads : op[u].pc = "ctlMap" =>  Mapped(ev[u].e)' \subseteq Mapped(ev[u].e)
    BY <1>3, <2>2, <2>3
  <2> QED BY <1>3, <1>10, <1>11, <2>1, <2>4 DEF PollInv, CtlMeaning
<1>23. VisitMeaning' /\ WaitMeaning'
  BY <1>1, <1>3, <1>7, <1>8 DEF PollInv, VisitMeaning, WaitMeaning, Moves
<1> QED BY <1>10, <1>17, <1>18, <1>20, <1>21, <1>22, <1>23 DEF PollInv

(* What the host's call does: it answers, and on success it changes the       *)
(* registration of the number's own descriptor.                               *)
LEMMA CtlAnswer ==
  ASSUME IInv, PollInv, NEW i \in Polls, NEW fd \in Fds, HeldAs(fd, {"file", "socket"}),
         NEW cmd \in {"add", "mod", "del"}, NEW ans, ans = HostEpollCtl(table[i], fd, cmd),
         NEW K, K = {r \in reg : /\ r.ep = held[i] /\ r.hfd = desc[table[fd]].hfd
                                 /\ r.file = held[fd]}
  PROVE  \/ ans.rv # 0 /\ ans.reg = reg
         \/ /\ ans.rv = 0 /\ (cmd = "add" <=> K = {})
            /\ ans.reg = (reg \ K) \cup (IF cmd = "del" THEN {} ELSE {Key(i, fd)})
<1>1. held[i] = host[desc[table[i]].hfd] /\ host[desc[table[fd]].hfd] = held[fd]
  BY PollFacts, HeldObject DEF IInv, Ownership
<1>2. PICK h, key, new :
        /\ h = desc[table[fd]].hfd
        /\ key = {r \in RegsOf(table[i]) : r.hfd = h /\ r.file = host[h]}
        /\ new = [ep |-> host[desc[table[i]].hfd], hfd |-> h, file |-> host[h], fd |-> fd]
  OBVIOUS
<1>3. key = K /\ new = Key(i, fd)
  BY <1>1, <1>2 DEF RegsOf, Key
<1>4. ans = IF (cmd = "add") # (key = {}) THEN [rv |-> -1, reg |-> reg]
            ELSE [rv |-> 0, reg |-> (reg \ key) \cup (IF cmd = "del" THEN {} ELSE {new})]
  BY <1>2 DEF HostEpollCtl
<1>5. CASE (cmd = "add") # (key = {})
  BY <1>4, <1>5
<1>6. CASE ~((cmd = "add") # (key = {}))
  BY <1>3, <1>4, <1>6
<1> QED BY <1>5, <1>6

(* Two numbers with the same host descriptor are one. *)
LEMMA OwnDescriptor ==
  ASSUME IInv, NEW f \in Fds, NEW g \in Fds, held[f] # 0, held[g] # 0,
         desc[table[f]].hfd = desc[table[g]].hfd
  PROVE  f = g
<1>1. f \in DOMAIN table /\ Live(table[f]) /\ g \in DOMAIN table /\ Live(table[g])
  BY DEF IInv, HeldMeaning
<1>2. table[f] \in Descs /\ table[g] \in Descs
  BY <1>1, References DEF IInv, Live
<1>3. table[f] = table[g]
  BY <1>1, <1>2 DEF IInv, ObjectMeaning
<1> QED BY <1>1, <1>3 DEF IInv, SlotMeaning, Live

(* oe_epoll_ctl, the first half: the host's registrations run ahead of the   *)
(* map by what the call is about to do.                                      *)
LEMMA CtlHostPolls ==
  ASSUME IInv, PollInv, IInv', NEW t \in Threads, CtlHost(t) PROVE PollInv'
<1>1. /\ op[t] = Idle /\ TypeOK /\ Ownership /\ DOMAIN ev = Threads /\ fdlock' = fdlock
      /\ NumbersStay /\ map' = map
  BY DEF IInv, Ownership, CtlHost, EvMeaning, NumbersStay, ghostVars
<1>2. PICK i \in Fds, fd \in Fds, cmd \in {"add", "mod", "del"}, x \in Data :
        /\ HeldAs(i, {"epoll"}) /\ HeldAs(fd, {"file", "socket"})
        /\ elock[table[i]] = NoThread
        /\ elock' = [elock EXCEPT ![table[i]] = t]
        /\ LET ans == HostEpollCtl(table[i], fd, cmd) IN
            /\ reg' = ans.reg
            /\ ev' = [ev EXCEPT ![t] = [NoEv EXCEPT
                  !.e = table[i], !.cmd = cmd, !.data = x, !.rv = ans.rv]]
        /\ Goto(t, [Idle EXCEPT !.pc = "ctlMap", !.fd = fd, !.to = i])
  BY DEF CtlHost
<1>3. PICK ans, e : ans = HostEpollCtl(table[i], fd, cmd) /\ e = table[i]
  OBVIOUS
<1>4. /\ i \in Polls /\ e \in Descs /\ held[fd] # 0 /\ Holds(fd)
  BY <1>1, <1>2, <1>3, HeldObject DEF Polls, HeldAs, Holds
<1>5. PICK K : K = {r \in reg : /\ r.ep = held[i] /\ r.hfd = desc[table[fd]].hfd
                                /\ r.file = held[fd]}
  OBVIOUS
<1>6. reg' = ans.reg
  BY <1>2, <1>3
<1>7. \/ ans.rv # 0 /\ reg' = reg
      \/ /\ ans.rv = 0 /\ (cmd = "add" <=> K = {})
         /\ reg' = (reg \ K) \cup (IF cmd = "del" THEN {} ELSE {Key(i, fd)})
  BY <1>2, <1>3, <1>4, <1>5, <1>6, CtlAnswer
<1>8. PICK r : r = [Idle EXCEPT !.pc = "ctlMap", !.fd = fd, !.to = i]
  OBVIOUS
<1>9. r \in Calls /\ r.pc = "ctlMap" /\ r.fd = fd /\ r.to = i /\ r.d = NULL /\ r.n = NULL
  <2>1. i \in 0 .. IntMax
    BY SizeAssumption DEF Fds
  <2> QED BY <1>8, <2>1, IdleType DEF Calls, Pcs, Idle
<1>10. Moves(t) /\ op'[t] = r /\ op[t].pc = "idle"
  BY <1>1, <1>2, <1>8, <1>9, GotoMoves DEF Idle
<1>11. /\ \A u \in Threads \ {t} : ev'[u] = ev[u]
       /\ ev'[t].e = e /\ ev'[t].cmd = cmd /\ ev'[t].rv = ans.rv
  <2>1. ev' = [ev EXCEPT ![t] = [NoEv EXCEPT !.e = e, !.cmd = cmd, !.data = x, !.rv = ans.rv]]
    BY <1>2, <1>3
  <2> QED BY <1>1, <2>1 DEF NoEv
<1>12. elock'[e] = t /\ elock[e] = NoThread /\ \A d \in Descs \ {e} : elock'[d] = elock[d]
  BY <1>1, <1>2, <1>3, <1>4 DEF TypeOK
<1>13. /\ Polls' = Polls /\ \A f : Holds(f)' <=> Holds(f)
       /\ \A j, f : Key(j, f)' = Key(j, f) /\ FileMeaning'
  BY <1>1, SameNumbers DEF PollInv
<1>14. table' = table /\ desc' = desc /\ held' = held /\ dupd' = dupd /\ host' = host
  BY <1>1 DEF NumbersStay
<1>15. \A d : Mapped(d)' = Mapped(d)
  BY <1>1 DEF Mapped
<1>16. PICK k : k = Key(i, fd)
  OBVIOUS
<1>17. k.ep = held[i] /\ k.hfd = desc[table[fd]].hfd /\ k.file = held[fd] /\ k.fd = fd
  BY <1>16 DEF Key
<1>18. \A q \in reg' : q \in reg \/ (q = k /\ ans.rv = 0 /\ cmd # "del")
  BY <1>7, <1>16
<1>19. \A q \in reg : q \in reg' \/ (q \in K /\ ans.rv = 0)
  BY <1>7
<1>20. RegMeaning'
  <2>1. \E g, h \in Descs : host[g] = k.ep /\ host[h] = k.file
    <3>1. desc[table[i]].hfd \in Descs /\ host[desc[table[i]].hfd] = held[i]
      BY <1>4, PollFacts
    <3>2. desc[table[fd]].hfd \in Descs /\ host[desc[table[fd]].hfd] = held[fd]
      BY <1>1, <1>2, HeldObject
    <3> QED BY <1>17, <3>1, <3>2
  <2> QED BY <1>14, <1>18, <2>1 DEF PollInv, RegMeaning
<1>21. NewMeaning'
  <2>1. Objects(t) = {} /\ Objects(t)' = {}
    BY <1>1, <1>9, <1>10 DEF Objects, Idle
  <2>2. \A u \in Threads : Objects(u)' = Objects(u) /\ \A y \in Objects(u) : u # t
    BY <1>10, <2>1 DEF Moves, Objects
  <2>3. ASSUME NEW u \in Threads, NEW y \in Objects(u), op[u].pc # "undo", desc[y].kind = "epoll"
        PROVE  map[y] = <<>> /\ \A q \in reg' : q.ep # desc[y].file
    <3>1. desc[y].file # held[i]
      BY <1>4, <2>3, PollFacts
    <3>2. map[y] = <<>> /\ \A q \in reg : q.ep # desc[y].file
      BY <2>3 DEF PollInv, NewMeaning
    <3> QED BY <1>17, <1>18, <3>1, <3>2
  <2>4. \A u \in Threads : \A y \in Objects(u) : op'[u] = op[u]
    BY <1>10, <2>2 DEF Moves
  <2> QED BY <1>1, <1>14, <2>2, <2>3, <2>4 DEF PollInv, NewMeaning
<1>22. UniqueMeaning'
  BY <1>1 DEF PollInv, UniqueMeaning
<1>23. ASSUME NEW j \in Polls, NEW f \in Fds, held[f] # 0, Key(j, f) \in K PROVE j = i /\ f = fd
  <2>1. held[j] = held[i] /\ desc[table[f]].hfd = desc[table[fd]].hfd
    BY <1>5, <1>23 DEF Key
  <2> QED BY <1>1, <1>4, <1>23, <2>1, PollFacts, OwnDescriptor
<1>24. \A u \in Threads : (op[u].pc = "ctlMap" => u # t /\ op'[u] = op[u] /\ ev'[u] = ev[u])
  BY <1>10, <1>11 DEF Moves
<1>25. \A j, f, c : Pending(j, f, c) => Pending(j, f, c)'
  BY <1>24 DEF Pending
<1>26. \A c : ans.rv = 0 /\ cmd = c => Pending(i, fd, c)'
  BY <1>9, <1>10, <1>11 DEF Pending
<1>27. MappedMeaning'
  <2> SUFFICES ASSUME NEW j \in Polls, NEW f \in Mapped(table[j])
               PROVE  \/ Holds(f)' /\ (Key(j, f)' \in reg' \/ Pending(j, f, "del")')
                      \/ \E u \in Threads : ToTell(u, j, f)'
    BY <1>13, <1>14, <1>15 DEF MappedMeaning
  <2>1. CASE \E u \in Threads : ToTell(u, j, f)
    BY <1>10, <2>1 DEF ToTell, Moves
  <2>2. CASE Holds(f) /\ Pending(j, f, "del")
    BY <1>13, <1>25, <2>2
  <2>3. CASE Holds(f) /\ Key(j, f) \in reg
    <3>1. CASE Key(j, f) \in reg'
      BY <1>13, <2>3, <3>1
    <3>2. CASE Key(j, f) \notin reg'
      <4>1. Key(j, f) \in K /\ ans.rv = 0
        BY <1>19, <2>3, <3>2
      <4>2. f \in Fds
        <5>1. table[j] \in Descs
          BY PollFacts
        <5> QED BY <1>1, <5>1, MappedType
      <4>3. j = i /\ f = fd
        BY <1>23, <2>3, <4>1, <4>2 DEF Holds
      <4>4. cmd = "del"
        BY <1>7, <3>2, <4>1, <4>3
      <4> QED BY <1>13, <1>26, <2>3, <4>1, <4>3, <4>4
    <3> QED BY <3>1, <3>2
  <2> QED BY <2>1, <2>2, <2>3 DEF PollInv, MappedMeaning
<1>28. RegisteredMeaning'
  <2> SUFFICES ASSUME ~MapAllocFails, NEW j \in Polls, NEW q \in reg', q.ep = held[j], q.file \notin dupd
               PROVE  /\ Holds(q.fd) /\ q = Key(j, q.fd)
                      /\ q.fd \in Mapped(table[j]) \/ Pending(j, q.fd, "add")'
    BY <1>13, <1>14, <1>15 DEF RegisteredMeaning
  <2>1. CASE q \in reg
    BY <1>25, <2>1 DEF PollInv, RegisteredMeaning
  <2>2. CASE q \notin reg
    <3>1. q = k /\ ans.rv = 0 /\ cmd # "del"
      BY <1>18, <2>2
    <3>2. j = i
      BY <1>4, <1>17, <3>1, PollFacts
    <3>3. q = Key(j, q.fd) /\ Holds(q.fd) /\ q.fd = fd
      BY <1>4, <1>16, <1>17, <3>1, <3>2
    <3>4. CASE cmd = "add"
      BY <1>26, <3>1, <3>2, <3>3, <3>4
    <3>5. CASE cmd = "mod"
      <4>1. PICK p \in reg : p \in K
        BY <1>5, <1>7, <3>1, <3>5
      <4>2. p.ep = held[j] /\ p.file = held[fd] /\ p.hfd = desc[table[fd]].hfd /\ p.fd \in Fds
        BY <1>1, <1>5, <3>2, <4>1 DEF TypeOK
      <4>3. p.file \notin dupd
        BY <1>17, <3>1, <4>2
      <4>4. Holds(p.fd) /\ p = Key(j, p.fd)
        BY <4>2, <4>3 DEF PollInv, RegisteredMeaning
      <4>5. p.fd = fd
        BY <1>23, <4>1, <4>2, <4>4 DEF Holds
      <4> QED BY <1>16, <2>2, <3>1, <3>2, <4>1, <4>4, <4>5
    <3> QED BY <3>1, <3>4, <3>5
  <2> QED BY <2>1, <2>2
<1>29. CtlMeaning'
  <2>1. /\ ans.rv = 0 /\ cmd = "add" => fd \notin Mapped(e) /\ k \in reg'
        /\ ans.rv = 0 /\ cmd = "del" => k \notin reg'
    <3>1. k \in reg => k \in K
      BY <1>5, <1>17
    <3>2. ASSUME ans.rv = 0, cmd = "add" PROVE fd \notin Mapped(e) /\ k \in reg'
      <4>1. k \in reg' /\ K = {}
        BY <1>7, <1>16, <3>2
      <4>2. SUFFICES ASSUME fd \in Mapped(table[i]) PROVE FALSE
        BY <1>3, <4>1
      <4>3. CASE \E u \in Threads : ToTell(u, i, fd)
        <5>1. PICK u \in Threads : op[u].fd = fd /\ op[u].pc \in {"foreach", "visit"}
          BY <4>3 DEF ToTell
        <5>2. fd \in Slot(u)
          BY <5>1 DEF Slot, Closing
        <5> QED BY <1>4, <5>2 DEF IInv, CallMeaning, SlotOK
      <4>4. CASE Key(i, fd) \in reg
        BY <1>16, <3>1, <4>1, <4>4
      <4>5. CASE Pending(i, fd, "del")
        <5>1. PICK u \in Threads : op[u].pc = "ctlMap" /\ op[u].to = i
          BY <4>5 DEF Pending
        <5>2. elock[e] = u
          BY <1>3, <5>1 DEF PollInv, CtlMeaning
        <5> QED BY <1>12, <5>2, ThreadAssumption
      <4> QED BY <1>4, <4>2, <4>3, <4>4, <4>5 DEF PollInv, MappedMeaning
    <3>3. ASSUME ans.rv = 0, cmd = "del" PROVE k \notin reg'
      BY <1>7, <3>1, <3>3
    <3> QED BY <3>2, <3>3
  <2>2. ASSUME NEW u \in Threads, op[u].pc = "ctlMap"
        PROVE  /\ elock'[ev[u].e] = elock[ev[u].e]
               /\ Key(op[u].to, op[u].fd) \in reg' <=> Key(op[u].to, op[u].fd) \in reg
    <3>1. /\ op[u].to \in Polls /\ ev[u].e = table[op[u].to] /\ elock[ev[u].e] = u /\ ev[u].e \in Descs
      BY <2>2 DEF PollInv, CtlMeaning, IInv, EvMeaning
    <3>2. ev[u].e # e
      BY <1>12, <3>1, ThreadAssumption
    <3>3. held[op[u].to] # held[i]
      BY <1>3, <1>4, <3>1, <3>2, PollFacts
    <3>4. PICK w : w = Key(op[u].to, op[u].fd)
      OBVIOUS
    <3>5. w.ep # held[i]
      BY <3>3, <3>4 DEF Key
    <3>6. w \in reg' <=> w \in reg
      BY <1>5, <1>17, <1>18, <1>19, <3>5
    <3> QED BY <1>12, <3>1, <3>2, <3>4, <3>6
  <2>3. ASSUME NEW u \in Threads, op'[u].pc = "ctlMap", u # t
        PROVE  /\ op'[u].to \in Polls /\ Holds(op'[u].fd)
               /\ ev'[u].e = table[op'[u].to] /\ elock'[ev'[u].e] = u
               /\ ev'[u].rv = 0 /\ ev'[u].cmd = "add" =>
                     op'[u].fd \notin Mapped(ev'[u].e) /\ Key(op'[u].to, op'[u].fd) \in reg'
               /\ ev'[u].rv = 0 /\ ev'[u].cmd = "del" => Key(op'[u].to, op'[u].fd) \notin reg'
    <3>1. op'[u] = op[u] /\ ev'[u] = ev[u] /\ op[u].pc = "ctlMap"
      BY <1>10, <1>11, <2>3 DEF Moves
    <3> QED BY <2>2, <3>1 DEF PollInv, CtlMeaning
  <2>4. /\ op'[t].to \in Polls /\ Holds(op'[t].fd)
        /\ ev'[t].e = table[op'[t].to] /\ elock'[ev'[t].e] = t
        /\ ev'[t].rv = 0 /\ ev'[t].cmd = "add" =>
              op'[t].fd \notin Mapped(ev'[t].e) /\ Key(op'[t].to, op'[t].fd) \in reg'
        /\ ev'[t].rv = 0 /\ ev'[t].cmd = "del" => Key(op'[t].to, op'[t].fd) \notin reg'
    BY <1>3, <1>4, <1>9, <1>10, <1>11, <1>12, <1>16, <2>1
  <2> QED BY <1>13, <1>14, <1>15, <2>3, <2>4 DEF CtlMeaning
<1>30. VisitMeaning' /\ WaitMeaning'
  BY <1>1, <1>9, <1>10, <1>11 DEF PollInv, VisitMeaning, WaitMeaning, Moves
<1> QED BY <1>13, <1>20, <1>21, <1>22, <1>27, <1>28, <1>29, <1>30 DEF PollInv

(* How the map follows the host's answer. *)
LEMMA CtlMapMaps ==
  ASSUME IInv, PollInv, NEW t \in Threads, CtlMap(t),
         NEW e, e = ev[t].e, NEW fd, fd = op[t].fd
  PROVE  /\ \A d \in Descs \ {e} : map'[d] = map[d]
         /\ Once(map'[e])
         /\ \/ ev[t].rv # 0 /\ Numbers(map'[e]) = Numbers(map[e])
            \/ /\ ev[t].rv = 0 /\ ev[t].cmd = "add"
               /\ \/ Numbers(map'[e]) = Numbers(map[e]) \cup {fd}
                  \/ MapAllocFails /\ Numbers(map'[e]) = Numbers(map[e])
            \/ ev[t].rv = 0 /\ ev[t].cmd = "mod" /\ Numbers(map'[e]) = Numbers(map[e])
            \/ ev[t].rv = 0 /\ ev[t].cmd = "del" /\ Numbers(map'[e]) = Numbers(map[e]) \ {fd}
<1>1. op[t].pc = "ctlMap" /\ TypeOK /\ EvMeaning
  BY DEF IInv, CtlMap
<1>2. PICK m, x : m = map[e] /\ x = [fd |-> fd, data |-> ev[t].data]
  OBVIOUS
<1>3. /\ e \in Descs /\ m \in Seq(Mappings) /\ fd \in Fds /\ x \in Mappings /\ x.fd = fd
      /\ ev[t].cmd \in {"add", "mod", "del"} /\ DOMAIN map = Descs
  BY <1>1, <1>2 DEF EvMeaning, TypeOK, Mappings
<1>4. Once(m)
  BY <1>2, <1>3 DEF PollInv, UniqueMeaning, Once
<1>5. PICK full \in {FALSE, MapAllocFails} :
          map' = [map EXCEPT ![e] =
            IF ev[t].rv # 0 THEN m
            ELSE CASE ev[t].cmd = "add" -> IF full THEN m ELSE Append(m, x)
                   [] ev[t].cmd = "mod" ->
                        [i \in DOMAIN m |-> IF i = First(m, fd)
                                            THEN [m[i] EXCEPT !.data = ev[t].data] ELSE m[i]]
                   [] ev[t].cmd = "del" -> Without(m, fd)]
  BY <1>2 DEF CtlMap
<1>6. \A d \in Descs \ {e} : map'[d] = map[d]
  BY <1>3, <1>5
<1>7. CASE ev[t].rv # 0
  <2>1. map'[e] = m
    BY <1>3, <1>5, <1>7
  <2> QED BY <1>2, <1>4, <1>6, <1>7, <2>1
<1>8. CASE ev[t].rv = 0 /\ ev[t].cmd = "add"
  <2>1. CASE full
    <3>1. map'[e] = m /\ MapAllocFails
      BY <1>3, <1>5, <1>8, <2>1
    <3> QED BY <1>2, <1>4, <1>6, <1>8, <3>1
  <2>2. CASE ~full
    <3>1. map'[e] = Append(m, x)
      BY <1>3, <1>5, <1>8, <2>2
    <3>2. fd \notin Mapped(e)
      BY <1>1, <1>8 DEF PollInv, CtlMeaning
    <3>3. fd \notin Numbers(m)
      BY <1>2, <3>2 DEF Mapped, Numbers
    <3>4. Numbers(map'[e]) = Numbers(m) \cup {fd} /\ Once(map'[e])
      BY <1>3, <1>4, <3>1, <3>3, AppendAdds
    <3> QED BY <1>2, <1>6, <1>8, <3>4
  <2> QED BY <2>1, <2>2
<1>9. CASE ev[t].rv = 0 /\ ev[t].cmd = "mod"
  <2>1. PICK q : q = [i \in DOMAIN m |-> IF i = First(m, fd)
                                         THEN [m[i] EXCEPT !.data = ev[t].data] ELSE m[i]]
    OBVIOUS
  <2>2. map'[e] = q
    BY <1>3, <1>5, <1>9, <2>1
  <2>3. DOMAIN q = DOMAIN m /\ \A i \in DOMAIN m : q[i].fd = m[i].fd
    <3>1. ASSUME NEW i \in DOMAIN m PROVE q[i].fd = m[i].fd
      <4>1. m[i] \in Mappings
        BY <1>3
      <4>2. [m[i] EXCEPT !.data = ev[t].data].fd = m[i].fd
        BY <4>1 DEF Mappings
      <4> QED BY <2>1, <4>2
    <3> QED BY <2>1, <3>1
  <2>4. Numbers(q) = Numbers(m) /\ Once(q)
    BY <1>4, <2>3 DEF Numbers, Once
  <2> QED BY <1>2, <1>6, <1>9, <2>2, <2>4
<1>10. CASE ev[t].rv = 0 /\ ev[t].cmd = "del"
  <2>1. map'[e] = Without(m, fd)
    BY <1>3, <1>5, <1>10
  <2> QED BY <1>2, <1>3, <1>4, <1>6, <1>10, <2>1, WithoutRemoves
<1> QED BY <1>3, <1>7, <1>8, <1>9, <1>10

(* oe_epoll_ctl, the second half: the map catches up. *)
LEMMA CtlMapPolls ==
  ASSUME IInv, PollInv, IInv', NEW t \in Threads, CtlMap(t) PROVE PollInv'
<1>1. /\ op[t].pc = "ctlMap" /\ TypeOK /\ EvMeaning /\ NumbersStay /\ fdlock' = fdlock /\ reg' = reg
  BY DEF IInv, CtlMap, NumbersStay, hostVars, ghostVars
<1>2. PICK e, i, fd, cmd, rv :
        e = ev[t].e /\ i = op[t].to /\ fd = op[t].fd /\ cmd = ev[t].cmd /\ rv = ev[t].rv
  OBVIOUS
<1>3. /\ i \in Polls /\ Holds(fd) /\ e = table[i] /\ elock[e] = t /\ e \in Descs
      /\ rv = 0 /\ cmd = "add" => fd \notin Mapped(e) /\ Key(i, fd) \in reg
      /\ rv = 0 /\ cmd = "del" => Key(i, fd) \notin reg
  BY <1>1, <1>2 DEF PollInv, CtlMeaning, EvMeaning
<1>4. Moves(t) /\ op'[t] = Idle
  BY <1>1, IdleType, GotoMoves DEF CtlMap, Return
<1>5. op'[t].pc = "idle" /\ Objects(t)' = {} /\ \A u \in Threads \ {t} : op'[u] = op[u]
  BY <1>4 DEF Idle, Objects, Moves
<1>6. \A u \in Threads \ {t} : ev'[u] = ev[u]
  BY <1>1 DEF CtlMap, EvMeaning
<1>7. \A d \in Descs \ {e} : elock'[d] = elock[d]
  BY <1>1, <1>2 DEF CtlMap, TypeOK
<1>8. /\ Polls' = Polls /\ \A f : Holds(f)' <=> Holds(f)
      /\ \A j, f : Key(j, f)' = Key(j, f) /\ FileMeaning' /\ RegMeaning'
  BY <1>1, SameNumbers DEF PollInv
<1>9. table' = table /\ desc' = desc /\ held' = held /\ dupd' = dupd
  BY <1>1 DEF NumbersStay
<1>10. /\ \A d \in Descs \ {e} : map'[d] = map[d]
       /\ Once(map'[e])
       /\ \/ rv # 0 /\ Mapped(e)' = Mapped(e)
          \/ /\ rv = 0 /\ cmd = "add"
             /\ \/ Mapped(e)' = Mapped(e) \cup {fd}
                \/ MapAllocFails /\ Mapped(e)' = Mapped(e)
          \/ rv = 0 /\ cmd = "mod" /\ Mapped(e)' = Mapped(e)
          \/ rv = 0 /\ cmd = "del" /\ Mapped(e)' = Mapped(e) \ {fd}
  <2>1. Mapped(e) = Numbers(map[e]) /\ Mapped(e)' = Numbers(map'[e])
    BY DEF Mapped, Numbers
  <2> QED BY <1>2, <2>1, CtlMapMaps
<1>11. \A d \in Descs \ {e} : Mapped(d)' = Mapped(d)
  BY <1>10 DEF Mapped
<1>12. ASSUME NEW j \in Polls, j # i
       PROVE  table[j] \in Descs /\ table[j] # e /\ Mapped(table[j])' = Mapped(table[j])
  <2>1. table[j] \in Descs /\ table[j] # e
    BY <1>3, <1>12, PollFacts
  <2>2. Mapped(table[j])' = Mapped(table[j])
    BY <1>9, <1>10, <2>1 DEF Mapped
  <2> QED BY <2>1, <2>2
<1>13. Mapped(table[i])' = Mapped(e)'
  BY <1>3, <1>9
<1>14. ASSUME NEW u \in Threads, u # t, op[u].pc = "ctlMap"
       PROVE  ev[u].e # e /\ op[u].to # i /\ ev[u].e \in Descs
  BY <1>1, <1>3, <1>14 DEF PollInv, CtlMeaning, EvMeaning
<1>15. ASSUME NEW j \in Polls, NEW f, NEW c, Pending(j, f, c), j # i \/ f # fd \/ c # cmd \/ rv # 0
       PROVE  Pending(j, f, c)'
  <2>1. PICK u \in Threads : /\ op[u].pc = "ctlMap" /\ op[u].to = j /\ op[u].fd = f
                             /\ ev[u].cmd = c /\ ev[u].rv = 0
    BY <1>15 DEF Pending
  <2>2. u # t
    BY <1>2, <1>15, <2>1
  <2> QED BY <1>5, <1>6, <2>1, <2>2 DEF Pending
<1>16. UniqueMeaning'
  BY <1>10 DEF PollInv, UniqueMeaning, Once
<1>17. NewMeaning'
  <2>1. \A u \in Threads \ {t} : Objects(u)' = Objects(u)
    BY <1>5 DEF Objects
  <2>2. \A u \in Threads : \A x \in Objects(u) : x \in Descs /\ x # e
    BY <1>3, PollFacts, References DEF IInv
  <2>3. desc[e].st # "none"
    BY <1>3, PollFacts DEF EpollDescs
  <2> QED BY <1>1, <1>5, <1>9, <1>10, <2>1, <2>2, <2>3 DEF PollInv, NewMeaning
<1>18. MappedMeaning'
  <2> SUFFICES ASSUME NEW j \in Polls, NEW f \in Mapped(table[j])'
               PROVE  \/ Holds(f) /\ (Key(j, f) \in reg \/ Pending(j, f, "del")')
                      \/ \E u \in Threads : ToTell(u, j, f)'
    BY <1>1, <1>8 DEF MappedMeaning
  <2>1. CASE f \in Mapped(table[j])
    <3>1. CASE \E u \in Threads : ToTell(u, j, f)
      BY <1>1, <1>5, <3>1 DEF ToTell
    <3>2. CASE Holds(f) /\ Key(j, f) \in reg
      BY <3>2
    <3>3. CASE Holds(f) /\ Pending(j, f, "del")
      <4>1. CASE j # i \/ f # fd \/ cmd # "del" \/ rv # 0
        BY <1>15, <3>3, <4>1
      <4>2. CASE j = i /\ f = fd /\ cmd = "del" /\ rv = 0
        <5>1. Mapped(e)' = Mapped(e) \ {fd}
          BY <1>10, <4>2
        <5> QED BY <1>13, <4>2, <5>1
      <4> QED BY <4>1, <4>2
    <3> QED BY <2>1, <3>1, <3>2, <3>3 DEF PollInv, MappedMeaning
  <2>2. CASE f \notin Mapped(table[j])
    <3>1. j = i
      BY <1>12, <2>2
    <3>2. f \in Mapped(e)' /\ f \notin Mapped(e)
      BY <1>3, <1>13, <2>2, <3>1
    <3>3. rv = 0 /\ cmd = "add" /\ f = fd
      BY <1>10, <3>2
    <3> QED BY <1>3, <3>1, <3>3
  <2> QED BY <2>1, <2>2
<1>19. RegisteredMeaning'
  <2> SUFFICES ASSUME ~MapAllocFails, NEW j \in Polls, NEW q \in reg, q.ep = held[j], q.file \notin dupd
               PROVE  /\ Holds(q.fd) /\ q = Key(j, q.fd)
                      /\ q.fd \in Mapped(table[j])' \/ Pending(j, q.fd, "add")'
    BY <1>1, <1>8, <1>9 DEF RegisteredMeaning
  <2>1. /\ Holds(q.fd) /\ q = Key(j, q.fd)
        /\ q.fd \in Mapped(table[j]) \/ Pending(j, q.fd, "add")
    BY DEF PollInv, RegisteredMeaning
  <2>2. CASE j # i
    BY <1>12, <1>15, <2>1, <2>2
  <2>3. CASE j = i /\ q.fd \in Mapped(table[j])
    <3>1. rv = 0 /\ cmd = "del" => q.fd # fd
      BY <1>3, <2>1, <2>3
    <3>2. q.fd \in Mapped(e)
      BY <1>3, <2>3
    <3>3. q.fd \in Mapped(e)'
      BY <1>10, <3>1, <3>2
    <3> QED BY <1>13, <2>1, <2>3, <3>3
  <2>4. CASE j = i /\ Pending(j, q.fd, "add")
    <3>1. CASE q.fd # fd \/ cmd # "add" \/ rv # 0
      BY <1>15, <2>1, <2>4, <3>1
    <3>2. CASE q.fd = fd /\ cmd = "add" /\ rv = 0
      BY <1>10, <1>13, <2>1, <2>4, <3>2
    <3> QED BY <3>1, <3>2
  <2> QED BY <2>1, <2>2, <2>3, <2>4
<1>20. CtlMeaning'
  <2>1. ASSUME NEW u \in Threads, op'[u].pc = "ctlMap"
        PROVE  /\ op'[u].to \in Polls /\ Holds(op'[u].fd)
               /\ ev'[u].e = table[op'[u].to] /\ elock'[ev'[u].e] = u
               /\ ev'[u].rv = 0 /\ ev'[u].cmd = "add" =>
                     op'[u].fd \notin Mapped(ev[u].e)' /\ Key(op'[u].to, op'[u].fd) \in reg
               /\ ev'[u].rv = 0 /\ ev'[u].cmd = "del" => Key(op'[u].to, op'[u].fd) \notin reg
    <3>1. u # t /\ op'[u] = op[u] /\ ev'[u] = ev[u] /\ op[u].pc = "ctlMap"
      BY <1>5, <1>6, <2>1
    <3>2. ev[u].e # e /\ ev[u].e \in Descs
      BY <1>14, <3>1
    <3>3. elock'[ev[u].e] = elock[ev[u].e] /\ Mapped(ev[u].e)' = Mapped(ev[u].e)
      BY <1>7, <1>11, <3>1, <3>2
    <3> QED BY <3>1, <3>3 DEF PollInv, CtlMeaning
  <2> QED BY <1>1, <1>8, <1>9, <2>1 DEF CtlMeaning
<1>21. VisitMeaning' /\ WaitMeaning'
  BY <1>1, <1>5, <1>6 DEF PollInv, VisitMeaning, WaitMeaning
<1> QED BY <1>8, <1>16, <1>17, <1>18, <1>19, <1>20, <1>21 DEF PollInv

(* At the start there is nothing. *)
LEMMA InitPollInv ==
  Init => PollInv
<1> SUFFICES ASSUME Init PROVE PollInv
  OBVIOUS
<1>1. /\ \A h \in Descs : host[h] = 0 /\ desc[h].st = "none" /\ map[h] = <<>>
      /\ reg = {} /\ dupd = {} /\ \A fd \in Fds : held[fd] = 0
      /\ \A t \in Threads : op[t].pc = "idle" /\ Objects(t) = {}
  BY DEF Init, Idle, Objects
<1>2. Polls = {} /\ EpollDescs = {}
  BY <1>1 DEF Polls, Holds, EpollDescs
<1>3. FileMeaning /\ RegMeaning /\ NewMeaning /\ UniqueMeaning
  BY <1>1, <1>2 DEF FileMeaning, RegMeaning, NewMeaning, UniqueMeaning
<1> QED BY <1>1, <1>2, <1>3 DEF PollInv, MappedMeaning, RegisteredMeaning, CtlMeaning,
        VisitMeaning, WaitMeaning

(* Every step of a thread. *)
LEMMA StepPollInv ==
  ASSUME IInv, PollInv, IInv', NEW t \in Threads, Step(t)
  PROVE  PollInv'
<1>1. CASE Fd(InitializeFails(t))
  BY <1>1, InitializeFailsPolls
<1>2. CASE Fd(Open(t)) \/ Fd(SocketPair(t)) \/ Fd(Accept(t)) \/ Fd(AcceptTruncated(t)) \/ Fd(Dup(t))
  BY <1>2, OpenPolls, SocketPairPolls, AcceptPolls, AcceptTruncatedPolls, DupPolls
<1>3. CASE Fd(Assign(t)) \/ Fd(AssignFails(t)) \/ Fd(Assign2(t)) \/ Fd(Assign2Fails(t))
  BY <1>3, AssignPolls, AssignFailsPolls, Assign2Polls, Assign2FailsPolls
<1>4. CASE Fd(Undo(t)) \/ Fd(UndoFails(t)) \/ Fd(Reassign(t)) \/ Fd(ReassignFails(t))
  BY <1>4, UndoPolls, UndoFailsPolls, ReassignPolls, ReassignFailsPolls
<1>5. CASE \E to \in Fds : NotRegistered(to) /\ Fd(Dup2(t, to))
  BY <1>5, Dup2Polls
<1>6. CASE Fd(Close(t)) \/ Fd(Release(t)) \/ ForeachLock(t) \/ Visit(t) \/ ForeachUnlock(t)
  BY <1>6, ClosePolls, ReleasePolls, ForeachLockPolls, VisitPolls, ForeachUnlockPolls
<1>7. CASE CtlHost(t) \/ CtlMap(t) \/ WaitHost(t) \/ WaitLock(t)
  BY <1>7, CtlHostPolls, CtlMapPolls, WaitHostPolls, WaitLockPolls
<1> QED BY <1>1, <1>2, <1>3, <1>4, <1>5, <1>6, <1>7 DEF Step

(* Every step. *)
LEMMA NextPollInv ==
  ASSUME IInv, PollInv, IInv', [Next]_vars
  PROVE  PollInv'
<1>1. CASE Fd(Initialize)
  BY <1>1, InitializePolls
<1>2. CASE \E t \in Threads : Step(t)
  BY <1>2, StepPollInv
<1>3. CASE UNCHANGED vars
  <2>1. /\ NumbersStay /\ UNCHANGED <<fdlock, reg, map, elock, op, ev>>
    BY <1>3 DEF vars, fdVars, epVars, hostVars, ghostVars, NumbersStay
  <2>2. /\ Polls' = Polls /\ \A f : Holds(f)' <=> Holds(f)
        /\ \A j, f : Key(j, f)' = Key(j, f) /\ FileMeaning' /\ RegMeaning'
    BY <2>1, SameNumbers DEF PollInv
  <2>3. table' = table /\ desc' = desc /\ held' = held /\ dupd' = dupd
    BY <2>1 DEF NumbersStay
  <2>4. /\ \A u \in Threads : Objects(u)' = Objects(u)
        /\ \A e : Mapped(e)' = Mapped(e)
        /\ \A j, f, c : Pending(j, f, c)' <=> Pending(j, f, c)
        /\ \A u, j, f : ToTell(u, j, f)' <=> ToTell(u, j, f)
    BY <2>1 DEF Objects, Mapped, Pending, ToTell
  <2>5. NewMeaning' /\ UniqueMeaning' /\ VisitMeaning' /\ WaitMeaning'
    BY <2>1, <2>3, <2>4 DEF PollInv, NewMeaning, UniqueMeaning, VisitMeaning, WaitMeaning
  <2>6. MappedMeaning'
    BY <2>1, <2>2, <2>3, <2>4 DEF PollInv, MappedMeaning
  <2>7. RegisteredMeaning'
    BY <2>1, <2>2, <2>3, <2>4 DEF PollInv, RegisteredMeaning
  <2>8. CtlMeaning'
    BY <2>1, <2>2, <2>3, <2>4 DEF PollInv, CtlMeaning
  <2> QED BY <2>2, <2>5, <2>6, <2>7, <2>8 DEF PollInv
<1> QED BY <1>1, <1>2, <1>3 DEF Next

(* Maps and registrations in every reachable state, whether or not           *)
(* _map_reserve runs out of memory: no number is mapped twice; a number      *)
(* mapped in an epoll object the client holds is registered on the host, or  *)
(* the oe_epoll_ctl that removes it has yet to update the map, or the        *)
(* oe_close of the number has yet to tell the object.                        *)
THEOREM PollInvariance ==
  Spec => []PollInv
<1>1. IInv /\ PollInv /\ [Next]_vars => IInv' /\ PollInv'
  BY NextIInv, NextPollInv
<1>2. Init => IInv /\ PollInv
  BY InitIInv, InitPollInv
<1> QED BY <1>1, <1>2, PTL DEF Spec

(* What a mapping is worth, without the hypothesis of the next theorem: for   *)
(* a settled epoll object a number the client holds is mapped once at most,   *)
(* and if it is, the host has it registered with the descriptor and the file  *)
(* it denotes now, also when the file has several descriptors; and the events *)
(* that oe_epoll_wait hands out are the mapped ones.                          *)
MappingsTrue ==
    /\ \A e \in Descs : Settled(e) =>
         \A fd \in Fds : Holds(fd) =>
             /\ \A j, k \in DOMAIN map[e] : map[e][j].fd = fd /\ map[e][k].fd = fd => j = k
             /\ fd \in Mapped(e) =>
                   \E r \in RegsOf(e) : /\ r.fd = fd /\ r.file = held[fd]
                                        /\ r.hfd = desc[table[fd]].hfd
    /\ \A t \in Threads : op[t].pc = "waitLock" =>
         LET out == Compact(ev[t].e, ev[t].events) IN
         /\ ToSet(out) = ToSet(ev[t].events) \cap Mapped(ev[t].e)
         /\ Len(out) = Cardinality(ToSet(out))

(* Outside its mutex, nothing is about to change what an object has for a    *)
(* number the client holds.                                                  *)
LEMMA NothingPending ==
  ASSUME IInv, PollInv, NEW e \in Descs, Settled(e), NEW fd \in Fds, Holds(fd)
  PROVE  \E i \in Polls : /\ table[i] = e /\ held[i] = host[desc[e].hfd]
                           /\ \A c : ~Pending(i, fd, c)
                           /\ \A u \in Threads : ~ToTell(u, i, fd)
<1>1. PICK i \in DOMAIN table : table[i] = e /\ Holds(i)
  BY DEF Settled
<1>2. i \in Fds /\ i \in Polls /\ elock[e] = NoThread
  BY <1>1 DEF Settled, EpollDescs, Polls, IInv, TypeOK
<1>3. held[i] = host[desc[e].hfd]
  BY <1>1, <1>2, PollFacts
<1>4. \A c : ~Pending(i, fd, c)
  <2>1. SUFFICES ASSUME NEW c, Pending(i, fd, c) PROVE FALSE
    OBVIOUS
  <2>2. PICK u \in Threads : op[u].pc = "ctlMap" /\ op[u].to = i
    BY <2>1 DEF Pending
  <2>3. elock[e] = u
    BY <1>1, <2>2 DEF PollInv, CtlMeaning
  <2> QED BY <1>2, <2>3, ThreadAssumption
<1>5. \A u \in Threads : ~ToTell(u, i, fd)
  <2>1. SUFFICES ASSUME NEW u \in Threads, ToTell(u, i, fd) PROVE FALSE
    OBVIOUS
  <2>2. fd \in Slot(u)
    BY <2>1 DEF ToTell, Slot, Closing
  <2> QED BY <2>2 DEF Holds, IInv, CallMeaning, SlotOK
<1> QED BY <1>1, <1>2, <1>3, <1>4, <1>5

(* The events that oe_epoll_wait hands out. *)
LEMMA EventsMapped ==
  ASSUME PollInv, NEW t \in Threads, op[t].pc = "waitLock",
         NEW out, out = Compact(ev[t].e, ev[t].events)
  PROVE  /\ ToSet(out) = ToSet(ev[t].events) \cap Mapped(ev[t].e)
         /\ Len(out) = Cardinality(ToSet(out))
BY CompactKeepsMapped DEF PollInv, WaitMeaning

(* A mapping of a number the client holds is the trace of a registration of  *)
(* that very number, whether or not _map_reserve runs out of memory.         *)
THEOREM MappingsRegistered ==
  Spec => []MappingsTrue
<1>1. ASSUME IInv, PollInv PROVE MappingsTrue
  <2>1. ASSUME NEW e \in Descs, Settled(e), NEW fd \in Fds, Holds(fd), fd \in Mapped(e)
        PROVE  \E r \in RegsOf(e) : /\ r.fd = fd /\ r.file = held[fd]
                                     /\ r.hfd = desc[table[fd]].hfd
    <3>1. PICK i \in Polls : /\ table[i] = e /\ held[i] = host[desc[e].hfd]
                             /\ \A c : ~Pending(i, fd, c)
                             /\ \A u \in Threads : ~ToTell(u, i, fd)
      BY <1>1, <2>1, NothingPending
    <3>2. Key(i, fd) \in reg
      BY <1>1, <2>1, <3>1 DEF PollInv, MappedMeaning
    <3>3. /\ Key(i, fd).ep = held[i] /\ Key(i, fd).fd = fd /\ Key(i, fd).file = held[fd]
          /\ Key(i, fd).hfd = desc[table[fd]].hfd
      BY DEF Key
    <3> QED BY <3>1, <3>2, <3>3 DEF RegsOf
  <2>2. \A e \in Descs : \A j, k \in DOMAIN map[e] : map[e][j].fd = map[e][k].fd => j = k
    BY <1>1 DEF PollInv, UniqueMeaning
  <2> QED BY <1>1, <2>1, <2>2, EventsMapped DEF MappingsTrue
<1> QED BY <1>1, Invariance, PollInvariance, PTL

(* From the two invariants, the property. *)
LEMMA MapsMatch ==
  ASSUME IInv, PollInv, ~MapAllocFails
  PROVE  MapMatchesHost
<1>1. ASSUME NEW e \in Descs, Settled(e), NEW fd \in Fds, Holds(fd), held[fd] \notin dupd,
             NEW regs, regs = {r \in RegsOf(e) : r.fd = fd /\ r.file \notin dupd},
             NEW maps, maps = {i \in DOMAIN map[e] : map[e][i].fd = fd}
      PROVE  /\ Cardinality(maps) = Cardinality(regs)
             /\ Cardinality(maps) <= 1
             /\ \A r \in regs : r.file = held[fd]
  <2>1. PICK i \in Polls : /\ table[i] = e /\ held[i] = host[desc[e].hfd]
                           /\ \A c : ~Pending(i, fd, c)
                           /\ \A u \in Threads : ~ToTell(u, i, fd)
    BY <1>1, NothingPending
  <2>2. ASSUME NEW r \in regs PROVE r = Key(i, fd) /\ fd \in Mapped(e)
    <3>1. r \in reg /\ r.ep = held[i] /\ r.file \notin dupd /\ r.fd = fd
      BY <1>1, <2>1 DEF RegsOf
    <3> QED BY <1>1, <2>1, <3>1 DEF PollInv, RegisteredMeaning
  <2>3. fd \in Mapped(e) => Key(i, fd) \in regs
    <3>1. ASSUME fd \in Mapped(e) PROVE Key(i, fd) \in regs
      <4>1. Key(i, fd) \in reg
        BY <1>1, <2>1, <3>1 DEF PollInv, MappedMeaning
      <4>2. Key(i, fd).ep = held[i] /\ Key(i, fd).fd = fd /\ Key(i, fd).file = held[fd]
        BY DEF Key
      <4> QED BY <1>1, <2>1, <4>1, <4>2 DEF RegsOf
    <3> QED BY <3>1
  <2>4. \A r \in regs : r.file = held[fd]
    BY <2>2 DEF Key
  <2>5. \A j, k \in maps : j = k
    BY <1>1 DEF PollInv, UniqueMeaning
  <2>6. CASE fd \in Mapped(e)
    <3>1. PICK j : j \in maps
      BY <1>1, <2>6 DEF Mapped
    <3>2. maps = {j} /\ regs = {Key(i, fd)}
      BY <2>2, <2>3, <2>5, <2>6, <3>1
    <3>3. Cardinality(maps) = 1 /\ Cardinality(regs) = 1
      BY <3>2, FS_Singleton
    <3> QED BY <2>4, <3>3
  <2>7. CASE fd \notin Mapped(e)
    <3>1. maps = {} /\ regs = {}
      BY <1>1, <2>2, <2>7 DEF Mapped
    <3>2. Cardinality(maps) = 0 /\ Cardinality(regs) = 0
      BY <3>1, FS_EmptySet
    <3> QED BY <2>4, <3>2
  <2> QED BY <2>6, <2>7
<1>2. ASSUME NEW t \in Threads, op[t].pc = "waitLock", NEW out, out = Compact(ev[t].e, ev[t].events)
      PROVE  /\ ToSet(out) = ToSet(ev[t].events) \cap Mapped(ev[t].e)
             /\ Len(out) = Cardinality(ToSet(out))
  BY <1>2, EventsMapped
<1> QED BY <1>1, <1>2 DEF MapMatchesHost

(* Outside the epoll mutex a number the client holds has one mapping in the  *)
(* enclave exactly if it has a registration on the host, whatever oe_close,  *)
(* oe_dup2, oe_epoll_ctl and oe_epoll_wait of other threads do, and          *)
(* oe_epoll_wait hands out exactly the events whose number is still mapped,  *)
(* each once. The hypothesis says that _map_reserve gets its memory: when it *)
(* does not, _epoll_ctl_add returns an error with the registration already   *)
(* made, and the first half is false.                                        *)
THEOREM MapsMatchHost ==
  ASSUME ~MapAllocFails
  PROVE  Spec => []MapMatchesHost
BY Invariance, PollInvariance, MapsMatch, PTL

=============================================================================
