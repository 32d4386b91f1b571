------------------------------ MODULE EcallIds ------------------------------
(* How the host finds an ecall's number in an enclave (host/ecall_ids.c).     *)
(* Every ecall name gets a process-wide id when an enclave that has it is     *)
(* created or a stub first calls it; the stub caches the id in a variable of  *)
(* its own, and each enclave has a table from these ids to its own numbers.   *)
(* The table of names is used under a mutex, the cached ids are not. An       *)
(* out-of-memory error while the table of names grows leaves a null pointer   *)
(* with the old size behind; what the next call does with it is undefined,    *)
(* and a behaviour ends there.                                                *)
EXTENDS Naturals, Sequences, FiniteSets, SequencesExt

CONSTANTS
  Callers,           \* host threads that make ecalls
  Interfaces,        \* enclave -> the names of its ecalls, in their order
  Stubs,             \* stub -> the name it calls
  InitialCapacity    \* OE_ECALL_TABLE_INITIAL_SIZE

ASSUME EcallIdsAssumption ==
  /\ InitialCapacity \in Nat \ {0}
  /\ \A e \in DOMAIN Interfaces : Interfaces[e] \in Seq(STRING) \ {<<>>}
  /\ \A s \in DOMAIN Stubs : Stubs[s] \in STRING

VARIABLES
  _ecall_table,      \* the names, in the order of their global ids
  capacity,          \* _ecall_table_capacity
  lost,              \* the table of names could not be grown
  created,           \* enclaves whose creation is past oe_register_ecalls
  idTable,           \* enclave -> its ecall_id_table
  globalId,          \* stub -> its global_id variable
  ask                \* caller -> the lookup it is in

idVars == <<_ecall_table, capacity, lost, created, idTable, globalId, ask>>

\* Ids count from 1 here, and 0 is OE_ECALL_ID_NULL and OE_GLOBAL_ECALL_ID_NULL.
NullId == 0

NoAsk == [pc |-> "idle"]

\* Nothing happens in a behaviour it is not enabled in.
EcallIdsInit(enabled) ==
  /\ _ecall_table = <<>> /\ capacity = 0 /\ lost = ~enabled /\ created = {}
  /\ idTable = [e \in DOMAIN Interfaces |-> <<>>]
  /\ globalId = [s \in DOMAIN Stubs |-> NullId]
  /\ ask = [c \in Callers |-> NoAsk]

IndexIn(names, name) == CHOOSE i \in DOMAIN names : names[i] = name

\* _get_global_id on a table [names, cap, ok] for a name that has no id yet;
\* grows is that there is memory when the table is full.
_get_global_id(t, name, grows) ==
  IF ~t.ok \/ name \in ToSet(t.names) THEN t
  ELSE IF Len(t.names) < t.cap THEN [t EXCEPT !.names = Append(@, name)]
  ELSE IF grows
  THEN [t EXCEPT !.names = Append(@, name), !.cap = IF @ = 0 THEN InitialCapacity ELSE 2 * @]
  ELSE [t EXCEPT !.ok = FALSE]

NameTable == [names |-> _ecall_table, cap |-> capacity, ok |-> TRUE]

NamesBecome(t) ==
  /\ _ecall_table' = t.names
  /\ capacity' = t.cap
  /\ lost' = ~t.ok

\* The enclave's table in the order of its own interface.
TableInOrder(names, interface) == [i \in DOMAIN interface |-> i]

\* The second and third loop of oe_register_ecalls: from global ids to numbers,
\* as long as the largest global id of the enclave demands.
TableOf(names, interface) ==
  LET ids == {IndexIn(names, interface[i]) : i \in DOMAIN interface}
      size == CHOOSE n \in ids : \A m \in ids : m <= n
  IN  [g \in 1 .. size |->
         IF g \in ids THEN IndexIn(interface, names[g]) ELSE NullId]

\* oe_register_ecalls, once in the creation of an enclave. It holds the mutex
\* throughout; there may be no memory for a name, or for the enclave's table,
\* and oe_create_enclave does not look at the result.
oe_register_ecalls(e) ==
  /\ ~lost /\ e \notin created
  /\ created' = created \cup {e}
  /\ \E fails \in 0 .. Len(Interfaces[e]), stored \in BOOLEAN :
       LET f[k \in 0 .. Len(Interfaces[e])] ==
             IF k = 0 THEN NameTable ELSE _get_global_id(f[k - 1], Interfaces[e][k], k # fails)
           t == f[Len(Interfaces[e])]
       IN  /\ NamesBecome(t)
           /\ idTable' = IF t.ok /\ stored
                         THEN [idTable EXCEPT ![e] = TableOf(t.names, Interfaces[e])] ELSE idTable
  /\ UNCHANGED <<globalId, ask>>

\* oe_get_ecall_ids up to the check of the cached id.
StartLookup(c, e, s) ==
  /\ ~lost /\ ask[c].pc = "idle" /\ e \in created
  /\ ask' = [ask EXCEPT ![c] = [pc |-> IF globalId[s] = NullId THEN "assign" ELSE "look",
                                e |-> e, s |-> s]]
  /\ UNCHANGED <<_ecall_table, capacity, lost, created, idTable, globalId>>

\* oe_get_global_id, which writes the stub's variable under the mutex.
oe_get_global_id(c) ==
  /\ ~lost /\ ask[c].pc = "assign"
  /\ LET s == ask[c].s IN
       \E grows \in BOOLEAN :
         LET t == _get_global_id(NameTable, Stubs[s], grows) IN
           /\ NamesBecome(t)
           /\ globalId' = IF t.ok THEN [globalId EXCEPT ![s] = IndexIn(t.names, Stubs[s])] ELSE globalId
           /\ ask' = [ask EXCEPT ![c].pc = IF t.ok THEN "look" ELSE "idle"]
  /\ UNCHANGED <<created, idTable>>

\* The rest of oe_get_ecall_ids: OE_NOT_FOUND, or the enclave's own number.
oe_get_ecall_ids(c) ==
  /\ ~lost /\ ask[c].pc = "look"
  /\ LET table == idTable[ask[c].e]
         g == globalId[ask[c].s]
     IN  ask' = [ask EXCEPT ![c] = [pc |-> "found", e |-> @.e, s |-> @.s,
                                    id |-> IF g \in DOMAIN table THEN table[g] ELSE NullId]]
  /\ UNCHANGED <<_ecall_table, capacity, lost, created, idTable, globalId>>

ReturnLookup(c) ==
  /\ ask[c].pc = "found"
  /\ ask' = [ask EXCEPT ![c] = NoAsk]
  /\ UNCHANGED <<_ecall_table, capacity, lost, created, idTable, globalId>>

EcallIdStep ==
  \/ \E e \in DOMAIN Interfaces : oe_register_ecalls(e)
  \/ \E c \in Callers :
       \/ \E e \in DOMAIN Interfaces, s \in DOMAIN Stubs : StartLookup(c, e, s)
       \/ oe_get_global_id(c) \/ oe_get_ecall_ids(c) \/ ReturnLookup(c)

(* A lookup yields the number the called enclave itself gives to the name, or *)
(* nothing when it has no such ecall or its registration failed: whichever    *)
(* enclaves were created before, after or meanwhile, in whichever order they  *)
(* list their ecalls, and also for two threads that use a stub for the first  *)
(* time at once.                                                              *)
LookupRight ==
  \A c \in Callers :
    ask[c].pc = "found" =>
      LET interface == Interfaces[ask[c].e]
          name == Stubs[ask[c].s]
          known == idTable[ask[c].e] # <<>> /\ name \in ToSet(interface)
      IN  ask[c].id = IF known THEN IndexIn(interface, name) ELSE NullId

=============================================================================
