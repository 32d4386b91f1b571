------------------------------ MODULE FdTable ------------------------------
(***************************************************************************)
(* The enclave's file descriptors: the table of syscall/fdtable.c, the      *)
(* calls of syscall/unistd.c, fcntl.c, socket.c and epoll.c that create,    *)
(* duplicate, use and close descriptors, the descriptor objects of the      *)
(* hostfs, hostsock, hostepoll and consolefs devices, and the descriptors   *)
(* the host kernel keeps for them.                                          *)
(*                                                                         *)
(* A step is one call of the host, one critical section of the table's      *)
(* spinlock, or the release of one object.  Descriptor objects are          *)
(* numbered in the order of their allocation and never reused, so a         *)
(* pointer to a released object stays recognisable.  This module holds the  *)
(* state and the steps; Epoll adds event polling and the specification.     *)
(*                                                                         *)
(* The client passes numbers it holds, and closes or replaces a number only *)
(* while no other call is using it.  A call that neither makes nor takes     *)
(* away a number (oe_read, oe_lseek, oe_send ...) looks its object up and    *)
(* leaves this state alone; HostIO has what those calls compute.            *)
(***************************************************************************)
EXTENDS Integers, FiniteSetsExt

CONSTANTS
    Threads,
    NoThread,       \* nobody holds a lock
    NumStd,         \* standard files made by _initialize (3 in the code)
    TableChunk,     \* TABLE_CHUNK_SIZE
    IntMax,         \* OE_INT_MAX: the table never grows past it
    MaxDesc,        \* bound: descriptor objects allocated in a behaviour
    MaxFaults,      \* bound: error paths that leave something behind
    Kinds           \* what the client opens: a subset of AllKinds

AllKinds == {"file", "socket", "epoll"}

ASSUME ThreadAssumption == NoThread \notin Threads
ASSUME SizeAssumption ==
    /\ NumStd \in Nat /\ TableChunk \in Nat \ {0} /\ IntMax \in Nat /\ MaxDesc \in Nat
    /\ MaxFaults \in Nat
    /\ NumStd <= TableChunk /\ TableChunk <= IntMax
ASSUME KindAssumption == Kinds \subseteq AllKinds

Fds == 0 .. IntMax - 1
Descs == 1 .. MaxDesc
NULL == 0

VARIABLES
    table,      \* _table: 0 .. _table_size - 1 -> descriptor object or NULL
    inited,     \* _initialized
    fdlock,     \* holder of the table's _lock while it is held across steps
    desc,       \* the descriptor objects
    host,       \* the host's descriptors: the open file behind each, or 0
    reg,        \* the host's epoll registrations
    op,         \* the call each thread is in
    held,       \* the client's view: the file behind each number it holds
    lost,       \* host descriptors given up by an error path
    stale,      \* slots left pointing at a released object by an error path
    dupd        \* open files that have had two descriptors

hostVars == <<host, reg>>
ghostVars == <<held, lost, stale, dupd>>

(* A thread's call: where it is, the number it is about, the objects it has *)
(* looked up or made, and the number a dup2 replaces or the loop's index.   *)
Idle == [pc |-> "idle", fd |-> 0, d |-> NULL, n |-> NULL, to |-> 0]

Fresh == 1 + Cardinality({d \in Descs : desc[d].st # "none"})
FreeHostFd == Min({h \in Descs : host[h] = 0})
FreshFile == Fresh      \* a file is named after the object it was opened with

(* The numbers a thread's call relies on, and the ones it takes away. *)
Using(t) ==
    CASE op[t].pc \in {"idle", "assign", "undo"} -> {}
      [] op[t].pc \in {"reassign", "ctlMap"} -> {op[t].fd, op[t].to}
      [] OTHER -> {op[t].fd}
Unused(t, fd) == \A u \in Threads \ {t} : fd \notin Using(u)
Holds(fd) == held[fd] # 0

(* POSIX leaves a dup2 that races with calls that make numbers to the       *)
(* client, which therefore keeps them apart.                                *)
MakesNumber(u) ==
    op[u].pc \in {"assign", "assign2", "reassign"}
NoReplacement == \A u \in Threads : op[u].pc # "reassign"

MayLeak == Cardinality(lost) + Cardinality(stale) < MaxFaults

Goto(t, r) == op' = [op EXCEPT ![t] = r]
Return(t) == Goto(t, Idle)

-----------------------------------------------------------------------------
(* Objects and host descriptors. *)

(* calloc of the object, and the host descriptor it is given.  The number   *)
(* of the file is kept for the statement of the properties only.            *)
NewDesc(k, f) == [st |-> "live", kind |-> k, hfd |-> FreeHostFd, file |-> f]

CanAllocate(n) == Fresh + n - 1 <= MaxDesc

(* close(2) on the host: registrations end with the last descriptor of the  *)
(* registered file, or of the epoll instance.                               *)
HostClose(hs) ==
    LET h2 == [h \in Descs |-> IF h \in hs THEN 0 ELSE host[h]]
        open == {h2[h] : h \in Descs}
    IN  /\ host' = h2
        /\ reg' = {r \in reg : r.file \in open /\ r.ep \in open}
        /\ dupd' = dupd \cap open

Freed == [st |-> "freed", kind |-> "file", hfd |-> 0, file |-> 0]

(* desc->ops.fd.close(desc): the host closes, the object is freed. *)
FreeDescs(ds) ==
    /\ HostClose({desc[d].hfd : d \in ds})
    /\ desc' = [d \in Descs |-> IF d \in ds THEN Freed
                                ELSE desc[d]]

-----------------------------------------------------------------------------
(* The table. *)

(* _resize_table: the size after a successful call. *)
Resized(n) ==
    Min({IntMax, ((n + TableChunk - 1) \div TableChunk) * TableChunk})

TableSize == Cardinality(DOMAIN table)

(* The tables _resize_table(n) may leave: the same one when it is large     *)
(* enough, n is past the limit or the allocation fails.                     *)
ResizeResults(n) ==
    {table} \cup
    (IF n <= IntMax /\ Resized(n) > TableSize
     THEN {[i \in 0 .. Resized(n) - 1 |->
             IF i \in DOMAIN table THEN table[i] ELSE NULL]}
     ELSE {})

(* oe_fdtable_assign: the first empty slot, after growing a full table. *)
FreeSlots(tb) == {i \in DOMAIN tb : tb[i] = NULL}
Assigned(d) ==
    IF FreeSlots(table) # {}
    THEN {[table |-> [table EXCEPT ![Min(FreeSlots(table))] = d],
           fd |-> Min(FreeSlots(table))]}
    ELSE {[table |-> [tb EXCEPT ![TableSize] = d], fd |-> TableSize] :
            tb \in {x \in ResizeResults(TableSize + 1) : FreeSlots(x) # {}}}

(* _get_fd and oe_fdtable_get *)
_get_fd(fd) == IF fd \in DOMAIN table THEN table[fd] ELSE NULL
oe_fdtable_get(fd, types) ==
    IF _get_fd(fd) # NULL /\ desc[_get_fd(fd)].kind \in types
    THEN _get_fd(fd) ELSE NULL

(* A table function may run: the lock is free and _initialize has succeeded. *)
TableReady == fdlock = NoThread /\ inited

(* The console files a run of _initialize makes, each over a dup of the     *)
(* host's own descriptor, put into the first n slots.  The host gives out   *)
(* its lowest free numbers, in order.                                       *)
StdFiles(n) == Fresh .. Fresh + n - 1
MakeStdFiles(n, tb) ==
    \E dup \in [0 .. n - 1 -> {h \in Descs : host[h] = 0}] :
        /\ \A i, j \in 0 .. n - 1 : i < j => dup[i] < dup[j]
        /\ \A h \in Descs : host[h] = 0 => \A i \in 0 .. n - 1 :
              h < dup[i] => \E j \in 0 .. n - 1 : dup[j] = h
        /\ desc' = [d \in Descs |->
              IF d \in StdFiles(n)
              THEN [st |-> "live", kind |-> "file", hfd |-> dup[d - Fresh],
                    file |-> FreshFile + (d - Fresh)]
              ELSE desc[d]]
        /\ host' = [h \in Descs |->
              IF \E i \in 0 .. n - 1 : h = dup[i]
              THEN FreshFile + (CHOOSE i \in 0 .. n - 1 : h = dup[i])
              ELSE host[h]]
        /\ table' = [i \in DOMAIN tb |-> IF i < n THEN Fresh + i ELSE tb[i]]
        /\ lost' = lost \cup {desc[tb[i]].hfd : i \in {j \in 0 .. n - 1 : tb[j] # NULL}}

(* _initialize, run by the first table function, under the lock. *)
Initialize ==
    /\ ~inited /\ fdlock = NoThread
    /\ CanAllocate(NumStd)
    /\ \E tb \in ResizeResults(TableChunk) :
        /\ Cardinality(DOMAIN tb) >= TableChunk
        /\ MakeStdFiles(NumStd, tb)
    /\ inited' = TRUE
    /\ held' = [fd \in Fds |-> IF fd < NumStd THEN FreshFile + fd ELSE held[fd]]
    /\ UNCHANGED <<fdlock, reg, op, stale, dupd>>

(* _initialize fails after n of its files: they stay in the table, and the  *)
(* next run replaces them.  The call of thread t that needed the table      *)
(* fails with it: an open undoes itself, every other call has done nothing. *)
InitializeFails(t) ==
    /\ ~inited /\ fdlock = NoThread /\ MayLeak
    /\ op[t].pc = "assign"
    /\ \E n \in 0 .. NumStd - 1 :
        /\ CanAllocate(n + NumStd)
        /\ \E tb \in ResizeResults(TableChunk) :
            /\ n > 0 => Cardinality(DOMAIN tb) >= TableChunk
            /\ MakeStdFiles(n, tb)
    /\ Goto(t, [op[t] EXCEPT !.pc = "undo"])
    /\ UNCHANGED <<inited, fdlock, reg, held, stale, dupd>>

-----------------------------------------------------------------------------
(* oe_open, oe_socket_d, oe_epoll_create1: the device makes the object and   *)
(* the host opens the file; a failure before that leaves nothing behind.     *)
Open(t) ==
    /\ op[t] = Idle /\ NoReplacement
    /\ CanAllocate(IF inited THEN 1 ELSE 1 + NumStd)
    /\ \E k \in Kinds :
        /\ desc' = [desc EXCEPT ![Fresh] = NewDesc(k, FreshFile)]
        /\ host' = [host EXCEPT ![FreeHostFd] = FreshFile]
    /\ Goto(t, [Idle EXCEPT !.pc = "assign", !.d = Fresh])
    /\ UNCHANGED <<table, inited, fdlock, reg, ghostVars>>

(* oe_fdtable_assign for the object in .d; oe_socketpair then assigns .n. *)
Assign(t) ==
    /\ op[t].pc = "assign" /\ TableReady
    /\ \E a \in Assigned(op[t].d) :
        /\ table' = a.table
        /\ IF op[t].n = NULL
           THEN Return(t) /\ held' = [held EXCEPT ![a.fd] = desc[op[t].d].file]
           ELSE Goto(t, [op[t] EXCEPT !.pc = "assign2", !.fd = a.fd]) /\ UNCHANGED held
    /\ UNCHANGED <<inited, fdlock, desc, hostVars, lost, stale, dupd>>

(* The assignment fails: the table is full and cannot grow. *)
AssignFails(t) ==
    /\ op[t].pc = "assign" /\ TableReady
    /\ FreeSlots(table) = {}
    /\ Goto(t, [op[t] EXCEPT !.pc = "undo"])
    /\ UNCHANGED <<table, inited, fdlock, desc, hostVars, ghostVars>>

(* Faulty variant: the new object is dropped without closing it. *)
UndoNothing(t) ==
    /\ op[t].pc = "undo"
    /\ Return(t)
    /\ UNCHANGED <<table, inited, fdlock, desc, hostVars, ghostVars>>

(* The cleanup of a failed open, socket, accept, socketpair, dup or dup2:   *)
(* the new objects are closed.                                              *)
Undo(t) ==
    /\ op[t].pc = "undo"
    /\ FreeDescs({op[t].d, op[t].n} \ {NULL})
    /\ Return(t)
    /\ UNCHANGED <<table, inited, fdlock, held, lost, stale>>

(* The host refuses to close: nobody looks at the result. *)
UndoFails(t) ==
    /\ op[t].pc = "undo" /\ MayLeak
    /\ lost' = lost \cup {desc[d].hfd : d \in {op[t].d, op[t].n} \ {NULL}}
    /\ Return(t)
    /\ UNCHANGED <<table, inited, fdlock, desc, hostVars, held, stale, dupd>>

(* oe_socketpair: two objects, two assignments. *)
SocketPair(t) ==
    /\ op[t] = Idle /\ NoReplacement
    /\ "socket" \in Kinds
    /\ CanAllocate(IF inited THEN 2 ELSE 2 + NumStd)
    /\ LET h1 == FreeHostFd
           h2 == Min({h \in Descs : host[h] = 0} \ {h1})
       IN  /\ desc' = [desc EXCEPT ![Fresh] = NewDesc("socket", FreshFile),
                         ![Fresh + 1] = [NewDesc("socket", FreshFile + 1)
                                            EXCEPT !.hfd = h2]]
           /\ host' = [host EXCEPT ![h1] = FreshFile, ![h2] = FreshFile + 1]
    /\ Goto(t, [Idle EXCEPT !.pc = "assign", !.d = Fresh, !.n = Fresh + 1])
    /\ UNCHANGED <<table, inited, fdlock, reg, ghostVars>>

Assign2(t) ==
    /\ op[t].pc = "assign2" /\ TableReady
    /\ \E a \in Assigned(op[t].n) :
        /\ table' = a.table
        /\ held' = [held EXCEPT ![op[t].fd] = desc[op[t].d].file,
                                ![a.fd] = desc[op[t].n].file]
    /\ Return(t)
    /\ UNCHANGED <<inited, fdlock, desc, hostVars, lost, stale, dupd>>

(* The second assignment fails: both objects are closed, and the first      *)
(* one's slot keeps its pointer.                                            *)
Assign2Fails(t) ==
    /\ op[t].pc = "assign2" /\ TableReady /\ MayLeak
    /\ FreeSlots(table) = {}
    /\ stale' = stale \cup {op[t].fd}
    /\ Goto(t, [op[t] EXCEPT !.pc = "undo"])
    /\ UNCHANGED <<table, inited, fdlock, desc, hostVars, held, lost, dupd>>

-----------------------------------------------------------------------------
(* Calls that make a descriptor from one the client holds.  The lookup and   *)
(* the device's call of the host are one step: nobody else takes the number  *)
(* or the object away between them.                                          *)
HeldAs(fd, types) == Holds(fd) /\ oe_fdtable_get(fd, types) # NULL

(* oe_accept on a listening socket: a new socket object and host socket. *)
Accept(t) ==
    /\ op[t] = Idle /\ TableReady /\ NoReplacement
    /\ \E fd \in Fds : HeldAs(fd, {"socket"})
    /\ CanAllocate(1)
    /\ desc' = [desc EXCEPT ![Fresh] = NewDesc("socket", FreshFile)]
    /\ host' = [host EXCEPT ![FreeHostFd] = FreshFile]
    /\ Goto(t, [Idle EXCEPT !.pc = "assign", !.d = Fresh])
    /\ UNCHANGED <<table, inited, fdlock, reg, ghostVars>>

(* The peer's address does not fit the caller's buffer: the copy fails      *)
(* after the host's accept, the object is freed, the host socket is not.    *)
AcceptTruncated(t) ==
    /\ op[t] = Idle /\ TableReady /\ NoReplacement
    /\ \E fd \in Fds : HeldAs(fd, {"socket"})
    /\ CanAllocate(1) /\ MayLeak
    /\ desc' = [desc EXCEPT ![Fresh] = Freed]
    /\ host' = [host EXCEPT ![FreeHostFd] = FreshFile]
    /\ lost' = lost \cup {FreeHostFd}
    /\ UNCHANGED <<table, inited, fdlock, reg, op, held, stale, dupd>>

(* ops.fd.dup: a new object over another host descriptor of the same file. *)
DupObject(d) ==
    LET f == host[desc[d].hfd] IN
    /\ desc' = [desc EXCEPT ![Fresh] = NewDesc(desc[d].kind, f)]
    /\ host' = [host EXCEPT ![FreeHostFd] = f]
    /\ dupd' = dupd \cup {f}

(* oe_dup of a file or a socket. *)
Dup(t) ==
    /\ op[t] = Idle /\ TableReady /\ NoReplacement
    /\ CanAllocate(1)
    /\ \E fd \in Fds :
        /\ HeldAs(fd, {"file", "socket"})
        /\ DupObject(_get_fd(fd))
    /\ Goto(t, [Idle EXCEPT !.pc = "assign", !.d = Fresh])
    /\ UNCHANGED <<table, inited, fdlock, reg, held, lost, stale>>

(* oe_dup2, whose target is a number nobody uses, held by the client or     *)
(* empty.  When the host refuses to duplicate, nothing happens.             *)
Dup2(t, target) ==
    /\ op[t] = Idle /\ TableReady
    /\ CanAllocate(1)
    /\ target \notin stale
    /\ \A u \in Threads \ {t} : target \notin Using(u) /\ ~MakesNumber(u)
    /\ \E fd \in Fds \ {target} :
        /\ HeldAs(fd, {"file", "socket"})
        /\ DupObject(_get_fd(fd))
        /\ Goto(t, [Idle EXCEPT !.pc = "reassign", !.fd = fd, !.n = Fresh,
                                !.to = target])
    /\ held' = [held EXCEPT ![target] = 0]
    /\ UNCHANGED <<table, inited, fdlock, reg, lost, stale>>

(* Faulty variant: the new object is closed instead of the replaced one. *)
ReassignClosesNew(t) ==
    /\ op[t].pc = "reassign" /\ TableReady
    /\ op[t].to \in DOMAIN table
    /\ table' = [table EXCEPT ![op[t].to] = op[t].n]
    /\ held' = [held EXCEPT ![op[t].to] = desc[op[t].n].file]
    /\ Goto(t, [Idle EXCEPT !.pc = "undo", !.d = op[t].n])
    /\ UNCHANGED <<inited, fdlock, desc, hostVars, lost, stale, dupd>>

(* oe_fdtable_reassign: the slot takes the new object.  The old one, if     *)
(* any, is closed by oe_dup2 outside the lock.                              *)
Reassign(t) ==
    /\ op[t].pc = "reassign" /\ TableReady
    /\ \E tb \in ResizeResults(op[t].to + 1) :
        /\ op[t].to \in DOMAIN tb
        /\ table' = [tb EXCEPT ![op[t].to] = op[t].n]
        /\ held' = [held EXCEPT ![op[t].to] = desc[op[t].n].file]
        /\ IF tb[op[t].to] = NULL THEN Return(t)
           ELSE Goto(t, [Idle EXCEPT !.pc = "undo", !.d = tb[op[t].to]])
    /\ UNCHANGED <<inited, fdlock, desc, hostVars, lost, stale, dupd>>

(* The table cannot be made to reach the number. *)
ReassignFails(t) ==
    /\ op[t].pc = "reassign" /\ TableReady
    /\ op[t].to \notin DOMAIN table
    /\ Goto(t, [Idle EXCEPT !.pc = "undo", !.d = op[t].n])
    /\ UNCHANGED <<table, inited, fdlock, desc, hostVars, ghostVars>>

-----------------------------------------------------------------------------
(* oe_close: look up, close the object, tell the epoll instances, empty the  *)
(* slot.  When the host reports an error nothing is changed.                 *)
Close(t) ==
    /\ op[t] = Idle /\ TableReady
    /\ \E fd \in Fds :
        /\ HeldAs(fd, AllKinds) /\ Unused(t, fd)
        /\ FreeDescs({_get_fd(fd)})
        /\ Goto(t, [Idle EXCEPT !.pc = "foreach", !.fd = fd])
        /\ held' = [held EXCEPT ![fd] = 0]
    /\ UNCHANGED <<table, inited, fdlock, lost, stale>>

(* oe_fdtable_release *)
Release(t) ==
    /\ op[t].pc = "release" /\ TableReady
    /\ table' = [table EXCEPT ![op[t].fd] = NULL]
    /\ Return(t)
    /\ UNCHANGED <<inited, fdlock, desc, hostVars, ghostVars>>
=============================================================================
