------------------------------- MODULE Epoll -------------------------------
(***************************************************************************)
(* Event polling over the descriptors of FdTable: the epoll objects of      *)
(* syscall/devices/hostepoll/hostepoll.c, which keep, next to the host's    *)
(* epoll instance, a map from the registered number to the data the client  *)
(* asked for, and the notification oe_close sends to every epoll object.    *)
(* The epoll mutex is held across calls of the host; the table's spinlock   *)
(* is held while oe_close takes each epoll mutex in turn.                   *)
(***************************************************************************)
EXTENDS FdTable, Sequences, SequencesExt

CONSTANTS
    Data,           \* what the client attaches to a registration
    MapAllocFails   \* TRUE: _map_reserve may run out of memory

ASSUME MapAllocAssumption == MapAllocFails \in BOOLEAN

VARIABLES
    map,        \* map[e]: the mappings of epoll object e, in array order
    elock,      \* elock[e]: the holder of its mutex
    ev          \* a thread's epoll call: its object, request, answer, events

epVars == <<map, elock, ev>>
fdVars == <<table, inited, fdlock, desc, hostVars, op, ghostVars>>
vars == <<fdVars, epVars>>

NoEv == [e |-> NULL, cmd |-> "none", data |-> 0, rv |-> 0, events |-> <<>>]

EpollDescs == {d \in Descs : desc[d].st = "live" /\ desc[d].kind = "epoll"}
Mapped(e) == {map[e][i].fd : i \in DOMAIN map[e]}

(* The registrations the host keeps for epoll object e. *)
RegsOf(e) == {r \in reg : r.ep = host[desc[e].hfd]}

TypeOK ==
    /\ DOMAIN table \subseteq Fds /\ \A i \in DOMAIN table : table[i] \in 0 .. MaxDesc
    /\ inited \in BOOLEAN /\ fdlock \in Threads \cup {NoThread}
    /\ desc \in [Descs -> [st : {"none", "live", "freed"},
                           kind : AllKinds, hfd : 0 .. MaxDesc, file : 0 .. MaxDesc]]
    /\ host \in [Descs -> 0 .. MaxDesc]
    /\ reg \subseteq [ep : Descs, hfd : Descs, file : Descs, fd : Fds]
    /\ op \in [Threads ->
          [pc : {"idle", "assign", "assign2", "undo", "reassign", "foreach",
                 "visit", "release", "ctlMap", "waitLock"},
           fd : Fds, d : 0 .. MaxDesc, n : 0 .. MaxDesc, to : 0 .. IntMax]]
    /\ held \in [Fds -> 0 .. MaxDesc]
    /\ map \in [Descs -> Seq([fd : Fds, data : Data])]
    /\ elock \in [Descs -> Threads \cup {NoThread}]

Init ==
    /\ table = [i \in {} |-> NULL] /\ inited = FALSE /\ fdlock = NoThread
    /\ desc = [d \in Descs |-> [st |-> "none", kind |-> "file", hfd |-> 0, file |-> 0]]
    /\ host = [h \in Descs |-> 0] /\ reg = {}
    /\ op = [t \in Threads |-> Idle]
    /\ held = [fd \in Fds |-> 0] /\ lost = {} /\ stale = {} /\ dupd = {}
    /\ map = [d \in Descs |-> <<>>]
    /\ elock = [d \in Descs |-> NoThread]
    /\ ev = [t \in Threads |-> NoEv]

-----------------------------------------------------------------------------
(* oe_close, continued: oe_fdtable_foreach and _epoll_on_close. *)

(* oe_fdtable_foreach takes the table's lock for the whole walk. *)
ForeachLock(t) ==
    /\ op[t].pc = "foreach" /\ fdlock = NoThread
    /\ fdlock' = t
    /\ Goto(t, [op[t] EXCEPT !.pc = "visit", !.to = 0])
    /\ UNCHANGED <<table, inited, desc, hostVars, ghostVars, epVars>>

(* The slots that still have to be visited and hold an epoll object.  The   *)
(* walk also reads the type of the object that was just freed, whose slot   *)
(* is still set; whatever it reads there, no live object is changed.        *)
ToVisit(t) ==
    {i \in DOMAIN table : i >= op[t].to /\ table[i] \in EpollDescs}

(* Faulty variant: the mapping of the closed number is kept. *)
VisitIdle(t) ==
    /\ op[t].pc = "visit" /\ ToVisit(t) # {}
    /\ elock[table[Min(ToVisit(t))]] = NoThread
    /\ Goto(t, [op[t] EXCEPT !.to = Min(ToVisit(t)) + 1])
    /\ UNCHANGED <<table, inited, fdlock, desc, hostVars, ghostVars, epVars>>

(* _map_find: the index of the first mapping of a number, 0 if it has none. *)
First(m, fd) ==
    IF \A i \in DOMAIN m : m[i].fd # fd THEN 0
    ELSE Min({j \in DOMAIN m : m[j].fd = fd})

(* That mapping removed, by moving the last one into its place. *)
Without(m, fd) ==
    LET i == First(m, fd)
    IN  IF i = 0 THEN m
        ELSE SubSeq([m EXCEPT ![i] = m[Len(m)]], 1, Len(m) - 1)

(* _close_epoll_callback and _epoll_on_close, for the next epoll object. *)
Visit(t) ==
    /\ op[t].pc = "visit" /\ ToVisit(t) # {}
    /\ LET i == Min(ToVisit(t))
           e == table[i]
       IN  /\ elock[e] = NoThread
           /\ map' = [map EXCEPT ![e] = Without(@, op[t].fd)]
           /\ Goto(t, [op[t] EXCEPT !.to = i + 1])
    /\ UNCHANGED <<table, inited, fdlock, desc, hostVars, ghostVars, elock, ev>>

ForeachUnlock(t) ==
    /\ op[t].pc = "visit" /\ ToVisit(t) = {}
    /\ fdlock' = NoThread
    /\ Goto(t, [op[t] EXCEPT !.pc = "release", !.to = 0])
    /\ UNCHANGED <<table, inited, desc, hostVars, ghostVars, epVars>>

-----------------------------------------------------------------------------
(* oe_epoll_ctl and oe_epoll_wait. *)

(* epoll_ctl(2), external: registrations are keyed by descriptor and file. *)
HostEpollCtl(e, fd, cmd) ==
    LET h == desc[table[fd]].hfd
        key == {r \in RegsOf(e) : r.hfd = h /\ r.file = host[h]}
        new == [ep |-> host[desc[e].hfd], hfd |-> h, file |-> host[h], fd |-> fd]
    IN  IF (cmd = "add") # (key = {}) THEN [rv |-> -1, reg |-> reg]
        ELSE [rv |-> 0, reg |-> (reg \ key) \cup (IF cmd = "del" THEN {} ELSE {new})]

(* _epoll_ctl_add, _mod, _del: the lookups, the mutex and the host's call.   *)
(* The mutex stays locked until the mapping has followed.                    *)
CtlHost(t) ==
    /\ op[t] = Idle /\ TableReady
    /\ \E epfd, fd \in Fds, cmd \in {"add", "mod", "del"}, x \in Data :
        /\ HeldAs(epfd, {"epoll"}) /\ HeldAs(fd, {"file", "socket"})
        /\ elock[table[epfd]] = NoThread
        /\ elock' = [elock EXCEPT ![table[epfd]] = t]
        /\ LET ans == HostEpollCtl(table[epfd], fd, cmd) IN
            /\ reg' = ans.reg
            /\ ev' = [ev EXCEPT ![t] = [NoEv EXCEPT
                  !.e = table[epfd], !.cmd = cmd, !.data = x, !.rv = ans.rv]]
        /\ Goto(t, [Idle EXCEPT !.pc = "ctlMap", !.fd = fd, !.to = epfd])
    /\ UNCHANGED <<table, inited, fdlock, desc, host, ghostVars, map>>

(* Faulty variant: the mutex is not released when the host has refused. *)
CtlMapKeepsLock(t) ==
    /\ op[t].pc = "ctlMap"
    /\ map' = [map EXCEPT ![ev[t].e] =
          IF ev[t].rv # 0 THEN @
          ELSE CASE ev[t].cmd = "add" -> Append(@, [fd |-> op[t].fd, data |-> ev[t].data])
                 [] ev[t].cmd = "mod" -> @
                 [] ev[t].cmd = "del" -> Without(@, op[t].fd)]
    /\ elock' = IF ev[t].rv # 0 THEN elock ELSE [elock EXCEPT ![ev[t].e] = NoThread]
    /\ Return(t) /\ ev' = [ev EXCEPT ![t] = NoEv]
    /\ UNCHANGED <<table, inited, fdlock, desc, hostVars, ghostVars>>

(* The mapping follows the host's answer, and the mutex is released. *)
CtlMap(t) ==
    /\ op[t].pc = "ctlMap"
    /\ \E full \in {FALSE, MapAllocFails} :
        map' = [map EXCEPT ![ev[t].e] =
          IF ev[t].rv # 0 THEN @
          ELSE CASE ev[t].cmd = "add" ->
                      IF full THEN @
                      ELSE Append(@, [fd |-> op[t].fd, data |-> ev[t].data])
                 [] ev[t].cmd = "mod" ->
                      [i \in DOMAIN @ |->
                         IF i = First(@, op[t].fd)
                         THEN [@[i] EXCEPT !.data = ev[t].data] ELSE @[i]]
                 [] ev[t].cmd = "del" -> Without(@, op[t].fd)]
    /\ elock' = [elock EXCEPT ![ev[t].e] = NoThread]
    /\ Return(t) /\ ev' = [ev EXCEPT ![t] = NoEv]
    /\ UNCHANGED <<table, inited, fdlock, desc, hostVars, ghostVars>>

(* _epoll_wait: the host reports some registered numbers, or none at the     *)
(* timeout.  The epoll mutex is not held.                                    *)
WaitHost(t) ==
    /\ op[t] = Idle /\ TableReady
    /\ \E epfd \in Fds :
        /\ HeldAs(epfd, {"epoll"})
        /\ \E rs \in SUBSET RegsOf(table[epfd]) :
            /\ rs # {}
            /\ \E s \in SetToSeqs({r.fd : r \in rs}) :
                ev' = [ev EXCEPT ![t] = [NoEv EXCEPT !.e = table[epfd], !.events = s]]
        /\ Goto(t, [Idle EXCEPT !.pc = "waitLock", !.fd = epfd])
    /\ UNCHANGED <<table, inited, fdlock, desc, hostVars, ghostVars, map, elock>>

(* The loop over the reported events, one turn: an event whose number has a  *)
(* mapping stays; any other is overwritten by the last one, and looked at    *)
(* again.                                                                    *)
Turn(e, p) ==
    IF p.s[p.i] \in Mapped(e) THEN [p EXCEPT !.i = @ + 1]
    ELSE [p EXCEPT !.s[p.i] = p.s[p.n], !.n = @ - 1]

(* The events that are left when every one has been looked at. *)
Compact(e, s) ==
    LET f[k \in 0 .. Len(s)] ==
            IF k = 0 THEN [s |-> s, i |-> 1, n |-> Len(s)] ELSE Turn(e, f[k - 1])
    IN  SubSeq(f[Len(s)].s, 1, f[Len(s)].n)

(* Under the mutex, the numbers are replaced by the client's data. *)
WaitLock(t) ==
    /\ op[t].pc = "waitLock" /\ elock[ev[t].e] = NoThread
    /\ Return(t) /\ ev' = [ev EXCEPT ![t] = NoEv]
    /\ UNCHANGED <<table, inited, fdlock, desc, hostVars, ghostVars, map, elock>>

-----------------------------------------------------------------------------
(* A step of FdTable that leaves the epoll objects alone. *)
Fd(A) == A /\ UNCHANGED epVars

(* oe_dup2 does not tell the epoll objects about the number it replaces;     *)
(* the client first removes it from them.                                    *)
NotRegistered(fd) == \A e \in EpollDescs : fd \notin Mapped(e)

Step(t) ==
    \/ Fd(InitializeFails(t))
    \/ Fd(Open(t)) \/ Fd(SocketPair(t))
    \/ Fd(Assign(t)) \/ Fd(AssignFails(t)) \/ Fd(Assign2(t)) \/ Fd(Assign2Fails(t))
    \/ Fd(Undo(t)) \/ Fd(UndoFails(t))
    \/ Fd(Accept(t)) \/ Fd(AcceptTruncated(t)) \/ Fd(Dup(t))
    \/ \E to \in Fds : NotRegistered(to) /\ Fd(Dup2(t, to))
    \/ Fd(Reassign(t)) \/ Fd(ReassignFails(t))
    \/ Fd(Close(t)) \/ Fd(Release(t))
    \/ ForeachLock(t) \/ Visit(t) \/ ForeachUnlock(t)
    \/ CtlHost(t) \/ CtlMap(t) \/ WaitHost(t) \/ WaitLock(t)

Next == Fd(Initialize) \/ \E t \in Threads : Step(t)

(* The steps of a thread that is inside a call. *)
Running(t) ==
    \/ Fd(Initialize)
    \/ Fd(Assign(t)) \/ Fd(AssignFails(t)) \/ Fd(Assign2(t)) \/ Fd(Assign2Fails(t))
    \/ Fd(Undo(t)) \/ Fd(UndoFails(t))
    \/ Fd(Reassign(t)) \/ Fd(ReassignFails(t)) \/ Fd(Release(t))
    \/ ForeachLock(t) \/ Visit(t) \/ ForeachUnlock(t)
    \/ CtlMap(t) \/ WaitLock(t)

Spec == Init /\ [][Next]_vars

-----------------------------------------------------------------------------
(* The objects a thread's call has looked up or made. *)
InCall(d) == \E t \in Threads : d \in {op[t].d, op[t].n}
Live(d) == d # NULL /\ desc[d].st = "live"
TableEntries == {table[i] : i \in DOMAIN table}

(* Every descriptor the host keeps open for the enclave belongs to exactly    *)
(* one object that the table or a running call refers to, unless one of the   *)
(* error paths that give descriptors up has run for it.                       *)
HostFdAccounted ==
    \A h \in Descs : host[h] # 0 /\ h \notin lost =>
        Cardinality({d \in Descs : /\ Live(d) /\ desc[d].hfd = h
                                   /\ d \in TableEntries \/ InCall(d)}) = 1

(* A table slot refers to a live object of its own; the exceptions are a      *)
(* number that oe_close has closed and not yet released, and the first        *)
(* number of a socket pair whose second assignment failed.                    *)
SlotsLive ==
    \A i \in DOMAIN table : table[i] # NULL =>
        /\ \/ Live(table[i])
           \/ i \in stale
           \/ \E t \in Threads : /\ op[t].fd = i
                                 /\ op[t].pc \in {"foreach", "visit", "release"}
        /\ \A j \in DOMAIN table \ {i} : table[j] # table[i]

(* A number the client holds leads, through the table, to a live object      *)
(* whose host descriptor denotes the file the client opened: no close, dup2, *)
(* failed initialization or failed open of another thread may free or        *)
(* replace it, let the host reuse its descriptor, or leave a dead object in  *)
(* a slot that a later call finds.  (The state has its types, too.)          *)
FdMeansFile ==
    /\ TypeOK
    /\ \A fd \in Fds : Holds(fd) =>
        /\ fd \in DOMAIN table
        /\ Live(table[fd])
        /\ host[desc[table[fd]].hfd] = held[fd]
    /\ SlotsLive

(* The epoll objects, and the numbers, whose bookkeeping is compared: those   *)
(* the client holds, of files that never had a second descriptor (the host's  *)
(* registrations follow the file, the enclave's the number).                  *)
Settled(e) ==
    /\ e \in EpollDescs /\ elock[e] = NoThread
    /\ \E i \in DOMAIN table : table[i] = e /\ Holds(i)

(* Outside the epoll mutex, a number the client holds has a mapping in the    *)
(* enclave exactly if it has a registration on the host, and never two: the   *)
(* host call and the map update are one operation, and a close undoes both    *)
(* before the number can be given out again. And oe_epoll_wait hands out      *)
(* exactly the reported events whose number still has a mapping, each once:   *)
(* the loop that drops the others neither skips the event it moves into their *)
(* place nor runs past the end.                                               *)
MapMatchesHost ==
    /\ \A e \in Descs : Settled(e) =>
         \A fd \in Fds : Holds(fd) /\ held[fd] \notin dupd =>
             LET regs == {r \in RegsOf(e) : r.fd = fd /\ r.file \notin dupd}
                 maps == {i \in DOMAIN map[e] : map[e][i].fd = fd}
             IN  /\ Cardinality(maps) = Cardinality(regs)
                 /\ Cardinality(maps) <= 1
                 /\ \A r \in regs : r.file = held[fd]
    /\ \A t \in Threads : op[t].pc = "waitLock" =>
         LET out == Compact(ev[t].e, ev[t].events) IN
         /\ ToSet(out) = ToSet(ev[t].events) \cap Mapped(ev[t].e)
         /\ Len(out) = Cardinality(ToSet(out))

(* While a call is under way some thread inside a call can take its next step: *)
(* oe_close waits for the epoll mutexes with the table's spinlock held, so a    *)
(* mutex left locked, or a holder that needs the table, stops every thread.     *)
NoDeadlock ==
    (\E t \in Threads : op[t].pc # "idle") => \E t \in Threads : ENABLED Running(t)
=============================================================================
