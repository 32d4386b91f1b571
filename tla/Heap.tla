-------------------------------- MODULE Heap --------------------------------
(***************************************************************************)
(* The enclave's bookkeeping of memory: the debug allocator                  *)
(* (enclave/core/debugmalloc.c), which puts a header and a footer around     *)
(* every block and keeps the headers on a doubly-linked list under a         *)
(* spinlock, and the arena of shared memory for switchless ocalls            *)
(* (enclave/core/sgx/arena.c). oe_spin_unlock clears the lock's word whoever *)
(* set it: oe_debug_malloc_tracking_report unlocks once more at its end, and *)
(* when another thread holds the lock then, the exclusion is gone. What      *)
(* follows is undefined, and a behaviour ends there.                         *)
(***************************************************************************)
EXTENDS Naturals, Sequences, FiniteSets, SequencesExt

CONSTANTS
    Clients,       \* threads that use the debug allocator
    MaxBlocks,     \* addresses of blocks: 1 .. MaxBlocks, 0 is NULL
    MaxAllocs,     \* calls that allocate
    Modulus,       \* size_t is counted modulo this number
    WordSize,      \* sizeof(uint64_t), also the footer's size
    HeaderBytes,   \* sizeof(header_t)
    BufferAlign    \* OE_EDGER8R_BUFFER_ALIGNMENT

ASSUME HeapAssumption ==
    /\ {MaxBlocks, MaxAllocs, Modulus, WordSize, HeaderBytes, BufferAlign} \subseteq Nat \ {0}
    /\ HeaderBytes % WordSize = 0 /\ Modulus % BufferAlign = 0

VARIABLES
    live,       \* blocks the allocator has handed out
    held,       \* those a completed call has returned to the application
    list,       \* the list of headers: head, tail, and each header's links
    spin,       \* the spinlock's word
    act,        \* act[c]: the call c is in
    allocs,     \* number of allocating calls so far (bounded by MaxAllocs)
    strayed     \* an unlock has released another thread's lock

heapVars == <<live, held, list, spin, act, allocs, strayed>>

Blocks == 1 .. MaxBlocks

Nothing == [pc |-> "idle", b |-> 0, old |-> 0, report |-> FALSE]

HeapInit(bound) ==
  /\ live = {} /\ held = {} /\ spin = 0 /\ strayed = FALSE
  /\ list = [head |-> 0, tail |-> 0, next |-> [b \in Blocks |-> 0], prev |-> [b \in Blocks |-> 0]]
  /\ act = [c \in Clients |-> Nothing]
  /\ allocs = bound

At(c, pc) == ~strayed /\ act[c].pc = pc

Moves(c, pc) == act' = [act EXCEPT ![c].pc = pc]

-----------------------------------------------------------------------------
(* oe_debug_malloc, oe_debug_calloc and oe_debug_posix_memalign: a block, its *)
(* header initialized, on its way to the list. old is the block a realloc     *)
(* frees afterwards.                                                          *)
Allocate(c, old, report) ==
  /\ allocs < MaxAllocs
  /\ \E b \in Blocks \ live :
       /\ live' = live \cup {b}
       /\ list' = [list EXCEPT !.next[b] = 0, !.prev[b] = 0]
       /\ act' = [act EXCEPT ![c] = [pc |-> "insert", b |-> b, old |-> old, report |-> report]]
  /\ allocs' = allocs + 1

Malloc(c) ==
  /\ At(c, "idle")
  /\ Allocate(c, 0, FALSE)
  /\ UNCHANGED <<held, spin, strayed>>

\* oe_debug_realloc to another size; the copy is made before the old block goes.
Realloc(c, p) ==
  /\ At(c, "idle") /\ p \in held
  /\ Allocate(c, p, FALSE)
  /\ held' = held \ {p}
  /\ UNCHANGED <<spin, strayed>>

Free(c, p) ==
  /\ At(c, "idle") /\ p \in held
  /\ held' = held \ {p}
  /\ act' = [act EXCEPT ![c] = [pc |-> "remove", b |-> p, old |-> 0, report |-> FALSE]]
  /\ UNCHANGED <<live, list, spin, allocs, strayed>>

\* oe_spin_lock of _list_insert, _list_remove and the report.
Lock(c) ==
  /\ ~strayed /\ act[c].pc \in {"insert", "remove", "report"}
  /\ spin = 0 /\ spin' = 1
  /\ Moves(c, CASE act[c].pc = "insert" -> "link"
                [] act[c].pc = "remove" -> "unlink"
                [] OTHER -> "walk")
  /\ UNCHANGED <<live, held, list, allocs, strayed>>

\* _list_insert, the new header's links.
Link(c) ==
  /\ At(c, "link")
  /\ list' = [list EXCEPT !.next[act[c].b] = list.head, !.prev[act[c].b] = 0]
  /\ Moves(c, "head")
  /\ UNCHANGED <<live, held, spin, allocs, strayed>>

\* The head of the list keeps the back link of the block before it was inserted.
InsertForward(l, b) == [l EXCEPT !.head = b, !.tail = IF @ = 0 THEN b ELSE @]

\* _list_insert, the list's side.
_list_insert(l, b) ==
  IF l.head # 0 THEN [l EXCEPT !.prev[l.head] = b, !.head = b]
  ELSE [l EXCEPT !.head = b, !.tail = b]

\* The end of _list_insert, and where its caller goes on: a realloc frees the
\* old block, a report takes the lock again for its walk.
Inserted(c) ==
  /\ At(c, "head")
  /\ list' = _list_insert(list, act[c].b)
  /\ spin' = 0
  /\ LET a == act[c] IN
       /\ act' = [act EXCEPT ![c] =
                    IF a.old # 0
                    THEN [pc |-> "remove", b |-> a.old, old |-> a.b, report |-> a.report]
                    ELSE IF a.report THEN [a EXCEPT !.pc = "report"]
                    ELSE Nothing]
       /\ held' = IF a.report THEN held ELSE held \cup {a.b}
  /\ UNCHANGED <<live, allocs, strayed>>

\* _list_remove, the neighbours' links.
Unlink(c) ==
  /\ At(c, "unlink")
  /\ LET n == list.next[act[c].b]
         p == list.prev[act[c].b]
     IN  list' = [list EXCEPT !.prev = IF n # 0 THEN [@ EXCEPT ![n] = p] ELSE @,
                              !.next = IF p # 0 THEN [@ EXCEPT ![p] = n] ELSE @]
  /\ Moves(c, "ends")
  /\ UNCHANGED <<live, held, spin, allocs, strayed>>

\* _list_remove, the list's ends; then oe_debug_free overwrites and frees the
\* block. A report has only its last unlock left.
Unlinked(c) ==
  /\ At(c, "ends")
  /\ LET b == act[c].b IN
       /\ list' = IF b = list.head THEN [list EXCEPT !.head = list.next[b]]
                  ELSE IF b = list.tail THEN [list EXCEPT !.tail = list.prev[b]]
                  ELSE list
       /\ live' = live \ {b}
  /\ spin' = 0
  /\ IF act[c].report THEN Moves(c, "unlock") ELSE act' = [act EXCEPT ![c] = Nothing]
  /\ UNCHANGED <<held, allocs, strayed>>

\* oe_debug_malloc_tracking_report: the buffer of the text is a block as well.
\* Without memory for it the function ends with an unlock it had no lock for.
Report(c) ==
  /\ At(c, "idle")
  /\ \/ Allocate(c, 0, TRUE)
     \/ /\ allocs < MaxAllocs /\ allocs' = allocs + 1
        /\ Moves(c, "unlock")
        /\ UNCHANGED <<live, list>>
  /\ UNCHANGED <<held, spin, strayed>>

\* The walk over the list, the unlock after it, and the reallocation of the text
\* to its length; if that fails the text's block stays.
ReportWalk(c) ==
  /\ At(c, "walk")
  /\ \/ Allocate(c, act[c].b, TRUE)
     \/ Moves(c, "unlock") /\ UNCHANGED <<live, list, allocs>>
  /\ spin' = 0
  /\ UNCHANGED <<held, strayed>>

\* _copy_frames finds no memory: the error path's unlock is the only one, and
\* the text's block is forgotten.
ReportFails(c) ==
  /\ At(c, "walk")
  /\ spin' = 0
  /\ act' = [act EXCEPT ![c] = Nothing]
  /\ UNCHANGED <<live, held, list, allocs, strayed>>

\* The unlock at the end of oe_debug_malloc_tracking_report.
ReportUnlock(c) ==
  /\ At(c, "unlock")
  /\ spin' = 0
  /\ strayed' = (spin = 1)
  /\ held' = held \cup ({act[c].old} \ {0})
  /\ act' = [act EXCEPT ![c] = Nothing]
  /\ UNCHANGED <<live, list, allocs>>

HeapStep(c) ==
  \/ Malloc(c) \/ Report(c)
  \/ \E p \in Blocks : Realloc(c, p) \/ Free(c, p)
  \/ Lock(c) \/ Link(c) \/ Inserted(c) \/ Unlink(c) \/ Unlinked(c)
  \/ ReportWalk(c) \/ ReportFails(c) \/ ReportUnlock(c)

HeapSpec == HeapInit(0) /\ [][\E c \in Clients : HeapStep(c)]_heapVars

-----------------------------------------------------------------------------
(* What oe_debug_malloc_check and the report visit.                          *)
oe_debug_malloc_check ==
  LET visit[i \in 0 .. MaxBlocks] ==
        IF i = 0 THEN list.head
        ELSE IF visit[i - 1] = 0 THEN 0 ELSE list.next[visit[i - 1]]
      steps == Cardinality({i \in 0 .. MaxBlocks : visit[i] # 0})
  IN  [i \in 1 .. steps |-> visit[i - 1]]

Entering == {act[c].b : c \in {d \in Clients : act[d].pc \in {"insert", "link", "head"}}}

(* As long as no report has released a lock that another thread held, one    *)
(* thread at a time is inside the list, and whenever the lock is free the     *)
(* list leads forward and back through every block that a call has entered    *)
(* and none that was freed, each once: oe_debug_malloc_check counts exactly   *)
(* the blocks in use, whatever allocations, frees and reports are under way.  *)
BlocksListed ==
  LET seen == oe_debug_malloc_check
      inside == {c \in Clients : act[c].pc \in {"link", "head", "unlink", "ends", "walk"}}
  IN  ~strayed =>
        /\ Cardinality(inside) = spin
        /\ spin = 0 =>
             /\ ToSet(seen) = live \ Entering
             /\ Len(seen) = Cardinality(ToSet(seen))
             /\ \A i \in DOMAIN seen : list.prev[seen[i]] = IF i = 1 THEN 0 ELSE seen[i - 1]
             /\ seen # <<>> => list.tail = Last(seen)

-----------------------------------------------------------------------------
(* Sizes. Arithmetic on size_t wraps around.                                 *)

oe_round_up_to_multiple(x, m) == (((x + m - 1) % Modulus) \div m) * m

\* _check_multiply_overflow
_check_multiply_overflow(x, y) ==
  x # 0 /\ y # 0 /\ ((x * y) % Modulus) \div y # x

_get_padding_size(alignment) ==
  IF alignment = 0 THEN 0
  ELSE (oe_round_up_to_multiple(HeaderBytes, alignment) - HeaderBytes) % Modulus

\* OE_SIZE_MAX when the sum has wrapped: no allocator has a block of that size.
_calculate_block_size(alignment, size) ==
  LET r == (_get_padding_size(alignment) + HeaderBytes
              + oe_round_up_to_multiple(size, WordSize) + WordSize) % Modulus
  IN  IF r < size THEN Modulus - 1 ELSE r

\* Where in its block the application's memory and the footer are, and the block
\* that oe_debug_free computes from the pointer and the header.
DataAt(alignment) == _get_padding_size(alignment) + HeaderBytes

_get_footer(alignment, size) == DataAt(alignment) + oe_round_up_to_multiple(size, WordSize)

_get_block_address(ptr, alignment) == ptr - HeaderBytes - _get_padding_size(alignment)

(* A block that was not refused holds header, data and footer one after the   *)
(* other within its size, the data aligned as asked and recognized again by   *)
(* oe_debug_free; it is refused exactly if the true size is no size_t.        *)
BlockFits(alignment, size) ==
  LET asked == (IF alignment > HeaderBytes THEN alignment ELSE HeaderBytes)
                 + ((size + WordSize - 1) \div WordSize) * WordSize + WordSize
      got == _calculate_block_size(alignment, size)
  IN  /\ alignment \in {0} \cup {a \in 1 .. Modulus : HeaderBytes % a = 0 \/ a % HeaderBytes = 0} =>
           (got = Modulus - 1 <=> asked >= Modulus - 1)
      /\ got < Modulus - 1 =>
           /\ DataAt(alignment) >= HeaderBytes
           /\ DataAt(alignment) + size <= _get_footer(alignment, size)
           /\ _get_footer(alignment, size) + WordSize <= got
           /\ alignment # 0 => DataAt(alignment) % alignment = 0
           /\ _get_block_address(DataAt(alignment), alignment) = 0

-----------------------------------------------------------------------------
(* The arena of one thread.                                                  *)

\* oe_arena_malloc: the allocation at an offset, or none (Modulus).
oe_arena_malloc(arena, size) ==
  LET total == oe_round_up_to_multiple(size, BufferAlign)
      after == arena.used + total
  IN  IF total < size \/ after >= Modulus \/ after > arena.capacity
      THEN [arena EXCEPT !.given = Append(@, [at |-> Modulus, size |-> size])]
      ELSE [arena EXCEPT !.used = after,
                         !.given = Append(@, [at |-> arena.used, size |-> size])]

\* An arena that was configured, created, and asked for these sizes in turn.
ArenaAfter(capacity, sizes) ==
  FoldLeft(oe_arena_malloc, [capacity |-> capacity, used |-> 0, given |-> <<>>], sizes)

(* The buffers and the arguments of a switchless ocall never overlap and stay *)
(* in the arena, for sizes next to the largest size_t as well; one that would *)
(* still fit is not refused.                                                  *)
ArenaFits(capacity, sizes) ==
  LET given == ArenaAfter(capacity, sizes).given
      made == {i \in DOMAIN given : given[i].at < Modulus}
      taken(i) == LET s == {given[j].at + given[j].size : j \in {k \in made : k < i}}
                  IN  IF s = {} THEN 0 ELSE CHOOSE m \in s : \A n \in s : n <= m
  IN  /\ \A i \in made : /\ given[i].at % BufferAlign = 0
                         /\ given[i].at + given[i].size <= capacity
      /\ \A i, j \in made : i < j => given[i].at + given[i].size <= given[j].at
      /\ \A i \in DOMAIN given \ made :
           taken(i) + given[i].size + 2 * BufferAlign > capacity
=============================================================================
