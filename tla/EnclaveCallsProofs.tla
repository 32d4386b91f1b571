------------------------- MODULE EnclaveCallsProofs -------------------------
(***************************************************************************)
(* Proofs about EnclaveCalls for every set of enclaves and host threads,    *)
(* every number of TCSs and every depth of nested calls: a TCS serves one   *)
(* thread, HANDLING_EXCEPTION is set exactly while the first-pass handler   *)
(* is active, running enclave code finds its own binding and callsite, and  *)
(* no function runs in an enclave that is not up.                           *)
(***************************************************************************)
EXTENDS EnclaveCalls, FiniteSetTheorems, SequenceTheorems, TLAPS

Levels(t) == 1 .. Level(t)
Site(t, l) == <<stack[t][l].e, stack[t][l].i>>

(* Where a frame has pushed a callsite and not popped it. *)
Pushed == {"run", "abort", "host", "oret", "fault"}

(* A frame that another one is on top of is in an ocall or was interrupted;  *)
(* the handler of an exception is on top of the frame it interrupted, on the *)
(* same TCS, and nothing is on top of it.                                    *)
Nested(t, l) ==
    LET f == stack[t][l] IN
    /\ l < Level(t) => f.at \in {"host", "fault"}
    /\ f.at = "fault" => l < Level(t) /\ stack[t][l + 1].func = "exception"
    /\ f.func = "exception" =>
          /\ l = Level(t) /\ l > 1
          /\ stack[t][l - 1].at = "fault" /\ Site(t, l - 1) = Site(t, l)
          /\ f.at \in {"enter", "handle", "run", "ret"}
    /\ f.at = "seal" => f.func = "destructor"
    /\ f.func = "destructor" => \A k \in 1 .. l - 1 : stack[t][k].e # f.e

(* The enclave of a frame exists; a frame that was late was refused, and a   *)
(* function that was dispatched found the enclave initialized.               *)
Admitted(t, l) ==
    LET f == stack[t][l] IN
    /\ life[f.e] # "none"
    /\ f.late => status[f.e] # "OK"
    /\ f.func = "call" /\ f.at \in Pushed \cup {"handle"} => ~f.late
    /\ f.func = "call" /\ f.at \in Pushed => inited[f.e]

(* The binding in the thread's TSD.  It is another one's only in a function  *)
(* that will be refused as reentrant.                                        *)
Current(t, l) ==
    LET f == stack[t][l] IN
    /\ f.at = "host" => f.saved = Site(t, l)
    /\ l = Level(t) /\ (f.at \in {"run", "oret", "abort"} \/ f.func = "exception")
          => tsd[t] = Site(t, l)
    /\ l = Level(t) /\ f.at \in {"enter", "seal", "handle"} /\ tsd[t] # Site(t, l)
          => f.func = "call" /\ callsites[Site(t, l)] # <<>>

(* The handler of an exception in the frame has pushed its callsite on top. *)
Covered(t, l) ==
    l < Level(t) /\ stack[t][l + 1].func = "exception" /\ stack[t][l + 1].at = "run"

(* The callsite of a frame is the last one of its TCS, but for the one of    *)
(* the exception handler on top of it; a function's is the only one.         *)
Place(t, l) ==
    IF Covered(t, l) THEN Len(callsites[Site(t, l)]) - 1 ELSE Len(callsites[Site(t, l)])

Owned(t, l) ==
    stack[t][l].at \in Pushed =>
        /\ Place(t, l) >= 1 /\ callsites[Site(t, l)][Place(t, l)] = l
        /\ stack[t][l].func = "call" => Place(t, l) = 1

FrameOK(t, l) == Nested(t, l) /\ Admitted(t, l) /\ Current(t, l) /\ Owned(t, l)

StacksOK ==
    \A t \in Threads : Level(t) <= MaxDepth /\ \A l \in Levels(t) : FrameOK(t, l)

(* The inductive invariant. *)
IInv == HandlingMatches /\ TcsExclusive /\ StacksOK

-----------------------------------------------------------------------------
(* What the types say of a thread's stack. *)
LEMMA StackType ==
  ASSUME TypeOK, NEW t \in Threads
  PROVE  /\ stack[t] \in Seq(Frames) /\ Level(t) \in Nat
         /\ stack[t] # <<>> <=> Level(t) \in Levels(t)
         /\ \A l \in Levels(t) : /\ stack[t][l] \in Frames
                                 /\ stack[t][l].e \in Enclaves /\ stack[t][l].i \in Tcs
                                 /\ Site(t, l) \in Bindings
<1>1. stack[t] \in Seq(Frames) /\ Level(t) \in Nat
  BY DEF TypeOK, Level
<1>2. stack[t] # <<>> <=> Level(t) \in Levels(t)
  BY <1>1 DEF Level, Levels
<1>3. ASSUME NEW l \in Levels(t)
      PROVE  /\ stack[t][l] \in Frames
             /\ stack[t][l].e \in Enclaves /\ stack[t][l].i \in Tcs
             /\ Site(t, l) \in Bindings
  <2>1. stack[t][l] \in Frames
    BY <1>1, <1>3 DEF Level, Levels
  <2>2. stack[t][l].e \in Enclaves /\ stack[t][l].i \in Tcs
    BY <2>1 DEF Frames
  <2> QED BY <2>1, <2>2 DEF Site, Bindings
<1> QED BY <1>1, <1>2, <1>3

(* The last frame of t becomes f. *)
Becomes(t, f) == stack' = [stack EXCEPT ![t] = [@ EXCEPT ![Level(t)] = f]]

LEMMA TopChanged ==
  ASSUME TypeOK, NEW t \in Threads, stack[t] # <<>>, NEW f \in Frames, Becomes(t, f)
  PROVE  /\ stack' \in [Threads -> Seq(Frames)]
         /\ Level(t)' = Level(t) /\ Level(t) \in Levels(t)
         /\ stack'[t][Level(t)] = f
         /\ \A l \in Levels(t) \ {Level(t)} : stack'[t][l] = stack[t][l]
         /\ \A u \in Threads \ {t} : stack'[u] = stack[u]
<1>1. stack[t] \in Seq(Frames) /\ Level(t) \in Nat /\ Level(t) \in Levels(t)
  BY StackType
<1>2. stack'[t] = [stack[t] EXCEPT ![Level(t)] = f]
  BY DEF Becomes, TypeOK
<1>3. /\ stack'[t] \in Seq(Frames) /\ Len(stack'[t]) = Len(stack[t])
      /\ stack'[t][Level(t)] = f
      /\ \A l \in Levels(t) \ {Level(t)} : stack'[t][l] = stack[t][l]
  BY <1>1, <1>2, ExceptSeq DEF Level, Levels
<1>4. \A u \in Threads \ {t} : stack'[u] = stack[u]
  BY DEF Becomes, TypeOK
<1>5. stack' \in [Threads -> Seq(Frames)]
  BY <1>3, <1>4 DEF Becomes, TypeOK
<1> QED BY <1>1, <1>3, <1>4, <1>5 DEF Level

(* Goto and Leave in that form. *)
LEMMA GotoBecomes ==
  ASSUME TypeOK, NEW t \in Threads, stack[t] # <<>>,
         NEW l \in {"enter", "seal", "handle", "run", "abort", "host", "oret", "fault", "ret"},
         Goto(t, l)
  PROVE  /\ Becomes(t, [Top(t) EXCEPT !.at = l])
         /\ [Top(t) EXCEPT !.at = l] \in Frames
<1>1. Top(t) \in Frames
  BY StackType DEF Top
<1> QED BY <1>1 DEF Goto, Becomes, Top, Frames

LEMMA LeaveBecomes ==
  ASSUME TypeOK, NEW t \in Threads, stack[t] # <<>>,
         NEW r \in {"none", "ok", "failed", "reentrant", "aborting", "aborted"}, Leave(t, r)
  PROVE  /\ Becomes(t, [Top(t) EXCEPT !.at = "ret", !.out = r])
         /\ [Top(t) EXCEPT !.at = "ret", !.out = r] \in Frames
<1>1. Top(t) \in Frames
  BY StackType DEF Top
<1>2. [Top(t) EXCEPT !.at = "ret", !.out = r] \in Frames
  BY <1>1 DEF Frames
<1>3. stack' = [stack EXCEPT ![t] = [[@ EXCEPT ![Level(t)].at = "ret"] EXCEPT ![Level(t)].out = r]]
  BY DEF Leave, TypeOK
<1> QED BY <1>1, <1>2, <1>3, StackType DEF Becomes, Top

-----------------------------------------------------------------------------
(* Activations and the count of a binding.                                   *)

LEMMA ActivationMember ==
  ASSUME TypeOK, StacksOK, NEW e \in Enclaves, NEW i \in Tcs
  PROVE  /\ \A t \in Threads : \A l \in Levels(t) :
              <<t, l>> \in Activations(e, i) <=> stack[t][l].e = e /\ stack[t][l].i = i
         /\ \A x \in Activations(e, i) :
              x[1] \in Threads /\ x[2] \in Levels(x[1]) /\ x = <<x[1], x[2]>>
<1>1. \A t \in Threads : Level(t) \in Nat /\ Level(t) <= MaxDepth
  BY StackType DEF StacksOK
<1> QED BY <1>1, BoundAssumption DEF Activations, Levels

(* Two frames on one TCS are of one thread. *)
LEMMA OneThread ==
  ASSUME IInv, NEW t \in Threads, NEW l \in Levels(t), NEW u \in Threads, NEW k \in Levels(u),
         Site(t, l) = Site(u, k)
  PROVE  /\ t = u /\ bindings[Site(t, l)].thread = t
<1> DEFINE e == stack[t][l].e
           i == stack[t][l].i
<1>1. TypeOK /\ StacksOK
  BY DEF IInv, HandlingMatches
<1>2. e \in Enclaves /\ i \in Tcs
  BY <1>1, StackType
<1>3. <<t, l>> \in Activations(e, i) /\ <<u, k>> \in Activations(e, i)
  BY <1>1, <1>2, ActivationMember DEF Site
<1>4. \A x \in Activations(e, i) : x[1] = bindings[<<e, i>>].thread
  BY <1>2 DEF IInv, TcsExclusive
<1> HIDE DEF e, i
<1>5. t = bindings[<<e, i>>].thread /\ u = bindings[<<e, i>>].thread
  BY <1>3, <1>4
<1> QED BY <1>5 DEF Site, e, i

(* The activations of one TCS are finitely many: they are of one thread. *)
LEMMA ActivationsFinite ==
  ASSUME IInv, NEW e \in Enclaves, NEW i \in Tcs
  PROVE  /\ IsFiniteSet(Activations(e, i)) /\ Cardinality(Activations(e, i)) \in Nat
         /\ \A t \in Threads : bindings[<<e, i>>].thread = t
                => Cardinality(Activations(e, i)) <= Level(t)
         /\ Activations(e, i) # {} => bindings[<<e, i>>].thread \in Threads
<1> DEFINE A == Activations(e, i)
           th == bindings[<<e, i>>].thread
<1>1. TypeOK /\ StacksOK
  BY DEF IInv, HandlingMatches
<1>2. \A x \in A : x[1] = th /\ x[1] \in Threads /\ x[2] \in Levels(x[1]) /\ x = <<x[1], x[2]>>
  <2>1. \A x \in A : x[1] = th
    BY DEF IInv, TcsExclusive
  <2> QED BY <1>1, <2>1, ActivationMember
<1> HIDE DEF A, th
<1>3. CASE A = {}
  <2>1. IsFiniteSet(A) /\ Cardinality(A) = 0
    BY <1>3, FS_EmptySet
  <2>2. \A t \in Threads : Level(t) >= 0
    BY <1>1, StackType
  <2> QED BY <1>3, <2>1, <2>2 DEF A, th
<1>4. CASE A # {}
  <2>1. th \in Threads
    BY <1>2, <1>4
  <2>2. Level(th) \in Nat
    BY <1>1, <2>1, StackType
  <2>3. IsFiniteSet(1 .. Level(th)) /\ Cardinality(1 .. Level(th)) = Level(th)
    BY <2>2, FS_Interval
  <2> DEFINE P == {<<th, l>> : l \in 1 .. Level(th)}
  <2>4. IsFiniteSet(P) /\ Cardinality(P) <= Level(th)
    <3> DEFINE g == [l \in 1 .. Level(th) |-> <<th, l>>]
    <3>1. g \in Surjection(1 .. Level(th), P)
      BY DEF Surjection
    <3> QED BY <2>3, <3>1, FS_Surjection
  <2>5. A \in SUBSET P
    BY <1>2 DEF Levels
  <2>6. IsFiniteSet(A) /\ Cardinality(A) \in Nat /\ Cardinality(A) <= Cardinality(P)
    BY <2>4, <2>5, FS_Subset, FS_CardinalityType
  <2>7. Cardinality(P) \in Nat
    BY <2>4, FS_CardinalityType
  <2> QED BY <2>1, <2>2, <2>4, <2>6, <2>7 DEF A, th
<1> QED BY <1>3, <1>4

(* A thread has a TCS of the enclave exactly while it is in the enclave. *)
LEMMA OwnInside ==
  ASSUME IInv, NEW t \in Threads, NEW e \in Enclaves, NEW i \in Tcs,
         bindings[<<e, i>>].thread = t
  PROVE  \E l \in Levels(t) : stack[t][l].e = e /\ Site(t, l) = <<e, i>>
<1>1. TypeOK /\ StacksOK
  BY DEF IInv, HandlingMatches
<1>2. bindings[<<e, i>>].count # 0
  BY NullAssumption DEF IInv, TcsExclusive
<1>3. Activations(e, i) # {}
  <2>1. bindings[<<e, i>>].count = Cardinality(Activations(e, i))
    BY DEF IInv, TcsExclusive
  <2> QED BY <1>2, <2>1, FS_EmptySet
<1>4. PICK x \in Activations(e, i) : TRUE
  BY <1>3
<1>5. x[1] = t
  BY <1>4 DEF IInv, TcsExclusive
<1>6. x[2] \in Levels(t) /\ x = <<t, x[2]>>
  BY <1>1, <1>4, <1>5, ActivationMember
<1>7. stack[t][x[2]].e = e /\ stack[t][x[2]].i = i
  BY <1>1, <1>4, <1>6, ActivationMember
<1> QED BY <1>6, <1>7 DEF Site

(* A step that changes neither who is where nor the bindings. *)
LEMMA SameActivations ==
  ASSUME IInv, TypeOK', UNCHANGED bindings,
         \A u \in Threads : /\ Level(u)' = Level(u)
                            /\ \A l \in Levels(u) : /\ stack'[u][l].e = stack[u][l].e
                                                    /\ stack'[u][l].i = stack[u][l].i
                                                    /\ stack'[u][l].func = stack[u][l].func
  PROVE  HandlingMatches' /\ TcsExclusive'
<1>1. TypeOK /\ StacksOK
  BY DEF IInv, HandlingMatches
<1>2. ASSUME NEW e \in Enclaves, NEW i \in Tcs PROVE Activations(e, i)' = Activations(e, i)
  <2>1. \A u \in Threads : Level(u) \in Nat
    BY <1>1, StackType
  <2> QED BY <2>1, BoundAssumption DEF Activations, Levels
<1>3. TcsExclusive'
  BY <1>2 DEF IInv, TcsExclusive
<1>4. ASSUME NEW e \in Enclaves, NEW i \in Tcs, NEW x \in Activations(e, i)
      PROVE  stack'[x[1]][x[2]].func = stack[x[1]][x[2]].func
  BY <1>1, <1>4, ActivationMember
<1>5. ASSUME NEW e \in Enclaves, NEW i \in Tcs
      PROVE  bindings'[<<e, i>>].handling
                <=> \E x \in Activations(e, i)' : stack'[x[1]][x[2]].func = "exception"
  BY <1>2, <1>4 DEF IInv, HandlingMatches
<1> QED BY <1>3, <1>5 DEF HandlingMatches

-----------------------------------------------------------------------------
(* The enclaves only get older. *)
Older ==
    \A e \in Enclaves : /\ life[e] # "none" => life'[e] # "none"
                        /\ status[e] # "OK" => status'[e] # "OK"
                        /\ inited[e] => inited'[e]

(* A step of another thread, on another TCS. *)
LEMMA OthersOK ==
  ASSUME IInv, Older, NEW u \in Threads, stack'[u] = stack[u], tsd'[u] = tsd[u],
         \A l \in Levels(u) : callsites'[Site(u, l)] = callsites[Site(u, l)]
  PROVE  Level(u)' <= MaxDepth /\ \A l \in Levels(u)' : FrameOK(u, l)'
<1>1. TypeOK /\ StacksOK
  BY DEF IInv, HandlingMatches
<1>2. Level(u)' = Level(u) /\ Levels(u)' = Levels(u)
  BY DEF Level, Levels
<1>3. Level(u) <= MaxDepth
  BY <1>1 DEF StacksOK
<1>4. ASSUME NEW l \in Levels(u) PROVE FrameOK(u, l)'
  <2>1. FrameOK(u, l) /\ Site(u, l)' = Site(u, l) /\ stack[u][l].e \in Enclaves
    BY <1>1, StackType DEF StacksOK, Site
  <2>2. Nested(u, l)'
    BY <1>2, <2>1 DEF FrameOK, Nested, Site
  <2>3. Admitted(u, l)'
    BY <2>1 DEF FrameOK, Admitted, Older
  <2>4. Current(u, l)'
    BY <1>2, <2>1 DEF FrameOK, Current
  <2>5. Owned(u, l)'
    BY <1>2, <2>1 DEF FrameOK, Owned, Place, Covered
  <2> QED BY <2>2, <2>3, <2>4, <2>5 DEF FrameOK
<1> QED BY <1>2, <1>3, <1>4

(* The running frame of t goes on, as f: only this TCS's callsites and this  *)
(* thread's TSD can change.  What remains to be shown is about t's frames.   *)
LEMMA TopStep ==
  ASSUME IInv, Older, NEW t \in Threads, stack[t] # <<>>, NEW f \in Frames, Becomes(t, f),
         f.e = Top(t).e, f.i = Top(t).i, f.func = Top(t).func,
         UNCHANGED <<alive, life, bindings>>,
         status' \in [Enclaves -> {"OK", "ABORTING", "ABORTED"}],
         inited' \in [Enclaves -> BOOLEAN],
         callsites' \in [Bindings -> Seq(1 .. MaxDepth)],
         tsd' \in [Threads -> Bindings \cup {NoBinding}],
         \A b \in Bindings \ {Bound(t)} : callsites'[b] = callsites[b],
         \A u \in Threads \ {t} : tsd'[u] = tsd[u],
         \A l \in Levels(t) : FrameOK(t, l)'
  PROVE  IInv'
<1>1. TypeOK /\ StacksOK
  BY DEF IInv, HandlingMatches
<1>2. /\ stack' \in [Threads -> Seq(Frames)]
      /\ Level(t)' = Level(t) /\ Level(t) \in Levels(t)
      /\ stack'[t][Level(t)] = f
      /\ \A l \in Levels(t) \ {Level(t)} : stack'[t][l] = stack[t][l]
      /\ \A u \in Threads \ {t} : stack'[u] = stack[u]
  BY <1>1, TopChanged
<1>3. TypeOK'
  BY <1>1, <1>2 DEF TypeOK
<1>4. ASSUME NEW u \in Threads
      PROVE  /\ Level(u)' = Level(u)
             /\ \A l \in Levels(u) : /\ stack'[u][l].e = stack[u][l].e
                                     /\ stack'[u][l].i = stack[u][l].i
                                     /\ stack'[u][l].func = stack[u][l].func
  <2>1. CASE u = t
    BY <1>2, <2>1 DEF Top
  <2>2. CASE u # t
    BY <1>2, <2>2 DEF Level
  <2> QED BY <2>1, <2>2
<1>5. HandlingMatches' /\ TcsExclusive'
  BY <1>3, <1>4, SameActivations
<1>6. ASSUME NEW u \in Threads
      PROVE  Level(u)' <= MaxDepth /\ \A l \in Levels(u)' : FrameOK(u, l)'
  <2>1. CASE u = t
    BY <1>1, <1>2, <2>1 DEF StacksOK, Levels
  <2>2. CASE u # t
    <3>1. ASSUME NEW l \in Levels(u) PROVE callsites'[Site(u, l)] = callsites[Site(u, l)]
      <4>1. Site(u, l) # Site(t, Level(t))
        BY <1>2, <2>2, OneThread
      <4>2. Site(u, l) \in Bindings
        BY <1>1, StackType
      <4> QED BY <4>1, <4>2 DEF Bound, Top, Site
    <3> QED BY <1>2, <2>2, <3>1, OthersOK
  <2> QED BY <2>1, <2>2
<1> QED BY <1>5, <1>6 DEF IInv, StacksOK

(* The frames below the running one are not touched, when the callsites      *)
(* change only as their owner's place in them allows.                        *)
LEMMA LowerFrames ==
  ASSUME IInv, Older, NEW t \in Threads, stack[t] # <<>>, NEW f \in Frames, Becomes(t, f),
         f.func = Top(t).func,
         NEW l \in Levels(t) \ {Level(t)},
         \/ UNCHANGED callsites /\ (f.func = "exception" => f.at # "run" /\ Top(t).at # "run")
         \/ Owned(t, l)'
  PROVE  FrameOK(t, l)'
<1>1. TypeOK /\ StacksOK
  BY DEF IInv, HandlingMatches
<1>2. /\ Level(t)' = Level(t) /\ Level(t) \in Levels(t) /\ Level(t) \in Nat
      /\ stack'[t][Level(t)] = f
      /\ \A k \in Levels(t) \ {Level(t)} : stack'[t][k] = stack[t][k]
  BY <1>1, TopChanged, StackType
<1>3. /\ FrameOK(t, l) /\ stack'[t][l] = stack[t][l] /\ Site(t, l)' = Site(t, l)
      /\ stack[t][l].e \in Enclaves /\ l < Level(t) /\ l \in 1 .. Level(t)
  <2>1. l < Level(t) /\ l \in 1 .. Level(t) /\ stack'[t][l] = stack[t][l]
    BY <1>2 DEF Levels
  <2>2. FrameOK(t, l) /\ stack[t][l].e \in Enclaves
    BY <1>1, StackType DEF StacksOK
  <2> QED BY <2>1, <2>2 DEF Site
<1>4. /\ stack[t][l].at \in {"host", "fault"} /\ stack[t][l].func # "exception"
      /\ l + 1 \in Levels(t)
      /\ stack'[t][l + 1].func = stack[t][l + 1].func
  BY <1>2, <1>3 DEF FrameOK, Nested, Levels, Top
<1>5. Nested(t, l)'
  BY <1>2, <1>3, <1>4 DEF FrameOK, Nested, Levels
<1>6. Admitted(t, l)'
  BY <1>3 DEF FrameOK, Admitted, Older
<1>7. Current(t, l)'
  BY <1>2, <1>3 DEF FrameOK, Current
<1>8. Owned(t, l)'
  <2>1. ASSUME UNCHANGED callsites, f.func = "exception" => f.at # "run" /\ Top(t).at # "run"
        PROVE  Owned(t, l)'
    <3>1. Covered(t, l)' <=> Covered(t, l)
      <4>1. CASE l + 1 = Level(t)
        BY <1>2, <1>3, <2>1, <4>1 DEF Covered, Top
      <4>2. CASE l + 1 # Level(t)
        BY <1>2, <1>3, <1>4, <4>2 DEF Covered
      <4> QED BY <4>1, <4>2
    <3> QED BY <1>3, <2>1, <3>1 DEF FrameOK, Owned, Place
  <2> QED BY <2>1
<1> QED BY <1>5, <1>6, <1>7, <1>8 DEF FrameOK

(* A step of the running frame that leaves the callsites alone. *)
LEMMA QuietStep ==
  ASSUME IInv, Older, NEW t \in Threads, stack[t] # <<>>, NEW f \in Frames, Becomes(t, f),
         f.e = Top(t).e, f.i = Top(t).i, f.func = Top(t).func, f.late = Top(t).late,
         UNCHANGED <<alive, life, bindings, callsites, inited>>,
         status' \in [Enclaves -> {"OK", "ABORTING", "ABORTED"}],
         tsd' \in [Threads -> Bindings \cup {NoBinding}],
         \A u \in Threads \ {t} : tsd'[u] = tsd[u],
         f.func = "exception" => f.at \in {"enter", "handle", "ret"} /\ Top(t).at # "run",
         f.at # "fault", f.at = "seal" => f.func = "destructor",
         f.func = "call" /\ f.at = "handle" => status[f.e] = "OK",
         f.at \in Pushed => Top(t).at \in Pushed,
         f.at = "host" => f.saved = Bound(t),
         f.at \in {"run", "oret", "abort"} \/ f.func = "exception" => tsd'[t] = Bound(t),
         f.at \in {"enter", "seal", "handle"}
            => Top(t).at \in {"enter", "seal", "handle"} /\ tsd'[t] = tsd[t]
  PROVE  IInv'
<1>1. TypeOK /\ StacksOK
  BY DEF IInv, HandlingMatches
<1>2. /\ Level(t)' = Level(t) /\ Level(t) \in Levels(t) /\ Level(t) \in Nat
      /\ stack'[t][Level(t)] = f
      /\ \A k \in Levels(t) \ {Level(t)} : stack'[t][k] = stack[t][k]
      /\ Top(t) = stack[t][Level(t)]
      /\ stack[t][Level(t)].e \in Enclaves
  BY <1>1, TopChanged, StackType DEF Top
<1>3. PICK L \in Levels(t) : L = Level(t)
  BY <1>2
<1>4. FrameOK(t, L) /\ Site(t, L) = Bound(t) /\ Site(t, L)' = Bound(t)
  BY <1>1, <1>2, <1>3 DEF StacksOK, Site, Bound
<1>5. Nested(t, L)'
  <2>1. \A k \in 1 .. L - 1 : stack'[t][k] = stack[t][k]
    BY <1>2 DEF Levels
  <2>2. f.func = "exception" => L > 1 /\ Site(t, L - 1)' = Site(t, L - 1)
    BY <1>2, <1>3, <1>4, <2>1 DEF FrameOK, Nested, Site
  <2> QED BY <1>2, <1>3, <1>4, <2>1, <2>2 DEF FrameOK, Nested
<1>6. Admitted(t, L)'
  BY <1>2, <1>3, <1>4 DEF FrameOK, Admitted, Older, Pushed
<1>7. Current(t, L)'
  BY <1>2, <1>3, <1>4 DEF FrameOK, Current
<1>8. Owned(t, L)'
  BY <1>2, <1>3, <1>4 DEF FrameOK, Owned, Place, Covered
<1>9. FrameOK(t, L)'
  BY <1>5, <1>6, <1>7, <1>8 DEF FrameOK
<1>10. ASSUME NEW l \in Levels(t) \ {L} PROVE FrameOK(t, l)'
  <2>1. l \in Levels(t) \ {Level(t)} /\ UNCHANGED callsites
    BY <1>3
  <2> QED BY <2>1, LowerFrames
<1>11. \A l \in Levels(t) : FrameOK(t, l)'
  BY <1>9, <1>10
<1>12. /\ inited' \in [Enclaves -> BOOLEAN]
       /\ callsites' \in [Bindings -> Seq(1 .. MaxDepth)]
       /\ \A b \in Bindings \ {Bound(t)} : callsites'[b] = callsites[b]
  BY <1>1 DEF TypeOK
<1> QED BY <1>11, <1>12, TopStep

(* The running frame of t, and what the invariant says of it. *)
LEMMA RunningFrame ==
  ASSUME IInv, NEW t \in Threads, stack[t] # <<>>
  PROVE  /\ TypeOK /\ StacksOK
         /\ Top(t) \in Frames /\ Top(t).e \in Enclaves /\ Top(t).i \in Tcs
         /\ Bound(t) \in Bindings /\ Bound(t) = Site(t, Level(t))
         /\ Level(t) \in Levels(t) /\ Level(t) \in 1 .. MaxDepth /\ Top(t) = stack[t][Level(t)]
         /\ FrameOK(t, Level(t))
         /\ Top(t).func = "exception" => Top(t).at \in {"enter", "handle", "run", "ret"}
<1>1. TypeOK /\ StacksOK
  BY DEF IInv, HandlingMatches
<1>2. /\ Level(t) \in Nat /\ Level(t) \in Levels(t) /\ Top(t) = stack[t][Level(t)]
      /\ Bound(t) = Site(t, Level(t))
  BY <1>1, StackType DEF Top, Bound, Site
<1>3. FrameOK(t, Level(t)) /\ Level(t) \in 1 .. MaxDepth
  BY <1>1, <1>2 DEF StacksOK, Levels
<1>4. /\ Top(t) \in Frames /\ Top(t).e \in Enclaves /\ Top(t).i \in Tcs
      /\ Bound(t) \in Bindings
  BY <1>1, <1>2, StackType
<1>5. Top(t).func = "exception" => Top(t).at \in {"enter", "handle", "run", "ret"}
  BY <1>2, <1>3 DEF FrameOK, Nested
<1> QED BY <1>1, <1>2, <1>3, <1>4, <1>5

(* The same, for a step that is a Goto or a Leave. *)
LEMMA QuietGoto ==
  ASSUME IInv, Older, NEW t \in Threads, stack[t] # <<>>,
         NEW l \in {"seal", "handle", "run", "abort", "oret"}, Goto(t, l),
         UNCHANGED <<alive, life, bindings, callsites, inited>>,
         status' \in [Enclaves -> {"OK", "ABORTING", "ABORTED"}],
         tsd' \in [Threads -> Bindings \cup {NoBinding}],
         \A u \in Threads \ {t} : tsd'[u] = tsd[u],
         Top(t).func = "exception" => l = "handle" /\ Top(t).at = "enter",
         l = "seal" => Top(t).func = "destructor",
         l = "handle" => Top(t).func # "call" \/ status[Top(t).e] = "OK",
         l \in {"seal", "handle"} => Top(t).at \in {"enter", "seal"} /\ tsd' = tsd,
         l \in {"run", "abort", "oret"} => Top(t).at \in Pushed /\ tsd'[t] = Bound(t)
  PROVE  IInv'
<1> DEFINE f == [Top(t) EXCEPT !.at = l]
<1>1. /\ TypeOK /\ Top(t) \in Frames /\ FrameOK(t, Level(t))
      /\ Bound(t) = Site(t, Level(t)) /\ Top(t) = stack[t][Level(t)]
  BY RunningFrame
<1>2. Top(t).func = "exception" => tsd[t] = Bound(t)
  BY <1>1 DEF FrameOK, Current
<1>3. Becomes(t, f) /\ f \in Frames
  BY <1>1, GotoBecomes
<1>4. /\ f.e = Top(t).e /\ f.i = Top(t).i /\ f.func = Top(t).func /\ f.late = Top(t).late
      /\ f.at = l
  BY <1>1 DEF Frames
<1> HIDE DEF f
<1> QED BY <1>2, <1>3, <1>4, QuietStep DEF Pushed

LEMMA QuietLeave ==
  ASSUME IInv, Older, NEW t \in Threads, stack[t] # <<>>,
         NEW r \in {"ok", "reentrant", "aborting", "aborted"}, Leave(t, r),
         UNCHANGED <<alive, life, bindings, callsites, inited, tsd>>,
         status' \in [Enclaves -> {"OK", "ABORTING", "ABORTED"}],
         Top(t).func = "exception" => Top(t).at # "run"
  PROVE  IInv'
<1> DEFINE f == [Top(t) EXCEPT !.at = "ret", !.out = r]
<1>1. /\ TypeOK /\ Top(t) \in Frames /\ FrameOK(t, Level(t))
      /\ Bound(t) = Site(t, Level(t)) /\ Top(t) = stack[t][Level(t)]
      /\ tsd \in [Threads -> Bindings \cup {NoBinding}]
  BY RunningFrame DEF TypeOK
<1>2. Top(t).func = "exception" => tsd[t] = Bound(t)
  BY <1>1 DEF FrameOK, Current
<1>3. Becomes(t, f) /\ f \in Frames
  BY <1>1, LeaveBecomes
<1>4. /\ f.e = Top(t).e /\ f.i = Top(t).i /\ f.func = Top(t).func /\ f.late = Top(t).late
      /\ f.at = "ret"
  BY <1>1 DEF Frames
<1> HIDE DEF f
<1> QED BY <1>1, <1>2, <1>3, <1>4, QuietStep DEF Pushed

-----------------------------------------------------------------------------
(* __oe_handle_main, on the way in. *)
LEMMA EnterStep ==
  ASSUME IInv, NEW t \in Threads, Enter(t) PROVE IInv'
<1> USE DEF Enter, At
<1>1. TypeOK /\ Top(t).e \in Enclaves
  BY RunningFrame
<1>2. Older
  BY DEF Older
<1>3. /\ status' \in [Enclaves -> {"OK", "ABORTING", "ABORTED"}]
      /\ tsd' \in [Threads -> Bindings \cup {NoBinding}]
      /\ status[Top(t).e] \in {"OK", "ABORTING", "ABORTED"}
  BY <1>1 DEF TypeOK
<1>4. CASE status[Top(t).e] = "OK"
  <2>1. Goto(t, "handle")
    BY <1>4
  <2> QED BY <1>2, <1>3, <1>4, <2>1, QuietGoto
<1>5. CASE status[Top(t).e] = "ABORTING" /\ Top(t).func = "destructor"
  <2>1. Goto(t, "seal")
    BY <1>5
  <2> QED BY <1>2, <1>3, <1>5, <2>1, QuietGoto
<1>6. CASE status[Top(t).e] = "ABORTING" /\ Top(t).func # "destructor"
  <2>1. Leave(t, "aborting")
    BY <1>6
  <2> QED BY <1>2, <1>3, <2>1, QuietLeave
<1>7. CASE status[Top(t).e] = "ABORTED"
  <2>1. Leave(t, "aborted")
    BY <1>7
  <2> QED BY <1>2, <1>3, <2>1, QuietLeave
<1> QED BY <1>3, <1>4, <1>5, <1>6, <1>7

LEMMA SealStep ==
  ASSUME IInv, NEW t \in Threads, Seal(t) PROVE IInv'
<1> USE DEF Seal, At
<1>1. /\ TypeOK /\ Top(t).e \in Enclaves /\ FrameOK(t, Level(t))
      /\ Top(t) = stack[t][Level(t)] /\ Top(t).at = "seal"
  BY RunningFrame
<1>2. Older
  BY <1>1 DEF Older, TypeOK
<1>3. /\ status' \in [Enclaves -> {"OK", "ABORTING", "ABORTED"}]
      /\ tsd' \in [Threads -> Bindings \cup {NoBinding}]
  BY <1>1 DEF TypeOK
<1>4. Top(t).func = "destructor"
  BY <1>1 DEF FrameOK, Nested
<1> QED BY <1>1, <1>2, <1>3, <1>4, QuietGoto

(* oe_ocall leaves the enclave. *)
LEMMA OcallStep ==
  ASSUME IInv, NEW t \in Threads, Ocall(t) PROVE IInv'
<1> USE DEF Ocall, At
<1> DEFINE f == [Top(t) EXCEPT !.at = "host", !.saved = tsd[t]]
<1>1. /\ TypeOK /\ Top(t) \in Frames /\ FrameOK(t, Level(t)) /\ stack[t] # <<>>
      /\ Bound(t) = Site(t, Level(t)) /\ Top(t) = stack[t][Level(t)] /\ Top(t).at = "run"
      /\ Bound(t) \in Bindings
  BY RunningFrame
<1>2. tsd[t] = Bound(t)
  BY <1>1 DEF FrameOK, Current
<1>3. f \in Frames
  BY <1>1, <1>2 DEF Frames
<1>4. Becomes(t, f)
  <2>1. stack' = [stack EXCEPT ![t] = [[@ EXCEPT ![Level(t)].at = "host"]
                                          EXCEPT ![Level(t)].saved = tsd[t]]]
    BY <1>1 DEF TypeOK
  <2>2. stack[t] \in Seq(Frames) /\ Level(t) \in DOMAIN stack[t]
    BY <1>1, StackType DEF Levels, Level
  <2>3. [[stack[t] EXCEPT ![Level(t)].at = "host"] EXCEPT ![Level(t)].saved = tsd[t]]
           = [stack[t] EXCEPT ![Level(t)] = f]
    BY <1>1, <2>2
  <2> HIDE DEF f
  <2> QED BY <1>1, <2>1, <2>3 DEF Becomes, TypeOK
<1>5. /\ f.e = Top(t).e /\ f.i = Top(t).i /\ f.func = Top(t).func /\ f.late = Top(t).late
      /\ f.at = "host" /\ f.saved = Bound(t)
  BY <1>1, <1>2 DEF Frames
<1>6. /\ status' \in [Enclaves -> {"OK", "ABORTING", "ABORTED"}]
      /\ tsd' \in [Threads -> Bindings \cup {NoBinding}]
      /\ UNCHANGED <<alive, life, bindings, callsites, inited>>
  BY <1>1 DEF TypeOK
<1>7. Older
  BY DEF Older
<1>8. \A u \in Threads \ {t} : tsd'[u] = tsd[u]
  OBVIOUS
<1>9. f.func # "exception"
  BY <1>5
<1> HIDE DEF f
<1> QED BY <1>1, <1>2, <1>3, <1>4, <1>5, <1>6, <1>7, <1>8, <1>9, QuietStep DEF Pushed

(* The ocall's host function returns and the binding is restored. *)
LEMMA HostReturnStep ==
  ASSUME IInv, NEW t \in Threads, HostReturn(t) PROVE IInv'
<1> USE DEF HostReturn, At
<1>1. /\ TypeOK /\ FrameOK(t, Level(t)) /\ Top(t).at = "host"
      /\ Bound(t) = Site(t, Level(t)) /\ Top(t) = stack[t][Level(t)] /\ Bound(t) \in Bindings
      /\ Top(t).func # "exception"
  BY RunningFrame
<1>2. Older
  BY DEF Older
<1>3. Top(t).saved = Bound(t)
  BY <1>1 DEF FrameOK, Current
<1>4. /\ status' \in [Enclaves -> {"OK", "ABORTING", "ABORTED"}]
      /\ tsd' \in [Threads -> Bindings \cup {NoBinding}]
      /\ tsd'[t] = Bound(t) /\ \A u \in Threads \ {t} : tsd'[u] = tsd[u]
  BY <1>1, <1>3 DEF TypeOK
<1>5. Goto(t, "oret") /\ UNCHANGED <<alive, life, bindings, callsites, inited>>
  OBVIOUS
<1> QED BY <1>1, <1>2, <1>4, <1>5, QuietGoto DEF Pushed

(* __oe_handle_main, on the way back from an ocall. *)
LEMMA OretStep ==
  ASSUME IInv, NEW t \in Threads, Oret(t) PROVE IInv'
<1> USE DEF Oret, At
<1>1. /\ TypeOK /\ FrameOK(t, Level(t)) /\ Top(t).at = "oret"
      /\ Bound(t) = Site(t, Level(t)) /\ Top(t) = stack[t][Level(t)]
      /\ Top(t).func # "exception"
  BY RunningFrame
<1>2. Older
  BY DEF Older
<1>3. tsd[t] = Bound(t)
  BY <1>1 DEF FrameOK, Current
<1>4. /\ status' \in [Enclaves -> {"OK", "ABORTING", "ABORTED"}]
      /\ tsd' \in [Threads -> Bindings \cup {NoBinding}]
  BY <1>1 DEF TypeOK
<1>5. CASE status[Top(t).e] = "ABORTED"
  BY <1>1, <1>2, <1>4, <1>5, QuietLeave
<1>6. CASE status[Top(t).e] # "ABORTED"
  BY <1>1, <1>2, <1>3, <1>4, <1>6, QuietGoto DEF Pushed
<1> QED BY <1>5, <1>6

(* oe_abort *)
LEMMA AbortStep ==
  ASSUME IInv, NEW t \in Threads, Abort(t) PROVE IInv'
<1> USE DEF Abort, At
<1>1. /\ TypeOK /\ FrameOK(t, Level(t)) /\ Top(t).at = "run" /\ Top(t).e \in Enclaves
      /\ Bound(t) = Site(t, Level(t)) /\ Top(t) = stack[t][Level(t)]
  BY RunningFrame
<1>2. Older
  BY DEF Older
<1>3. tsd[t] = Bound(t)
  BY <1>1 DEF FrameOK, Current
<1>4. /\ status' \in [Enclaves -> {"OK", "ABORTING", "ABORTED"}]
      /\ tsd' \in [Threads -> Bindings \cup {NoBinding}]
      /\ status[Top(t).e] \in {"OK", "ABORTING", "ABORTED"}
  BY <1>1 DEF TypeOK
<1>5. CASE status[Top(t).e] = "OK"
  BY <1>1, <1>2, <1>3, <1>4, <1>5, QuietGoto DEF Pushed
<1>6. CASE status[Top(t).e] = "ABORTING"
  BY <1>1, <1>2, <1>4, <1>6, QuietLeave
<1>7. CASE status[Top(t).e] = "ABORTED"
  BY <1>1, <1>2, <1>4, <1>7, QuietLeave
<1> QED BY <1>4, <1>5, <1>6, <1>7

LEMMA AbortStoreStep ==
  ASSUME IInv, NEW t \in Threads, AbortStore(t) PROVE IInv'
<1> USE DEF AbortStore, At
<1>1. TypeOK /\ Top(t).at = "abort" /\ Top(t).e \in Enclaves
  BY RunningFrame
<1>2. Older /\ status' \in [Enclaves -> {"OK", "ABORTING", "ABORTED"}]
  BY <1>1 DEF Older, TypeOK
<1> QED BY <1>1, <1>2, QuietLeave

(* The frames below the running one, and which of them has the callsite of   *)
(* an exception handler on top of its own.                                   *)
LEMMA Lower ==
  ASSUME IInv, NEW t \in Threads, stack[t] # <<>>, NEW l \in Levels(t) \ {Level(t)}
  PROVE  /\ l \in 1 .. Level(t) - 1
         /\ stack[t][l].at \in Pushed /\ stack[t][l].func # "exception"
         /\ Covered(t, l) <=> l = Level(t) - 1 /\ Top(t).func = "exception" /\ Top(t).at = "run"
         /\ Top(t).func = "exception" => /\ Level(t) - 1 \in Levels(t) \ {Level(t)}
                                         /\ Site(t, Level(t) - 1) = Bound(t)
         /\ Top(t).func = "destructor" => Site(t, l) # Bound(t)
         /\ Owned(t, l) /\ callsites[Site(t, l)] \in Seq(1 .. MaxDepth)
<1>1. /\ TypeOK /\ StacksOK /\ FrameOK(t, Level(t)) /\ Level(t) \in Nat
      /\ Bound(t) = Site(t, Level(t)) /\ Top(t) = stack[t][Level(t)]
  BY RunningFrame
<1>2. /\ FrameOK(t, l) /\ l \in 1 .. Level(t) - 1 /\ l + 1 \in Levels(t)
      /\ Site(t, l) \in Bindings
  BY <1>1, StackType DEF StacksOK, Levels
<1>3. stack[t][l].at \in {"host", "fault"} /\ stack[t][l].func # "exception" /\ Owned(t, l)
  BY <1>1, <1>2 DEF FrameOK, Nested
<1>4. Covered(t, l) <=> l = Level(t) - 1 /\ Top(t).func = "exception" /\ Top(t).at = "run"
  <2>1. FrameOK(t, l + 1)
    BY <1>1, <1>2 DEF StacksOK
  <2>2. stack[t][l + 1].func = "exception" => l + 1 = Level(t)
    BY <2>1 DEF FrameOK, Nested
  <2> QED BY <1>1, <1>2, <2>2 DEF Covered
<1>5. Top(t).func = "exception" => /\ Level(t) - 1 \in Levels(t) \ {Level(t)}
                                   /\ Site(t, Level(t) - 1) = Bound(t)
  BY <1>1, <1>2 DEF FrameOK, Nested, Levels
<1>6. Top(t).func = "destructor" => Site(t, l) # Bound(t)
  BY <1>1, <1>2 DEF FrameOK, Nested, Site, Bound
<1>7. callsites[Site(t, l)] \in Seq(1 .. MaxDepth)
  BY <1>1, <1>2 DEF TypeOK
<1> QED BY <1>2, <1>3, <1>4, <1>5, <1>6, <1>7 DEF Pushed

(* _handle_ecall pushes a callsite: either it is the first one, or the one   *)
(* of an exception handler on top of the function it interrupted.            *)
LEMMA DispatchStep ==
  ASSUME IInv, NEW t \in Threads, Dispatch(t) PROVE IInv'
<1> USE DEF Dispatch, At
<1>1. /\ TypeOK /\ FrameOK(t, Level(t)) /\ Top(t).at = "handle" /\ Top(t).e \in Enclaves
      /\ Bound(t) = Site(t, Level(t)) /\ Top(t) = stack[t][Level(t)] /\ Top(t) \in Frames
      /\ Level(t) \in Levels(t) /\ Level(t) \in 1 .. MaxDepth
      /\ Bound(t) \in Bindings /\ stack[t] # <<>>
  BY RunningFrame
<1>2. Older /\ status' \in [Enclaves -> {"OK", "ABORTING", "ABORTED"}]
  BY <1>1 DEF Older, TypeOK
<1>3. CASE ~Dispatched(t)
  <2>1. PICK r \in {"reentrant", "ok"} : Leave(t, r)
    BY <1>3
  <2> QED BY <1>1, <1>2, <1>3, <2>1, QuietLeave
<1>4. CASE Dispatched(t)
  <2> DEFINE f == [Top(t) EXCEPT !.at = "run"]
             c == callsites[Bound(t)]
  <2>1. Goto(t, "run") /\ callsites' = [callsites EXCEPT ![Bound(t)] = Append(@, Level(t))]
    BY <1>4 DEF PushCallsite
  <2>2. Becomes(t, f) /\ f \in Frames
    BY <1>1, <2>1, GotoBecomes
  <2>3. /\ f.e = Top(t).e /\ f.i = Top(t).i /\ f.func = Top(t).func /\ f.late = Top(t).late
        /\ f.at = "run"
    BY <1>1 DEF Frames
  <2> HIDE DEF f
  <2>4. /\ Level(t)' = Level(t) /\ stack'[t][Level(t)] = f
        /\ \A l \in Levels(t) \ {Level(t)} : stack'[t][l] = stack[t][l]
    BY <1>1, <2>2, TopChanged
  <2>5. PICK L \in 1 .. MaxDepth : L = Level(t)
    BY <1>1
  <2>6. /\ c \in Seq(1 .. MaxDepth) /\ callsites'[Bound(t)] = Append(c, L)
        /\ callsites' \in [Bindings -> Seq(1 .. MaxDepth)]
        /\ \A b \in Bindings \ {Bound(t)} : callsites'[b] = callsites[b]
    BY <1>1, <2>1, <2>5 DEF TypeOK
  <2>7. /\ Len(c) \in Nat /\ Len(Append(c, L)) = Len(c) + 1
        /\ \A k \in 1 .. Len(c) : Append(c, L)[k] = c[k]
        /\ Append(c, L)[Len(c) + 1] = L
        /\ c # <<>> <=> Len(c) > 0
    BY <2>6
  <2>8. c # <<>> => Top(t).func \in {"exception", "destructor"}
    BY <1>4 DEF Dispatched
  <2> HIDE DEF c
  <2>9. FrameOK(t, L)'
    <3>1. Site(t, L)' = Bound(t) /\ L \in Levels(t)
      BY <1>1, <2>3, <2>4, <2>5 DEF Site, Bound
    <3>2. Nested(t, L)'
      <4>1. \A k \in 1 .. L - 1 : stack'[t][k] = stack[t][k]
        BY <2>4, <2>5 DEF Levels
      <4>2. f.func = "exception" => L > 1 /\ Site(t, L - 1)' = Site(t, L - 1)
        BY <1>1, <2>3, <2>5, <4>1 DEF FrameOK, Nested, Site
      <4> QED BY <1>1, <2>3, <2>4, <2>5, <3>1, <4>1, <4>2 DEF FrameOK, Nested
    <3>3. Admitted(t, L)'
      BY <1>1, <1>4, <2>3, <2>4, <2>5 DEF FrameOK, Admitted, Pushed, Dispatched
    <3>4. Current(t, L)'
      BY <1>1, <2>3, <2>4, <2>5, <2>8, <3>1 DEF FrameOK, Current, c
    <3>5. Owned(t, L)'
      <4>1. ~Covered(t, L)'
        BY <2>4, <2>5 DEF Covered
      <4>2. callsites'[Site(t, L)'] = Append(c, L) /\ stack'[t][L] = f
        BY <2>4, <2>5, <2>6, <3>1
      <4>3. Place(t, L)' = Len(c) + 1
        BY <2>7, <4>1, <4>2 DEF Place
      <4> QED BY <2>3, <2>7, <2>8, <4>2, <4>3 DEF Owned
    <3> QED BY <3>2, <3>3, <3>4, <3>5 DEF FrameOK
  <2>10. ASSUME NEW l \in Levels(t) \ {Level(t)} PROVE FrameOK(t, l)'
    <3>1. /\ l \in 1 .. L - 1
          /\ stack[t][l].at \in Pushed /\ stack[t][l].func # "exception"
          /\ ~Covered(t, l)
          /\ Top(t).func = "exception" => /\ L - 1 \in Levels(t) \ {Level(t)}
                                          /\ Site(t, L - 1) = Bound(t)
          /\ Top(t).func = "destructor" => Site(t, l) # Bound(t)
          /\ Owned(t, l)
      BY <1>1, <2>5, Lower
    <3>2. stack'[t][l] = stack[t][l] /\ Site(t, l)' = Site(t, l) /\ Site(t, l) \in Bindings
      BY <1>1, <2>4, StackType DEF Site
    <3>3. Covered(t, l)' <=> l = L - 1 /\ f.func = "exception"
      <4>1. CASE l = L - 1
        BY <2>3, <2>4, <2>5, <3>1, <4>1 DEF Covered
      <4>2. CASE l # L - 1
        <5>1. l + 1 \in Levels(t) \ {Level(t)}
          BY <2>5, <3>1, <4>2 DEF Levels
        <5>2. stack[t][l + 1].func # "exception"
          BY <1>1, <5>1, Lower
        <5> QED BY <2>4, <4>2, <5>1, <5>2 DEF Covered
      <4> QED BY <4>1, <4>2
    <3>4. CASE Site(t, l) # Bound(t)
      <4>1. ~Covered(t, l)' /\ callsites'[Site(t, l)'] = callsites[Site(t, l)]
        BY <2>3, <2>6, <3>1, <3>2, <3>3, <3>4
      <4>2. Place(t, l)' = Place(t, l)
        BY <3>1, <4>1 DEF Place
      <4>3. Owned(t, l)'
        BY <3>1, <3>2, <4>1, <4>2 DEF Owned
      <4> QED BY <1>1, <1>2, <2>2, <2>3, <4>3, LowerFrames
    <3>5. CASE Site(t, l) = Bound(t)
      <4>1. Len(c) >= 1 /\ c[Len(c)] = l /\ (stack[t][l].func = "call" => Len(c) = 1)
        BY <3>1, <3>5 DEF Owned, Place, c
      <4>2. Top(t).func = "exception"
        BY <2>7, <2>8, <3>1, <3>5, <4>1
      <4>3. l = L - 1
        <5>1. L - 1 \in Levels(t) \ {Level(t)} /\ Site(t, L - 1) = Bound(t)
          BY <3>1, <4>2
        <5>2. Owned(t, L - 1) /\ stack[t][L - 1].at \in Pushed /\ ~Covered(t, L - 1)
          BY <1>1, <5>1, Lower
        <5>3. c[Len(c)] = L - 1
          BY <5>1, <5>2 DEF Owned, Place, c
        <5> QED BY <4>1, <5>3
      <4>4. Owned(t, l)'
        <5>1. Covered(t, l)' /\ callsites'[Site(t, l)'] = Append(c, L)
          BY <2>3, <2>6, <3>2, <3>3, <3>5, <4>2, <4>3
        <5>2. Place(t, l)' = Len(c)
          BY <2>7, <5>1 DEF Place
        <5> QED BY <2>7, <3>2, <4>1, <5>1, <5>2 DEF Owned
      <4> QED BY <1>1, <1>2, <2>2, <2>3, <4>4, LowerFrames
    <3> QED BY <3>4, <3>5
  <2>11. \A l \in Levels(t) : FrameOK(t, l)'
    BY <2>5, <2>9, <2>10
  <2>12. /\ inited' \in [Enclaves -> BOOLEAN] /\ tsd' \in [Threads -> Bindings \cup {NoBinding}]
         /\ UNCHANGED <<alive, life, bindings>> /\ \A u \in Threads \ {t} : tsd'[u] = tsd[u]
    BY <1>1 DEF TypeOK
  <2> QED BY <1>1, <1>2, <2>2, <2>3, <2>6, <2>11, <2>12, TopStep
<1> QED BY <1>3, <1>4

(* A sequence without its last member. *)
LEMMA DropLast ==
  ASSUME NEW S, NEW q \in Seq(S), Len(q) >= 1
  PROVE  /\ SubSeq(q, 1, Len(q) - 1) \in Seq(S)
         /\ Len(SubSeq(q, 1, Len(q) - 1)) = Len(q) - 1
         /\ \A k \in 1 .. Len(q) - 1 : SubSeq(q, 1, Len(q) - 1)[k] = q[k]
<1>1. Len(q) \in Nat /\ \A k \in 1 .. Len(q) - 1 : q[k] \in S
  BY LenProperties
<1> DEFINE n == Len(q) - 1
<1>2. n \in Int /\ n >= 0
  BY <1>1
<1> HIDE DEF n
<1>3. /\ SubSeq(q, 1, n) \in Seq(S)
      /\ Len(SubSeq(q, 1, n)) = IF 1 <= n THEN n - 1 + 1 ELSE 0
      /\ \A k \in 1 .. n - 1 + 1 : SubSeq(q, 1, n)[k] = q[1 + k - 1]
  <2>1. \A k \in 1 .. n : q[k] \in S
    BY <1>1 DEF n
  <2> QED BY <1>2, <2>1, SubSeqProperties
<1>4. Len(SubSeq(q, 1, n)) = n /\ \A k \in 1 .. n : SubSeq(q, 1, n)[k] = q[k]
  BY <1>2, <1>3
<1> QED BY <1>3, <1>4 DEF n

(* The function returns and its callsite is popped; the last one is then     *)
(* that of the function it interrupted, if it was an exception handler.      *)
LEMMA FinishStep ==
  ASSUME IInv, NEW t \in Threads, Finish(t) PROVE IInv'
<1> USE DEF Finish, At
<1>1. /\ TypeOK /\ FrameOK(t, Level(t)) /\ Top(t).at = "run" /\ Top(t).e \in Enclaves
      /\ Bound(t) = Site(t, Level(t)) /\ Top(t) = stack[t][Level(t)] /\ Top(t) \in Frames
      /\ Level(t) \in Levels(t) /\ Level(t) \in 1 .. MaxDepth
      /\ Bound(t) \in Bindings /\ stack[t] # <<>>
  BY RunningFrame
<1>2. PICK r \in {"ok", "failed"} :
        /\ Leave(t, r)
        /\ inited' = [inited EXCEPT ![Top(t).e] = @ \/ (Top(t).func = "init" /\ r = "ok")]
  BY DEF Outcomes
<1> DEFINE f == [Top(t) EXCEPT !.at = "ret", !.out = r]
           c == callsites[Bound(t)]
           d == SubSeq(c, 1, Len(c) - 1)
<1>3. Becomes(t, f) /\ f \in Frames
  BY <1>1, <1>2, LeaveBecomes
<1>4. /\ f.e = Top(t).e /\ f.i = Top(t).i /\ f.func = Top(t).func /\ f.late = Top(t).late
      /\ f.at = "ret"
  BY <1>1 DEF Frames
<1> HIDE DEF f
<1>5. PICK L \in 1 .. MaxDepth : L = Level(t)
  BY <1>1
<1>6. /\ Level(t)' = L /\ stack'[t][L] = f
      /\ \A l \in Levels(t) \ {L} : stack'[t][l] = stack[t][l]
  BY <1>1, <1>3, <1>5, TopChanged
<1>7. c \in Seq(1 .. MaxDepth) /\ Len(c) \in Nat /\ Len(c) >= 1 /\ c[Len(c)] = L
  <2>1. c \in Seq(1 .. MaxDepth)
    BY <1>1 DEF TypeOK
  <2>2. ~Covered(t, L) /\ Owned(t, L) /\ stack[t][L].at \in Pushed
    BY <1>1, <1>5 DEF Covered, FrameOK, Pushed
  <2> QED BY <1>1, <1>5, <2>1, <2>2 DEF Owned, Place
<1>8. /\ d \in Seq(1 .. MaxDepth) /\ Len(d) = Len(c) - 1
      /\ \A k \in 1 .. Len(c) - 1 : d[k] = c[k]
  BY <1>7, DropLast
<1>9. /\ callsites'[Bound(t)] = d
      /\ callsites' \in [Bindings -> Seq(1 .. MaxDepth)]
      /\ \A b \in Bindings \ {Bound(t)} : callsites'[b] = callsites[b]
  BY <1>1, <1>8 DEF TypeOK, PopCallsite
<1> HIDE DEF c, d
<1>10. Older /\ inited' \in [Enclaves -> BOOLEAN]
  BY <1>1, <1>2 DEF Older, TypeOK
<1>11. FrameOK(t, L)'
  <2>1. Site(t, L)' = Bound(t) /\ L \in Levels(t)
    BY <1>1, <1>4, <1>5, <1>6 DEF Site, Bound
  <2>2. Nested(t, L)'
    <3>1. \A k \in 1 .. L - 1 : stack'[t][k] = stack[t][k]
      BY <1>5, <1>6 DEF Levels
    <3>2. f.func = "exception" => L > 1 /\ Site(t, L - 1)' = Site(t, L - 1)
      BY <1>1, <1>4, <1>5, <3>1 DEF FrameOK, Nested, Site
    <3> QED BY <1>1, <1>4, <1>5, <1>6, <2>1, <3>1, <3>2 DEF FrameOK, Nested
  <2>3. Admitted(t, L)'
    BY <1>1, <1>4, <1>5, <1>6, <1>10 DEF FrameOK, Admitted, Pushed, Older
  <2>4. Current(t, L)'
    BY <1>1, <1>4, <1>5, <1>6, <2>1 DEF FrameOK, Current
  <2>5. Owned(t, L)'
    BY <1>4, <1>6 DEF Owned, Pushed
  <2> QED BY <2>2, <2>3, <2>4, <2>5 DEF FrameOK
<1>12. ASSUME NEW l \in Levels(t) \ {L} PROVE FrameOK(t, l)'
  <2>1. /\ l \in 1 .. L - 1
        /\ stack[t][l].at \in Pushed /\ stack[t][l].func # "exception"
        /\ Covered(t, l) <=> l = L - 1 /\ Top(t).func = "exception"
        /\ Top(t).func = "exception" => /\ L - 1 \in Levels(t) \ {L}
                                        /\ Site(t, L - 1) = Bound(t)
        /\ Owned(t, l)
    BY <1>1, <1>5, <1>12, Lower
  <2>2. stack'[t][l] = stack[t][l] /\ Site(t, l)' = Site(t, l) /\ Site(t, l) \in Bindings
    BY <1>1, <1>6, StackType DEF Site
  <2>3. ~Covered(t, l)'
    <3>1. CASE l = L - 1
      BY <1>4, <1>5, <1>6, <3>1 DEF Covered
    <3>2. CASE l # L - 1
      <4>1. l + 1 \in Levels(t) \ {Level(t)}
        BY <1>5, <2>1, <3>2 DEF Levels
      <4>2. stack[t][l + 1].func # "exception"
        BY <1>1, <4>1, Lower
      <4> QED BY <1>5, <1>6, <4>1, <4>2 DEF Covered
    <3> QED BY <3>1, <3>2
  <2>4. ASSUME Site(t, l) # Bound(t) PROVE Owned(t, l)'
    <3>1. ~Covered(t, l) /\ callsites'[Site(t, l)'] = callsites[Site(t, l)]
      BY <1>9, <2>1, <2>2, <2>4
    <3>2. Place(t, l)' = Place(t, l)
      BY <2>3, <3>1 DEF Place
    <3> QED BY <2>1, <2>2, <3>1, <3>2 DEF Owned
  <2>5. ASSUME Site(t, l) = Bound(t) PROVE Owned(t, l)'
    <3>1. l = L - 1 /\ Top(t).func = "exception"
      <4>1. Covered(t, l)
        BY <1>5, <1>7, <2>1, <2>5 DEF Owned, Place, c
      <4> QED BY <2>1, <4>1
    <3>2. Len(c) - 1 >= 1 /\ c[Len(c) - 1] = l /\ (stack[t][l].func = "call" => Len(c) - 1 = 1)
      BY <2>1, <2>5, <3>1 DEF Owned, Place, c
    <3>3. callsites'[Site(t, l)'] = d
      BY <1>9, <2>2, <2>5
    <3>4. Place(t, l)' = Len(c) - 1
      BY <1>8, <2>3, <3>3 DEF Place
    <3> QED BY <1>7, <1>8, <2>2, <3>2, <3>3, <3>4 DEF Owned
  <2>6. Owned(t, l)'
    BY <2>4, <2>5
  <2> QED BY <1>1, <1>3, <1>4, <1>5, <1>10, <2>6, LowerFrames
<1>13. \A l \in Levels(t) : FrameOK(t, l)'
  BY <1>11, <1>12
<1>14. /\ status' \in [Enclaves -> {"OK", "ABORTING", "ABORTED"}]
       /\ tsd' \in [Threads -> Bindings \cup {NoBinding}]
       /\ UNCHANGED <<alive, life, bindings>> /\ \A u \in Threads \ {t} : tsd'[u] = tsd[u]
  BY <1>1 DEF TypeOK
<1> QED BY <1>1, <1>3, <1>4, <1>9, <1>10, <1>13, <1>14, TopStep

-----------------------------------------------------------------------------
(* A new activation of t, on the TCS <<e, i>>, which t has or which is free. *)
LEMMA CountRoom ==
  ASSUME IInv, NEW t \in Threads, Level(t) < MaxDepth, NEW e \in Enclaves, NEW i \in Tcs,
         bindings[<<e, i>>].thread \in {t, NoThread}
  PROVE  bindings[<<e, i>>].count + 1 \in 1 .. MaxDepth
<1>1. /\ bindings[<<e, i>>].count = Cardinality(Activations(e, i))
      /\ bindings[<<e, i>>].thread = NoThread <=> bindings[<<e, i>>].count = 0
  BY DEF IInv, TcsExclusive
<1>2. Cardinality(Activations(e, i)) \in Nat /\ Level(t) \in Nat
  BY ActivationsFinite, RunningFrame, StackType DEF IInv, HandlingMatches
<1>3. bindings[<<e, i>>].thread = t => bindings[<<e, i>>].count <= Level(t)
  BY <1>1, ActivationsFinite
<1> QED BY <1>1, <1>2, <1>3, BoundAssumption

LEMMA AddActivation ==
  ASSUME IInv, TypeOK', NEW t \in Threads, NEW e \in Enclaves, NEW i \in Tcs,
         NEW n, n = Level(t) + 1, n <= MaxDepth, Level(t)' = n,
         \A u \in Threads \ {t} : stack'[u] = stack[u],
         \A l \in Levels(t) : /\ stack'[t][l].e = stack[t][l].e
                              /\ stack'[t][l].i = stack[t][l].i
                              /\ stack'[t][l].func = stack[t][l].func,
         stack'[t][n].e = e, stack'[t][n].i = i,
         bindings[<<e, i>>].thread = t \/ \A j \in Tcs : bindings[<<e, j>>].thread # t,
         bindings[<<e, i>>].thread \in {t, NoThread},
         \A b \in Bindings \ {<<e, i>>} : bindings'[b] = bindings[b],
         bindings'[<<e, i>>].thread = t,
         bindings'[<<e, i>>].count = bindings[<<e, i>>].count + 1,
         bindings'[<<e, i>>].handling
            <=> bindings[<<e, i>>].handling \/ stack'[t][n].func = "exception"
  PROVE  HandlingMatches' /\ TcsExclusive'
<1> DEFINE A == Activations(e, i)
<1>1. TypeOK /\ StacksOK
  BY DEF IInv, HandlingMatches
<1>2. /\ Level(t) \in Nat /\ n \in Nat /\ n \in 1 .. MaxDepth
      /\ \A u \in Threads : Level(u) \in Nat /\ Level(u) <= MaxDepth
      /\ \A u \in Threads \ {t} : Level(u)' = Level(u)
  BY <1>1, StackType, BoundAssumption DEF StacksOK, Level
<1>3. ASSUME NEW d \in Enclaves, NEW j \in Tcs
      PROVE  Activations(d, j)' = IF <<d, j>> = <<e, i>> THEN A \cup {<<t, n>>}
                                  ELSE Activations(d, j)
  <2>1. ASSUME NEW u \in Threads, NEW l \in 1 .. MaxDepth
        PROVE  <<u, l>> \in Activations(d, j)' <=>
                  \/ <<u, l>> \in Activations(d, j)
                  \/ <<d, j>> = <<e, i>> /\ <<u, l>> = <<t, n>>
    <3>1. CASE u # t
      BY <1>2, <3>1 DEF Activations
    <3>2. CASE u = t /\ l = n
      BY <1>2, <3>2 DEF Activations
    <3>3. CASE u = t /\ l # n
      <4>1. l <= n <=> l \in Levels(t)
        BY <1>2, <3>3 DEF Levels
      <4> QED BY <1>2, <3>3, <4>1 DEF Activations, Levels
    <3> QED BY <3>1, <3>2, <3>3
  <2>2. Activations(d, j)' \subseteq Threads \X (1 .. MaxDepth)
        /\ Activations(d, j) \subseteq Threads \X (1 .. MaxDepth)
        /\ <<t, n>> \in Threads \X (1 .. MaxDepth)
    BY <1>2 DEF Activations
  <2>3. \A x \in Threads \X (1 .. MaxDepth) : x \in Activations(d, j)' <=>
                  \/ x \in Activations(d, j)
                  \/ <<d, j>> = <<e, i>> /\ x = <<t, n>>
    BY <2>1
  <2>4. CASE <<d, j>> = <<e, i>>
    BY <2>2, <2>3, <2>4
  <2>5. CASE <<d, j>> # <<e, i>>
    BY <2>2, <2>3, <2>5
  <2> QED BY <2>4, <2>5
<1>4. <<t, n>> \notin A
  BY <1>2 DEF Activations
<1>5. /\ IsFiniteSet(A) /\ Cardinality(A) \in Nat
      /\ Cardinality(A \cup {<<t, n>>}) = Cardinality(A) + 1
  <2>1. IsFiniteSet(A) /\ Cardinality(A) \in Nat
    BY ActivationsFinite
  <2> DEFINE p == <<t, n>>
  <2>2. p \notin A
    BY <1>4
  <2> HIDE DEF A, p
  <2>3. Cardinality(A \cup {p}) = IF p \in A THEN Cardinality(A) ELSE Cardinality(A) + 1
    BY ONLY <2>1, FS_AddElement
  <2> QED BY <2>1, <2>2, <2>3 DEF p
<1>6. /\ bindings[<<e, i>>].count = Cardinality(A)
      /\ \A x \in A : x[1] = bindings[<<e, i>>].thread /\ x[1] \in Threads
  <2>1. \A x \in A : x[1] \in Threads
    BY DEF Activations
  <2> QED BY <2>1 DEF IInv, TcsExclusive
<1>7. \A x \in A : x[1] = t
  BY <1>6, NullAssumption
<1>8. TcsExclusive'
  <2>1. ASSUME NEW d \in Enclaves, NEW j \in Tcs
        PROVE  /\ bindings'[<<d, j>>].count = Cardinality(Activations(d, j)')
               /\ bindings'[<<d, j>>].thread = NoThread <=> bindings'[<<d, j>>].count = 0
               /\ \A x \in Activations(d, j)' : x[1] = bindings'[<<d, j>>].thread
    <3>1. CASE <<d, j>> = <<e, i>>
      <4>1. Activations(d, j)' = A \cup {<<t, n>>}
        BY <1>3, <3>1
      <4> QED BY <1>5, <1>6, <1>7, <3>1, <4>1, NullAssumption
    <3>2. CASE <<d, j>> # <<e, i>>
      <4>1. Activations(d, j)' = Activations(d, j) /\ bindings'[<<d, j>>] = bindings[<<d, j>>]
        BY <1>3, <3>2 DEF Bindings
      <4> QED BY <4>1 DEF IInv, TcsExclusive
    <3> QED BY <3>1, <3>2
  <2>2. ASSUME NEW d \in Enclaves, NEW j \in Tcs, NEW k \in Tcs \ {j},
               bindings'[<<d, j>>].thread # NoThread
        PROVE  bindings'[<<d, k>>].thread # bindings'[<<d, j>>].thread
    <3>1. bindings[<<d, j>>].thread # NoThread => bindings[<<d, k>>].thread # bindings[<<d, j>>].thread
      BY DEF IInv, TcsExclusive
    <3>2. bindings[<<d, k>>].thread # NoThread => bindings[<<d, j>>].thread # bindings[<<d, k>>].thread
      BY DEF IInv, TcsExclusive
    <3>3. CASE <<d, j>> = <<e, i>>
      <4>1. bindings'[<<d, k>>] = bindings[<<d, k>>]
        BY <3>3 DEF Bindings
      <4> QED BY <3>1, <3>3, <4>1, NullAssumption
    <3>4. CASE <<d, k>> = <<e, i>>
      <4>1. bindings'[<<d, j>>] = bindings[<<d, j>>]
        BY <3>4 DEF Bindings
      <4> QED BY <3>2, <3>4, <4>1, NullAssumption
    <3>5. CASE <<d, j>> # <<e, i>> /\ <<d, k>> # <<e, i>>
      <4>1. bindings'[<<d, j>>] = bindings[<<d, j>>] /\ bindings'[<<d, k>>] = bindings[<<d, k>>]
        BY <3>5 DEF Bindings
      <4> QED BY <2>2, <3>1, <4>1
    <3> QED BY <3>3, <3>4, <3>5
  <2>3. ASSUME NEW d \in Enclaves, NEW j \in Tcs
        PROVE  (LET b == bindings[<<d, j>>] IN
                  /\ b.count = Cardinality(Activations(d, j))
                  /\ b.thread = NoThread <=> b.count = 0
                  /\ \A x \in Activations(d, j) : x[1] = b.thread
                  /\ \A k \in Tcs \ {j} :
                       b.thread # NoThread => bindings[<<d, k>>].thread # b.thread)'
    BY <2>1, <2>2
  <2> QED BY <2>3 DEF TcsExclusive
<1>9. ASSUME NEW d \in Enclaves, NEW j \in Tcs
      PROVE  bindings'[<<d, j>>].handling
                <=> \E x \in Activations(d, j)' : stack'[x[1]][x[2]].func = "exception"
  <2>1. ASSUME NEW x \in Activations(d, j) PROVE stack'[x[1]][x[2]].func = stack[x[1]][x[2]].func
    BY <1>1, <2>1, ActivationMember
  <2>2. bindings[<<d, j>>].handling
                <=> \E x \in Activations(d, j) : stack[x[1]][x[2]].func = "exception"
    BY DEF IInv, HandlingMatches
  <2>3. CASE <<d, j>> = <<e, i>>
    <3>1. Activations(d, j)' = Activations(d, j) \cup {<<t, n>>}
      BY <1>3, <2>3
    <3>2. bindings'[<<d, j>>].handling
            <=> bindings[<<d, j>>].handling \/ stack'[t][n].func = "exception"
      BY <2>3
    <3>3. \A x \in Activations(d, j)' : x \in Activations(d, j) \/ (x[1] = t /\ x[2] = n)
      BY <3>1
    <3>4. <<t, n>> \in Activations(d, j)' /\ <<t, n>>[1] = t /\ <<t, n>>[2] = n
      BY <3>1
    <3>5. Activations(d, j) \subseteq Activations(d, j)'
      BY <3>1
    <3>6. CASE stack'[t][n].func = "exception"
      BY <3>2, <3>4, <3>6
    <3>7. CASE stack'[t][n].func # "exception"
      BY <2>1, <2>2, <3>2, <3>3, <3>5, <3>7
    <3> QED BY <3>6, <3>7
  <2>4. CASE <<d, j>> # <<e, i>>
    <3>1. Activations(d, j)' = Activations(d, j) /\ bindings'[<<d, j>>] = bindings[<<d, j>>]
      BY <1>3, <2>4 DEF Bindings
    <3> QED BY <2>1, <2>2, <3>1
  <2> QED BY <2>3, <2>4
<1> QED BY <1>8, <1>9 DEF HandlingMatches

(* The last activation of t ends.  When it was the last one on its TCS, the  *)
(* TCS is free again.                                                        *)
LEMMA DropActivation ==
  ASSUME IInv, TypeOK', NEW t \in Threads, stack[t] # <<>>,
         NEW e \in Enclaves, NEW i \in Tcs, Bound(t) = <<e, i>>,
         NEW n, n = Level(t), Level(t)' = n - 1,
         \A u \in Threads \ {t} : stack'[u] = stack[u],
         \A l \in Levels(t) \ {n} : /\ stack'[t][l].e = stack[t][l].e
                                    /\ stack'[t][l].i = stack[t][l].i
                                    /\ stack'[t][l].func = stack[t][l].func,
         \A b \in Bindings \ {<<e, i>>} : bindings'[b] = bindings[b],
         bindings'[<<e, i>>].thread = IF bindings[<<e, i>>].count = 1 THEN NoThread ELSE t,
         bindings'[<<e, i>>].count = bindings[<<e, i>>].count - 1,
         bindings'[<<e, i>>].handling <=> /\ bindings[<<e, i>>].handling
                                          /\ bindings[<<e, i>>].count # 1
                                          /\ Top(t).func # "exception"
  PROVE  HandlingMatches' /\ TcsExclusive'
<1> DEFINE A == Activations(e, i)
           p == <<t, n>>
<1>1. /\ TypeOK /\ StacksOK /\ FrameOK(t, n) /\ n \in Levels(t) /\ Top(t) = stack[t][n]
      /\ stack[t][n].e = e /\ stack[t][n].i = i
  BY RunningFrame DEF Bound
<1>2. /\ n \in 1 .. MaxDepth
      /\ \A u \in Threads : Level(u) \in Nat /\ Level(u) <= MaxDepth
      /\ \A u \in Threads \ {t} : Level(u)' = Level(u)
  BY <1>1, StackType, BoundAssumption DEF StacksOK, Level, Levels
<1>3. ASSUME NEW d \in Enclaves, NEW j \in Tcs
      PROVE  Activations(d, j)' = Activations(d, j) \ {p}
  <2>1. ASSUME NEW u \in Threads, NEW l \in 1 .. MaxDepth
        PROVE  <<u, l>> \in Activations(d, j)' <=> <<u, l>> \in Activations(d, j) /\ <<u, l>> # p
    <3>1. CASE u # t
      BY <1>2, <3>1 DEF Activations
    <3>2. CASE u = t /\ l = n
      BY <1>2, <3>2 DEF Activations
    <3>3. CASE u = t /\ l # n
      <4>1. l <= n - 1 <=> l \in Levels(t)
        BY <1>2, <3>3 DEF Levels
      <4>2. l <= n - 1 <=> l <= n
        BY <1>2, <3>3
      <4> QED BY <1>2, <3>3, <4>1, <4>2 DEF Activations
    <3> QED BY <3>1, <3>2, <3>3
  <2>2. Activations(d, j)' \subseteq Threads \X (1 .. MaxDepth)
        /\ Activations(d, j) \subseteq Threads \X (1 .. MaxDepth)
    BY DEF Activations
  <2>3. \A x \in Threads \X (1 .. MaxDepth) : x \in Activations(d, j)' <=>
                  x \in Activations(d, j) /\ x # p
    BY <2>1
  <2> QED BY <2>2, <2>3
<1>4. p \in A
  BY <1>1, <1>2, ActivationMember
<1>5. /\ IsFiniteSet(A) /\ Cardinality(A) \in Nat
      /\ IsFiniteSet(A \ {p}) /\ Cardinality(A \ {p}) = Cardinality(A) - 1
  <2>1. IsFiniteSet(A) /\ Cardinality(A) \in Nat
    BY ActivationsFinite
  <2>2. IsFiniteSet(A \ {p}) /\ Cardinality(A \ {p}) = IF p \in A THEN Cardinality(A) - 1 ELSE Cardinality(A)
    <3> HIDE DEF A, p
    <3> QED BY ONLY <2>1, FS_RemoveElement
  <2> QED BY <1>4, <2>1, <2>2
<1>6. /\ bindings[<<e, i>>].count = Cardinality(A)
      /\ bindings[<<e, i>>].thread = t
      /\ \A x \in A : x[1] = t
  <2>1. /\ bindings[<<e, i>>].count = Cardinality(A)
        /\ \A x \in A : x[1] = bindings[<<e, i>>].thread
    BY DEF IInv, TcsExclusive
  <2> QED BY <1>4, <2>1
<1>7. bindings[<<e, i>>].count = 1 <=> A \ {p} = {}
  <2> HIDE DEF A, p
  <2>1. Cardinality(A \ {p}) = 0 <=> A \ {p} = {}
    BY ONLY <1>5, FS_EmptySet
  <2> QED BY <1>5, <1>6, <2>1
<1>8. ASSUME NEW d \in Enclaves, NEW j \in Tcs, <<d, j>> # <<e, i>>
      PROVE  Activations(d, j)' = Activations(d, j) /\ bindings'[<<d, j>>] = bindings[<<d, j>>]
  <2>1. p \notin Activations(d, j)
    BY <1>1, <1>8, ActivationMember
  <2>2. <<d, j>> \in Bindings \ {<<e, i>>}
    BY <1>8 DEF Bindings
  <2>3. bindings'[<<d, j>>] = bindings[<<d, j>>]
    BY <2>2
  <2>4. Activations(d, j)' = Activations(d, j) \ {p}
    BY <1>3
  <2>5. Activations(d, j) \ {p} = Activations(d, j)
    <3> HIDE DEF p
    <3> QED BY ONLY <2>1
  <2> QED BY <2>3, <2>4, <2>5
<1>9. TcsExclusive'
  <2>1. ASSUME NEW d \in Enclaves, NEW j \in Tcs
        PROVE  /\ bindings'[<<d, j>>].count = Cardinality(Activations(d, j)')
               /\ bindings'[<<d, j>>].thread = NoThread <=> bindings'[<<d, j>>].count = 0
               /\ \A x \in Activations(d, j)' : x[1] = bindings'[<<d, j>>].thread
    <3>1. CASE <<d, j>> = <<e, i>>
      <4>1. Activations(d, j)' = A \ {p}
        BY <1>3, <3>1
      <4> HIDE DEF A, p
      <4> QED BY <1>5, <1>6, <1>7, <3>1, <4>1, NullAssumption
    <3>2. CASE <<d, j>> # <<e, i>>
      BY <1>8, <3>2 DEF IInv, TcsExclusive
    <3> QED BY <3>1, <3>2
  <2>2. ASSUME NEW d \in Enclaves, NEW j \in Tcs, NEW k \in Tcs \ {j},
               bindings'[<<d, j>>].thread # NoThread
        PROVE  bindings'[<<d, k>>].thread # bindings'[<<d, j>>].thread
    <3>1. bindings[<<d, j>>].thread # NoThread => bindings[<<d, k>>].thread # bindings[<<d, j>>].thread
      BY DEF IInv, TcsExclusive
    <3>2. ASSUME NEW m \in Tcs
          PROVE  bindings'[<<d, m>>].thread \in {NoThread, bindings[<<d, m>>].thread}
      <4>1. CASE <<d, m>> = <<e, i>>
        BY <1>6, <4>1
      <4>2. CASE <<d, m>> # <<e, i>>
        BY <1>8, <4>2
      <4> QED BY <4>1, <4>2
    <3> QED BY <2>2, <3>1, <3>2
  <2>3. ASSUME NEW d \in Enclaves, NEW j \in Tcs
        PROVE  (LET b == bindings[<<d, j>>] IN
                  /\ b.count = Cardinality(Activations(d, j))
                  /\ b.thread = NoThread <=> b.count = 0
                  /\ \A x \in Activations(d, j) : x[1] = b.thread
                  /\ \A k \in Tcs \ {j} :
                       b.thread # NoThread => bindings[<<d, k>>].thread # b.thread)'
    BY <2>1, <2>2
  <2> QED BY <2>3 DEF TcsExclusive
<1>10. ASSUME NEW d \in Enclaves, NEW j \in Tcs
       PROVE  bindings'[<<d, j>>].handling
                <=> \E x \in Activations(d, j)' : stack'[x[1]][x[2]].func = "exception"
  <2>1. ASSUME NEW x \in Activations(d, j), x # p
        PROVE  stack'[x[1]][x[2]].func = stack[x[1]][x[2]].func
    BY <1>1, <2>1, ActivationMember
  <2>2. bindings[<<d, j>>].handling
                <=> \E x \in Activations(d, j) : stack[x[1]][x[2]].func = "exception"
    BY DEF IInv, HandlingMatches
  <2>3. CASE <<d, j>> # <<e, i>>
    <3>1. p \notin Activations(d, j)
      BY <1>1, <2>3, ActivationMember
    <3> HIDE DEF p
    <3> QED BY <1>8, <2>1, <2>2, <2>3, <3>1
  <2>4. CASE <<d, j>> = <<e, i>>
    <3>1. Activations(d, j) = A /\ Activations(d, j)' = A \ {p} /\ bindings'[<<d, j>>] = bindings'[<<e, i>>]
      BY <1>3, <2>4
    <3>2. CASE bindings[<<e, i>>].count = 1
      BY <1>7, <3>1, <3>2
    <3>3. CASE bindings[<<e, i>>].count # 1 /\ Top(t).func = "exception"
      <4>1. ASSUME NEW x \in A \ {p} PROVE stack[x[1]][x[2]].func # "exception"
        <5>1. x[1] = t /\ x[2] \in Levels(t) /\ x[2] # n
          BY <1>1, <1>6, <4>1, ActivationMember
        <5>2. FrameOK(t, x[2])
          BY <1>1, <5>1 DEF StacksOK
        <5> QED BY <5>1, <5>2 DEF FrameOK, Nested
      <4> HIDE DEF A, p
      <4> QED BY <2>1, <3>1, <3>3, <4>1
    <3>4. CASE bindings[<<e, i>>].count # 1 /\ Top(t).func # "exception"
      <4>1. p[1] = t /\ p[2] = n
        OBVIOUS
      <4>2. stack[p[1]][p[2]].func # "exception"
        BY <1>1, <3>4, <4>1
      <4>3. bindings'[<<d, j>>].handling <=> bindings[<<d, j>>].handling
        BY <2>4, <3>4
      <4> HIDE DEF A, p
      <4>4. (\E x \in A : stack[x[1]][x[2]].func = "exception")
               <=> \E x \in A \ {p} : stack'[x[1]][x[2]].func = "exception"
        BY <2>1, <3>1, <4>2
      <4> QED BY <2>2, <3>1, <4>3, <4>4
    <3> QED BY <3>2, <3>3, <3>4
  <2> QED BY <2>3, <2>4
<1> QED BY <1>9, <1>10 DEF HandlingMatches

-----------------------------------------------------------------------------
(* The frames s of t are its stack, with f about to go on top of a frame     *)
(* that is in an ocall or that it interrupts.                                *)
Suspended(t, s, f) ==
    /\ Len(s) = Level(t)
    /\ \A l \in Levels(t) :
          \/ s[l] = stack[t][l] /\ (l = Level(t) => s[l].at = "host" /\ f.func # "exception")
          \/ /\ l = Level(t) /\ stack[t][l].at = "run" /\ stack[t][l].func # "exception"
             /\ f.func = "exception" /\ s[l] = [stack[t][l] EXCEPT !.at = "fault"]

(* The binding of f is t's, or becomes t's, and counts one more activation. *)
Rebound(t, f) ==
    /\ \/ bindings[<<f.e, f.i>>].thread = t
       \/ /\ bindings[<<f.e, f.i>>].thread = NoThread
          /\ \A j \in Tcs : bindings[<<f.e, j>>].thread # t
    /\ bindings' = [bindings EXCEPT ![<<f.e, f.i>>] =
                       [thread |-> t, count |-> @.count + 1,
                        handling |-> @.handling \/ f.func = "exception"]]

(* t gets a new frame f.  What remains to be shown is about that frame. *)
LEMMA PushStep ==
  ASSUME IInv, Older, NEW t \in Threads, NEW n, n = Level(t) + 1, n <= MaxDepth,
         NEW s \in Seq(Frames), NEW f \in Frames, Suspended(t, s, f),
         stack' = [stack EXCEPT ![t] = Append(s, f)], f.at = "enter",
         UNCHANGED <<alive, callsites, status, inited>>,
         life' \in [Enclaves -> {"none", "creating", "up", "terminating", "gone"}],
         tsd' \in [Threads -> Bindings \cup {NoBinding}],
         \A u \in Threads \ {t} : tsd'[u] = tsd[u], Rebound(t, f), FrameOK(t, n)'
  PROVE  IInv'
<1> USE DEF Suspended, Rebound
<1> DEFINE e == f.e
           i == f.i
<1>1. /\ TypeOK /\ StacksOK /\ stack[t] \in Seq(Frames) /\ Level(t) \in Nat /\ n \in Nat
      /\ Levels(t) = 1 .. Level(t) /\ n > 0
  BY StackType DEF IInv, HandlingMatches, Levels
<1>2. /\ e \in Enclaves /\ i \in Tcs /\ <<e, i>> \in Bindings
      /\ bindings[<<e, i>>].thread \in {t, NoThread}
  BY DEF Frames, Bindings
<1>3. bindings[<<e, i>>].count + 1 \in 1 .. MaxDepth
  <2> HIDE DEF e, i
  <2>1. Level(t) < MaxDepth
    BY <1>1, BoundAssumption
  <2> QED BY <1>2, <2>1, CountRoom
<1>4. /\ \A b \in Bindings \ {<<e, i>>} : bindings'[b] = bindings[b]
      /\ bindings'[<<e, i>>].thread = t
      /\ bindings'[<<e, i>>].count = bindings[<<e, i>>].count + 1
      /\ bindings'[<<e, i>>].handling <=> bindings[<<e, i>>].handling \/ f.func = "exception"
      /\ bindings' \in [Bindings -> [thread : Threads \cup {NoThread},
                                     count : 0 .. MaxDepth, handling : BOOLEAN]]
  <2>1. bindings \in [Bindings -> [thread : Threads \cup {NoThread},
                                   count : 0 .. MaxDepth, handling : BOOLEAN]]
    BY <1>1 DEF TypeOK
  <2> DEFINE r == [thread |-> t, count |-> bindings[<<e, i>>].count + 1,
                   handling |-> bindings[<<e, i>>].handling \/ f.func = "exception"]
  <2>2. /\ r \in [thread : Threads \cup {NoThread}, count : 0 .. MaxDepth, handling : BOOLEAN]
        /\ r.thread = t /\ r.count = bindings[<<e, i>>].count + 1
        /\ r.handling <=> bindings[<<e, i>>].handling \/ f.func = "exception"
    <3>1. bindings[<<e, i>>].count + 1 \in 0 .. MaxDepth
      BY <1>3
    <3> HIDE DEF e, i
    <3> QED BY <3>1
  <2>3. bindings' = [bindings EXCEPT ![<<e, i>>] = r]
    OBVIOUS
  <2> HIDE DEF r, e, i
  <2> QED BY <1>2, <2>1, <2>2, <2>3
<1>5. /\ stack'[t] = Append(s, f) /\ stack' \in [Threads -> Seq(Frames)]
      /\ \A u \in Threads \ {t} : stack'[u] = stack[u]
      /\ Level(t)' = n /\ stack'[t][n] = f
      /\ \A l \in Levels(t) : stack'[t][l] = s[l]
  <2>1. stack'[t] = Append(s, f) /\ \A u \in Threads \ {t} : stack'[u] = stack[u]
    BY <1>1 DEF TypeOK
  <2>2. /\ Append(s, f) \in Seq(Frames) /\ Len(Append(s, f)) = n /\ Append(s, f)[n] = f
        /\ \A l \in 1 .. Len(s) : Append(s, f)[l] = s[l]
    BY <1>1
  <2>3. stack' \in [Threads -> Seq(Frames)]
    BY <1>1, <2>1, <2>2 DEF TypeOK
  <2> QED BY <1>1, <2>1, <2>2, <2>3 DEF Level
<1>6. TypeOK'
  BY <1>1, <1>4, <1>5 DEF TypeOK
<1>7. ASSUME NEW l \in Levels(t)
      PROVE  /\ stack'[t][l].e = stack[t][l].e /\ stack'[t][l].i = stack[t][l].i
             /\ stack'[t][l].func = stack[t][l].func /\ stack'[t][l].late = stack[t][l].late
             /\ stack'[t][l].saved = stack[t][l].saved
             /\ l # Level(t) => stack'[t][l] = stack[t][l]
             /\ l = Level(t) =>
                  /\ stack[t][l].func # "exception"
                  /\ \/ /\ stack[t][l].at = "host" /\ stack'[t][l].at = "host"
                        /\ f.func # "exception"
                     \/ /\ stack[t][l].at = "run" /\ stack'[t][l].at = "fault"
                        /\ f.func = "exception"
  <2>1. stack[t][l] \in Frames /\ FrameOK(t, l) /\ stack'[t][l] = s[l]
    BY <1>1, <1>5, StackType DEF StacksOK
  <2>2. stack[t][l].at = "host" => stack[t][l].func # "exception"
    BY <2>1 DEF FrameOK, Nested
  <2>3. \/ s[l] = stack[t][l] /\ (l = Level(t) => s[l].at = "host" /\ f.func # "exception")
        \/ /\ l = Level(t) /\ stack[t][l].at = "run" /\ stack[t][l].func # "exception"
           /\ f.func = "exception" /\ s[l] = [stack[t][l] EXCEPT !.at = "fault"]
    OBVIOUS
  <2>4. CASE s[l] = stack[t][l] /\ (l = Level(t) => s[l].at = "host" /\ f.func # "exception")
    BY ONLY <2>1, <2>2, <2>4
  <2>5. ASSUME l = Level(t), s[l] = [stack[t][l] EXCEPT !.at = "fault"]
        PROVE  /\ s[l].e = stack[t][l].e /\ s[l].i = stack[t][l].i
               /\ s[l].func = stack[t][l].func /\ s[l].late = stack[t][l].late
               /\ s[l].saved = stack[t][l].saved /\ s[l].at = "fault"
    BY ONLY <2>1, <2>5 DEF Frames
  <2> QED BY <2>1, <2>3, <2>4, <2>5
<1>8. HandlingMatches' /\ TcsExclusive'
  <2> HIDE DEF e, i
  <2>1. stack'[t][n].e = e /\ stack'[t][n].i = i /\ stack'[t][n].func = f.func
    BY <1>5 DEF e, i
  <2>2. bindings[<<e, i>>].thread = t \/ \A j \in Tcs : bindings[<<e, j>>].thread # t
    BY DEF e, i
  <2>3. \A l \in Levels(t) : /\ stack'[t][l].e = stack[t][l].e
                             /\ stack'[t][l].i = stack[t][l].i
                             /\ stack'[t][l].func = stack[t][l].func
    BY <1>7
  <2>4. \A u \in Threads \ {t} : stack'[u] = stack[u]
    BY <1>5
  <2>5. bindings'[<<e, i>>].handling
            <=> bindings[<<e, i>>].handling \/ stack'[t][n].func = "exception"
    BY <1>4, <2>1
  <2>6. IInv /\ t \in Threads /\ n = Level(t) + 1 /\ n <= MaxDepth /\ Level(t)' = n
    BY <1>5
  <2>7. /\ \A b \in Bindings \ {<<e, i>>} : bindings'[b] = bindings[b]
        /\ bindings'[<<e, i>>].thread = t
        /\ bindings'[<<e, i>>].count = bindings[<<e, i>>].count + 1
    BY <1>4
  <2>8. stack'[t][n].e = e /\ stack'[t][n].i = i
    BY <2>1
  <2> QED BY ONLY <1>2, <1>6, <2>2, <2>3, <2>4, <2>5, <2>6, <2>7, <2>8, AddActivation
<1>9. ASSUME NEW l \in Levels(t) PROVE FrameOK(t, l)'
  <2>1. /\ FrameOK(t, l) /\ Site(t, l)' = Site(t, l) /\ stack[t][l].e \in Enclaves
        /\ l \in 1 .. Level(t) /\ l < n
    <3>1. FrameOK(t, l) /\ stack[t][l].e \in Enclaves
      BY <1>1, StackType DEF StacksOK
    <3>2. stack'[t][l].e = stack[t][l].e /\ stack'[t][l].i = stack[t][l].i
      BY <1>7
    <3>3. l \in 1 .. Level(t) /\ l < n
      BY <1>1
    <3> QED BY <3>1, <3>2, <3>3 DEF Site
  <2>2. /\ stack[t][l].func # "exception"
        /\ stack[t][l].at \in Pushed /\ stack'[t][l].at \in {"host", "fault"}
        /\ stack'[t][l].at = "fault" => stack'[t][l + 1].func = "exception"
        /\ stack'[t][l].at = "host" => stack[t][l].at = "host"
        /\ Covered(t, l)' <=> Covered(t, l)
    <3>1. CASE l = Level(t)
      BY <1>1, <1>5, <1>7, <3>1 DEF Pushed, Covered
    <3>2. CASE l # Level(t)
      <4>1. /\ l < Level(t) /\ l + 1 \in Levels(t)
            /\ stack[t][l].at \in {"host", "fault"} /\ stack[t][l].func # "exception"
            /\ stack[t][l].at = "fault" => stack[t][l + 1].func = "exception"
        BY <1>1, <2>1, <3>2 DEF FrameOK, Nested
      <4>2. stack'[t][l] = stack[t][l] /\ stack'[t][l + 1].func = stack[t][l + 1].func
        BY <1>7, <3>2, <4>1
      <4>3. FrameOK(t, l + 1)
        BY <1>1, <4>1 DEF StacksOK
      <4>4. stack[t][l + 1].func # "exception"
        BY <1>1, <1>7, <4>1, <4>3 DEF FrameOK, Nested
      <4> QED BY <4>1, <4>2, <4>4 DEF Covered, Pushed
    <3> QED BY <3>1, <3>2
  <2>3. Nested(t, l)'
    <3>1. \A k \in 1 .. l - 1 : k \in Levels(t)
      BY <1>1, <2>1
    <3>2. \A k \in 1 .. l - 1 : stack'[t][k].e = stack[t][k].e
      BY <1>7, <3>1
    <3>3. stack'[t][l].func = stack[t][l].func /\ stack'[t][l].e = stack[t][l].e
      BY <1>7
    <3> QED BY <1>5, <2>1, <2>2, <3>2, <3>3 DEF FrameOK, Nested
  <2>4. Admitted(t, l)'
    <3>1. /\ stack'[t][l].func = stack[t][l].func /\ stack'[t][l].e = stack[t][l].e
          /\ stack'[t][l].late = stack[t][l].late
      BY <1>7
    <3> QED BY <2>1, <2>2, <3>1 DEF FrameOK, Admitted, Older
  <2>5. Current(t, l)'
    <3>1. stack'[t][l].saved = stack[t][l].saved
      BY <1>7
    <3> QED BY <1>1, <1>5, <2>1, <2>2, <3>1 DEF FrameOK, Current
  <2>6. Owned(t, l)'
    <3>1. stack'[t][l].func = stack[t][l].func
      BY <1>7
    <3>2. Place(t, l)' = Place(t, l)
      BY <2>1, <2>2 DEF Place
    <3> QED BY <2>1, <2>2, <3>1, <3>2 DEF FrameOK, Owned
  <2> QED BY <2>3, <2>4, <2>5, <2>6 DEF FrameOK
<1>10. ASSUME NEW u \in Threads
       PROVE  Level(u)' <= MaxDepth /\ \A l \in Levels(u)' : FrameOK(u, l)'
  <2>1. CASE u = t
    <3>1. Levels(t)' = Levels(t) \cup {n}
      BY <1>1, <1>5 DEF Levels
    <3> QED BY <1>5, <1>9, <2>1, <3>1
  <2>2. CASE u # t
    BY <1>5, <2>2, OthersOK
  <2> QED BY <2>1, <2>2
<1> QED BY <1>8, <1>10 DEF IInv, StacksOK

(* oe_ecall up to EENTER.  A thread that has a TCS of the enclave already is  *)
(* in a function of it, whose callsite keeps a new function from running.    *)
LEMMA BeginStep ==
  ASSUME IInv, Older, NEW t \in Threads, NEW e \in Enclaves,
         NEW func \in {"init", "call", "destructor"}, BeginEcall(t, e, func),
         life' \in [Enclaves -> {"none", "creating", "up", "terminating", "gone"}],
         life'[e] # "none", UNCHANGED <<alive, status, inited, callsites>>,
         func # "call" => ~Inside(t, e)
  PROVE  IInv'
<1>1. /\ TypeOK /\ StacksOK /\ stack[t] \in Seq(Frames) /\ Level(t) \in Nat
      /\ Level(t) < MaxDepth /\ (stack[t] = <<>> \/ At(t, "host"))
      /\ Len(stack[t]) = Level(t)
  BY StackType DEF IInv, HandlingMatches, BeginEcall, Level
<1>2. PICK i \in Tcs : /\ AssignTcs(t, e, i)
                       /\ stack' = [stack EXCEPT ![t] = Append(@, Frame(e, i, func))]
  BY DEF BeginEcall
<1> DEFINE f == Frame(e, i, func)
<1>3. /\ f \in Frames /\ f.e = e /\ f.i = i /\ f.func = func /\ f.at = "enter"
      /\ f.late <=> status[e] # "OK"
  <2>1. PICK late \in BOOLEAN : late = (status[e] # "OK")
    OBVIOUS
  <2>2. f = [e |-> e, i |-> i, func |-> func, late |-> late,
             at |-> "enter", saved |-> NoBinding, out |-> "none"]
    BY <2>1 DEF Frame
  <2> HIDE DEF f
  <2>3. f \in Frames /\ f.e = e /\ f.i = i /\ f.func = func /\ f.at = "enter" /\ f.late = late
    BY <2>2 DEF Frames, Funcs
  <2> QED BY <2>1, <2>3
<1>4. /\ bindings \in [Bindings -> [thread : Threads \cup {NoThread},
                                    count : 0 .. MaxDepth, handling : BOOLEAN]]
      /\ <<e, i>> \in Bindings
  BY <1>1 DEF TypeOK, Bindings
<1>5. \/ bindings[<<e, i>>].thread = t
      \/ bindings[<<e, i>>].thread = NoThread /\ \A j \in Tcs : bindings[<<e, j>>].thread # t
  BY <1>2 DEF AssignTcs, Own, Available
<1>6. bindings' = [bindings EXCEPT ![<<e, i>>] =
            [thread |-> t, count |-> @.count + 1,
             handling |-> @.handling \/ f.func = "exception"]]
  <2>1. PICK b \in Bindings : b = <<e, i>>
    BY <1>4
  <2>2. PICK r \in [thread : Threads \cup {NoThread}, count : 0 .. MaxDepth, handling : BOOLEAN] :
            r = bindings[b]
    BY <1>4
  <2>3. bindings' = [bindings EXCEPT ![b].thread = t, ![b].count = @ + 1]
    BY <1>2, <2>1 DEF AssignTcs
  <2> DEFINE q == [[r EXCEPT !.thread = t] EXCEPT !.count = @ + 1]
  <2>4. bindings' = [bindings EXCEPT ![b] = q]
    BY ONLY <1>4, <2>2, <2>3
  <2>5. q = [thread |-> t, count |-> r.count + 1, handling |-> r.handling]
    <3>1. [r EXCEPT !.thread = t] = [thread |-> t, count |-> r.count, handling |-> r.handling]
      BY ONLY <2>2
    <3>2. [thread |-> t, count |-> r.count, handling |-> r.handling]
             \in [thread : {t}, count : 0 .. MaxDepth, handling : BOOLEAN]
      BY ONLY <2>2
    <3>3. ASSUME NEW v \in [thread : {t}, count : 0 .. MaxDepth, handling : BOOLEAN]
          PROVE  [v EXCEPT !.count = @ + 1]
                    = [thread |-> v.thread, count |-> v.count + 1, handling |-> v.handling]
      BY ONLY <3>3
    <3> QED BY ONLY <3>1, <3>2, <3>3
  <2>6. (r.handling \/ f.func = "exception") = r.handling
    BY <1>3, <2>2
  <2> HIDE DEF q, f
  <2> QED BY ONLY <1>4, <2>1, <2>2, <2>4, <2>5, <2>6
<1>7. /\ tsd' \in [Threads -> Bindings \cup {NoBinding}]
      /\ \A u \in Threads \ {t} : tsd'[u] = tsd[u]
      /\ tsd'[t] # <<e, i>> => bindings[<<e, i>>].thread = t
  <2>1. tsd \in [Threads -> Bindings \cup {NoBinding}]
    BY <1>1 DEF TypeOK
  <2> QED BY <1>2, <1>4, <1>5, <2>1 DEF AssignTcs, Own
<1>8. PICK n : n = Level(t) + 1
  OBVIOUS
<1>9. \A l \in Levels(t) : l = Level(t) => stack[t][l].at = "host"
  BY <1>1 DEF Levels, At, Top, Level
<1>10. ASSUME bindings[<<e, i>>].thread = t PROVE func = "call" /\ callsites[<<e, i>>] # <<>>
  <2>1. PICK l \in Levels(t) : stack[t][l].e = e /\ Site(t, l) = <<e, i>>
    BY <1>10, OwnInside
  <2>2. FrameOK(t, l) /\ callsites[<<e, i>>] \in Seq(1 .. MaxDepth)
    BY <1>1, <1>4 DEF StacksOK, TypeOK
  <2>3. stack[t][l].at \in Pushed
    BY <1>1, <1>9, <2>2 DEF FrameOK, Nested, Pushed, Levels
  <2>4. Place(t, l) >= 1
    BY <2>2, <2>3 DEF FrameOK, Owned
  <2>5. Len(callsites[<<e, i>>]) >= 1
    BY <2>1, <2>2, <2>4 DEF Place
  <2>6. Inside(t, e)
    BY <2>1 DEF Inside, Levels
  <2> QED BY <2>2, <2>5, <2>6
<1>11. /\ stack'[t] = Append(stack[t], f) /\ Level(t)' = n /\ stack'[t][n] = f
       /\ \A l \in 1 .. n - 1 : stack'[t][l] = stack[t][l]
       /\ n \in Nat /\ n > 0 /\ n <= MaxDepth
  <2>1. stack'[t] = Append(stack[t], f)
    BY <1>1, <1>2 DEF TypeOK
  <2>2. /\ Len(Append(stack[t], f)) = n /\ Append(stack[t], f)[n] = f
        /\ \A l \in 1 .. Level(t) : Append(stack[t], f)[l] = stack[t][l]
    BY <1>1, <1>3, <1>8
  <2>3. n - 1 = Level(t) /\ n \in Nat /\ n > 0 /\ n <= MaxDepth
    <3>1. PICK L \in Nat : L = Level(t)
      BY <1>1
    <3> QED BY ONLY <1>1, <1>8, <3>1, BoundAssumption
  <2> QED BY <2>1, <2>2, <2>3 DEF Level
<1> HIDE DEF f
<1>12. FrameOK(t, n)'
  <2>1. Site(t, n)' = <<e, i>>
    BY <1>3, <1>11 DEF Site
  <2>2. Nested(t, n)'
    <3>1. ASSUME func = "destructor", NEW k \in 1 .. n - 1 PROVE stack[t][k].e # e
      BY <1>1, <1>8, <3>1 DEF Inside
    <3> QED BY <1>3, <1>11, <3>1 DEF Nested
  <2>3. Admitted(t, n)'
    BY <1>3, <1>11 DEF Admitted, Pushed
  <2>4. Current(t, n)'
    BY <1>3, <1>7, <1>10, <1>11, <2>1 DEF Current
  <2>5. Owned(t, n)'
    BY <1>3, <1>11 DEF Owned, Pushed
  <2> QED BY <2>2, <2>3, <2>4, <2>5 DEF FrameOK
<1>13. stack' = [stack EXCEPT ![t] = Append(stack[t], f)]
  BY <1>2 DEF f
<1>14. Suspended(t, stack[t], f)
  BY <1>1, <1>3, <1>9 DEF Suspended
<1>15. Rebound(t, f)
  BY <1>3, <1>5, <1>6 DEF Rebound
<1>16. /\ IInv /\ Older /\ t \in Threads /\ f \in Frames /\ f.at = "enter"
       /\ UNCHANGED <<alive, callsites, status, inited>>
       /\ life' \in [Enclaves -> {"none", "creating", "up", "terminating", "gone"}]
  BY <1>3
<1> QED BY ONLY <1>1, <1>7, <1>8, <1>11, <1>12, <1>13, <1>14, <1>15, <1>16, PushStep

LEMMA CreateStep ==
  ASSUME IInv, NEW t \in Threads, NEW e \in Enclaves, Create(t, e) PROVE IInv'
<1> USE DEF Create
<1>1. TypeOK /\ StacksOK
  BY DEF IInv, HandlingMatches
<1>2. /\ Older /\ life'[e] # "none"
      /\ life' \in [Enclaves -> {"none", "creating", "up", "terminating", "gone"}]
  BY <1>1 DEF Older, TypeOK
<1>3. ~Inside(t, e)
  BY <1>1 DEF Inside, StacksOK, Levels, FrameOK, Admitted
<1> QED BY <1>2, <1>3, BeginStep

LEMMA CallStep ==
  ASSUME IInv, NEW t \in Threads, NEW e \in Enclaves, Call(t, e) PROVE IInv'
<1> USE DEF Call
<1>1. TypeOK
  BY DEF IInv, HandlingMatches
<1>2. /\ Older /\ life'[e] # "none"
      /\ life' \in [Enclaves -> {"none", "creating", "up", "terminating", "gone"}]
  BY <1>1 DEF Older, TypeOK
<1> QED BY <1>2, BeginStep

LEMMA TerminateStep ==
  ASSUME IInv, NEW t \in Threads, NEW e \in Enclaves, Terminate(t, e) PROVE IInv'
<1> USE DEF Terminate
<1>1. TypeOK
  BY DEF IInv, HandlingMatches
<1>2. /\ Older /\ life'[e] # "none"
      /\ life' \in [Enclaves -> {"none", "creating", "up", "terminating", "gone"}]
  BY <1>1 DEF Older, TypeOK
<1> QED BY <1>2, BeginStep

(* Nothing but the process's death, or nothing at all. *)
LEMMA Unaffected ==
  ASSUME IInv, UNCHANGED <<life, status, inited, bindings, callsites, tsd, stack>>,
         alive' \in BOOLEAN
  PROVE  IInv'
<1>1. TypeOK'
  BY DEF IInv, HandlingMatches, TypeOK
<1>2. \A u \in Threads : Level(u)' = Level(u)
  BY DEF Level
<1>3. HandlingMatches' /\ TcsExclusive'
  BY <1>1, <1>2, SameActivations
<1>4. Older
  BY DEF Older
<1>5. ASSUME NEW u \in Threads
      PROVE  Level(u)' <= MaxDepth /\ \A l \in Levels(u)' : FrameOK(u, l)'
  BY <1>4, OthersOK
<1> QED BY <1>3, <1>5 DEF IInv, StacksOK

(* A hardware exception: the handler's activation, on the same TCS.  In that *)
(* handler the flag is set, and the process ends.                            *)
LEMMA FaultStep ==
  ASSUME IInv, NEW t \in Threads, Fault(t) PROVE IInv'
<1>1. /\ TypeOK /\ StacksOK /\ Top(t) \in Frames /\ Top(t).e \in Enclaves /\ Top(t).i \in Tcs
      /\ Bound(t) \in Bindings /\ Bound(t) = Site(t, Level(t)) /\ stack[t] # <<>>
      /\ Level(t) \in Levels(t) /\ Level(t) \in 1 .. MaxDepth /\ Top(t) = stack[t][Level(t)]
      /\ FrameOK(t, Level(t)) /\ Top(t).at = "run"
  BY RunningFrame DEF Fault, At
<1>2. tsd[t] = Bound(t)
  BY <1>1 DEF FrameOK, Current
<1>3. CASE tsd[t] = NoBinding \/ bindings[tsd[t]].handling
  BY <1>3, Unaffected DEF Fault
<1>4. CASE ~(tsd[t] = NoBinding \/ bindings[tsd[t]].handling)
  <2> DEFINE f == Frame(Top(t).e, Top(t).i, "exception")
             b == Bound(t)
             s == [stack[t] EXCEPT ![Level(t)].at = "fault"]
  <2>1. /\ Level(t) < MaxDepth /\ UNCHANGED <<alive, tsd, life, status, inited, callsites>>
        /\ bindings' = [bindings EXCEPT ![b].handling = TRUE, ![b].count = @ + 1]
        /\ stack' = [stack EXCEPT ![t] = Append(s, f)]
    <3>1. /\ Level(t) < MaxDepth /\ UNCHANGED <<alive, tsd, life, status, inited, callsites>>
          /\ bindings' = [bindings EXCEPT ![tsd[t]].handling = TRUE, ![Bound(t)].count = @ + 1]
          /\ stack' = [stack EXCEPT ![t] =
                Append([@ EXCEPT ![Level(t)].at = "fault"], Frame(Top(t).e, Top(t).i, "exception"))]
      BY <1>4 DEF Fault
    <3> QED BY <1>2, <3>1
  <2>2. /\ f \in Frames /\ f.e = Top(t).e /\ f.i = Top(t).i /\ f.func = "exception"
        /\ f.at = "enter" /\ (f.late <=> status[Top(t).e] # "OK")
    <3>1. PICK late \in BOOLEAN : late = (status[Top(t).e] # "OK")
      OBVIOUS
    <3>2. PICK e \in Enclaves, i \in Tcs : e = Top(t).e /\ i = Top(t).i
      BY <1>1
    <3>3. f = [e |-> e, i |-> i, func |-> "exception", late |-> late,
               at |-> "enter", saved |-> NoBinding, out |-> "none"]
      BY <3>1, <3>2 DEF Frame
    <3> HIDE DEF f
    <3>4. /\ f \in Frames /\ f.e = e /\ f.i = i /\ f.func = "exception" /\ f.at = "enter"
          /\ f.late = late
      BY <3>3 DEF Frames, Funcs
    <3> QED BY <3>1, <3>2, <3>4
  <2>3. Top(t).func # "exception" /\ ~bindings[b].handling /\ bindings[b].thread = t
    <3>1. ~bindings[b].handling
      BY <1>2, <1>4
    <3>2. <<t, Level(t)>> \in Activations(Top(t).e, Top(t).i)
      BY <1>1, ActivationMember
    <3>3. bindings[b].handling <=> \E x \in Activations(Top(t).e, Top(t).i) :
                                      stack[x[1]][x[2]].func = "exception"
      BY <1>1 DEF IInv, HandlingMatches, Bound
    <3>4. Top(t).func # "exception"
      BY <1>1, <3>1, <3>2, <3>3
    <3>5. bindings[b].thread = t
      BY <1>1, OneThread
    <3> QED BY <3>1, <3>4, <3>5
  <2> HIDE DEF f
  <2>4. /\ s \in Seq(Frames) /\ Len(s) = Level(t) /\ s[Level(t)] = [Top(t) EXCEPT !.at = "fault"]
        /\ \A l \in Levels(t) \ {Level(t)} : s[l] = stack[t][l]
    <3>1. stack[t] \in Seq(Frames) /\ Level(t) \in 1 .. Len(stack[t])
      BY <1>1, StackType DEF Level
    <3>2. [Top(t) EXCEPT !.at = "fault"] \in Frames
      BY <1>1 DEF Frames
    <3>3. s = [stack[t] EXCEPT ![Level(t)] = [Top(t) EXCEPT !.at = "fault"]]
      BY <1>1
    <3> HIDE DEF s
    <3> QED BY <3>1, <3>2, <3>3, ExceptSeq DEF Level, Levels
  <2> HIDE DEF s
  <2>5. PICK L \in 1 .. MaxDepth : L = Level(t)
    BY <1>1
  <2>6. PICK n : n = L + 1
    OBVIOUS
  <2>7. n \in Nat /\ n > 1 /\ n <= MaxDepth /\ n - 1 = L /\ n = Level(t) + 1
    <3>1. L < MaxDepth
      BY <2>1, <2>5
    <3>2. n \in Nat /\ n > 1 /\ n <= MaxDepth /\ n - 1 = L
      BY ONLY <2>5, <2>6, <3>1, BoundAssumption
    <3> QED BY <2>5, <2>6, <3>2
  <2>8. /\ Level(t)' = n /\ stack'[t][n] = f
        /\ \A l \in Levels(t) : stack'[t][l] = s[l]
    <3>1. stack'[t] = Append(s, f)
      BY <1>1, <2>1 DEF TypeOK
    <3>2. /\ Len(Append(s, f)) = n /\ Append(s, f)[n] = f
          /\ \A l \in 1 .. Level(t) : Append(s, f)[l] = s[l]
      BY <2>2, <2>4, <2>7
    <3> QED BY <3>1, <3>2 DEF Level, Levels
  <2>9. bindings' = [bindings EXCEPT ![<<f.e, f.i>>] =
            [thread |-> t, count |-> @.count + 1,
             handling |-> @.handling \/ f.func = "exception"]]
    <3>1. PICK c \in Bindings : c = b
      BY <1>1
    <3>2. bindings \in [Bindings -> [thread : Threads \cup {NoThread},
                                     count : 0 .. MaxDepth, handling : BOOLEAN]]
      BY <1>1 DEF TypeOK
    <3>3. PICK r \in [thread : Threads \cup {NoThread}, count : 0 .. MaxDepth, handling : BOOLEAN] :
              r = bindings[c]
      BY <3>2
    <3> DEFINE q == [[r EXCEPT !.handling = TRUE] EXCEPT !.count = @ + 1]
    <3>4. bindings' = [bindings EXCEPT ![c] = q]
      <4>1. bindings' = [bindings EXCEPT ![c].handling = TRUE, ![c].count = @ + 1]
        BY <2>1, <3>1
      <4> QED BY ONLY <3>2, <3>3, <4>1
    <3>5. q = [thread |-> r.thread, count |-> r.count + 1, handling |-> TRUE]
      <4>1. [r EXCEPT !.handling = TRUE] = [thread |-> r.thread, count |-> r.count, handling |-> TRUE]
        <5>1. ASSUME NEW h \in BOOLEAN
              PROVE  [r EXCEPT !.handling = h]
                        = [thread |-> r.thread, count |-> r.count, handling |-> h]
          BY ONLY <3>3, <5>1
        <5> QED BY ONLY <5>1
      <4>2. [thread |-> r.thread, count |-> r.count, handling |-> TRUE]
               \in [thread : Threads \cup {NoThread}, count : 0 .. MaxDepth, handling : {TRUE}]
        BY ONLY <3>3
      <4>3. ASSUME NEW v \in [thread : Threads \cup {NoThread}, count : 0 .. MaxDepth,
                              handling : {TRUE}]
            PROVE  [v EXCEPT !.count = @ + 1]
                      = [thread |-> v.thread, count |-> v.count + 1, handling |-> v.handling]
        BY ONLY <4>3
      <4> QED BY ONLY <4>1, <4>2, <4>3
    <3>6. r.thread = t /\ c = <<f.e, f.i>> /\ (r.handling \/ f.func = "exception") = TRUE
      BY <2>2, <2>3, <3>1, <3>3 DEF Bound
    <3> HIDE DEF q, b
    <3> QED BY ONLY <3>2, <3>3, <3>4, <3>5, <3>6
  <2>10. FrameOK(t, n)'
    <3>1. Site(t, n)' = Bound(t) /\ stack'[t][n - 1].at = "fault" /\ Site(t, n - 1)' = Bound(t)
      <4>1. /\ stack'[t][L].e = Top(t).e /\ stack'[t][L].i = Top(t).i
            /\ stack'[t][L].at = "fault"
        <5>1. stack'[t][L] = [Top(t) EXCEPT !.at = "fault"]
          BY <1>1, <2>4, <2>5, <2>8
        <5> QED BY <1>1, <5>1 DEF Frames
      <4> QED BY <2>2, <2>7, <2>8, <4>1 DEF Site, Bound
    <3>2. Nested(t, n)'
      BY <2>2, <2>7, <2>8, <3>1 DEF Nested
    <3>3. Admitted(t, n)'
      <4>1. life[Top(t).e] # "none"
        BY <1>1 DEF FrameOK, Admitted
      <4> QED BY <2>1, <2>2, <2>8, <4>1 DEF Admitted, Pushed
    <3>4. Current(t, n)'
      BY <1>2, <2>1, <2>2, <2>8, <3>1 DEF Current
    <3>5. Owned(t, n)'
      BY <2>2, <2>8 DEF Owned, Pushed
    <3> QED BY <3>2, <3>3, <3>4, <3>5 DEF FrameOK
  <2>11. Suspended(t, s, f)
    BY <1>1, <2>2, <2>3, <2>4 DEF Suspended
  <2>12. /\ IInv /\ Older /\ t \in Threads /\ f \in Frames /\ f.at = "enter"
         /\ UNCHANGED <<alive, callsites, status, inited>>
         /\ life' \in [Enclaves -> {"none", "creating", "up", "terminating", "gone"}]
         /\ tsd' \in [Threads -> Bindings \cup {NoBinding}]
         /\ \A u \in Threads \ {t} : tsd'[u] = tsd[u]
         /\ stack' = [stack EXCEPT ![t] = Append(s, f)]
    BY <1>1, <2>1, <2>2 DEF Older, TypeOK
  <2>13. Rebound(t, f)
    BY <2>2, <2>3, <2>9 DEF Bound, Rebound
  <2>14. s \in Seq(Frames)
    BY <2>4
  <2>15. n = Level(t) + 1 /\ n <= MaxDepth
    BY <2>7
  <2> QED BY ONLY <2>10, <2>11, <2>12, <2>13, <2>14, <2>15, PushStep
<1> QED BY <1>3, <1>4

-----------------------------------------------------------------------------
(* The frames s of t are its stack without the last frame; an interrupted    *)
(* function, which is the one the TSD names, resumes.                        *)
Resumed(t, s) ==
    /\ Len(s) = Level(t) - 1
    /\ \A l \in Levels(t) \ {Level(t)} :
          \/ s[l] = stack[t][l] /\ stack[t][l].at = "host"
          \/ s[l] = stack[t][l] /\ l # Level(t) - 1
          \/ /\ l = Level(t) - 1 /\ stack[t][l].at = "fault"
             /\ s[l] = [stack[t][l] EXCEPT !.at = "run"] /\ tsd'[t] = Site(t, l)

(* The binding b is released once by t, whose frame on it ran func. *)
Dropped(t, b, func) ==
    /\ bindings' \in [Bindings -> [thread : Threads \cup {NoThread},
                                   count : 0 .. MaxDepth, handling : BOOLEAN]]
    /\ \A c \in Bindings \ {b} : bindings'[c] = bindings[c]
    /\ bindings'[b].thread = IF bindings[b].count = 1 THEN NoThread ELSE t
    /\ bindings'[b].count = bindings[b].count - 1
    /\ bindings'[b].handling <=> /\ bindings[b].handling /\ bindings[b].count # 1
                                 /\ func # "exception"

(* The last frame of t ends. *)
LEMMA PopStep ==
  ASSUME IInv, Older, NEW t \in Threads, stack[t] # <<>>, Top(t).at = "ret",
         NEW s \in Seq(Frames), Resumed(t, s), stack' = [stack EXCEPT ![t] = s],
         UNCHANGED <<callsites, status, inited>>, alive' \in BOOLEAN,
         life' \in [Enclaves -> {"none", "creating", "up", "terminating", "gone"}],
         tsd' \in [Threads -> Bindings \cup {NoBinding}],
         \A u \in Threads \ {t} : tsd'[u] = tsd[u], Dropped(t, Bound(t), Top(t).func)
  PROVE  IInv'
<1>1. /\ TypeOK /\ StacksOK /\ Top(t).e \in Enclaves /\ Top(t).i \in Tcs
      /\ Bound(t) \in Bindings /\ Level(t) \in Levels(t) /\ Level(t) \in 1 .. MaxDepth
      /\ Top(t) = stack[t][Level(t)]
  BY RunningFrame
<1>2. PICK n \in 1 .. MaxDepth : n = Level(t)
  BY <1>1
<1>3. Levels(t) = 1 .. n /\ Levels(t) \ {n} = 1 .. n - 1 /\ n - 1 \in Nat
  BY <1>2 DEF Levels
<1>4. /\ stack'[t] = s /\ \A u \in Threads \ {t} : stack'[u] = stack[u]
      /\ stack' \in [Threads -> Seq(Frames)] /\ Level(t)' = n - 1
      /\ Levels(t)' = 1 .. n - 1
  <2>1. stack'[t] = s /\ \A u \in Threads \ {t} : stack'[u] = stack[u]
    BY <1>1 DEF TypeOK
  <2>2. stack' \in [Threads -> Seq(Frames)]
    BY <1>1, <2>1 DEF TypeOK
  <2>3. Len(s) = n - 1
    BY <1>2 DEF Resumed
  <2> QED BY <2>1, <2>2, <2>3 DEF Level, Levels
<1>5. TypeOK'
  BY <1>1, <1>4 DEF TypeOK, Dropped
<1>6. ASSUME NEW l \in 1 .. n - 1
      PROVE  /\ l \in Levels(t) \ {Level(t)} /\ FrameOK(t, l)
             /\ stack[t][l].func # "exception" /\ stack[t][l].at \in {"host", "fault"}
             /\ stack'[t][l].e = stack[t][l].e /\ stack'[t][l].i = stack[t][l].i
             /\ stack'[t][l].func = stack[t][l].func /\ stack'[t][l].late = stack[t][l].late
             /\ stack'[t][l].saved = stack[t][l].saved
             /\ \/ stack'[t][l].at = "host" /\ stack[t][l].at = "host"
                \/ stack'[t][l] = stack[t][l] /\ l # n - 1
                \/ l = n - 1 /\ stack'[t][l].at = "run" /\ tsd'[t] = Site(t, l)
  <2>1. l \in Levels(t) \ {Level(t)} /\ l < Level(t)
    BY <1>2, <1>3
  <2>2. FrameOK(t, l) /\ stack[t][l] \in Frames
    BY <1>1, <2>1, StackType DEF StacksOK
  <2>3. stack[t][l].func # "exception" /\ stack[t][l].at \in {"host", "fault"}
    BY <2>1, <2>2 DEF FrameOK, Nested
  <2>4. \/ s[l] = stack[t][l] /\ stack[t][l].at = "host"
        \/ s[l] = stack[t][l] /\ l # n - 1
        \/ l = n - 1 /\ s[l] = [stack[t][l] EXCEPT !.at = "run"] /\ tsd'[t] = Site(t, l)
    BY <1>2, <2>1 DEF Resumed
  <2>5. ASSUME s[l] = [stack[t][l] EXCEPT !.at = "run"]
        PROVE  /\ s[l].e = stack[t][l].e /\ s[l].i = stack[t][l].i
               /\ s[l].func = stack[t][l].func /\ s[l].late = stack[t][l].late
               /\ s[l].saved = stack[t][l].saved /\ s[l].at = "run"
    BY ONLY <2>2, <2>5 DEF Frames
  <2>6. stack'[t][l] = s[l]
    BY <1>4
  <2> QED BY <2>1, <2>2, <2>3, <2>4, <2>5, <2>6
<1>7. HandlingMatches' /\ TcsExclusive'
  <2>1. PICK e \in Enclaves, i \in Tcs : Bound(t) = <<e, i>>
    BY <1>1 DEF Bound
  <2>2. \A l \in Levels(t) \ {n} : /\ stack'[t][l].e = stack[t][l].e
                                   /\ stack'[t][l].i = stack[t][l].i
                                   /\ stack'[t][l].func = stack[t][l].func
    BY <1>3, <1>6
  <2>3. \A u \in Threads \ {t} : stack'[u] = stack[u]
    BY <1>4
  <2>4. /\ \A b \in Bindings \ {<<e, i>>} : bindings'[b] = bindings[b]
        /\ bindings'[<<e, i>>].thread = IF bindings[<<e, i>>].count = 1 THEN NoThread ELSE t
        /\ bindings'[<<e, i>>].count = bindings[<<e, i>>].count - 1
        /\ bindings'[<<e, i>>].handling <=> /\ bindings[<<e, i>>].handling
                                            /\ bindings[<<e, i>>].count # 1
                                            /\ Top(t).func # "exception"
    BY <2>1 DEF Dropped
  <2>5. IInv /\ t \in Threads /\ stack[t] # <<>> /\ n = Level(t) /\ Level(t)' = n - 1
    BY <1>2, <1>4
  <2> QED BY ONLY <1>5, <2>1, <2>2, <2>3, <2>4, <2>5, DropActivation
<1>8. ASSUME NEW l \in 1 .. n - 1 PROVE FrameOK(t, l)'
  <2>1. /\ l \in Levels(t) \ {Level(t)} /\ FrameOK(t, l)
        /\ stack[t][l].func # "exception" /\ stack[t][l].at \in {"host", "fault"}
        /\ stack'[t][l].e = stack[t][l].e /\ stack'[t][l].i = stack[t][l].i
        /\ stack'[t][l].func = stack[t][l].func /\ stack'[t][l].late = stack[t][l].late
        /\ stack'[t][l].saved = stack[t][l].saved
        /\ \/ stack'[t][l].at = "host" /\ stack[t][l].at = "host"
           \/ stack'[t][l] = stack[t][l] /\ l # n - 1
           \/ l = n - 1 /\ stack'[t][l].at = "run" /\ tsd'[t] = Site(t, l)
    BY <1>6
  <2>2. Site(t, l)' = Site(t, l) /\ stack[t][l].e \in Enclaves
    BY <1>1, <2>1, StackType DEF Site
  <2>3. l # n - 1 => stack'[t][l].at = "host"
    <3>1. ASSUME l # n - 1 PROVE stack[t][l].at = "host"
      <4>1. l + 1 \in 1 .. n - 1
        BY <1>3, <3>1
      <4>2. stack[t][l + 1].func # "exception"
        BY <1>6, <4>1
      <4> QED BY <2>1, <4>2 DEF FrameOK, Nested
    <3> QED BY <2>1, <3>1
  <2>4. stack'[t][l].at \in {"host", "run"} /\ stack'[t][l].at # "fault"
    BY <2>1, <2>3
  <2>5. Nested(t, l)'
    <3>1. \A k \in 1 .. l - 1 : stack'[t][k].e = stack[t][k].e
      BY <1>3, <1>6
    <3> QED BY <1>3, <1>4, <2>1, <2>3, <2>4, <3>1 DEF FrameOK, Nested
  <2>6. Admitted(t, l)'
    BY <2>1, <2>2, <2>4 DEF FrameOK, Admitted, Older, Pushed
  <2>7. Current(t, l)'
    BY <1>4, <2>1, <2>2, <2>4 DEF FrameOK, Current
  <2>8. Owned(t, l)'
    <3>1. ~Covered(t, l)
      BY <2>1, Lower
    <3>2. ~Covered(t, l)'
      <4>1. CASE l = n - 1
        BY <1>4, <4>1 DEF Covered
      <4>2. CASE l # n - 1
        <5>1. l + 1 \in 1 .. n - 1
          BY <1>3, <4>2
        <5>2. stack'[t][l + 1].func # "exception"
          BY <1>6, <5>1
        <5> QED BY <5>2 DEF Covered
      <4> QED BY <4>1, <4>2
    <3>3. Place(t, l)' = Place(t, l)
      BY <2>2, <3>1, <3>2 DEF Place
    <3> QED BY <2>1, <2>2, <3>3 DEF FrameOK, Owned, Pushed
  <2> QED BY <2>5, <2>6, <2>7, <2>8 DEF FrameOK
<1>9. ASSUME NEW u \in Threads
      PROVE  Level(u)' <= MaxDepth /\ \A l \in Levels(u)' : FrameOK(u, l)'
  <2>1. CASE u = t
    BY <1>4, <1>8, <2>1, BoundAssumption
  <2>2. CASE u # t
    BY <1>4, <2>2, OthersOK
  <2> QED BY <2>1, <2>2
<1> QED BY <1>7, <1>9 DEF IInv, StacksOK

(* _release_tcs on a binding that t has. *)
LEMMA ReleasedType ==
  ASSUME NEW t \in Threads,
         NEW r \in [thread : Threads \cup {NoThread}, count : 0 .. MaxDepth, handling : BOOLEAN],
         r.thread = t, r.count # 0
  PROVE  /\ Released(r) \in [thread : Threads \cup {NoThread}, count : 0 .. MaxDepth,
                             handling : BOOLEAN]
         /\ Released(r).thread = IF r.count = 1 THEN NoThread ELSE t
         /\ Released(r).count = r.count - 1
         /\ Released(r).handling <=> r.handling /\ r.count # 1
<1>1. CASE r.count = 1
  BY <1>1, BoundAssumption DEF Released, Free
<1>2. CASE r.count # 1
  <2>1. Released(r) = [r EXCEPT !.count = @ - 1]
    BY <1>2 DEF Released
  <2>2. r.count - 1 \in 0 .. MaxDepth
    BY BoundAssumption
  <2> QED BY <1>2, <2>1, <2>2
<1> QED BY <1>1, <1>2

(* The last frame of t, on its way back to the host. *)
LEMMA ReturningFrame ==
  ASSUME IInv, NEW t \in Threads, At(t, "ret")
  PROVE  /\ TypeOK /\ stack[t] # <<>> /\ Top(t) \in Frames /\ Top(t).e \in Enclaves
         /\ Top(t).at = "ret" /\ Bound(t) \in Bindings
         /\ bindings[Bound(t)] \in [thread : Threads \cup {NoThread}, count : 0 .. MaxDepth,
                                    handling : BOOLEAN]
         /\ bindings[Bound(t)].thread = t /\ bindings[Bound(t)].count # 0
         /\ SubSeq(stack[t], 1, Level(t) - 1) \in Seq(Frames)
         /\ Len(SubSeq(stack[t], 1, Level(t) - 1)) = Level(t) - 1
         /\ \A l \in Levels(t) \ {Level(t)} : /\ SubSeq(stack[t], 1, Level(t) - 1)[l] = stack[t][l]
                                              /\ l \in 1 .. Level(t) - 1
                                              /\ stack[t][l].at \in {"host", "fault"}
                                              /\ l = Level(t) - 1 /\ stack[t][l].at = "fault"
                                                   => Top(t).func = "exception"
<1>1. /\ TypeOK /\ StacksOK /\ stack[t] # <<>> /\ Top(t) \in Frames /\ Top(t).e \in Enclaves
      /\ Top(t).at = "ret" /\ Bound(t) \in Bindings /\ Bound(t) = Site(t, Level(t))
      /\ Level(t) \in Levels(t) /\ Level(t) \in 1 .. MaxDepth /\ Top(t).i \in Tcs
      /\ Top(t) = stack[t][Level(t)]
  BY RunningFrame DEF At
<1>2. bindings[Bound(t)].thread = t
  BY <1>1, OneThread
<1>3. bindings[Bound(t)].count # 0
  BY <1>1, <1>2, NullAssumption DEF IInv, TcsExclusive, Bound
<1>4. bindings[Bound(t)] \in [thread : Threads \cup {NoThread}, count : 0 .. MaxDepth,
                              handling : BOOLEAN]
  BY <1>1 DEF TypeOK
<1>5. /\ SubSeq(stack[t], 1, Level(t) - 1) \in Seq(Frames)
      /\ Len(SubSeq(stack[t], 1, Level(t) - 1)) = Level(t) - 1
      /\ \A k \in 1 .. Level(t) - 1 : SubSeq(stack[t], 1, Level(t) - 1)[k] = stack[t][k]
  <2>1. stack[t] \in Seq(Frames) /\ Len(stack[t]) >= 1
    BY <1>1, StackType DEF Level
  <2> QED BY <2>1, DropLast DEF Level
<1>6. ASSUME NEW l \in Levels(t) \ {Level(t)}
      PROVE  /\ l \in 1 .. Level(t) - 1 /\ stack[t][l].at \in {"host", "fault"}
             /\ l = Level(t) - 1 /\ stack[t][l].at = "fault" => Top(t).func = "exception"
  <2>1. l \in 1 .. Level(t) - 1
    BY <1>1 DEF Levels
  <2>2. FrameOK(t, l)
    BY <1>1 DEF StacksOK
  <2>3. stack[t][l].at \in {"host", "fault"}
    BY <1>1, <2>1, <2>2 DEF FrameOK, Nested
  <2>4. stack[t][l].at = "fault" => stack[t][l + 1].func = "exception"
    BY <2>2 DEF FrameOK, Nested
  <2>5. l = Level(t) - 1 => l + 1 = Level(t)
    BY <1>1
  <2> QED BY <1>1, <2>1, <2>3, <2>4, <2>5
<1> QED BY <1>1, <1>2, <1>3, <1>4, <1>5, <1>6

(* The end of an oe_ecall. *)
LEMMA ReturnStep ==
  ASSUME IInv, NEW t \in Threads, Return(t) PROVE IInv'
<1> DEFINE s == SubSeq(stack[t], 1, Level(t) - 1)
           b == Bound(t)
<1>1. At(t, "ret") /\ Top(t).func # "exception"
  BY DEF Return
<1>2. /\ TypeOK /\ stack[t] # <<>> /\ Top(t) \in Frames /\ Top(t).e \in Enclaves
      /\ Top(t).at = "ret" /\ b \in Bindings
      /\ bindings[b] \in [thread : Threads \cup {NoThread}, count : 0 .. MaxDepth,
                          handling : BOOLEAN]
      /\ bindings[b].thread = t /\ bindings[b].count # 0
      /\ s \in Seq(Frames) /\ Len(s) = Level(t) - 1
      /\ \A l \in Levels(t) \ {Level(t)} : /\ s[l] = stack[t][l]
                                           /\ stack[t][l].at \in {"host", "fault"}
                                           /\ l = Level(t) - 1 /\ stack[t][l].at = "fault"
                                                => Top(t).func = "exception"
  BY <1>1, ReturningFrame
<1>3. Dropped(t, b, Top(t).func)
  <2>1. bindings' = [bindings EXCEPT ![b] = Released(bindings[b])]
    BY DEF Return
  <2>2. /\ Released(bindings[b]) \in [thread : Threads \cup {NoThread}, count : 0 .. MaxDepth,
                                      handling : BOOLEAN]
        /\ Released(bindings[b]).thread = IF bindings[b].count = 1 THEN NoThread ELSE t
        /\ Released(bindings[b]).count = bindings[b].count - 1
        /\ Released(bindings[b]).handling <=> bindings[b].handling /\ bindings[b].count # 1
    BY <1>2, ReleasedType
  <2>3. bindings \in [Bindings -> [thread : Threads \cup {NoThread}, count : 0 .. MaxDepth,
                                   handling : BOOLEAN]]
    BY <1>2 DEF TypeOK
  <2> HIDE DEF b
  <2> QED BY <1>1, <1>2, <2>1, <2>2, <2>3 DEF Dropped
<1>4. /\ life' \in [Enclaves -> {"none", "creating", "up", "terminating", "gone"}]
      /\ Older /\ alive' \in BOOLEAN
  <2>1. life' = [life EXCEPT ![Top(t).e] = Concluded(t)] /\ UNCHANGED <<status, inited>>
    BY DEF Return
  <2>2. /\ Concluded(t) \in {"none", "creating", "up", "terminating", "gone"}
        /\ life[Top(t).e] # "none" => Concluded(t) # "none"
    <3>1. life[Top(t).e] \in {"none", "creating", "up", "terminating", "gone"}
      BY <1>2 DEF TypeOK
    <3>2. \/ Concluded(t) = "up" \/ Concluded(t) = "gone"
          \/ Concluded(t) = life[Top(t).e]
      <4>1. CASE Top(t).func = "init"
        BY <4>1 DEF Concluded
      <4>2. CASE Top(t).func = "destructor"
        BY <4>2 DEF Concluded
      <4>3. CASE Top(t).func \notin {"init", "destructor"}
        BY <4>3 DEF Concluded
      <4> QED BY <4>1, <4>2, <4>3
    <3> QED BY <3>1, <3>2
  <2>3. Older /\ life' \in [Enclaves -> {"none", "creating", "up", "terminating", "gone"}]
    BY <1>2, <2>1, <2>2 DEF Older, TypeOK
  <2>4. alive' \in BOOLEAN
    BY DEF Return
  <2> QED BY <2>3, <2>4
<1>5. /\ tsd' \in [Threads -> Bindings \cup {NoBinding}]
      /\ \A u \in Threads \ {t} : tsd'[u] = tsd[u]
  BY <1>2 DEF Return, TypeOK
<1>6. stack' = [stack EXCEPT ![t] = s] /\ UNCHANGED <<callsites, status, inited>>
  BY DEF Return
<1> HIDE DEF s
<1>7. Resumed(t, s)
  BY <1>1, <1>2 DEF Resumed
<1> QED BY <1>2, <1>3, <1>4, <1>5, <1>6, <1>7, PopStep

(* The end of the first pass: the interrupted function resumes. *)
LEMMA ExceptionReturnStep ==
  ASSUME IInv, NEW t \in Threads, ExceptionReturn(t) PROVE IInv'
<1> DEFINE s == SubSeq(stack[t], 1, Level(t) - 1)
           q == [s EXCEPT ![Level(t) - 1].at = "run"]
           b == Bound(t)
<1>1. At(t, "ret") /\ Top(t).func = "exception"
  BY DEF ExceptionReturn
<1>2. /\ TypeOK /\ stack[t] # <<>> /\ Top(t) \in Frames
      /\ Top(t).at = "ret" /\ b \in Bindings
      /\ bindings[b] \in [thread : Threads \cup {NoThread}, count : 0 .. MaxDepth,
                          handling : BOOLEAN]
      /\ bindings[b].thread = t /\ bindings[b].count # 0
      /\ s \in Seq(Frames) /\ Len(s) = Level(t) - 1
      /\ \A l \in Levels(t) \ {Level(t)} : s[l] = stack[t][l]
  BY <1>1, ReturningFrame
<1>3. /\ FrameOK(t, Level(t)) /\ Top(t) = stack[t][Level(t)] /\ b = Site(t, Level(t))
      /\ Level(t) \in Levels(t) /\ Level(t) \in 1 .. MaxDepth
  BY <1>2, RunningFrame
<1>4. PICK n \in 1 .. MaxDepth : n = Level(t)
  BY <1>3
<1>5. /\ tsd[t] = b /\ n > 1 /\ stack[t][n - 1].at = "fault" /\ Site(t, n - 1) = b
      /\ n - 1 \in Levels(t) \ {Level(t)} /\ n - 1 \in 1 .. Len(s)
  <2>1. tsd[t] = b /\ n > 1 /\ stack[t][n - 1].at = "fault" /\ Site(t, n - 1) = b
    BY <1>1, <1>3, <1>4 DEF FrameOK, Nested, Current
  <2>2. n - 1 \in Levels(t) \ {Level(t)} /\ n - 1 \in 1 .. Len(s)
    BY <1>2, <1>4, <2>1 DEF Levels
  <2> QED BY <2>1, <2>2
<1>6. /\ bindings' = [bindings EXCEPT ![b] = Released(@), ![b].handling = FALSE]
      /\ stack' = [stack EXCEPT ![t] = q] /\ alive' \in BOOLEAN
      /\ UNCHANGED <<life, status, inited, callsites, tsd>>
  <2>1. /\ bindings' = [bindings EXCEPT ![Bound(t)] = Released(@), ![tsd[t]].handling = FALSE]
        /\ stack' = [stack EXCEPT ![t] =
              [SubSeq(@, 1, Level(t) - 1) EXCEPT ![Level(t) - 1].at = "run"]]
        /\ alive' = (Top(t).out = "ok")
        /\ UNCHANGED <<life, status, inited, callsites, tsd>>
    BY DEF ExceptionReturn
  <2> QED BY <1>5, <2>1
<1>7. Dropped(t, b, Top(t).func)
  <2>1. PICK r : r = Released(bindings[b])
    OBVIOUS
  <2>2. /\ r \in [thread : Threads \cup {NoThread}, count : 0 .. MaxDepth, handling : BOOLEAN]
        /\ r.thread = IF bindings[b].count = 1 THEN NoThread ELSE t
        /\ r.count = bindings[b].count - 1
    BY <1>2, <2>1, ReleasedType
  <2>3. bindings \in [Bindings -> [thread : Threads \cup {NoThread}, count : 0 .. MaxDepth,
                                   handling : BOOLEAN]]
    BY <1>2 DEF TypeOK
  <2> HIDE DEF b
  <2>4. bindings' = [bindings EXCEPT ![b] = [r EXCEPT !.handling = FALSE]]
    BY ONLY <1>2, <1>6, <2>1, <2>3
  <2>5. PICK v : v = [r EXCEPT !.handling = FALSE]
    OBVIOUS
  <2>6. /\ v \in [thread : Threads \cup {NoThread}, count : 0 .. MaxDepth, handling : BOOLEAN]
        /\ v.thread = r.thread /\ v.count = r.count /\ ~v.handling
    BY ONLY <2>2, <2>5
  <2>7. bindings' = [bindings EXCEPT ![b] = v]
    BY <2>4, <2>5
  <2> QED BY <1>1, <1>2, <2>2, <2>3, <2>6, <2>7 DEF Dropped
<1>8. /\ q \in Seq(Frames) /\ Len(q) = Level(t) - 1
      /\ q[n - 1] = [stack[t][n - 1] EXCEPT !.at = "run"]
      /\ \A l \in 1 .. n - 1 : l # n - 1 => q[l] = s[l]
  <2>1. PICK g : g = [stack[t][n - 1] EXCEPT !.at = "run"]
    OBVIOUS
  <2>2. stack[t][n - 1] \in Frames
    BY <1>2, <1>5, StackType
  <2>3. g \in Frames
    BY ONLY <2>1, <2>2 DEF Frames
  <2>4. s[n - 1] = stack[t][n - 1]
    BY <1>2, <1>5
  <2>5. q = [s EXCEPT ![n - 1] = g]
    BY <1>4, <2>1, <2>4
  <2> HIDE DEF q, s
  <2>6. /\ q \in Seq(Frames) /\ Len(q) = Len(s) /\ q[n - 1] = g
        /\ \A l \in 1 .. Len(s) : l # n - 1 => q[l] = s[l]
    BY <1>2, <1>5, <2>3, <2>5, ExceptSeq
  <2> QED BY <1>2, <1>4, <2>1, <2>6
<1> HIDE DEF s, q
<1>9. Resumed(t, q)
  <2>1. \A l \in Levels(t) \ {Level(t)} : l \in 1 .. n - 1
    BY <1>4 DEF Levels
  <2> QED BY <1>2, <1>4, <1>5, <1>6, <1>8, <2>1 DEF Resumed
<1>10. /\ life' \in [Enclaves -> {"none", "creating", "up", "terminating", "gone"}]
       /\ tsd' \in [Threads -> Bindings \cup {NoBinding}]
       /\ \A u \in Threads \ {t} : tsd'[u] = tsd[u]
       /\ Older /\ UNCHANGED <<callsites, status, inited>>
  BY <1>2, <1>6 DEF TypeOK, Older
<1> QED BY <1>2, <1>6, <1>7, <1>8, <1>9, <1>10, PopStep

-----------------------------------------------------------------------------
LEMMA InitIInv == Init => IInv
<1> SUFFICES ASSUME Init PROVE IInv
  OBVIOUS
<1> USE DEF Init
<1>1. \A t \in Threads : stack[t] = <<>> /\ Level(t) = 0 /\ Levels(t) = {}
  BY DEF Level, Levels
<1>2. /\ Free \in [thread : Threads \cup {NoThread}, count : 0 .. MaxDepth, handling : BOOLEAN]
      /\ Free.thread = NoThread /\ Free.count = 0 /\ Free.handling = FALSE
  BY BoundAssumption DEF Free
<1>3. TypeOK
  <2>1. bindings \in [Bindings -> [thread : Threads \cup {NoThread},
                                   count : 0 .. MaxDepth, handling : BOOLEAN]]
    BY <1>2
  <2> QED BY <2>1 DEF TypeOK
<1>4. ASSUME NEW e \in Enclaves, NEW i \in Tcs
      PROVE  Activations(e, i) = {} /\ bindings[<<e, i>>] = Free
  BY <1>1 DEF Activations, Bindings
<1>5. Cardinality({}) = 0
  BY FS_EmptySet
<1>6. HandlingMatches
  BY <1>2, <1>3, <1>4 DEF HandlingMatches
<1>7. TcsExclusive
  BY <1>2, <1>4, <1>5 DEF TcsExclusive
<1>8. StacksOK
  BY <1>1, BoundAssumption DEF StacksOK
<1> QED BY <1>6, <1>7, <1>8 DEF IInv

LEMMA NextIInv == IInv /\ [Next]_vars => IInv'
<1> SUFFICES ASSUME IInv, [Next]_vars PROVE IInv'
  OBVIOUS
<1>1. CASE UNCHANGED vars
  <2>1. alive' \in BOOLEAN
    BY <1>1 DEF IInv, HandlingMatches, TypeOK, vars
  <2> QED BY <1>1, <2>1, Unaffected DEF vars
<1>2. ASSUME NEW t \in Threads, HostStep(t) PROVE IInv'
  BY <1>2, CreateStep, CallStep, TerminateStep, HostReturnStep, ExceptionReturnStep,
     ReturnStep DEF HostStep
<1>3. ASSUME NEW t \in Threads, EnclaveStep(t) PROVE IInv'
  BY <1>3, EnterStep, SealStep, DispatchStep, FinishStep, OcallStep, OretStep, AbortStep,
     AbortStoreStep, FaultStep DEF EnclaveStep
<1> QED BY <1>1, <1>2, <1>3 DEF Next

LEMMA AlwaysIInv == Spec => []IInv
BY InitIInv, NextIInv, PTL DEF Spec

(* A TCS serves one host thread at a time and for as long as that thread has *)
(* an activation on it; the count that _assign_tcs and _release_tcs keep is  *)
(* the number of those activations.                                          *)
THEOREM TcsServesOneThread == Spec => []TcsExclusive
<1>1. IInv => TcsExclusive
  BY DEF IInv
<1> QED BY <1>1, AlwaysIInv, PTL

(* The state keeps its types, and HANDLING_EXCEPTION is set exactly while    *)
(* the first-pass handler of an exception on that TCS is active.             *)
THEOREM FlagMeansHandler == Spec => []HandlingMatches
<1>1. IInv => HandlingMatches
  BY DEF IInv
<1> QED BY <1>1, AlwaysIInv, PTL

(* Running enclave code finds its own binding in the thread's TSD and its    *)
(* own callsite last on its TCS, after any nesting of ocalls, ecalls into    *)
(* this and other enclaves, exceptions and aborts.                           *)
THEOREM RunningCodeOwnsBinding == Spec => []BindingCurrent
<1>1. IInv => BindingCurrent
  <2> SUFFICES ASSUME IInv PROVE BindingCurrent
    OBVIOUS
  <2>1. ASSUME NEW t \in Threads, At(t, "run") \/ At(t, "oret")
        PROVE  /\ tsd[t] = Bound(t)
               /\ callsites[Bound(t)] # <<>>
               /\ callsites[Bound(t)][Len(callsites[Bound(t)])] = Level(t)
               /\ Top(t).func = "call" => Len(callsites[Bound(t)]) = 1
    <3>1. /\ TypeOK /\ FrameOK(t, Level(t)) /\ Top(t) = stack[t][Level(t)]
          /\ Bound(t) = Site(t, Level(t)) /\ Bound(t) \in Bindings
          /\ Top(t).at \in {"run", "oret"} /\ Level(t) \in 1 .. MaxDepth
      BY <2>1, RunningFrame DEF At
    <3>2. tsd[t] = Bound(t)
      BY <3>1 DEF FrameOK, Current
    <3>3. callsites[Bound(t)] \in Seq(1 .. MaxDepth)
      BY <3>1 DEF TypeOK
    <3>4. ~Covered(t, Level(t))
      BY <3>1 DEF Covered
    <3>5. Place(t, Level(t)) = Len(callsites[Bound(t)])
      BY <3>1, <3>4 DEF Place
    <3>6. /\ Len(callsites[Bound(t)]) >= 1
          /\ callsites[Bound(t)][Len(callsites[Bound(t)])] = Level(t)
          /\ Top(t).func = "call" => Len(callsites[Bound(t)]) = 1
      BY <3>1, <3>5 DEF FrameOK, Owned, Pushed
    <3> QED BY <3>2, <3>3, <3>6
  <2> QED BY <2>1 DEF BindingCurrent, CallsiteOwned
<1> QED BY <1>1, AlwaysIInv, PTL

(* No enclave function runs in an enclave that is not initialized, nor one   *)
(* that was called after the enclave started to crash.                       *)
THEOREM OnlyLiveEnclavesRun == Spec => []NoRunWhenDown
<1>1. IInv => NoRunWhenDown
  <2> SUFFICES ASSUME IInv, NEW t \in Threads, At(t, "run"), Top(t).func = "call"
               PROVE  inited[Top(t).e] /\ ~Top(t).late
    BY DEF NoRunWhenDown
  <2>1. FrameOK(t, Level(t)) /\ Top(t) = stack[t][Level(t)] /\ Top(t).at = "run"
    BY RunningFrame DEF At
  <2> QED BY <2>1 DEF FrameOK, Admitted, Pushed
<1> QED BY <1>1, AlwaysIInv, PTL
=============================================================================
