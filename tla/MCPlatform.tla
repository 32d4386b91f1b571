----------------------------- MODULE MCPlatform -----------------------------
(* Sealing, quote providers, ecall ids and the allocators on small instances. *)
EXTENDS Heap, Sealing, EcallIds, QuoteProvider, TLC

VARIABLE case

-----------------------------------------------------------------------------
(* Allocation.                                                               *)

BlockCases == [kind : {"block"}, alignment : {0, 4, 8, 16, 32}, size : 0 .. Modulus - 1]

ArenaCases ==
  [kind : {"arena"}, capacity : {0, 7, 16, 24},
   sizes : [1 .. 3 -> {0, 1, 7, 8, 9, 15, 16, Modulus - 9, Modulus - 2, Modulus - 1}]]

\* Blocks hold what was asked for, next to the largest size_t as well,
\* oe_debug_calloc refuses exactly the products that wrap, and an arena's
\* buffers lie apart and inside it.
AllocationFits ==
  /\ case.kind = "block" =>
       /\ BlockFits(case.alignment, case.size)
       /\ \A n \in 0 .. Modulus - 1 : _check_multiply_overflow(n, case.size) = (n * case.size >= Modulus)
  /\ case.kind = "arena" => ArenaFits(case.capacity, case.sizes)

-----------------------------------------------------------------------------
(* Ecall ids.                                                                *)

MCInterfaces == [A |-> <<"x", "y", "z">>, B |-> <<"z", "w", "x">>]

\* Two stubs for one name, one for a name that only an enclave of later has, and
\* one for a name that no enclave has.
MCStubs == [s1 |-> "x", s2 |-> "x", s3 |-> "w", s4 |-> "v"]

-----------------------------------------------------------------------------
(* Sealing.                                                                  *)

Gcm == [id |-> "gcm", variant |-> 1]

Own == [id |-> "own", variant |-> 1]

MCSealPlugins == {Gcm, Own, [Own EXCEPT !.variant = 2], [id |-> "other", variant |-> 1]}

First == [unique |-> 1, signer |-> 1, product |-> 1, svn |-> 2, cpu |-> 2, debug |-> FALSE]

\* An upgrade, a downgrade, another product, another signer, a debug enclave,
\* and the enclave on an older processor.
MCEnclaves == {First, [First EXCEPT !.unique = 2, !.svn = 3], [First EXCEPT !.unique = 3, !.svn = 1],
               [First EXCEPT !.product = 2], [First EXCEPT !.unique = 4, !.signer = 2],
               [First EXCEPT !.debug = TRUE], [First EXCEPT !.cpu = 1]}

Setting(type, value) == <<type, value>>

Settings == {Setting("POLICY", "UNIQUE"), Setting("POLICY", "PRODUCT"), Setting("POLICY", "BAD"),
             Setting("IV", "fixed"), Setting("IV", "short"), Setting("KEYNAME", "UNKNOWN"),
             Setting("ISVSVN", 1), Setting("ISVSVN", 3), Setting("CPUSVN", 1), Setting("CPUSVN", 3),
             Setting("FLAGSMASK", FALSE), Setting("CONTEXT", 1)}

SealCases ==
  [kind : {"seal"}, from : MCEnclaves, to : MCEnclaves,
   settings : UNION {[1 .. n -> Settings] : n \in 0 .. 2}]

LastSet(settings, type, default) ==
  LET of == SelectSeq(settings, LAMBDA s : s[1] = type)
  IN  IF of = <<>> THEN default ELSE Last(of)[2]

Refused == {Setting("POLICY", "BAD"), Setting("IV", "short"), Setting("KEYNAME", "UNKNOWN"),
            Setting("CONTEXT", 1)}

Sealable(c) ==
  /\ ToSet(c.settings) \cap Refused = {}
  /\ LastSet(c.settings, "ISVSVN", c.from.svn) <= c.from.svn
  /\ LastSet(c.settings, "CPUSVN", c.from.cpu) <= c.from.cpu

\* Which enclave may open a blob, as the policies are documented.
MayOpen(c) ==
  /\ LastSet(c.settings, "ISVSVN", c.from.svn) <= c.to.svn
  /\ LastSet(c.settings, "CPUSVN", c.from.cpu) <= c.to.cpu
  /\ IF LastSet(c.settings, "POLICY", "PRODUCT") = "UNIQUE" THEN c.from.unique = c.to.unique
     ELSE c.from.signer = c.to.signer
  /\ c.from.product = c.to.product
  /\ LastSet(c.settings, "FLAGSMASK", TRUE) => c.from.debug = c.to.debug

OtherBlobs(b) ==
  {[b EXCEPT !.ciphertext_size = @ + 1], [b EXCEPT !.total_size = @ + 1], [b EXCEPT !.size = @ - 1],
   [b EXCEPT !.iv = "changed"], [b EXCEPT !.keyrequest.id = @ + 1],
   [b EXCEPT !.keyrequest.mask = ~@], [b EXCEPT !.keyrequest.svn = @ - 1],
   [b EXCEPT !.keyrequest.policy = IF @ = "MRENCLAVE" THEN "MRSIGNER" ELSE "MRENCLAVE"],
   [b EXCEPT !.box.key = <<>>]}

\* What the default plugin sealed is opened by exactly the enclaves its settings
\* allow, with the additional data it was sealed with, changed nowhere.
SealRoundTrip(c) ==
  \A array \in {<<Gcm>>, <<Own, Gcm>>, <<Gcm, Own>>} :
    LET b == oe_seal(array, c.from, NoId, c.settings, <<1, 2>>, <<5>>, 7)
        Open(blob, aad) == oe_unseal(array, c.to, blob, aad)
    IN  /\ Ok(b.res) = Sealable(c)
        /\ Ok(b.res) =>
             /\ Open(b, <<5>>) = IF MayOpen(c) THEN [res |-> "OE_OK", text |-> <<1, 2>>]
                                 ELSE [res |-> "OE_UNSUPPORTED", text |-> <<>>]
             /\ \A aad \in {<<>>, <<6>>, <<5, 5>>} : ~Ok(Open(b, aad).res)
             /\ \A other \in OtherBlobs(b) : ~Ok(Open(other, <<5>>).res)

\* A key that was got by policy is got again from its information, by every
\* enclave the policy allows and by no other.
KeyRoundTrip(c) ==
  \A policy \in {"UNIQUE", "PRODUCT", "BAD"} :
    LET got == oe_get_seal_key_by_policy_v2(c.from, policy)
    IN  /\ Ok(got.res) = (policy # "BAD")
        /\ Ok(got.res) =>
             (oe_get_seal_key_v2(c.to, got.info[1]).key = got.key)
               = MayOpen([c EXCEPT !.settings = <<Setting("POLICY", policy)>>])

-----------------------------------------------------------------------------
(* Quote providers.                                                          *)

MCDcap == {{}, {"module"}, {"module", "get_quote"}, {"module", "get_target_info", "get_quote_size"},
           {"module", "get_target_info", "get_quote_size", "get_quote"}}

Environments ==
  [inProcess : BOOLEAN, dcap : MCDcap, ex : {NoLibrary, "incomplete", "ok"},
   num : SgxStatus, ids : SgxStatus,
   keys : UNION {[1 .. n -> Algorithms \cup {"other"}] : n \in 0 .. 3}]

ProviderCases ==
  [kind : {"provider"},
   env : {e \in Environments :
            \/ Len(e.keys) = 1
            \/ e.ex = "ok" /\ e.num = "success" /\ e.ids = "success" /\ e.dcap = {}}]

(* A format the host offers for evidence is one it makes quotes in, with a    *)
(* key of that algorithm, whichever quoting library was found and whatever it *)
(* answers. The exception is a library that could not be loaded: ECDSA is     *)
(* offered then, and refused.                                                 *)
FormatsServed ==
  case.kind = "provider" =>
    \A format \in Algorithms, opt \in {"none", "spid", "other"}, given \in {1, 2}, status \in SgxStatus :
      Served(case.env, format, opt, given, 2, status)

=============================================================================
