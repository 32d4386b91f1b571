------------------------------ MODULE MCLibrary ------------------------------
(* The system call layer's files and data transfer, attestation, the loading  *)
(* of images and the components of MCPlatform, on small instances. A          *)
(* behaviour is about one component that keeps state, or holds one case of    *)
(* the functions that are checked against a reference.                        *)
EXTENDS HostFiles, HostIO, Registries, ImageLoad, MCPlatform

-----------------------------------------------------------------------------
(* Files.                                                                    *)

Rel(e) == [abs |-> FALSE, elems |-> e]

Abs(e) == [abs |-> TRUE, elems |-> e]

MCTree == (<<>> :> "dir") @@ (<<"d">> :> "dir") @@ (<<"f">> :> "file") @@ (<<"d", "f">> :> "file")

MCPaths == {Abs(<<"d", "f">>), Rel(<<"..", "f">>), Rel(<<"d">>), Abs(<<"d", "g">>)}

MCTargets == {Abs(<<>>), Abs(<<"d">>)}

MCSources == {<<>>, <<"d">>}

\* Open for reading, for writing, creating, truncating.
MCFlags == {[write |-> FALSE, creat |-> FALSE, trunc |-> FALSE],
            [write |-> FALSE, creat |-> TRUE,  trunc |-> FALSE],
            [write |-> TRUE,  creat |-> FALSE, trunc |-> FALSE],
            [write |-> TRUE,  creat |-> TRUE,  trunc |-> TRUE]}

-----------------------------------------------------------------------------
(* Paths.                                                                    *)

Elements == {".", "..", "d", "g"}

PathCases ==
  {[kind |-> "path", dir |-> dir, path |-> [abs |-> abs, elems |-> e], table |-> table] :
     dir \in {<<>>, <<"d">>, <<"d", "g">>}, abs \in BOOLEAN,
     e \in UNION {[1 .. n -> Elements] : n \in 0 .. 4},
     table \in {<<Mounted(<<"d">>, <<"x">>, FALSE), Mounted(<<>>, <<>>, FALSE),
                  Mounted(<<"d", "g">>, <<"x", "y">>, TRUE)>>,
                <<Mounted(<<"g">>, <<>>, FALSE), Mounted(<<"d">>, <<"x">>, FALSE)>>}}

\* A name stays unless a later ".." takes it away: there is a place by which
\* the path has gone up as often as it has gone down since the name.
Survives(e, i) ==
  LET Down(j) == Cardinality({k \in i .. j : e[k] \notin {".", ".."}})
      Up(j) == Cardinality({k \in i .. j : e[k] = ".."})
  IN  e[i] \notin {".", ".."} /\ \A j \in i .. Len(e) : Up(j) < Down(j)

Remaining(e) ==
  LET kept == SetToSortSeq({i \in DOMAIN e : Survives(e, i)}, <)
  IN  [n \in DOMAIN kept |-> e[kept[n]]]

(* oe_realpath leaves exactly the names that no later ".." takes away, also   *)
(* when the path tries to leave the root; the mount it is resolved to has the *)
(* longest mount point above it; and the path given to the host lies below    *)
(* that mount's source directory.                                             *)
PathsConfined ==
  case.kind = "path" =>
    LET real == oe_realpath(case.dir, case.path)
        full == IF case.path.abs THEN case.path.elems ELSE case.dir \o case.path.elems
        above == {i \in DOMAIN case.table :
                    \A k \in DOMAIN case.table[i].path :
                      k \in DOMAIN real /\ real[k] = case.table[i].path[k]}
    IN  /\ real = Remaining(full)
        /\ Containing(case.table, real) = above
        /\ above # {} =>
             LET m == case.table[oe_mount_resolve(case.table, real)]
                 host == _make_host_path(m, Suffix(m, real))
             IN  /\ \A i \in above : Len(case.table[i].path) <= Len(m.path)
                 /\ SubSeq(host, 1, Len(m.source)) = m.source
                 /\ m.path \o SubSeq(host, Len(m.source) + 1, Len(host)) = real

-----------------------------------------------------------------------------
(* Transfers.                                                                *)

Answers == [ok : BOOLEAN, ret : -6 .. 5, len : {0, 1, 2, 3, 4}, ctl : {0, 2, 3}]

TransferCases ==
  {[kind |-> "transfer", count |-> n, len |-> l, h |-> h] :
     n \in {0, 1, 3, 5, 6, 11}, l \in {0, 2, 3, 4}, h \in Answers}

\* Three entries of a directory, with any answer each.
DirCases ==
  {[kind |-> "dir", answers |-> a] :
     a \in [1 .. 3 -> [ok : BOOLEAN, ret : {-1, 0, 1}, reclen : BOOLEAN]]}

(* Sizes hold at their limits. Whatever the host answers, an operation that   *)
(* moves count bytes returns -1 or less, or at most count, and nothing at all *)
(* for a count above SSIZE_MAX; the lengths an operation reports do not       *)
(* exceed what the caller supplied or the address storage. The exception is   *)
(* recvfrom and recvmsg for an address length above the storage, where the    *)
(* host's result goes through unchecked. A block of the debug allocator and a *)
(* buffer of the arena hold what was asked for, or are refused.               *)
SizesHold ==
  /\ AllocationFits
  /\ case.kind = "transfer" =>
       LET n == case.count  l == case.len  h == case.h IN
         /\ \A o \in TransferOps, buf \in BOOLEAN :
              (o \in {"recvfrom", "recvmsg"} => h.len <= StorageSize) =>
                TransferResult(o, buf, n, l, h) <= (IF n > SsizeMax THEN -1 ELSE n)
         /\ LET Limit(a, b) == IF a > b THEN a ELSE b IN
              /\ _hostsock_recvfrom(TRUE, n, l, h).len <= Limit(l, StorageSize)
              /\ _hostsock_recvmsg(n, l, l, h).len <= l
              /\ _hostsock_recvmsg(n, l, l, h).ctl <= l
              /\ _hostsock_getsockopt(l, h).len <= l
              /\ _hostsock_getpeername(l, h).len <= Limit(l, StorageSize)
              /\ _hostsock_getsockname(l, h).len <= l
              /\ _hostsock_accept(l, h).ret >= 0 => _hostsock_accept(l, h).len <= l
  /\ case.kind = "dir" =>
       \A n \in 1 .. 3 :
         LET r == _hostfs_getdents64(n, case.answers)
             bad == {i \in 1 .. n : _hostfs_readdir(case.answers[i]) # "entry"}
         IN  /\ r <= n
             /\ r >= 0 => \A i \in 1 .. r : case.answers[i].ok /\ case.answers[i].ret = 0

-----------------------------------------------------------------------------
(* Round trips.                                                              *)

\* Vectors of up to three entries; the bytes tell their place.
IovCases ==
  {[kind |-> "iov", r |-> r,
    iov |-> [i \in DOMAIN lens |->
               [len |-> lens[i], base |-> TRUE, bytes |-> [k \in 1 .. lens[i] |-> 10 * i + k]]]] :
     r \in 0 .. 6, lens \in UNION {[1 .. k -> 0 .. 2] : k \in 0 .. 3}}

Stream(r) == [k \in 1 .. r |-> 100 + k]

IovRoundTrip(iov, r) ==
  LET h == [ok |-> TRUE, ret |-> r]
      after == <<_hostfs_readv(iov, h, Stream(r)), _hostsock_readv(iov, h, Stream(r)),
                 _consolefs_readv(iov, h, Stream(r))>>
      old == Bytes(iov)
  IN  r <= DataSize(iov) /\ DataSize(iov) <= SsizeMax =>
        /\ oe_syscall_writev_ocall(oe_iov_pack(iov)) = old
        /\ \A k \in DOMAIN after :
             /\ after[k].ret = r
             /\ Bytes(after[k].iov) = Stream(r) \o SubSeq(old, r + 1, Len(old))
        /\ _hostfs_writev(iov, h) = r /\ _hostsock_writev(iov, h) = r
        /\ _consolefs_writev(iov, h) = r

ClaimCases ==
  {[kind |-> "claims",
    claims |-> [i \in 1 .. n |-> [name |-> [k \in 1 .. len |-> IF k = len THEN 0 ELSE i],
                                  value |-> v[i]]]] :
     n \in 0 .. 2, len \in {1, 3}, v \in [1 .. 2 -> {<<>>, <<0>>, <<7, 8>>}]}

ClaimsRoundTrip(claims) ==
  LET b == oe_serialize_custom_claims(claims) IN
    /\ oe_deserialize_custom_claims(b) = [res |-> "OE_OK", claims |-> claims]
    /\ \A n \in 0 .. Len(b) - 1 : ~Ok(oe_deserialize_custom_claims(SubSeq(b, 1, n)).res)

EndorsementCases ==
  {[kind |-> "endorsements", sizes |-> s, time |-> t] :
     s \in [1 .. 7 -> {1, 2}] \cup {[i \in 1 .. 7 |-> IF i = e THEN 0 ELSE 1] : e \in 1 .. 7}
           \cup {[i \in 1 .. 7 |-> IF i = e THEN 5 ELSE 1] : e \in 1 .. 7},
     t \in {<<"t">>, <<"t", "t">>}}

\* An item of size 0 is written but not accepted back.
EndorsementsRoundTrip(sizes, time) ==
  LET collateral == [i \in 1 .. 7 |-> Fill(i, sizes[i])]
      made == oe_create_sgx_endorsements(collateral, time)
      total == HeaderSize + 9 + Len(FlattenSeq(ItemsOf(collateral, time)))
  IN  /\ Ok(made.res) <=> total <= MaxEndorsements
      /\ Ok(made.res) =>
           LET back == oe_parse_sgx_endorsements(made) IN
             IF \E i \in 1 .. 7 : sizes[i] = 0 THEN ~Ok(back.res)
             ELSE back = [res |-> "OE_OK", items |-> ItemsOf(collateral, time)]

Ids == {"local", "ecdsa", "epid_linkable"}

MCVerifierIds == <<"ecdsa", "legacy_report", "raw_ecdsa", "local">>

MCHostFormats == {<<"ecdsa">>, <<"ecdsa", "epid_linkable">>, <<"ecdsa", "ecdsa">>}

EvidenceCases ==
  {[kind |-> "evidence", id |-> id, embed |-> embed, want |-> want, claims |-> c, sig |-> sig,
    verdict |-> v] :
     id \in Ids, embed \in BOOLEAN, want \in BOOLEAN,
     c \in {<<>>, <<1>>, <<1, 2>>, <<2, 1, 1>>}, sig \in {0, 2},
     v \in {"OE_OK", "OE_TCB_LEVEL_INVALID", "OE_VERIFY_FAILED"}}

Changes(ev) == {Front(ev), Append(ev, 1), Append(Front(ev), 9)}

\* Evidence is accepted with the claims it was made with, and changed evidence
\* with no others. Endorsements asked for with local evidence that carries its
\* format are an empty buffer with a header, which is refused.
EvidenceRoundTrip(c) ==
  LET made == oe_get_evidence(Ids, c.id, c.embed, c.claims, c.want, c.sig)
      Verify(ev) == oe_verify_evidence(Range(MCVerifierIds), IF c.embed THEN "NULL" ELSE c.id,
                                       ev, made.endorsements,
                                       [cpusvn |-> "OE_OK", quote |-> c.verdict])
      expected == IF c.id = "local" THEN "OE_OK" ELSE c.verdict
      back == Verify(made.evidence)
  IN  IF c.id = "epid_linkable"
      THEN Ok(made.res) = (Len(c.claims) <= ReportDataSize)
           /\ Ok(made.res) => back.res = "OE_NOT_FOUND"
      ELSE IF c.id = "local" /\ c.embed /\ c.want THEN back.res = "OE_INVALID_PARAMETER"
      ELSE /\ back.res = expected
           /\ Passed(expected) => back.value = c.claims
           /\ c.claims # <<>> => \A ev \in Changes(made.evidence) : ~Passed(Verify(ev).res)

KeyCases ==
  {[kind |-> "certificate", key |-> k, other |-> o, sig |-> s, verdict |-> v] :
     k \in {<<1>>, <<1, 2>>}, o \in {<<1>>, <<1, 2>>, <<3>>}, s \in {0, 2},
     v \in {"OE_OK", "OE_TCB_LEVEL_INVALID", "OE_VERIFY_FAILED"}}

\* A certificate is accepted exactly for the key its evidence was made with.
CertificateRoundTrip(c) ==
  LET made == {oe_generate_attestation_certificate(c.key, c.sig),
               oe_get_attestation_certificate_with_evidence_v2(Ids, "ecdsa", c.key, c.sig)}
      Verify(cert) == oe_verify_attestation_certificate_with_evidence_v2(
                        Range(MCVerifierIds), cert, NULL,
                        [cpusvn |-> c.verdict, quote |-> c.verdict])
  IN  \A cert \in made :
        /\ Verify(cert) = c.verdict
        /\ c.other # c.key => ~Ok(Verify([cert EXCEPT !.key = c.other]))

(* What is taken apart is what was put together: vectors packed for the host  *)
(* and back, also partly filled and with empty entries; custom claims and     *)
(* endorsements; evidence in every format with and without its header, which  *)
(* yields the claims it was made with and with a changed claim none;          *)
(* certificates, accepted for the attested key alone; and sealed blobs and    *)
(* keys, open to exactly the enclaves the policy and the versions allow.      *)
RoundTrips ==
  /\ case.kind = "iov" => IovRoundTrip(case.iov, case.r)
  /\ case.kind = "claims" => ClaimsRoundTrip(case.claims)
  /\ case.kind = "endorsements" => EndorsementsRoundTrip(case.sizes, case.time)
  /\ case.kind = "evidence" => EvidenceRoundTrip(case)
  /\ case.kind = "certificate" => CertificateRoundTrip(case)
  /\ case.kind = "seal" => SealRoundTrip(case) /\ KeyRoundTrip(case)

-----------------------------------------------------------------------------
(* Verdicts.                                                                 *)

Period(a, b) == [from |-> a, until |-> b]

Chained(a, b, ok, key) == [from |-> a, until |-> b, ok |-> ok, rootKey |-> key]

Crl(a, b, ok, revokes) == [from |-> a, until |-> b, ok |-> ok, revokes |-> revokes]

Level(svn, status, date, ok) == [svn |-> svn, status |-> status, date |-> date, ok |-> ok]

Levels == <<Level(<<2, 2>>, "UpToDate", 3, TRUE), Level(<<2, 1>>, "SWHardeningNeeded", 2, TRUE),
            Level(<<1, 1>>, "OutOfDate", 1, TRUE)>>

Document(version, levels, ok, signature) ==
  [ok |-> ok, version |-> version, levels |-> levels, signature |-> signature]

Tcb(version, levels, ok, signature) ==
  Document(version, levels, ok, signature) @@ [fmspc |-> 1, pceid |-> 1]

QeId(version, levels, isvsvn, issued, next, ok, signature) ==
  Document(version, levels, ok, signature) @@ [isvsvn |-> isvsvn, issued |-> issued, next |-> next]

QeLevels == <<Level(<<2>>, "UpToDate", 1, TRUE), Level(<<1>>, "OutOfDate", 1, TRUE)>>

Good ==
  [size |-> 12, sigLen |-> 10, authSize |-> 0, certSize |-> 1, version |-> TRUE,
   certType |-> TRUE, certs |-> <<Period(1, 5), Period(1, 5), Period(1, 5)>>, chain |-> TRUE,
   rootKey |-> TRUE, qeSignature |-> TRUE, qeHash |-> TRUE, signature |-> TRUE,
   endorsements |-> TRUE, extensions |-> TRUE, tcbChain |-> Chained(1, 5, TRUE, TRUE),
   crlChain |-> TRUE, crls |-> <<Crl(2, 5, TRUE, FALSE), Crl(2, 5, TRUE, FALSE)>>,
   tcb |-> Tcb(2, Levels, TRUE, TRUE), svn |-> <<2, 2>>, fmspc |-> 1, pceid |-> 1,
   qeId |-> QeId(2, QeLevels, 2, 2, 3, TRUE, TRUE), qeChain |-> Chained(1, 5, TRUE, TRUE),
   qeIsvsvn |-> 2, qeSigner |-> TRUE, qeProduct |-> TRUE, qeAttributes |-> TRUE,
   qeDebug |-> FALSE, qvl |-> "OE_PLATFORM_ERROR"]

Chains == {Chained(4, 5, TRUE, TRUE), Chained(1, 3, TRUE, TRUE),
           Chained(1, 5, FALSE, TRUE), Chained(1, 5, TRUE, FALSE)}

\* What each part of the input may be instead.
Others ==
  [size |-> {1, 11, 13}, sigLen |-> {9, 11}, authSize |-> {1, 9}, certSize |-> {0, 2},
   version |-> {FALSE}, certType |-> {FALSE},
   certs |-> {<<Period(a, b), Period(c, d), Period(1, 4)>> : a \in {1, 3}, b \in {2, 5},
                                                           c \in {1, 4}, d \in {5}}
             \cup {<<Period(1, 5)>>, <<Period(1, 5), Period(2, 4)>>,
                   <<Period(1, 5), Period(1, 4), Period(3, 3), Period(1, 5)>>},
   chain |-> {FALSE}, rootKey |-> {FALSE}, qeSignature |-> {FALSE}, qeHash |-> {FALSE},
   signature |-> {FALSE}, endorsements |-> {FALSE}, extensions |-> {FALSE},
   tcbChain |-> Chains, crlChain |-> {FALSE},
   crls |-> {<<Crl(a, b, TRUE, FALSE), other>> :
               a \in {1, 2, 3}, b \in {1, 4, 5},
               other \in {Crl(2, 5, TRUE, FALSE), Crl(4, 5, TRUE, FALSE), Crl(2, 3, TRUE, FALSE),
                         Crl(2, 5, FALSE, FALSE), Crl(2, 5, TRUE, TRUE)}}
            \cup {<<Crl(2, 5, ok, revoked), Crl(2, 5, TRUE, FALSE)>> :
                   ok \in BOOLEAN, revoked \in BOOLEAN},
   tcb |-> {Tcb(v, l, TRUE, TRUE) :
              v \in {1, 2, 3},
              l \in {Levels, <<>>, Reverse(Levels),
                     <<Level(<<2, 1>>, "Unknown", 2, TRUE)>> \o Levels,
                     <<Level(<<9, 9>>, "Revoked", 2, FALSE)>> \o Levels,
                     Levels \o <<Level(<<9, 9>>, "Revoked", 2, FALSE)>>}}
           \cup {Tcb(2, Levels, FALSE, TRUE), Tcb(2, Levels, TRUE, FALSE)},
   svn |-> {<<2, 1>>, <<1, 2>>, <<0, 2>>, <<3, 0>>}, fmspc |-> {2}, pceid |-> {2},
   qeId |-> {QeId(v, l, i, d, 3, TRUE, TRUE) :
               v \in {1, 2}, i \in {2, 3}, d \in {1, 2, 4},
               l \in {QeLevels, <<>>, Reverse(QeLevels), <<Level(<<2>>, "Unknown", 1, TRUE)>>}}
            \cup {QeId(2, QeLevels, 2, 2, 1, TRUE, TRUE), QeId(2, QeLevels, 2, 2, 3, FALSE, TRUE),
                  QeId(2, QeLevels, 2, 2, 3, TRUE, FALSE)},
   qeChain |-> Chains, qeIsvsvn |-> {0, 1, 3}, qeSigner |-> {FALSE}, qeProduct |-> {FALSE},
   qeAttributes |-> {FALSE}, qeDebug |-> {TRUE}, qvl |-> {"OE_VERIFY_FAILED"}
             \cup {oe_sgx_verify_quote(TRUE, loaded, "ecdsa", e) : loaded \in BOOLEAN, e \in QvlErrors}]

Varied(x) == UNION {{[x EXCEPT ![f] = v] : v \in Others[f]} : f \in DOMAIN Others}

Times == 1 .. 5

\* Inputs that differ from the good one in one part, or in two of which one
\* tends to decide the verdict together with others.
QuoteCases ==
  LET Deciding == {"certs", "svn", "qvl", "qeIsvsvn", "tcbChain", "qeChain"}
  IN  {[kind |-> "quote", x |-> x] :
         x \in UNION {Varied(y) : y \in UNION {{[Good EXCEPT ![f] = v] : v \in {Good[f]} \cup Others[f]} :
                                             f \in Deciding}}}

\* The platform's level: the first one listed that has a known status and asks
\* for no more than the platform has; {} when there is none.
Met(x) ==
  {i \in DOMAIN x.tcb.levels :
     /\ _parse_tcb_status(x.tcb.levels[i].status) # {}
     /\ \A k \in DOMAIN x.svn : x.svn[k] >= x.tcb.levels[i].svn[k]}

PlatformStatus(x) ==
  IF Met(x) = {} THEN "Invalid"
  ELSE x.tcb.levels[CHOOSE i \in Met(x) : \A j \in Met(x) : i <= j].status

\* All periods that count: of the leaf, the second and the root certificate, of
\* the first revocation list, of the signers of the TCB info and of the quoting
\* enclave's identity, and from the identity's issue on.
Periods(x) ==
  {x.certs[1], x.certs[2], x.certs[Len(x.certs)], x.crls[1], x.tcbChain, x.qeChain}

Valid(x, t) == t >= x.qeId.issued /\ \A p \in Periods(x) : p.from <= t /\ t <= p.until

\* What nothing but a forgery or a revocation contradicts.
Trusted(x) ==
  /\ x.qvl = "OE_PLATFORM_ERROR" => x.rootKey /\ x.qeSignature /\ x.qeHash /\ x.signature
  /\ x.chain /\ x.tcbChain.ok /\ x.tcbChain.rootKey /\ x.tcb.signature /\ x.crlChain
  /\ \A i \in DOMAIN x.crls : x.crls[i].ok /\ ~x.crls[i].revokes
  /\ x.qeChain.ok /\ x.qeChain.rootKey /\ x.qeId.signature
  /\ x.qeSigner /\ x.qeProduct /\ x.qeAttributes /\ ~x.qeDebug
  /\ x.fmspc = x.tcb.fmspc /\ x.pceid = x.tcb.pceid
  /\ x.qeId.version = 2 =>
       \E i \in DOMAIN x.qeId.levels :
         x.qeIsvsvn >= x.qeId.levels[i].svn[1] /\ x.qeId.levels[i].status = "UpToDate"

\* The verdict on a quote at every time is the one its collateral implies.
VerdictImplied(x) ==
  \A t \in Times :
    LET c == QuoteClaims(x, t) IN
      /\ c.res # "OE_CONSTRAINT_FAILED"
      /\ Ok(oe_verify_sgx_quote(x, t)) = Ok(c.res)
      /\ Passed(c.res) =>
           /\ Trusted(x) /\ Valid(x, t)
           /\ \A s \in Times :
                /\ (c.validity.from <= s /\ s <= c.validity.until) = Valid(x, s)
                /\ QuoteClaims(x, s).res = (IF Valid(x, s) THEN c.res
                                           ELSE "OE_VERIFY_FAILED_TO_FIND_VALIDITY_PERIOD")
           /\ c.tcb_status = PlatformStatus(x)
           /\ Ok(c.res) = (PlatformStatus(x) \in {"UpToDate", "SWHardeningNeeded"})

(* A quote that is accepted at a time is genuine, its platform and quoting    *)
(* enclave are endorsed and not revoked, and that time lies in every period   *)
(* that counts; it is accepted at exactly the times of the period it is       *)
(* claimed to be valid for, with the same claims; the TCB status claimed is   *)
(* that of the first level listed which the platform meets, and the result is *)
(* OE_OK, and the one the report functions give, exactly when that status is  *)
(* up to date. The inconsistency OE_CONSTRAINT_FAILED stands for never shows. *)
VerdictRight == [][case'.kind = "quote" => VerdictImplied(case'.x)]_case

\* The period claimed at any time ends before every revocation list does.
WithinCrls(x) ==
  \A t \in Times :
    LET c == QuoteClaims(x, t)
    IN  Passed(c.res) => \A i \in DOMAIN x.crls : c.validity.until <= x.crls[i].until

(* The period an accepted quote is claimed to be valid for lies within that   *)
(* of every revocation list it was judged by.                                 *)
CrlWindow == [][case'.kind = "quote" => WithinCrls(case'.x)]_case

-----------------------------------------------------------------------------
(* Images.                                                                   *)

Seg(vaddr, memsz, flags) == [vaddr |-> vaddr, memsz |-> memsz, filesz |-> memsz, flags |-> flags]

Text == Seg(0, 5, {"R", "X"})

Reloc(offset, type, sym, addend) ==
  [offset |-> offset, type |-> type, sym |-> sym, addend |-> addend]

Symbol(value, defined, weak) == [value |-> value, defined |-> defined, weak |-> weak]

Data(size, align) == [rva |-> 8, size |-> size, align |-> IF size = 0 THEN 1 ELSE align]

Plain ==
  [present |-> TRUE, segments |-> <<Text, Seg(9, 3, {"R", "W"})>>, tdata |-> Data(0, 1),
   tbss |-> Data(0, 1), tls |-> <<>>, dyn |-> <<Reloc(9, "RELATIVE", "_enclave_rva", 2)>>,
   plt |-> <<>>, symbols |-> [_enclave_rva |-> Symbol(10, TRUE, FALSE)],
   dynamic |-> [rva |-> 4, entries |-> <<[tag |-> "other", ptr |-> 1], [tag |-> "symtab", ptr |-> 3]>>],
   entry |-> 1, oeinfo |-> 11, needed |-> <<>>, rpath |-> FALSE]

Shared == [Plain EXCEPT !.segments = <<Seg(0, 2, {"R"}), Seg(4, 4, {"R", "W"})>>]

Props ==
  [heap |-> 1, stack |-> 1, tcs |-> 2, zeroBase |-> FALSE, start |-> 0, debug |-> TRUE,
   kss |-> FALSE, extendedIds |-> FALSE, signature |-> <<>>]

Signing ==
  [type |-> "measure", simulate |-> FALSE, debug |-> FALSE, debugAuto |-> FALSE,
   placed |-> 0, cpuKss |-> FALSE, configId |-> FALSE, ignoreConfig |-> FALSE]

Loading == [Signing EXCEPT !.type = "create", !.debug = TRUE, !.placed = 512]

\* Segments anywhere, also out of order, overlapping and empty.
SegmentFiles ==
  {[Plain EXCEPT !.segments = <<Seg(0, n, {"R", "X"}), Seg(v, m, w)>>, !.needed = needed] :
     n \in 0 .. 6, v \in 0 .. 9, m \in {0, 1, 4}, w \in {{}, {"R", "W"}},
     needed \in {<<>>, <<Shared>>}}
  \cup {[Plain EXCEPT !.segments = s] :
          s \in {<<>>, <<Seg(4, 2, {"R"})>>, <<Seg(0, 0, {"R"})>>, <<[Text EXCEPT !.filesz = 6]>>,
                <<Text, Seg(8, 0, {"R"}), Seg(9, 1, {"R"}), Seg(12, 9, {"R", "W"})>>}}

\* Records of an image and of the module it needs, each with a symbol the image
\* or the other may define.
Definitions == {Symbol(3, TRUE, FALSE), Symbol(0, FALSE, FALSE), Symbol(0, FALSE, TRUE)}

RelocFiles ==
  {[Plain EXCEPT
      !.dyn = @ \o <<Reloc(10, t, "v", a)>>, !.plt = <<Reloc(11, "JUMP_SLOT", "v", 0)>>,
      !.symbols = @ @@ [v |-> d],
      !.needed = <<[Shared EXCEPT !.dyn = first \o @, !.plt = <<Reloc(6, u, "v", 1)>>,
                                  !.symbols = @ @@ [v |-> Symbol(e.value + 1, e.defined, e.weak)]]>>] :
     t \in {"RELATIVE", "GLOB_DAT", "64", "TPOFF64", "COPY"}, a \in {0, 1}, d \in Definitions,
     e \in Definitions, u \in {"64", "JUMP_SLOT", "RELATIVE"},
     first \in {<<>>, <<Reloc(0, "RELATIVE", "v", 0)>>, [i \in 1 .. 3 |-> Reloc(i, "64", "v", 0)]}}
  \cup {[Plain EXCEPT !.dyn = d, !.plt = <<Reloc(11, "RELATIVE", "_enclave_rva", 5)>>] :
          d \in {<<>>, [i \in 1 .. 3 |-> Reloc(8 + i, "RELATIVE", "_enclave_rva", i - 1)]}}
  \cup {[Plain EXCEPT !.needed = n] :
          n \in {<<Shared, Shared>>, <<[Shared EXCEPT !.present = FALSE]>>,
                <<[Shared EXCEPT !.dynamic.entries = <<>>]>>}}
  \cup {[Plain EXCEPT !.entry = 0], [Plain EXCEPT !.oeinfo = 0], [Plain EXCEPT !.rpath = TRUE]}

\* Thread-local sections with any sizes and alignments.
TlsFiles ==
  {[Plain EXCEPT !.tdata = Data(n, a), !.tbss = Data(m, b),
                 !.dyn = <<Reloc(9, "TPOFF64", "x", 0)>>, !.symbols = @ @@ [x |-> Symbol(1, TRUE, FALSE)],
                 !.tls = <<[vaddr |-> 8, filesz |-> n, memsz |-> n + m]>>] :
     n \in 0 .. 9, a \in {1, 2, 4}, m \in 0 .. 5, b \in {1, 2, 4}}
  \cup {[Plain EXCEPT !.tdata = Data(2, 1), !.tls = <<[vaddr |-> v, filesz |-> k, memsz |-> 3]>>] :
          v \in {8, 9}, k \in {1, 2}}

SettingCases ==
  {[context |-> c, props |-> p] :
     c \in {[Loading EXCEPT !.debug = d, !.debugAuto = auto, !.simulate = sim, !.cpuKss = kss,
                            !.configId = id, !.ignoreConfig = skip] :
              d \in BOOLEAN, auto \in BOOLEAN, sim \in BOOLEAN, kss \in BOOLEAN,
              id \in BOOLEAN, skip \in BOOLEAN},
     p \in {[Props EXCEPT !.debug = d, !.kss = kss, !.extendedIds = id, !.zeroBase = z, !.start = s] :
              d \in BOOLEAN, kss \in BOOLEAN, id \in BOOLEAN, z \in BOOLEAN, s \in {0, 512}}}

ImageCases ==
  {[kind |-> "image", f |-> f, props |-> p, context |-> Loading] :
     f \in SegmentFiles \cup RelocFiles \cup TlsFiles,
     p \in {Props, [Props EXCEPT !.zeroBase = TRUE, !.start = 512]}}
  \cup {[kind |-> "image", f |-> Plain, context |-> Loading,
         props |-> [Props EXCEPT !.heap = h, !.stack = s, !.tcs = n]] :
          h \in 0 .. 3, s \in 0 .. 2, n \in 0 .. 3}
  \cup {[kind |-> "image", f |-> [Plain EXCEPT !.needed = <<Shared>>], context |-> c.context,
         props |-> c.props] : c \in SettingCases}

\* The images of an enclave, and where a symbol of one is: in itself if it
\* defines it, else in another.
Images(e) == {e.image.elf} \cup ToSet(e.image.submodule)

Definers(e, image, name) ==
  IF Defines(image, name) THEN {image} ELSE {other \in Images(e) : Defines(other, name)}

\* The values a record stands for. Records for symbols count only where there
\* is a module, and none that would point at the image's first byte.
Targets64(e, image, r) ==
  IF r.type = "RELATIVE" THEN {image.rva + r.addend} \ {0}
  ELSE IF r.type \in Symbolic /\ e.image.submodule # <<>>
  THEN LET at == {d.rva + d.file.symbols[r.sym].value + (IF r.type = "64" THEN r.addend ELSE 0) :
                    d \in Definers(e, image, r.sym)}
       IN  IF at = {} THEN {r.addend} \ {0} ELSE at
  ELSE {}

Expected(e) ==
  UNION {UNION {{[dest |-> e.start + image.rva + r.offset, value |-> e.start + v] :
                   v \in Targets64(e, image, r)} :
                  r \in ToSet(elf64_load_relocations(image.file))} :
           image \in Images(e)}

DynamicOnes(e) ==
  UNION {{[dest |-> e.start + m.rva + m.file.dynamic.rva + i - 1,
           value |-> e.start + m.rva + m.file.dynamic.entries[i].ptr] :
            i \in {i \in DOMAIN m.file.dynamic.entries : m.file.dynamic.entries[i].tag # "other"}} :
           m \in ToSet(e.image.submodule)}

\* The pages of a segment have its flags and its part of the image.
SegmentsLoaded(e) ==
  \A image \in Images(e) : \A s \in ToSet(image.file.segments) : \A b \in s.vaddr .. End(s) - 1 :
    \E p \in ToSet(e.pages) :
      /\ p.rva = image.rva + RoundDown(b) /\ p.flags = s.flags /\ p.extend
      /\ p.content = <<IF image = e.image.elf THEN "image" ELSE "module", RoundDown(b)>>

HeapLoaded(e, props) ==
  {p.rva : p \in {p \in ToSet(e.pages) : ~p.extend}}
    = {e.info.heap_rva + Pages(k) : k \in 0 .. props.heap - 1}

\* Where the psABI puts the thread-local block: its size is that of the two
\* sections in the file, rounded up to the larger alignment.
AbiTlsSize(f) ==
  LET larger == Max({f.tdata.align, f.tbss.align})
  IN  RoundUp((IF f.tbss.size = 0 THEN f.tdata.size ELSE RoundUp(f.tdata.size, f.tbss.align) + f.tbss.size),
              larger)

\* Each thread's data is where its control structure points; its thread-local
\* block fits the pages before it and, unless the first section's alignment is
\* the larger one, begins where the compiled code expects it.
ThreadsLoaded(e) ==
  \A i \in DOMAIN e.bindings :
    LET tcs == e.bindings[i]
        fs == tcs + e.info.td_from_tcs
        f == e.image.elf.file
        tls == _get_thread_local_data_start(e.info, fs)
        rvas == {p.rva : p \in {p \in ToSet(e.pages) : p.flags = {"R", "W"} /\ p.content = <<"zero">>}}
    IN  /\ \E p \in ToSet(e.pages) :
             /\ p.rva = tcs /\ p.flags = {"TCS"}
             /\ p.content[4] = fs + e.start - e.base
             /\ p.content[3] = f.entry + e.start - e.base
             /\ {p.content[2] - (e.start - e.base) + Pages(k) : k \in {0, 1}} \subseteq rvas
        /\ fs \in rvas
        /\ \A b \in tls .. fs - 1 : RoundDown(b) \in rvas
        /\ f.tbss.size = 0 \/ f.tbss.align >= f.tdata.align =>
             /\ fs - tls = AbiTlsSize(f)
             /\ LET x == oe_thread_local_init(e, fs) IN
                  \A k \in DOMAIN x : \E r \in ToSet(elf64_load_relocations(f)) :
                    x[k] = [dest |-> e.start + r.offset, value |-> r.addend - AbiTlsSize(f)]

\* What a file is built into, loaded by the host or signed by the tool.
BuiltRight(context, f, props) ==
  LET e == oe_sgx_build_enclave(context, f, props)
      signed == oe_sgx_build_enclave(Signing, f, props)
      writes == oe_apply_relocations(e)
  IN  Ok(e.res) =>
        /\ e.size >= e.commit
        /\ \A i, j \in DOMAIN e.pages : i # j => e.pages[i].rva # e.pages[j].rva
        /\ \A i \in DOMAIN e.pages : e.pages[i].rva % PageSize = 0
                                    /\ e.pages[i].rva + PageSize <= e.commit
        /\ props.tcs > 0 => Last(e.pages).rva + PageSize = e.commit
        /\ SegmentsLoaded(e) /\ HeapLoaded(e, props) /\ ThreadsLoaded(e)
        /\ {writes[i] : i \in DOMAIN writes} = Expected(e) \cup DynamicOnes(e)
        /\ _check_memory_boundaries(e, props) \/ props.heap = 0
        /\ ~props.zeroBase =>
             /\ signed.hash = e.hash
             /\ Ok(oe_sgx_build_enclave([context EXCEPT !.placed = 1024], f,
                                        [props EXCEPT !.signature = <<signed.hash>>]).res)

(* An enclave that is built has its pages at distinct places in its range,    *)
(* exactly the committed size of them with the guard pages; every byte of     *)
(* every segment is in a page with that segment's access; the heap, the       *)
(* relocations and each thread's data are where the enclave looks for them;   *)
(* applying the relocations gives every reference the address of its symbol,  *)
(* across the image and its module. It was measured as the signing tool does, *)
(* unless its range begins at address 0.                                      *)
LayoutSound == [][case'.kind = "image" => BuiltRight(case'.context, case'.f, case'.props)]_case

-----------------------------------------------------------------------------
NoCase == [kind |-> "none"]

\* Nothing has been given to the verifier or to the loader yet.
Awaited == [kind |-> "awaited"]

\* A quote is to be verified, or an image to be loaded.
GiveCase ==
  /\ case = Awaited
  /\ case' \in QuoteCases \/ case' \in ImageCases
  /\ UNCHANGED <<fileVars, plugins, heapVars, sealers, idVars>>

CaseInit ==
  \/ case \in PathCases
  \/ case \in TransferCases
  \/ case \in DirCases
  \/ case \in IovCases
  \/ case \in ClaimCases
  \/ case \in EndorsementCases
  \/ case \in EvidenceCases
  \/ case \in KeyCases
  \/ case \in BlockCases
  \/ case \in ArenaCases
  \/ case \in SealCases
  \/ case \in ProviderCases
  \/ case = Awaited

Init ==
  \E part \in {"files", "plugins", "heap", "sealing", "ecall ids", "cases"} :
    /\ FilesInit(IF part = "files" THEN 0 ELSE MaxCalls)
    /\ PluginsInit(IF part = "plugins" THEN {"verifier", "attester"} ELSE {"none"})
    /\ HeapInit(IF part = "heap" THEN 0 ELSE MaxAllocs)
    /\ SealersInit(part = "sealing")
    /\ EcallIdsInit(part = "ecall ids")
    /\ IF part = "cases" THEN CaseInit ELSE case = NoCase

StateStep ==
  \/ (\E t \in Threads : FileStep(t)) /\ UNCHANGED <<plugins, heapVars, sealers, idVars>>
  \/ RegistriesNext /\ UNCHANGED <<fileVars, heapVars>>
  \/ (\E c \in Clients : HeapStep(c)) /\ UNCHANGED <<fileVars, plugins, sealers, idVars>>

\* The threads of the three components that have them are the same, and are
\* told apart by nothing.
ThreadSymmetry == Permutations(Threads)

Next ==
  \/ GiveCase
  \/ StateStep /\ UNCHANGED case

=============================================================================
