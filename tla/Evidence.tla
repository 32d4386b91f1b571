------------------------------- MODULE Evidence -------------------------------
(* How attestation data is put together and taken apart, and the lists of    *)
(* plugins that do it: custom claims (common/custom_claims.c), endorsements   *)
(* (common/sgx/endorsements.c), evidence (enclave/attest_plugin.c,            *)
(* enclave/sgx/attester.c, common/attest_plugin.c, common/sgx/verifier.c),    *)
(* certificates that carry evidence (enclave/tls_cert.c), and the             *)
(* registration of attesters and verifiers.                                   *)
(*                                                                           *)
(* A buffer is a sequence of words. A header or a fixed-size structure's      *)
(* fields that are looked at are its first word; sizes count words. Hash is   *)
(* injective. How the quote itself is judged is module Attestation's subject: *)
(* here its verdict is an input.                                              *)
EXTENDS Attestation

CONSTANTS
  ReportSize,      \* sizeof(sgx_report_t)
  ReportDataSize,  \* sizeof(sgx_report_data_t)
  HeaderSize,      \* sizeof(oe_endorsements_t)
  MaxEndorsements, \* OE_ATTESTATION_ENDORSEMENT_MAX_SIZE
  VerifierIds,     \* formats of _get_verifier_plugins, in order
  HostFormats,     \* possible answers of oe_get_supported_attester_format_ids_ocall
  UserIds,         \* formats an application registers plugins for
  MaxArrays        \* bound: number of times the plugins are initialized

ASSUME EvidenceAssumption ==
  /\ ReportSize > 0 /\ ReportDataSize > 0 /\ HeaderSize > 0
  /\ VerifierIds \in Seq(STRING) /\ HostFormats \subseteq Seq(STRING) /\ UserIds \subseteq STRING

Hash(buffer) == [sha256 |-> buffer]

Fill(word, n) == [i \in 1 .. n |-> word]

From(buffer, i) == SubSeq(buffer, i, Len(buffer))

Failed(res) == [res |-> res]

-----------------------------------------------------------------------------
(* Custom claims: a claim is [name, value]; a name ends in a zero word.      *)

\* oe_serialize_custom_claims; claims is not NULL.
oe_serialize_custom_claims(claims) ==
  LET Entry(c) == <<[name_size |-> Len(c.name), value_size |-> Len(c.value)]>>
                  \o c.name \o c.value
  IN  <<[version |-> 1, num |-> Len(claims)]>>
      \o FoldLeft(LAMBDA b, c : b \o Entry(c), <<>>, claims)

\* One entry of _fill_array_with_custom_claims, read at s.buf.
ReadClaim(s) ==
  IF ~s.ok \/ s.buf = <<>> THEN [s EXCEPT !.ok = FALSE]
  ELSE LET e == s.buf[1]
           size == 1 + e.name_size + e.value_size
       IN  IF Len(s.buf) < size \/ s.buf[1 + e.name_size] # 0
           THEN [s EXCEPT !.ok = FALSE]
           ELSE [s EXCEPT !.buf = From(@, size + 1),
                          !.claims = Append(@, [name  |-> SubSeq(s.buf, 2, 1 + e.name_size),
                                                value |-> SubSeq(s.buf, 2 + e.name_size, size)])]

oe_deserialize_custom_claims(buffer) ==
  IF buffer = <<>> \/ buffer[1].version # 1 THEN Failed("OE_CONSTRAINT_FAILED")
  ELSE LET s == FoldLeft(LAMBDA acc, i : ReadClaim(acc),
                         [ok |-> TRUE, buf |-> From(buffer, 2), claims |-> <<>>],
                         Fill(0, buffer[1].num))
       IN  IF s.ok THEN [res |-> "OE_OK", claims |-> s.claims]
           ELSE Failed("OE_CONSTRAINT_FAILED")

-----------------------------------------------------------------------------
(* Endorsements: a version, seven items of the collateral, a creation time.  *)

ItemsOf(collateral, time) == <<<<"version">>>> \o collateral \o <<time>>

SizeBefore(items, i) == Len(FlattenSeq(SubSeq(items, 1, i - 1)))

\* oe_create_sgx_endorsements: the items in order, and where each one starts.
oe_create_sgx_endorsements(collateral, time) ==
  LET items == ItemsOf(collateral, time)
      data == FlattenSeq(items)
      size == HeaderSize + Len(items) + Len(data)
  IN  IF size > MaxEndorsements THEN Failed("OE_INVALID_PARAMETER")
      ELSE [res |-> "OE_OK", size |-> size, buffer_size |-> size - HeaderSize,
            offsets |-> [i \in DOMAIN items |-> SizeBefore(items, i)], data |-> data]

\* oe_parse_sgx_endorsements: the offsets ascend and lie in the data.
oe_parse_sgx_endorsements(e) ==
  LET n == Len(e.offsets)
      dataSize == e.buffer_size - n
      Next(i) == IF i = n THEN dataSize ELSE e.offsets[i + 1]
      ok == /\ e.size <= MaxEndorsements /\ e.buffer_size <= e.size /\ e.buffer_size > n
            /\ e.data[1] = "version"
            /\ \A i \in 1 .. n : e.offsets[i] < dataSize /\ Next(i) > e.offsets[i]
  IN  IF ok
      THEN [res |-> "OE_OK",
            items |-> [i \in 1 .. n |-> SubSeq(e.data, e.offsets[i] + 1, Next(i))]]
      ELSE Failed("OE_INVALID_PARAMETER")

-----------------------------------------------------------------------------
(* Evidence.                                                                 *)

\* A buffer pointer that is not set, and endorsements from the host.
NULL == <<[version |-> "NULL"]>>

SgxEndorsements == <<[version |-> "endorsements"]>>

EpidIds == {"epid_linkable", "epid_unlinkable"}

\* Reports and quotes (external: the processor and the quoting enclave). The
\* report data is padded to its fixed size.
Padded(data) == data \o Fill(0, ReportDataSize - Len(data))

SgxReport(data) == <<[version |-> "cpusvn", data |-> Padded(data)]>> \o Fill("r", ReportSize - 1)

SgxQuote(data, sig) ==
  <<[version |-> "quote", data |-> Padded(data), signature_len |-> sig]>>
  \o Fill("q", QuoteHead - 1) \o Fill("s", sig)

\* oe_get_report_v2_internal: a header and the report or the quote. The host
\* chooses the length of the signature.
oe_get_report_v2_internal(remote, data, sig) ==
  LET body == IF remote THEN SgxQuote(data, sig) ELSE SgxReport(data)
  IN  IF Len(data) > ReportDataSize THEN Failed("OE_INVALID_PARAMETER")
      ELSE [res |-> "OE_OK",
            buffer |-> <<[version |-> "report", remote |-> remote, size |-> Len(body)]>> \o body]

\* _get_evidence: local and ECDSA evidence holds the hash of the claims, which
\* follow it; an EPID quote holds the claims. Only ECDSA has endorsements.
_get_evidence(id, claims, want, sig) ==
  LET hashed == id \in {"local", "ecdsa"}
      report == oe_get_report_v2_internal(id # "local",
                                          IF hashed THEN <<Hash(claims)>> ELSE claims, sig)
  IN  IF ~hashed /\ id \notin EpidIds THEN Failed("OE_INVALID_PARAMETER")
      ELSE IF ~Ok(report.res) THEN report
      ELSE [res |-> "OE_OK",
            evidence |-> From(report.buffer, 2) \o (IF hashed THEN claims ELSE <<>>),
            endorsements |-> IF want /\ id = "ecdsa" THEN SgxEndorsements ELSE <<>>]

_wrap_with_header(id, data) ==
  <<[version |-> "attestation", id |-> id, size |-> Len(data)]>> \o data

\* oe_get_evidence, with OE_EVIDENCE_FLAGS_EMBED_FORMAT_ID or without. NULL is
\* the endorsements nobody asked for, or that there are none of.
oe_get_evidence(attesters, id, embed, claims, want, sig) ==
  LET p == _get_evidence(id, claims, want, sig)
  IN  IF id \notin attesters THEN Failed("OE_NOT_FOUND")
      ELSE IF ~Ok(p.res) THEN p
      ELSE [res |-> "OE_OK",
            evidence |-> IF embed THEN _wrap_with_header(id, p.evidence) ELSE p.evidence,
            endorsements |-> IF ~want THEN NULL
                             ELSE IF embed THEN _wrap_with_header(id, p.endorsements)
                             ELSE IF p.endorsements = <<>> THEN NULL
                             ELSE p.endorsements]

\* The claims follow the report without being compared with its data.
ExtractUnchecked(hashed, body, custom) ==
  IF ~hashed THEN [res |-> "OE_OK", name |-> "sgx_report_data", value |-> body[1].data]
  ELSE [res |-> "OE_OK", name |-> IF custom = <<>> THEN "none" ELSE "custom_claims_buffer",
        value |-> custom]

\* oe_sgx_extract_claims: custom claims must hash to the report data.
\* The claim's name and value; no claim for an empty buffer.
oe_sgx_extract_claims(hashed, body, custom) ==
  IF ~hashed THEN [res |-> "OE_OK", name |-> "sgx_report_data", value |-> body[1].data]
  ELSE IF body[1].data[1] # Hash(custom) THEN Failed("OE_QUOTE_HASH_MISMATCH")
  ELSE [res |-> "OE_OK", name |-> IF custom = <<>> THEN "none" ELSE "custom_claims_buffer",
        value |-> custom]

\* oe_sgx_verify_evidence of the plugin for id. verdict is what the verification of
\* a report ("cpusvn") and of a quote says.
oe_sgx_verify_evidence(id, ev, endorsements, verdict) ==
  LET w == ev[1]
      refused == \/ ev = <<>> \/ endorsements = <<>>
                 \/ id = "local" /\ Len(ev) < ReportSize
                 \/ id \in {"ecdsa", "raw_ecdsa"} /\ (w.version # "quote" \/ Len(ev) < QuoteHead
                                                      \/ Len(ev) < QuoteHead + w.signature_len)
                 \/ id = "legacy_report" /\ (w.version # "report" \/ ~w.remote)
      size == CASE id = "local" -> ReportSize
                [] id = "ecdsa" -> QuoteHead + w.signature_len
                [] OTHER -> Len(ev)
      body == IF id = "legacy_report" THEN SubSeq(ev, 2, 1 + w.size) ELSE SubSeq(ev, 1, size)
      res == verdict[body[1].version]
      claims == oe_sgx_extract_claims(id \in {"local", "ecdsa"}, body, From(ev, size + 1))
  IN  IF refused THEN Failed("OE_INVALID_PARAMETER")
      ELSE IF ~Passed(res) THEN Failed(res)
      ELSE IF ~Ok(claims.res) THEN claims
      ELSE [claims EXCEPT !.res = res]

\* oe_verify_evidence: without a format, the buffer's header names it.
oe_verify_evidence(verifiers, format, ev, endorsements, verdict) ==
  LET legacy == format = "NULL" /\ ev[1].version = "report"
      headed == format = "NULL" /\ ~legacy
      given == endorsements # NULL
      Good(b) == b # <<>> /\ b[1].version = "attestation" /\ Len(b) = b[1].size + 1
      id == IF legacy THEN "legacy_report" ELSE IF headed THEN ev[1].id ELSE format
  IN  IF headed /\ ~(Good(ev) /\ (given => Good(endorsements))) THEN Failed("OE_INVALID_PARAMETER")
      ELSE IF headed /\ given /\ endorsements[1].id # id THEN Failed("OE_CONSTRAINT_FAILED")
      ELSE IF id \notin verifiers THEN Failed("OE_NOT_FOUND")
      ELSE oe_sgx_verify_evidence(id, IF headed THEN From(ev, 2) ELSE ev,
                                  IF headed /\ given THEN From(endorsements, 2) ELSE endorsements,
                                  verdict)

-----------------------------------------------------------------------------
(* Certificates with evidence of their key.                                  *)

\* oe_generate_attestation_certificate and
\* oe_get_attestation_certificate_with_evidence_v2.
oe_generate_attestation_certificate(key, sig) ==
  [oid |-> "report", key |-> key, signature |-> TRUE,
   extension |-> oe_get_report_v2_internal(TRUE, <<Hash(key)>>, sig).buffer]

oe_get_attestation_certificate_with_evidence_v2(attesters, id, key, sig) ==
  [oid |-> "evidence", key |-> key, signature |-> TRUE,
   extension |-> oe_get_evidence(attesters, id, TRUE, key, FALSE, sig).evidence]

\* _verify_public_key_claim.
_verify_public_key_claim(claims, key) ==
  \/ claims.name = "custom_claims_buffer" /\ claims.value = key
  \/ claims.name = "sgx_report_data" /\ claims.value[1] = Hash(key)

\* oe_verify_attestation_certificate_with_evidence_v2. A TCB level that is not
\* up to date ends it.
oe_verify_attestation_certificate_with_evidence_v2(verifiers, cert, endorsements, verdict) ==
  LET claims == oe_verify_evidence(verifiers,
                  IF cert.oid = "evidence" THEN "NULL" ELSE "legacy_report",
                  cert.extension, endorsements, verdict)
  IN  IF ~cert.signature THEN "OE_VERIFY_FAILED"
      ELSE IF cert.oid \notin {"report", "evidence"} THEN "OE_FAILURE"
      ELSE IF cert.oid = "evidence" /\ cert.extension[1].version # "attestation"
           THEN "OE_INVALID_PARAMETER"
      ELSE IF ~Ok(claims.res) THEN claims.res
      ELSE IF _verify_public_key_claim(claims, cert.key) THEN "OE_OK" ELSE "OE_FAILURE"

-----------------------------------------------------------------------------
(* Registration. Attesters and verifiers have a list each, of the same shape  *)
(* and with nothing in common: role says which one a behaviour is about. A    *)
(* node refers to an element of the array the platform's plugins were         *)
(* allocated in, by its number, or to a plugin of the application (0).        *)

VARIABLE plugins

NoPlugins(role) == [role |-> role, list |-> <<>>, array |-> 0, ids |-> <<>>, made |-> 0]

PluginsInit(roles) == \E r \in roles : plugins = NoPlugins(r)

oe_attest_find_plugin(list, id) == \E i \in DOMAIN list : list[i].id = id

\* oe_attest_register_plugin; possible is that there is memory for the node
\* and on_register succeeds.
oe_attest_register_plugin(s, node, possible) ==
  IF ~s.ok \/ ~possible \/ oe_attest_find_plugin(s.list, node.id) THEN [s EXCEPT !.ok = FALSE]
  ELSE [s EXCEPT !.list = <<node>> \o @]

oe_attest_unregister_plugin(list, id) == RemoveFirstMatch(list, LAMBDA n : n.id = id)

\* oe_verifier_initialize and oe_attester_initialize: the array exists from
\* here on, also when a registration fails (the one numbered fails does).
Initialized(ids, fails) ==
  LET a == plugins.made + 1
      s[k \in 0 .. Len(ids)] ==
        IF k = 0 THEN [ok |-> TRUE, list |-> plugins.list]
        ELSE oe_attest_register_plugin(s[k - 1], [id |-> ids[k], array |-> a], k # fails)
  IN  plugins' = [plugins EXCEPT !.list = s[Len(ids)].list, !.array = a, !.ids = ids, !.made = a]

oe_verifier_initialize ==
  /\ plugins.role = "verifier" /\ plugins.array = 0 /\ plugins.made < MaxArrays
  /\ \E fails \in 0 .. Len(VerifierIds) : Initialized(VerifierIds, fails)

\* The attesters' formats are the host's answer after the local one.
oe_attester_initialize ==
  /\ plugins.role = "attester" /\ plugins.array = 0 /\ plugins.made < MaxArrays
  /\ \E host \in HostFormats :
       \E fails \in 0 .. Len(host) + 1 : Initialized(<<"local">> \o host, fails)

\* Both shutdowns: every format of the array is unregistered, by its id, and
\* the array freed.
Shutdown ==
  LET left[k \in 0 .. Len(plugins.ids)] ==
        IF k = 0 THEN plugins.list
        ELSE oe_attest_unregister_plugin(left[k - 1], plugins.ids[k])
  IN  plugins' = [plugins EXCEPT !.list = left[Len(plugins.ids)], !.array = 0, !.ids = <<>>]

oe_verifier_shutdown == plugins.role = "verifier" /\ plugins.array # 0 /\ Shutdown

oe_attester_shutdown == plugins.role = "attester" /\ plugins.array # 0 /\ Shutdown

\* oe_register_verifier_plugin and oe_register_attester_plugin by an application.
Register(id) ==
  /\ plugins.role \in {"verifier", "attester"}
  /\ \E possible \in BOOLEAN :
       LET s == oe_attest_register_plugin([ok |-> TRUE, list |-> plugins.list],
                                          [id |-> id, array |-> 0], possible)
       IN  plugins' = [plugins EXCEPT !.list = s.list]

\* oe_unregister_verifier_plugin and oe_unregister_attester_plugin: whichever
\* plugin has the format's id is removed, also when on_unregister fails.
Unregister(id) ==
  /\ plugins.role \in {"verifier", "attester"}
  /\ plugins' = [plugins EXCEPT !.list = oe_attest_unregister_plugin(@, id)]

PluginStep ==
  \/ oe_verifier_initialize
  \/ oe_attester_initialize
  \/ oe_verifier_shutdown
  \/ oe_attester_shutdown
  \/ \E id \in UserIds : Register(id) \/ Unregister(id)

(* A registered plugin is an application's, or an element of the array that   *)
(* is allocated now, never of one a shutdown freed; and no format has two     *)
(* plugins, so which one verifies evidence does not depend on the order of    *)
(* registration. Holds after any mixture of registrations that fail,          *)
(* applications that take a platform's format, and repeated initializations.  *)
PluginsLive ==
  /\ \A i \in DOMAIN plugins.list : plugins.list[i].array \in {0, plugins.array}
  /\ \A i, j \in DOMAIN plugins.list : plugins.list[i].id = plugins.list[j].id => i = j

=============================================================================
