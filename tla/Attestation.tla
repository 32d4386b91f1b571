----------------------------- MODULE Attestation -----------------------------
(* The verifier's judgement of an SGX quote with its endorsements             *)
(* (common/sgx/quote.c, collateral.c, qeidentity.c, tcbinfo.c, verifier.c).   *)
(*                                                                           *)
(* A quote and its endorsements are one record x. What cryptography decides   *)
(* (a signature, a hash, a certificate chain, a public key) is a Boolean of   *)
(* x; dates (0 is a zeroed one), security versions and identities are         *)
(* numbers. JSON is modelled by the fields and levels the parser takes from   *)
(* it, or ok = FALSE where it does not follow the schema. Memory allocation   *)
(* succeeds.                                                                  *)
EXTENDS Results, Integers, Sequences, FiniteSets, SequencesExt

CONSTANTS
  MinimumDate,     \* _sgx_minimim_crl_tcb_issue_date
  QuoteHead,       \* sizeof(sgx_quote_t)
  AuthHead         \* sizeof(sgx_quote_auth_data_t)

ASSUME AttestationAssumption ==
  /\ MinimumDate \in Nat \ {0} /\ QuoteHead \in Nat \ {0} /\ AuthHead \in Nat

-----------------------------------------------------------------------------
(* TCB levels.                                                               *)

\* _parse_tcb_status: the flags a status string sets; none for another string.
_parse_tcb_status(s) ==
  CASE s = "UpToDate"                          -> {"up_to_date"}
    [] s = "OutOfDate"                         -> {"outofdate"}
    [] s = "Revoked"                           -> {"revoked"}
    [] s = "ConfigurationNeeded"               -> {"configuration_needed"}
    [] s = "OutOfDateConfigurationNeeded"      -> {"outofdate", "configuration_needed"}
    [] s = "SWHardeningNeeded"                 -> {"up_to_date", "sw_hardening_needed"}
    [] s = "ConfigurationAndSWHardeningNeeded" -> {"configuration_needed", "sw_hardening_needed"}
    [] OTHER                                   -> {}

\* oe_tcb_level_status_to_sgx_tcb_status: the first rule that applies.
oe_tcb_level_status_to_sgx_tcb_status(st) ==
  CASE "revoked" \in st                                             -> "Revoked"
    [] {"up_to_date", "sw_hardening_needed"} \subseteq st           -> "SWHardeningNeeded"
    [] st \cap {"revoked", "sw_hardening_needed"} = {} /\ "up_to_date" \in st -> "UpToDate"
    [] {"sw_hardening_needed", "configuration_needed"} \subseteq st -> "ConfigurationAndSWHardeningNeeded"
    [] {"outofdate", "configuration_needed"} \subseteq st           -> "OutOfDateConfigurationNeeded"
    [] st = {"configuration_needed"}                                -> "ConfigurationNeeded"
    [] st = {"outofdate"}                                           -> "OutOfDate"
    [] st = {}                                                      -> "Invalid"

\* The platform has at least the security versions of the level.
Meets(svn, level) == \A i \in DOMAIN level.svn : svn[i] >= level.svn[i]

\* One level of the TCB info's array, for a platform whose status so far is in
\* s. Version 2 moves to the end of the array once a level matched, and only it
\* has dates.
ReadTcbLevel(version, svn, s, level) ==
  IF ~s.ok \/ (version = 2 /\ s.status # {}) THEN s
  ELSE IF ~level.ok THEN [s EXCEPT !.ok = FALSE]
  ELSE LET st == _parse_tcb_status(level.status)
       IN  IF s.status = {} /\ st # {} /\ Meets(svn, level)
           THEN [s EXCEPT !.status = st, !.date = IF version = 2 THEN level.date ELSE @]
           ELSE s

ReadTcbLevels(version, svn, levels) ==
  FoldLeft(LAMBDA s, l : ReadTcbLevel(version, svn, s, l),
           [ok |-> levels # <<>>, status |-> {}, date |-> 0], levels)

\* oe_parse_tcb_info_json: the result, and the platform's status and date.
oe_parse_tcb_info_json(tcb, svn) ==
  LET s == ReadTcbLevels(tcb.version, svn, tcb.levels) IN
    [res |-> IF ~tcb.ok \/ tcb.version \notin {1, 2} \/ ~s.ok
             THEN "OE_JSON_INFO_PARSE_ERROR"
             ELSE IF "up_to_date" \in s.status THEN "OE_OK" ELSE "OE_TCB_LEVEL_INVALID",
     status |-> s.status, date |-> s.date]

\* A level of the QE identity, version 2: an unknown status ends the parsing.
\* The level read last supplies isvsvn.
ReadQeLevel(isvsvn, s, level) ==
  IF ~s.ok \/ s.status # {} THEN s
  ELSE LET st == _parse_tcb_status(level.status) IN
         [ok |-> level.ok /\ st # {}, isvsvn |-> level.svn[1],
          status |-> IF Meets(<<isvsvn>>, level) THEN st ELSE {}]

\* oe_parse_qe_identity_info_json: version 1 has an isvsvn, version 2 levels, of
\* which the one that matches must be up to date.
oe_parse_qe_identity_info_json(id, isvsvn) ==
  IF ~id.ok THEN [res |-> "OE_JSON_INFO_PARSE_ERROR", isvsvn |-> 0]
  ELSE IF id.version = 1 THEN [res |-> "OE_OK", isvsvn |-> id.isvsvn]
  ELSE LET s == FoldLeft(LAMBDA acc, l : ReadQeLevel(isvsvn, acc, l),
                         [ok |-> id.levels # <<>>, isvsvn |-> 0, status |-> {}], id.levels)
       IN  [res |-> IF ~s.ok THEN "OE_JSON_INFO_PARSE_ERROR"
                    ELSE IF "up_to_date" \in s.status THEN "OE_OK" ELSE "OE_TCB_LEVEL_INVALID",
            isvsvn |-> s.isvsvn]

-----------------------------------------------------------------------------
(* Validity periods.                                                         *)

Later(a, b) == IF b > a THEN b ELSE a

Earlier(a, b) == IF b < a THEN b ELSE a

\* The period is replaced.
UpdateReplaces(w, v) == [from |-> Later(w.from, v.from), until |-> v.until]

\* _update_validity narrows the period w to the part common with v.
_update_validity(w, v) ==
  [from |-> Later(w.from, v.from), until |-> Earlier(w.until, v.until)]

\* _get_crl_validity: every round of the loop looks at the first list.
_get_crl_validity(crls) ==
  FoldLeft(LAMBDA w, c : _update_validity(w, crls[1]), crls[1], crls)

-----------------------------------------------------------------------------
(* The quote.                                                                *)

\* _parse_quote: header, authentication data and certificates fill the buffer.
_parse_quote(x) ==
  LET auth == QuoteHead + AuthHead + 2 + x.authSize
  IN  FirstError(<<
        <<QuoteHead <= x.size, "OE_REPORT_PARSE_ERROR">>,
        <<QuoteHead + x.sigLen = x.size, "OE_REPORT_PARSE_ERROR">>,
        <<auth <= x.size, "OE_REPORT_PARSE_ERROR">>,
        <<auth + 6 + x.certSize = x.size, "OE_REPORT_PARSE_ERROR">>,
        <<x.version, "OE_QUOTE_VERIFICATION_ERROR">>,
        <<x.certType, "OE_MISSING_CERTIFICATE_CHAIN">>,
        <<x.certSize > 0, "OE_QUOTE_VERIFICATION_ERROR">>>>)

\* oe_verify_quote_internal: the chain ends in Intel's key, the leaf signed the
\* quoting enclave's report, which holds the hash of the key that signed the
\* quote. The chain must have a second certificate.
oe_verify_quote_internal(x) ==
  FirstError(<<
    <<Ok(_parse_quote(x)), _parse_quote(x)>>,
    <<x.chain /\ Len(x.certs) >= 2, "OE_FAILURE">>,
    <<x.rootKey, "OE_QUOTE_VERIFICATION_ERROR">>,
    <<x.qeSignature, "OE_VERIFY_FAILED">>,
    <<x.qeHash, "OE_QUOTE_VERIFICATION_ERROR">>,
    <<x.signature, "OE_VERIFY_FAILED">>>>)

\* oe_verify_ecdsa256_signature over a document and the chain that came with it.
oe_verify_ecdsa256_signature(doc, chain) ==
  FirstError(<<<<doc.signature, "OE_VERIFY_FAILED">>,
               <<chain.rootKey, "OE_INVALID_REVOCATION_INFO">>>>)

\* oe_validate_revocation_list. The TCB info's own dates are not used.
oe_validate_revocation_list(x) ==
  LET tcb == oe_parse_tcb_info_json(x.tcb, x.svn)
      crl == _get_crl_validity(x.crls)
      all == _update_validity(crl, x.tcbChain)
  IN  [res |-> FirstError(<<
          <<x.endorsements, "OE_INVALID_PARAMETER">>,
          <<x.extensions, "OE_FAILURE">>,
          <<x.tcbChain.ok, "OE_FAILURE">>,
          <<x.crlChain, "OE_FAILURE">>,
          <<\A i \in DOMAIN x.crls : x.crls[i].ok, "OE_FAILURE">>,
          <<\A i \in DOMAIN x.crls : ~x.crls[i].revokes, "OE_VERIFY_REVOKED">>,
          <<Passed(tcb.res), tcb.res>>,
          <<x.fmspc = x.tcb.fmspc /\ x.pceid = x.tcb.pceid, "OE_VERIFY_FAILED">>,
          <<Ok(oe_verify_ecdsa256_signature(x.tcb, x.tcbChain)),
            oe_verify_ecdsa256_signature(x.tcb, x.tcbChain)>>,
          <<crl.from >= MinimumDate /\ crl.until >= MinimumDate, "OE_INVALID_REVOCATION_INFO">>,
          <<all.from <= all.until, "OE_VERIFY_FAILED_TO_FIND_VALIDITY_PERIOD">>,
          <<Ok(tcb.res), tcb.res>>>>),
       status |-> tcb.status, date |-> tcb.date, w |-> all]

\* oe_validate_qe_identity: the quoting enclave's report against the identity.
\* The identity's next update does not bound the period.
oe_validate_qe_identity(x) ==
  LET id == oe_parse_qe_identity_info_json(x.qeId, x.qeIsvsvn)
      w == [from |-> Later(x.qeChain.from, x.qeId.issued), until |-> x.qeChain.until]
  IN  [res |-> FirstError(<<
          <<x.qeChain.ok, "OE_FAILURE">>,
          <<Ok(id.res), id.res>>,
          <<Ok(oe_verify_ecdsa256_signature(x.qeId, x.qeChain)),
            oe_verify_ecdsa256_signature(x.qeId, x.qeChain)>>,
          <<x.qeId.issued >= MinimumDate /\ x.qeId.next >= MinimumDate,
            "OE_INVALID_QE_IDENTITY_INFO">>,
          <<x.qeSigner, "OE_QUOTE_ENCLAVE_IDENTITY_UNIQUEID_MISMATCH">>,
          <<x.qeProduct, "QE_QUOTE_ENCLAVE_IDENTITY_PRODUCTID_MISMATCH">>,
          <<x.qeIsvsvn >= id.isvsvn, "OE_QUOTE_ENCLAVE_IDENTITY_VERIFICATION_FAILED">>,
          <<x.qeAttributes, "OE_QUOTE_ENCLAVE_IDENTITY_VERIFICATION_FAILED">>,
          <<~x.qeDebug, "OE_QUOTE_ENCLAVE_IDENTITY_VERIFICATION_FAILED">>,
          <<w.from <= w.until, "OE_VERIFY_FAILED_TO_FIND_VALIDITY_PERIOD">>>>),
       w |-> w]

\* The caller's zeroed dates, which a failing oe_get_sgx_quote_validity leaves.
NoPeriod == [from |-> 0, until |-> 0]

\* oe_get_sgx_quote_validity: the period common to the certificates of the
\* quote, the revocation lists and the quoting enclave's identity. A quoting
\* enclave that is out of date ends it with OE_TCB_LEVEL_INVALID too.
oe_get_sgx_quote_validity(x) ==
  LET rev == oe_validate_revocation_list(x)
      qe == oe_validate_qe_identity(x)
      n == Len(x.certs)
      certs == _update_validity(_update_validity(x.certs[n], x.certs[IF n > 1 THEN 2 ELSE 1]),
                                x.certs[1])
      all == _update_validity(_update_validity(certs, rev.w), qe.w)
      found == FirstError(<<
          <<Ok(_parse_quote(x)), _parse_quote(x)>>,
          <<x.chain /\ n >= 2, "OE_FAILURE">>,
          <<Passed(rev.res), rev.res>>,
          <<Ok(qe.res), qe.res>>,
          <<all.from <= all.until, "OE_VERIFY_FAILED_TO_FIND_VALIDITY_PERIOD">>>>)
  IN  [res |-> IF Ok(found) THEN rev.res ELSE found,
       status |-> rev.status, date |-> rev.date, w |-> IF Ok(found) THEN all ELSE NoPeriod]

\* oe_verify_quote_with_sgx_endorsements at time t (the endorsements' creation
\* time unless the caller gave one). A quote verification library that is there
\* replaces the check of the signatures, not that of the validity.
oe_verify_quote_with_sgx_endorsements(x, t) ==
  LET v == oe_get_sgx_quote_validity(x)
      own == oe_verify_quote_internal(x)
  IN  [v EXCEPT !.res = FirstError(<<
          <<x.qvl \in {"OE_OK", "OE_PLATFORM_ERROR"}, x.qvl>>,
          <<x.qvl = "OE_OK" \/ Ok(own), own>>,
          <<Passed(v.res), v.res>>,
          <<v.w.from <= t /\ t <= v.w.until, "OE_VERIFY_FAILED_TO_FIND_VALIDITY_PERIOD">>,
          <<Ok(v.res), v.res>>>>)]

\* oe_verify_sgx_quote, the report functions' way: the result alone, of which
\* nothing but OE_OK passes.
oe_verify_sgx_quote(x, t) == oe_verify_quote_with_sgx_endorsements(x, t).res

\* The end of oe_sgx_verify_evidence for a quote: result and TCB status must
\* agree; the claims repeat status, date and period.
QuoteClaims(x, t) ==
  LET v == oe_verify_quote_with_sgx_endorsements(x, t)
      agree == Ok(v.res) = ("up_to_date" \in v.status)
  IN  [res |-> IF ~Passed(v.res) THEN v.res ELSE IF agree THEN v.res ELSE "OE_CONSTRAINT_FAILED",
       tcb_status |-> oe_tcb_level_status_to_sgx_tcb_status(v.status),
       tcb_date |-> v.date, validity |-> v.w]

=============================================================================
