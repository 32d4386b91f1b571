---------------------------- MODULE QuoteProvider ----------------------------
(* Which library makes the host's quotes and for which evidence formats       *)
(* (host/sgx/sgxquote.c, sgxquoteexloader.c, quote.c). The choice is made     *)
(* once: Intel's DCAP library in the process, or the quote-ex library, which  *)
(* asks the AESM service. env says what the process finds: whether it is set  *)
(* for in-process quoting, what it finds of the DCAP library (the module and   *)
(* its functions) and of the quote-ex library, the answers of the service and *)
(* the algorithms of its keys. The libraries themselves are external.         *)
EXTENDS Results, Naturals, Sequences, SequencesExt

\* What a library's function answers.
SgxStatus == {"success", "unavailable", "error"}

StatusResult(status) ==
  CASE status = "success"     -> "OE_OK"
    [] status = "unavailable" -> "OE_SERVICE_UNAVAILABLE"
    [] OTHER                  -> "OE_SGX_QUOTE_LIBRARY_ERROR"

Algorithms == {"epid_unlinkable", "epid_linkable", "ecdsa"}

NoLibrary == "none"

DcapFunctions == <<"get_target_info", "get_quote_size", "get_quote">>

\* _load_sgx_dcap_ql_impl: the functions found before the first that is missing;
\* the module counts as loaded all the same.
_load_sgx_dcap_ql(env) ==
  {DcapFunctions[i] : i \in {k \in 1 .. 3 : \A j \in 1 .. k : DcapFunctions[j] \in env.dcap}}

\* oe_sgx_load_quote_ex_library
oe_sgx_load_quote_ex_library(env) ==
  CASE env.ex = NoLibrary    -> "OE_QUOTE_LIBRARY_LOAD_ERROR"
    [] env.ex = "incomplete" -> "OE_PLATFORM_ERROR"
    [] OTHER                 -> "OE_OK"

\* _load_quote_ex_library_once. A key of another algorithm stays in the arrays
\* but is not mapped.
_load_quote_ex_library_once(env) ==
  IF env.inProcess /\ "module" \in env.dcap
  THEN [dcap |-> TRUE, load_result |-> "OE_OK", keys |-> <<>>, functions |-> _load_sgx_dcap_ql(env)]
  ELSE LET found == FirstError(<<
             <<Ok(oe_sgx_load_quote_ex_library(env)), oe_sgx_load_quote_ex_library(env)>>,
             <<Ok(StatusResult(env.num)), StatusResult(env.num)>>,
             <<env.keys # <<>>, "OE_SGX_QUOTE_LIBRARY_ERROR">>,
             <<Ok(StatusResult(env.ids)), StatusResult(env.ids)>>>>)
       IN  [dcap |-> FALSE, load_result |-> found,
            keys |-> IF Ok(found) THEN env.keys ELSE <<>>, functions |-> {}]

_use_quote_ex_library(lib) == ~lib.dcap /\ Ok(lib.load_result)

\* oe_sgx_get_supported_attester_format_ids: the mapped keys, and the one
\* format of the DCAP library in every other case.
oe_sgx_get_supported_attester_format_ids(lib) ==
  IF _use_quote_ex_library(lib) THEN SelectSeq(lib.keys, LAMBDA a : a \in Algorithms)
  ELSE <<"ecdsa">>

\* The place of the format among the mapped keys, taken for one among all.
KeyIdUnskipped(lib, format) ==
  LET mapped == SelectSeq(lib.keys, LAMBDA a : a \in Algorithms)
  IN  SelectInSeq(mapped, LAMBDA a : a = format)

\* _format_id_to_key_id: the first mapped key of the format, 0 if there is none.
_format_id_to_key_id(lib, format) ==
  SelectInSeq(lib.keys, LAMBDA a : a \in Algorithms /\ a = format)

\* The key the quote-ex functions are called with: an SP ID of the right size
\* replaces that of an EPID key.
UpdatedKey(lib, format, opt) ==
  LET a == lib.keys[_format_id_to_key_id(lib, format)]
  IN  [alg |-> a, spid |-> IF a # "ecdsa" /\ opt = "spid" THEN "given" ELSE "own"]

DcapKey == [alg |-> "ecdsa", spid |-> "own"]

NoKey == [alg |-> NoLibrary, spid |-> "own"]

Outcome(res, key) == [res |-> res, key |-> IF Ok(res) THEN key ELSE NoKey]

\* What oe_sgx_qe_get_target_info, _get_quote_size and _get_quote have in common:
\* the function of the library in use, with its answers; accepting is the set of
\* algorithms for which the caller's parameters are accepted.
Quoting(lib, function, format, opt, status, accepting) ==
  IF _use_quote_ex_library(lib)
  THEN IF _format_id_to_key_id(lib, format) = 0 THEN Outcome("OE_UNSUPPORTED", NoKey)
       ELSE LET key == UpdatedKey(lib, format, opt)
            IN  Outcome(FirstError(<<<<key.alg \in accepting, "OE_INVALID_PARAMETER">>,
                                     <<Ok(StatusResult(status)), StatusResult(status)>>>>), key)
  ELSE IF ~lib.dcap THEN Outcome(lib.load_result, NoKey)
  ELSE Outcome(FirstError(<<<<"ecdsa" \in accepting, "OE_INVALID_PARAMETER">>,
                            <<function \in lib.functions, "OE_QUOTE_LIBRARY_LOAD_ERROR">>,
                            <<status = "success", "OE_PLATFORM_ERROR">>>>), DcapKey)

oe_sgx_qe_get_target_info(lib, format, opt, status) ==
  Quoting(lib, "get_target_info", format, opt, status, Algorithms)

oe_sgx_qe_get_quote_size(lib, format, opt, status) ==
  Quoting(lib, "get_quote_size", format, opt, status, Algorithms)

\* Parameters of another size are refused here, and for ECDSA all are.
oe_sgx_qe_get_quote(lib, format, opt, status) ==
  Quoting(lib, "get_quote", format, opt, status,
          CASE opt = "none" -> Algorithms
            [] opt = "spid" -> Algorithms \ {"ecdsa"}
            [] OTHER        -> {})

\* sgx_get_quote: the size is asked for first.
sgx_get_quote(lib, format, opt, given, needed, status) ==
  LET size == oe_sgx_qe_get_quote_size(lib, format, opt, status)
  IN  IF ~Ok(size.res) THEN size
      ELSE IF given < needed THEN Outcome("OE_BUFFER_TOO_SMALL", NoKey)
      ELSE oe_sgx_qe_get_quote(lib, format, opt, status)

(* An offered format is served: when the chosen library is complete and       *)
(* answers, target info, size and quote all succeed and are for a key of that *)
(* algorithm, wherever the keys stand that no format belongs to. A quote is   *)
(* never made with a key the target info was not made for, not even when the  *)
(* caller's parameters have the wrong size, nor for a format the quote-ex     *)
(* library does not offer; and without a complete library there is none.      *)
Served(env, format, opt, given, needed, status) ==
  LET lib == _load_quote_ex_library_once(env)
      offered == ToSet(oe_sgx_get_supported_attester_format_ids(lib))
      target == oe_sgx_qe_get_target_info(lib, format, opt, status)
      quote == sgx_get_quote(lib, format, opt, given, needed, status)
      complete == IF lib.dcap THEN ToSet(DcapFunctions) \subseteq env.dcap ELSE Ok(lib.load_result)
  IN  /\ complete /\ format \in offered /\ opt = "none" /\ status = "success" /\ needed <= given =>
           Ok(target.res) /\ Ok(quote.res) /\ quote.key.alg = format
      /\ Ok(quote.res) =>
           /\ target = quote /\ given >= needed /\ complete
           /\ ~lib.dcap => format \in offered /\ quote.key.alg = format
           /\ lib.dcap => quote.key.alg = "ecdsa"

-----------------------------------------------------------------------------
(* The quote verification library, which the process may ask for.            *)

\* sgx_qvl_error_to_oe
sgx_qvl_error_to_oe(error) ==
  CASE error \in {"SUCCESS", "TCB_SW_HARDENING_NEEDED", "TCB_INFO_EXPIRED"} -> "OE_OK"
    [] error = "INVALID_PARAMETER"                                   -> "OE_INVALID_PARAMETER"
    [] error \in {"PCK_CERT", "TCBINFO", "QEIDENTITY", "OUT_OF_DATE"} -> "OE_INVALID_ENDORSEMENT"
    [] error \in {"QUOTE_FORMAT", "QE_REPORT"}                       -> "OE_QUOTE_VERIFICATION_ERROR"
    [] error = "CRL_EXPIRED"                                         -> "OE_VERIFY_CRL_EXPIRED"
    [] error \in {"PCK_REVOKED", "TCB_REVOKED"}                      -> "OE_VERIFY_REVOKED"
    [] error = "TCB_CONFIGURATION_NEEDED"                            -> "OE_TCB_LEVEL_INVALID"
    [] OTHER                                                         -> "OE_UNEXPECTED"

QvlErrors == {"SUCCESS", "TCB_SW_HARDENING_NEEDED", "TCB_INFO_EXPIRED", "INVALID_PARAMETER",
              "PCK_CERT", "OUT_OF_DATE", "QUOTE_FORMAT", "CRL_EXPIRED", "TCB_REVOKED",
              "TCB_CONFIGURATION_NEEDED", "BUSY"}

\* oe_sgx_verify_quote: whatever the library finds wrong becomes the result that
\* a missing library has as well.
oe_sgx_verify_quote(asked, loaded, format, error) ==
  IF format # "ecdsa" THEN "OE_INVALID_PARAMETER"
  ELSE IF asked /\ loaded /\ Ok(sgx_qvl_error_to_oe(error)) THEN "OE_OK"
  ELSE "OE_PLATFORM_ERROR"

=============================================================================
