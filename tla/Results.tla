------------------------------- MODULE Results -------------------------------
(* oe_result_t and the macros that raise it (internal/raise.h): a function's  *)
(* result is its name, and the first check that fails decides it.             *)
EXTENDS Sequences

\* A function's checks in order, each with the error it raises.
FirstError(checks) ==
  LET failed == SelectSeq(checks, LAMBDA c : ~c[1])
  IN  IF failed = <<>> THEN "OE_OK" ELSE failed[1][2]

\* OE_CHECK_NO_TCB_LEVEL: an invalid TCB level does not end the verification.
Passed(res) == res \in {"OE_OK", "OE_TCB_LEVEL_INVALID"}

Ok(res) == res = "OE_OK"

=============================================================================
