--------------------------- MODULE MCEnclaveLife ---------------------------
(* EnclaveLife for TLC: enclaves without workers, with host workers, and    *)
(* with workers of both kinds.                                              *)
EXTENDS EnclaveLife

MCSettings == {[host |-> 0, enclave |-> 0], [host |-> 2, enclave |-> 1]}
=============================================================================
