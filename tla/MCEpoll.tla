------------------------------ MODULE MCEpoll ------------------------------
(* An instance of Epoll for TLC: its threads differ in nothing but their name. *)
EXTENDS Epoll, TLC

Symmetry == Permutations(Threads)
=============================================================================
