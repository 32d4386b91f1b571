------------------------------ MODULE Registries ------------------------------
(* What is looked up in a table that is filled while the program runs: the    *)
(* plugins of attestation (Evidence) and of sealing (Sealing), and the ids of *)
(* ecalls (EcallIds). The three have nothing in common.                       *)
EXTENDS Evidence, Sealing, EcallIds

registryVars == <<plugins, sealers, idVars>>

RegistriesInit ==
  PluginsInit({"verifier", "attester"}) /\ SealersInit(TRUE) /\ EcallIdsInit(TRUE)

RegistriesNext ==
  \/ PluginStep /\ UNCHANGED <<sealers, idVars>>
  \/ SealStep /\ UNCHANGED <<plugins, idVars>>
  \/ EcallIdStep /\ UNCHANGED <<plugins, sealers>>

RegistriesSpec == RegistriesInit /\ [][RegistriesNext]_registryVars

(* The registries lead to what was registered: attestation plugins to live    *)
(* ones, one for a format; sealing plugins to the latest version of each,     *)
(* with the chosen default first; ecall ids to the called enclave's own       *)
(* numbers. Whatever is registered, replaced and removed, in any order, and   *)
(* with failures in between.                                                  *)
RegistriesSound == PluginsLive /\ SealersKept /\ LookupRight

===============================================================================
