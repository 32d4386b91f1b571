------------------------------- MODULE Sealing -------------------------------
(* Sealing: the registry of plugins (enclave/core/seal.c), the AES-GCM plugin *)
(* (enclave/sealing/sgx/seal_gcmaes.c) and the keys it asks the processor for *)
(* (enclave/core/sgx/keys.c). EGETKEY and AES-GCM are external: a key is the  *)
(* record of what it is derived from, a ciphertext the record of what went    *)
(* into it, opened by the same key, IV and additional data only. An enclave   *)
(* is [unique, signer, product, svn, cpu, debug]; versions are numbers.       *)
EXTENDS Results, Integers, Sequences, SequencesExt, TLC

CONSTANTS
  SealPlugins,       \* plugin definitions [id, variant]
  MaxSealPlugins     \* _OE_MAX_SEAL_PLUGIN

ASSUME SealingAssumption == MaxSealPlugins \in Nat \ {0}

VARIABLE sealers     \* _plugins, and what its users asked for last

NoId == "none"

SealersInit(enabled) ==
  sealers = [on |-> enabled, array |-> <<>>, wanted |-> {}, default |-> NoId]

PlaceOf(array, id) == SelectInSeq(array, LAMBDA p : p.id = id)

\* The array after oe_register_seal_plugin, where there was room.
Registered(array, plugin, default) ==
  LET place == PlaceOf(array, plugin.id)
      index == IF place # 0 THEN place ELSE Len(array) + 1
      grown == IF place # 0 THEN array ELSE Append(array, plugin)
  IN  IF default /\ index > 1 THEN [grown EXCEPT ![index] = grown[1], ![1] = plugin]
      ELSE [grown EXCEPT ![index] = plugin]

\* A full array refuses every registration, also one that would replace.
oe_register_seal_plugin(plugin, default) ==
  /\ sealers.on
  /\ IF Len(sealers.array) >= MaxSealPlugins THEN UNCHANGED sealers
     ELSE sealers' = [sealers EXCEPT
            !.array = Registered(@, plugin, default),
            !.wanted = {p \in @ : p.id # plugin.id} \cup {plugin},
            !.default = IF default THEN plugin.id ELSE @]

\* The last plugin takes the place of the one that goes.
oe_unregister_seal_plugin(id) ==
  /\ sealers.on
  /\ LET i == PlaceOf(sealers.array, id)
         last == Len(sealers.array)
     IN  IF i = 0 THEN UNCHANGED sealers
         ELSE sealers' = [sealers EXCEPT
                !.array = SubSeq([@ EXCEPT ![i] = sealers.array[last]], 1, last - 1),
                !.wanted = {p \in @ : p.id # id},
                !.default = IF @ = id THEN NoId ELSE @]

SealStep ==
  \/ \E p \in SealPlugins, default \in BOOLEAN : oe_register_seal_plugin(p, default)
  \/ \E p \in SealPlugins : oe_unregister_seal_plugin(p.id)

(* The array holds each plugin that was registered and not unregistered, in   *)
(* its latest version and once; the one last made the default stays first     *)
(* until it is unregistered, whatever is registered, replaced or removed      *)
(* around it.                                                                 *)
SealersKept ==
  /\ ToSet(sealers.array) = sealers.wanted
  /\ \A i, j \in DOMAIN sealers.array : sealers.array[i].id = sealers.array[j].id => i = j
  /\ sealers.default # NoId => sealers.array[1].id = sealers.default

-----------------------------------------------------------------------------
(* Keys.                                                                     *)

\* What EGETKEY derives a seal key from; the mask says which attributes count.
oe_egetkey(e, req) ==
  [policy |-> req.policy, of |-> IF req.policy = "MRENCLAVE" THEN e.unique ELSE e.signer,
   product |-> e.product, svn |-> req.svn, cpu |-> req.cpu, id |-> req.id, mask |-> req.mask,
   debug |-> req.mask /\ e.debug]

\* oe_get_key: the checks of the request, then the processor's. Of the names
\* that pass, only the seal key's is used here.
oe_get_key(e, req) ==
  LET res == FirstError(<<
        <<~req.reserved, "OE_INVALID_PARAMETER">>,
        <<req.name # "UNKNOWN", "OE_INVALID_PARAMETER">>,
        <<req.cpu <= e.cpu, "OE_INVALID_CPUSVN">>,
        <<req.svn <= e.svn, "OE_INVALID_ISVSVN">>>>)
  IN  [res |-> res, key |-> IF Ok(res) THEN <<oe_egetkey(e, req)>> ELSE <<>>]

oe_get_seal_key_v2(e, req) == oe_get_key(e, req)

\* _init_key_request and _get_default_key_request_attributes: the enclave's own
\* versions, and the masks that count the debug attribute.
_init_key_request(e) ==
  [name |-> "SEAL", policy |-> "MRSIGNER", svn |-> e.svn, cpu |-> e.cpu, mask |-> TRUE,
   id |-> 0, reserved |-> FALSE]

KeyPolicy(policy) ==
  CASE policy = "UNIQUE"  -> "MRENCLAVE"
    [] policy = "PRODUCT" -> "MRSIGNER"

\* oe_get_seal_key_by_policy_v2: the key, and the request to get it again with.
oe_get_seal_key_by_policy_v2(e, policy) ==
  IF policy \notin {"UNIQUE", "PRODUCT"} THEN [res |-> "OE_INVALID_PARAMETER", key |-> <<>>, info |-> <<>>]
  ELSE LET req == [_init_key_request(e) EXCEPT !.policy = KeyPolicy(policy)]
           got == oe_get_key(e, req)
       IN  IF Ok(got.res) THEN [res |-> "OE_OK", key |-> got.key, info |-> <<req>>]
           ELSE [res |-> "OE_UNEXPECTED", key |-> <<>>, info |-> <<>>]

-----------------------------------------------------------------------------
(* The AES-GCM plugin.                                                       *)

\* One setting, <<type, value>>, applied to the request and the IV made so far.
Applied(s, setting) ==
  LET v == setting[2]
      Fails(res) == [s EXCEPT !.res = res]
  IN  IF ~Ok(s.res) THEN s
      ELSE CASE setting[1] = "POLICY" ->
                  IF v \in {"UNIQUE", "PRODUCT"} THEN [s EXCEPT !.req.policy = KeyPolicy(v)]
                  ELSE Fails("OE_INVALID_PARAMETER")
             [] setting[1] = "IV" ->
                  IF v = "short" THEN Fails("OE_INVALID_PARAMETER") ELSE [s EXCEPT !.iv = v]
             [] setting[1] = "KEYNAME"   -> [s EXCEPT !.req.name = v]
             [] setting[1] = "ISVSVN"    -> [s EXCEPT !.req.svn = v]
             [] setting[1] = "CPUSVN"    -> [s EXCEPT !.req.cpu = v]
             [] setting[1] = "FLAGSMASK" -> [s EXCEPT !.req.mask = v]
             [] OTHER                      -> Fails("OE_UNSUPPORTED")

\* _seal. The key id and the IV are random: a number no other blob has.
_seal(e, settings, text, aad, random) ==
  LET made == FoldLeft(Applied, [res |-> "OE_OK", iv |-> "random",
                                 req |-> [_init_key_request(e) EXCEPT !.id = random]], settings)
      got == oe_get_seal_key_v2(e, made.req)
  IN  IF ~Ok(made.res) THEN [res |-> made.res]
      ELSE IF ~Ok(got.res) THEN [res |-> got.res]
      ELSE [res |-> "OE_OK", keyrequest |-> made.req, ciphertext_size |-> Len(text),
            total_size |-> Len(text) + Len(aad), iv |-> made.iv, size |-> Len(text),
            box |-> [key |-> got.key, iv |-> made.iv, aad |-> aad, text |-> text]]

\* oe_aes_gcm_decrypt (external)
oe_aes_gcm_decrypt(key, iv, aad, box) == box.key = key /\ box.iv = iv /\ box.aad = aad

\* _unseal. A blob shorter than its header has size -1.
_unseal(e, blob, aad) ==
  LET got == oe_get_seal_key_v2(e, blob.keyrequest)
      res == FirstError(<<
        <<blob.size >= 0, "OE_INVALID_PARAMETER">>,
        <<blob.ciphertext_size = blob.size /\ blob.total_size = blob.ciphertext_size + Len(aad),
          "OE_CRYPTO_ERROR">>,
        <<Ok(got.res), got.res>>,
        <<oe_aes_gcm_decrypt(got.key, blob.iv, aad, blob.box), "OE_CRYPTO_ERROR">>>>)
  IN  [res |-> res, text |-> IF Ok(res) THEN blob.box.text ELSE <<>>]

\* _find_plugin, which returns the first plugin whose id is another one.
_find_plugin(array, id) ==
  IF id = NoId /\ array # <<>> THEN 1 ELSE SelectInSeq(array, LAMBDA p : p.id # id)

\* oe_seal: a plugin of the application marks its blob as its own.
oe_seal(array, e, id, settings, text, aad, random) ==
  LET i == _find_plugin(array, id)
  IN  IF i = 0 THEN [res |-> "OE_NOT_FOUND"]
      ELSE LET blob == _seal(e, settings, text, aad, random)
           IN  IF Ok(blob.res) THEN blob @@ [by |-> array[i].id] ELSE blob

\* oe_unseal: the first plugin that accepts the blob.
oe_unseal(array, e, blob, aad) ==
  LET opened == SelectSeq(array, LAMBDA p : p.id = blob.by /\ Ok(_unseal(e, blob, aad).res))
  IN  IF opened = <<>> THEN [res |-> "OE_UNSUPPORTED", text |-> <<>>] ELSE _unseal(e, blob, aad)

=============================================================================
