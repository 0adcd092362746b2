------------------------------ MODULE Envelope -------------------------------
(***************************************************************************)
(* KeyManager.encrypt_model / decrypt_model / reconstruct_key_from_shares  *)
(* of the two SDKs, which write the same envelope format: "citrate"       *)
(* (citrate_sdk/crypto.py: HKDF key wrapping with a random salt, Shamir    *)
(* shares from finite_field) and "lattice" (lattice_sdk/crypto.py: SHA-256 *)
(* of the account key, hash "shares").  An envelope records the SDK that   *)
(* wrote it, and is opened by that SDK.  Owners are account keys.  AES-256-GCM, HKDF and        *)
(* SHA-256 are symbolic: a ciphertext is the record of key, nonce and      *)
(* plaintext, and decryption fails (InvalidTag) unless key and nonce are   *)
(* those it was made with.  Stored envelopes may be altered by anyone who  *)
(* can write where the caller keeps them.                                 *)
(***************************************************************************)
EXTENDS Shamir, FiniteSets

CONSTANTS
  Sdks,          \* SDKs whose KeyManager writes envelopes: "citrate", "lattice"
  Owners,        \* account keys of KeyManagers, model values
  Payloads,      \* model_data values, model values
  DataKeys,      \* values secrets.token_bytes(32) may take (one-byte sequences)
  Nonces,        \* values secrets.token_bytes(12) may take for the data
  WrapNonces,    \* values it may take for the key wrapping
  Salts,         \* values of the wrapping salt
  Configs,       \* [t, n] = (threshold_shares, total_shares) a caller may pass
  Coeffs,        \* values random.randint(0, 255) may draw
  MaxEnvelopes,  \* envelopes a run creates
  MaxList,       \* longest share list a caller passes
  MaxTamper      \* alterations of stored envelopes in a run

ASSUME Sdks \subseteq {"citrate", "lattice"} /\ Coeffs \subseteq Elems

VARIABLES
  envs,      \* stored (ciphertext, metadata) pairs, with owner, payload and key as history
  tampered,  \* indices of the envelopes that were altered
  last       \* the last call: op, envelope index, outcome

vars == <<envs, tampered, last>>

Aead(k, n, pt) == [key |-> k, nonce |-> n, pt |-> pt]
AeadOpen(k, n, ct) ==
  IF ct.key = k /\ ct.nonce = n THEN Ok(ct.pt) ELSE Err("InvalidTag")
(* Digests are tagged tuples: distinct inputs give distinct digests, and  *)
(* none equals a one-byte data key.                                     *)
Hkdf(ikm, salt, info) == <<"hkdf", ikm, salt, info>>
Sha256(v) == <<"sha256", v>>
NoSalt == "none"

(* secrets.token_bytes(32): a key no earlier envelope has. *)
FreshKeys(used) == DataKeys \ used

(* _encrypt_key_for_owner / _decrypt_key_from_owner, citrate: a fresh     *)
(* salt, HKDF of the account key, AES-GCM of the data key.               *)
CitrateWrap(acct, key, salt, n) ==
  [ek |-> Aead(Hkdf(acct, salt, "citrate-key-wrapping"), n, key), nonce |-> n, salt |-> salt]

(* Defect variant: the stored salt not read back. *)
CitrateUnwrapFixedSalt(acct, pkg) ==
  AeadOpen(Hkdf(acct, NoSalt, "citrate-key-wrapping"), pkg.nonce, pkg.ek)

CitrateUnwrap(acct, pkg) ==
  AeadOpen(Hkdf(acct, pkg.salt, "citrate-key-wrapping"), pkg.nonce, pkg.ek)

(* The lattice variant: SHA-256 of the account key, no salt. *)
LatticeWrap(acct, key, n) ==
  [ek |-> Aead(Sha256(acct), n, key), nonce |-> n, salt |-> NoSalt]

(* Defect variant: the account key used as it is, without the SHA-256   *)
(* the wrapping applied.                                                *)
LatticeUnwrapNoHash(acct, pkg) == AeadOpen(acct, pkg.nonce, pkg.ek)

LatticeUnwrap(acct, pkg) == AeadOpen(Sha256(acct), pkg.nonce, pkg.ek)

(* _create_key_shares, citrate: split_secret_bytes, each share tagged     *)
(* with the threshold (str/hex formatting round-trips exactly).          *)
CitrateKeyShares(key, t, n, draws) ==
  LET s == SplitSecret(key, n, draws) IN
  [i \in 1..n |-> [x |-> s[i].x, y |-> s[i].y, threshold |-> t]]

(* Defect variant: the points numbered from range(total). *)
LatticeKeySharesFromZero(key, t, n) ==
  [i \in 1..n |-> [x |-> i - 1, y |-> Sha256(<<key, i - 1>>), threshold |-> t]]

(* _create_key_shares, lattice: share i is SHA-256(key || i), no checks. *)
LatticeKeyShares(key, t, n) ==
  [i \in 1..n |-> [x |-> i, y |-> Sha256(<<key, i>>), threshold |-> t]]

(* reconstruct_key_from_shares, citrate: the threshold of the first share, *)
(* then reconstruct_secret_bytes on the (x, y) pairs.                    *)
CitrateReconstruct(list) ==
  IF list = <<>> THEN Err("CitrateError")
  ELSE IF Len(list) < list[1].threshold THEN Err("CitrateError")
  ELSE ReconstructSecretBytes([k \in 1..Len(list) |-> [x |-> list[k].x, y |-> list[k].y]],
                              list[1].threshold)

(* reconstruct_key_from_shares, lattice: SHA-256 of the first t y values. *)
LatticeReconstruct(list) ==
  IF list = <<>> THEN Err("IndexError")
  ELSE IF Len(list) < list[1].threshold THEN Err("LatticeError")
  ELSE Ok(Sha256(SubSeq([k \in 1..Len(list) |-> list[k].y], 1, list[1].threshold)))

Wrap(sdk, acct, key, salt, n) ==
  IF sdk = "citrate" THEN CitrateWrap(acct, key, salt, n) ELSE LatticeWrap(acct, key, n)
Unwrap(sdk, acct, pkg) ==
  IF sdk = "citrate" THEN CitrateUnwrap(acct, pkg) ELSE LatticeUnwrap(acct, pkg)
Reconstruct(sdk, list) ==
  IF sdk = "citrate" THEN CitrateReconstruct(list) ELSE LatticeReconstruct(list)

(* The outcomes of _create_key_shares(key, t, n) over the draws; the      *)
(* citrate split raises ValueError for bad (t, n).                       *)
KeyShareOutcomes(sdk, key, t, n) ==
  IF sdk = "lattice" THEN {Ok(LatticeKeyShares(key, t, n))}
  ELSE IF CheckParams(t, n) # "none" THEN {Err("ValueError")}
  ELSE {Ok(CitrateKeyShares(key, t, n, d)) : d \in Draws(key, t, n, Coeffs)}

NoShares == <<>>

Init ==
  /\ envs = <<>>
  /\ tampered = {}
  /\ last = [op |-> "none", env |-> 0, by |-> "nobody", out |-> Ok("sealed")]

(* encrypt_model(model_data, config): key and nonce, AES-GCM of the data, *)
(* the wrapped key, then the shares when threshold_shares > 0; a failing  *)
(* split raises after all of it, and nothing is returned.               *)
EncryptModel(sdk, o, pl, cfg) ==
  \E key \in FreshKeys({envs[i].key : i \in 1..Len(envs)}),
     n \in Nonces, salt \in Salts, wn \in WrapNonces :
    \E sh \in IF cfg.t > 0 THEN KeyShareOutcomes(sdk, key, cfg.t, cfg.n) ELSE {Ok(NoShares)} :
      /\ Len(envs) < MaxEnvelopes
      /\ IF sh.err # "none"
         THEN /\ last' = [op |-> "encrypt", env |-> 0, by |-> o, out |-> sh]
              /\ UNCHANGED envs
         ELSE /\ envs' = Append(envs,
                   [sdk |-> sdk, owner |-> o, payload |-> pl, key |-> key,
                    ct |-> Aead(key, n, pl),
                    meta |-> [nonce |-> n, wrapped |-> Wrap(sdk, o, key, salt, wn),
                              shares |-> sh.val]])
              /\ last' = [op |-> "encrypt", env |-> Len(envs) + 1, by |-> o, out |-> Ok("sealed")]
      /\ UNCHANGED tampered

(* decrypt_model(encrypted_data, metadata) by the KeyManager of account  *)
(* who: unwrap the data key, then AES-GCM; any failure is re-raised.     *)
DecryptModel(i, who) ==
  LET e == envs[i]
      k == Unwrap(e.sdk, who, e.meta.wrapped)
      r == IF k.err # "none" THEN k ELSE AeadOpen(k.val, e.meta.nonce, e.ct)
  IN  /\ last' = [op |-> "decrypt", env |-> i, by |-> who,
                  out |-> IF r.err = "none" THEN r ELSE Err("ModelDecryptionFailed")]
      /\ UNCHANGED <<envs, tampered>>

(* lattice_sdk/crypto.py's encrypt_model and decrypt_model are the same  *)
(* statements as citrate's, over the lattice wrapping and shares.         *)
LatticeEncryptModel(o, pl, cfg) == EncryptModel("lattice", o, pl, cfg)

LatticeDecryptModel(i, who) == envs[i].sdk = "lattice" /\ DecryptModel(i, who)

(* A holder of shares: reconstruct_key_from_shares on a list picked from  *)
(* the envelope's shares, then AES-GCM with the metadata's nonce (the     *)
(* decrypt_from_shares path of spec 4.4).                                *)
RecoverFromShares(i) ==
  \E list \in UNION {[1..m -> DOMAIN envs[i].meta.shares] : m \in 0..MaxList} :
    LET e == envs[i]
        k == Reconstruct(e.sdk, [j \in 1..Len(list) |-> e.meta.shares[list[j]]])
    IN  /\ last' = [op |-> "recover", env |-> i, by |-> "nobody",
                    out |-> IF k.err # "none" THEN k ELSE AeadOpen(k.val, e.meta.nonce, e.ct)]
        /\ UNCHANGED <<envs, tampered>>

(* Alterations of stored envelopes: a ciphertext or wrapped key taken     *)
(* from another envelope, another nonce, another byte in a share.       *)
Alter(i, e2) ==
  /\ Cardinality(tampered) < MaxTamper
  /\ e2 # envs[i]
  /\ envs' = [envs EXCEPT ![i] = e2]
  /\ tampered' = tampered \cup {i}
  /\ UNCHANGED last

Tamper(i) ==
  LET e == envs[i] IN
  \/ \E j \in 1..Len(envs) : Alter(i, [e EXCEPT !.ct = envs[j].ct])
  \/ \E j \in 1..Len(envs) : Alter(i, [e EXCEPT !.meta.wrapped = envs[j].meta.wrapped])
  \/ \E n \in Nonces : Alter(i, [e EXCEPT !.meta.nonce = n])
  \/ \E k \in DOMAIN e.meta.shares, v \in Coeffs :
       /\ e.sdk = "citrate"
       /\ Alter(i, [e EXCEPT !.meta.shares[k].y = <<v>>])

Next ==
  \/ \E o \in Owners, pl \in Payloads, cfg \in Configs :
       \/ "citrate" \in Sdks /\ EncryptModel("citrate", o, pl, cfg)
       \/ "lattice" \in Sdks /\ LatticeEncryptModel(o, pl, cfg)
  \/ \E i \in 1..Len(envs) :
       \/ \E who \in Owners : envs[i].sdk = "citrate" /\ DecryptModel(i, who)
       \/ \E who \in Owners : LatticeDecryptModel(i, who)
       \/ RecoverFromShares(i)
       \/ Tamper(i)

Spec == Init /\ [][Next]_vars

-----------------------------------------------------------------------------
TypeOK ==
  /\ Len(envs) <= MaxEnvelopes
  /\ \A i \in 1..Len(envs) :
       LET e == envs[i] IN
       /\ e.sdk \in Sdks /\ e.owner \in Owners /\ e.payload \in Payloads /\ e.key \in DataKeys
       /\ e.ct \in [key : DataKeys, nonce : Nonces, pt : Payloads]
       /\ e.meta.nonce \in Nonces /\ e.meta.wrapped.ek.pt \in DataKeys
       /\ \A k \in DOMAIN e.meta.shares :
            e.meta.shares[k].x \in 1..255 /\ e.meta.shares[k].threshold \in 1..255
  /\ tampered \subseteq 1..Len(envs)
  /\ last.op \in {"none", "encrypt", "decrypt", "recover"}

(* The detailed envelopes implement the contract: the vault is the        *)
(* stored envelopes' owners and payloads, intact until altered; every     *)
(* failure of a call is the contract's Failed.                          *)
Contract == INSTANCE EnvelopeContract WITH
  vault  <- [i \in 1..Len(envs) |-> [owner |-> envs[i].owner, payload |-> envs[i].payload,
                                     intact |-> i \notin tampered]],
  answer <- [op |-> last.op, env |-> last.env, by |-> last.by,
             out |-> IF last.out.err = "none" THEN last.out ELSE Err("failed")]

(* decrypt_model and the share path never yield a plaintext the contract *)
(* does not allow: owner-only access through the wrapped key, the owner  *)
(* always succeeding on an intact envelope, and no wrong plaintext after *)
(* any alteration (spec 8, round trip and tamper detection).            *)
ImplementsContract == Contract!Spec

(* The data key never appears in the envelope in cleartext (spec 3,      *)
(* Envelope): no share's y is the key.  With threshold_shares = 1 the    *)
(* polynomial is the constant key.                                      *)
KeyNeverInEnvelope ==
  \A i \in 1..Len(envs) : \A k \in DOMAIN envs[i].meta.shares :
    envs[i].meta.shares[k].y # envs[i].key
=============================================================================
