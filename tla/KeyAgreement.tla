---------------------------- MODULE KeyAgreement ----------------------------
(***************************************************************************)
(* Parties each build one ECDHManager, derive shared secrets from the      *)
(* public keys that circulate, sign messages and verify signatures.  The   *)
(* public keys in circulation are every encoding of every party's key the  *)
(* code exports, the standard 33-byte compressed form other libraries      *)
(* produce, and malformed keys an adversary sends.                        *)
(***************************************************************************)
EXTENDS Ecdh

CONSTANTS
  Parties,     \* the parties, model values
  Scalars,     \* private keys generate_private_key may return in a run
  KeyInputs,   \* private_key_bytes arguments a party may pass
  Malformed,   \* public keys an adversary may send
  Messages,    \* messages a party may sign or verify
  Salts        \* HKDF salts a caller may pass

ASSUME Scalars \subseteq 1..N-1

NoKey == 0
Info  == "shared-secret"

VARIABLES
  key,         \* key[p]: the private scalar of p's manager, or NoKey
  signed,      \* signatures produced by sign_message so far
  last         \* last[p]: p's last call, its inputs and its outcome

vars == <<key, signed, last>>

NoCall == [op |-> "none", in |-> <<>>, out |-> Ok(<<>>)]

(* The 33-byte compressed form of a point, as secp256k1 libraries write it. *)
StandardCompressed(pub) == Enc(33, 2 + (pub[2] % 2), pub[1], 0)

HonestEncodings(d) ==
  LET pub == PublicKey(d)
  IN  {GetPublicKeyCompressed(pub), GetPublicKeyUncompressed(pub), StandardCompressed(pub)}

Circulating == UNION {HonestEncodings(key[q]) : q \in {r \in Parties : key[r] # NoKey}}
               \cup Malformed

Init ==
  /\ key = [p \in Parties |-> NoKey]
  /\ signed = {}
  /\ last = [p \in Parties |-> NoCall]

(* ECDHManager(private_key_bytes): a party without a manager builds one. *)
Create(p) ==
  \E kb \in KeyInputs : \E o \in LoadOutcomes(kb, Scalars) :
    /\ key[p] = NoKey
    /\ key' = [key EXCEPT ![p] = IF o.err = "none" THEN o.val ELSE NoKey]
    /\ last' = [last EXCEPT ![p] = [op |-> "load", in |-> kb, out |-> o]]
    /\ UNCHANGED signed

(* KeyManager(private_key) of citrate_sdk/crypto.py: no key generates an  *)
(* account and an unrelated ECDH key; a given key must pass               *)
(* Account.from_key (32 bytes, 1..N-1, else ValueError) and is then the   *)
(* ECDHManager's key as well.                                            *)
KeyManagerOutcomes(kb) ==
  {IF o.err = "none" THEN o ELSE Err("ValueError") : o \in LoadOutcomes(kb, Scalars)}

CreateKeyManager(p) ==
  \E kb \in KeyInputs : \E o \in KeyManagerOutcomes(kb) :
    /\ key[p] = NoKey
    /\ key' = [key EXCEPT ![p] = IF o.err = "none" THEN o.val ELSE NoKey]
    /\ last' = [last EXCEPT ![p] = [op |-> "km_load", in |-> kb, out |-> o]]
    /\ UNCHANGED signed

(* derive_shared_secret(peer_public_key_bytes, salt): perform_ecdh, HKDF. *)
Derive(p) ==
  \E e \in Circulating, s \in Salts :
    /\ key[p] # NoKey
    /\ last' = [last EXCEPT ![p] =
                  [op |-> "derive", in |-> <<e, s, Info>>,
                   out |-> DeriveSharedSecret(key[p], e, s, Info)]]
    /\ UNCHANGED <<key, signed>>

(* derive_shared_key of the lattice KeyManager held by p (whose ECDH key *)
(* is modelled by key[p]), on a circulating hex-decoded public key.     *)
LatticeDerive(p) ==
  \E e \in Circulating :
    /\ key[p] # NoKey
    /\ last' = [last EXCEPT ![p] =
                  [op |-> "lattice_derive", in |-> <<e>>, out |-> LatticeDeriveSharedKey(key[p], e)]]
    /\ UNCHANGED <<key, signed>>

(* KeyManager.derive_shared_key(peer_public_key): the hex-decoded key     *)
(* through derive_shared_secret with salt "citrate-model-encryption" and   *)
(* info "shared-key-derivation"; any exception becomes CitrateError.      *)
KmSalt == "citrate-model-encryption"
KmInfo == "shared-key-derivation"

KmDerive(p) ==
  \E e \in Circulating :
    LET o == DeriveSharedSecret(key[p], e, KmSalt, KmInfo) IN
    /\ key[p] # NoKey
    /\ last' = [last EXCEPT ![p] =
                  [op |-> "derive", in |-> <<e, KmSalt, KmInfo>>,
                   out |-> IF o.err = "none" THEN o ELSE Err("CitrateError")]]
    /\ UNCHANGED <<key, signed>>

Sign(p) ==
  \E m \in Messages :
    /\ key[p] # NoKey
    /\ signed' = signed \cup {SignMessage(key[p], m)}
    /\ UNCHANGED <<key, last>>

(* verify_signature(message, signature, public_key_bytes); it never       *)
(* raises (every exception becomes False).                               *)
Verify(p) ==
  \E m \in Messages, sig \in signed, e \in Circulating :
    /\ key[p] # NoKey
    /\ last' = [last EXCEPT ![p] =
                  [op |-> "verify", in |-> <<m, sig, e>>,
                   out |-> Ok(VerifySignature(m, sig, e))]]
    /\ UNCHANGED <<key, signed>>

Next == \E p \in Parties :
          \/ Create(p) \/ CreateKeyManager(p) \/ Derive(p) \/ KmDerive(p)
          \/ LatticeDerive(p) \/ Sign(p) \/ Verify(p)

Spec == Init /\ [][Next]_vars

-----------------------------------------------------------------------------
TypeOK ==
  /\ key \in [Parties -> Scalars \cup (1..N-1) \cup {NoKey}]
  /\ signed \subseteq [signer : (0..P-1) \X (0..P-1), msg : Messages]
  /\ \A p \in Parties : last[p].op \in {"none", "load", "km_load", "derive", "lattice_derive", "verify"}

(* ECDH symmetry (spec 8): two parties that derive with each other's      *)
(* public key, in any encoding the key circulates in, with the same salt  *)
(* and info, both succeed and obtain the same secret; both may call        *)
(* ECDHManager.derive_shared_secret, or both KeyManager.derive_shared_key. *)
(* perform_ecdh recovers an even y for a 32-byte key, which may be the    *)
(* other point with that x.                                               *)
EcdhSymmetry ==
  \A a, b \in Parties :
    ( /\ a # b /\ last[a].op = "derive" /\ last[b].op = "derive"
      /\ key[a] # NoKey /\ key[b] # NoKey
      /\ last[a].in[1] \in HonestEncodings(key[b])
      /\ last[b].in[1] \in HonestEncodings(key[a])
      /\ last[a].in[2] = last[b].in[2] /\ last[a].in[3] = last[b].in[3] )
    => /\ last[a].out.err = "none" /\ last[b].out.err = "none"
       /\ last[a].out.val = last[b].out.val

(* A signature made with sign_message verifies under its signer's key in  *)
(* the 33-byte compressed or 65-byte uncompressed form (spec 4.3).       *)
(* The 33-byte branch recovers y from x and the prefix's parity.         *)
GenuineSignaturesVerify ==
  \A p \in Parties :
    LET c == last[p].in IN
    ( /\ last[p].op = "verify" /\ c[2].msg = c[1]
      /\ c[3] \in {StandardCompressed(c[2].signer), GetPublicKeyUncompressed(c[2].signer)} )
    => last[p].out = Ok(TRUE)

(* derive (spec 4.3) turns a peer's public key into a 32-byte key: the   *)
(* lattice KeyManager's derive_shared_key, given a key another party     *)
(* really exports, in any of its encodings, returns a key.  The code builds  *)
(* the point (x, 0), which is on no curve of prime order.               *)
LatticeDeriveAcceptsPeerKeys ==
  \A p, q \in Parties :
    ( /\ p # q /\ last[p].op = "lattice_derive" /\ key[q] # NoKey
      /\ last[p].in[1] \in HonestEncodings(key[q]) )
    => last[p].out.err = "none"
=============================================================================
