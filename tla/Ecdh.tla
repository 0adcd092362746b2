------------------------------- MODULE Ecdh ---------------------------------
(***************************************************************************)
(* The operations of ECDHManager (citrate_sdk/ecdh_real.py) as operators.  *)
(* secp256k1 is replaced by a curve of the same form, y^2 = x^3 + 7 mod P  *)
(* with P = 3 mod 4 and a group of prime order N generated by G, so that   *)
(* the code's square root (y^2)^((P+1)/4), its parity choice and its      *)
(* length dispatch behave as they do on secp256k1.                         *)
(*                                                                         *)
(* A byte string is abstracted to its length and the integers the code     *)
(* reads from it: a public key to [len, prefix, x, y] (prefix is byte 0,   *)
(* x and y the big-endian integers at the code's offsets), a private key   *)
(* to [len, val].  The library calls (public_key(), exchange, HKDF, ECDSA) *)
(* are modelled by what they compute or check.                            *)
(***************************************************************************)
EXTENDS Integers, Outcome

CONSTANTS P, N, G

ASSUME P % 4 = 3 /\ N \in Nat \ {0, 1}

Infinity == <<-1, -1>>

RECURSIVE PowMod(_, _)
PowMod(b, e) ==
  IF e = 0 THEN 1
  ELSE LET h == PowMod(b, e \div 2)
       IN  IF e % 2 = 0 THEN (h * h) % P ELSE (h * h * b) % P

(* What EllipticCurvePublicNumbers(x, y).public_key() accepts. *)
OnCurve(pt) ==
  /\ pt[1] \in 0..P-1 /\ pt[2] \in 0..P-1
  /\ (pt[2] * pt[2] - pt[1] * pt[1] * pt[1] - 7) % P = 0

PointAdd(p1, p2) ==
  CASE p1 = Infinity -> p2
    [] p2 = Infinity -> p1
    [] p1[1] = p2[1] /\ (p1[2] + p2[2]) % P = 0 -> Infinity
    [] OTHER ->
         LET l == IF p1 = p2
                  THEN (3 * p1[1] * p1[1] * PowMod(2 * p1[2], P - 2)) % P
                  ELSE ((p2[2] - p1[2]) * PowMod((p2[1] - p1[1]) % P, P - 2)) % P
             x == (l * l - p1[1] - p2[1]) % P
         IN  <<x, (l * (p1[1] - x) - p1[2]) % P>>

(* k * pt by double-and-add (the library's result, in log k additions). *)
RECURSIVE ScalarMult(_, _)
ScalarMult(k, pt) ==
  IF k = 0 THEN Infinity
  ELSE LET h == ScalarMult(k \div 2, pt)
           d == PointAdd(h, h)
       IN  IF k % 2 = 0 THEN d ELSE PointAdd(d, pt)

ASSUME OnCurve(G) /\ ScalarMult(N, G) = Infinity

Enc(len, prefix, x, y) == [len |-> len, prefix |-> prefix, x |-> x, y |-> y]
NoKeyBytes == [len |-> -1, val |-> 0]          \* private_key_bytes=None

(* Defect variant: no range check on the decoded value. *)
LoadOutcomesNoRange(kb, Scalars) ==
  IF kb.len <= 0 THEN {Ok(d) : d \in Scalars}
  ELSE IF kb.len # 32 THEN {Err("CitrateError")}
  ELSE {Ok(kb.val)}

(* __init__: any falsy argument (None or b'') generates a key; otherwise  *)
(* the length check, then derive_private_key, which raises ValueError     *)
(* for a value outside 1..N-1.  The set of outcomes, one per generated    *)
(* key in Scalars.                                                        *)
LoadOutcomes(kb, Scalars) ==
  IF kb.len <= 0 THEN {Ok(d) : d \in Scalars}
  ELSE IF kb.len # 32 THEN {Err("CitrateError")}
  ELSE IF kb.val \notin 1..N-1 THEN {Err("ValueError")}
  ELSE {Ok(kb.val)}

PublicKey(d) == ScalarMult(d, G)

(* get_public_key_compressed: the 32 bytes of x only. *)
GetPublicKeyCompressed(pub) == Enc(32, 0, pub[1], 0)

GetPublicKeyUncompressed(pub) == Enc(65, 4, pub[1], pub[2])

(* _recover_y_coordinate: the square root by exponentiation, then P - y   *)
(* when its parity is not the one asked for.                              *)
(* Defect variant: the exponent (P-1)/4, which is no square root.        *)
RecoverYWrongRoot(x, isOdd) ==
  LET y == PowMod((PowMod(x, 3) + 7) % P, (P - 1) \div 4)
  IN  IF (y % 2 = 1) # isOdd THEN P - y ELSE y

(* Defect variant: the parity test inverted. *)
RecoverYParityFlipped(x, isOdd) ==
  LET y == PowMod((PowMod(x, 3) + 7) % P, (P + 1) \div 4)
  IN  IF (y % 2 = 1) = isOdd THEN P - y ELSE y

RecoverY(x, isOdd) ==
  LET y == PowMod((PowMod(x, 3) + 7) % P, (P + 1) \div 4)
  IN  IF (y % 2 = 1) # isOdd THEN P - y ELSE y

(* The length dispatch of perform_ecdh; Infinity for a rejected key. *)
DecodeForEcdh(e) ==
  CASE e.len = 32 -> <<e.x, RecoverY(e.x, FALSE)>>
    [] e.len = 33 /\ e.prefix \in {2, 3} -> <<e.x, RecoverY(e.x, e.prefix = 3)>>
    [] e.len = 65 /\ e.prefix = 4 -> <<e.x, e.y>>
    [] OTHER -> Infinity

(* perform_ecdh: every failure, the code's own included, is re-raised as  *)
(* CitrateError; the result is the x-coordinate of d * Q.                *)
PerformEcdh(d, e) ==
  LET q == DecodeForEcdh(e)
  IN  IF q = Infinity \/ ~OnCurve(q) THEN Err("CitrateError")
      ELSE Ok(ScalarMult(d, q)[1])

(* HKDF-SHA256 as an injective function of its inputs. *)
Hkdf(ikm, salt, info) == [ikm |-> ikm, salt |-> salt, info |-> info]

DeriveSharedSecret(d, e, salt, info) ==
  LET s == PerformEcdh(d, e)
  IN  IF s.err # "none" THEN s ELSE Ok(Hkdf(s.val, salt, info))

(* derive_shared_key of lattice_sdk's KeyManager: the whole peer key read *)
(* as one big-endian integer x, the point (x, 0), exchange, then HKDF.   *)
(* A key longer than 32 bytes with a nonzero first byte reads as an      *)
(* integer of at least P; P stands for it.                               *)
FromBytes(e) == IF e.len <= 32 \/ e.prefix = 0 THEN e.x ELSE P

LatticeDeriveSharedKey(d, e) ==
  LET q == <<FromBytes(e), 0>>
  IN  IF ~OnCurve(q) THEN Err("LatticeError")
      ELSE Ok(Hkdf(ScalarMult(d, q)[1], "lattice-model-encryption", "shared-key-derivation"))

(* sign_message: an ECDSA signature is abstracted to what verification   *)
(* checks, the signer's public point and the message.                    *)
SignMessage(d, m) == [signer |-> PublicKey(d), msg |-> m]

(* The length dispatch of verify_signature: 33 and 65 bytes only, and no  *)
(* check of the prefix byte in either branch.                            *)
DecodeForVerify(e) ==
  CASE e.len = 33 -> <<e.x, RecoverY(e.x, e.prefix = 3)>>
    [] e.len = 65 -> <<e.x, e.y>>
    [] OTHER -> Infinity

VerifySignature(m, sig, e) ==
  LET q == DecodeForVerify(e)
  IN  q # Infinity /\ OnCurve(q) /\ sig.signer = q /\ sig.msg = m
=============================================================================
