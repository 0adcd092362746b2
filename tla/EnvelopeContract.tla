--------------------------- MODULE EnvelopeContract -------------------------
(***************************************************************************)
(* What the envelope encryption service promises (spec 3 and 4.4), stated  *)
(* without keys or ciphertexts: a vault of sealed payloads, each with its  *)
(* owner and whether it is still as it was sealed.                        *)
(*   - sealing either stores a new envelope or fails and stores nothing;  *)
(*   - the owner opening an intact envelope gets its payload back;        *)
(*   - nobody else ever gets a payload by the owner path;                 *)
(*   - any other opening (a damaged envelope, recovery from shares) gives *)
(*     the envelope's own payload or an error, never a wrong plaintext.   *)
(***************************************************************************)
EXTENDS Naturals, Sequences, Outcome

CONSTANTS Owners, Payloads, MaxEnvelopes

VARIABLES vault, answer

Sealed == Ok("sealed")
Failed == Err("failed")
Nobody == "nobody"   \* the caller of a share recovery, who holds no account key

Init == vault = <<>> /\ answer = [op |-> "none", env |-> 0, by |-> Nobody, out |-> Sealed]

Seal(o, pl) ==
  /\ Len(vault) < MaxEnvelopes
  /\ \/ /\ vault' = Append(vault, [owner |-> o, payload |-> pl, intact |-> TRUE])
        /\ answer' = [op |-> "encrypt", env |-> Len(vault) + 1, by |-> o, out |-> Sealed]
     \/ /\ answer' = [op |-> "encrypt", env |-> 0, by |-> o, out |-> Failed]
        /\ UNCHANGED vault

OpenAsOwner(i, who) ==
  LET e == vault[i] IN
  \E out \in IF who # e.owner THEN {Failed}
             ELSE IF e.intact THEN {Ok(e.payload)}
             ELSE {Ok(e.payload), Failed} :
    /\ answer' = [op |-> "decrypt", env |-> i, by |-> who, out |-> out]
    /\ UNCHANGED vault

OpenFromShares(i) ==
  \E out \in {Ok(vault[i].payload), Failed} :
    /\ answer' = [op |-> "recover", env |-> i, by |-> Nobody, out |-> out]
    /\ UNCHANGED vault

Damage(i) ==
  /\ vault' = [vault EXCEPT ![i].intact = FALSE]
  /\ UNCHANGED answer

Next ==
  \/ \E o \in Owners, pl \in Payloads : Seal(o, pl)
  \/ \E i \in 1..Len(vault) :
       \/ \E who \in Owners : OpenAsOwner(i, who)
       \/ OpenFromShares(i)
       \/ Damage(i)

Spec == Init /\ [][Next]_<<vault, answer>>
=============================================================================
