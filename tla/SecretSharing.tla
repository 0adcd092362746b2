---------------------------- MODULE SecretSharing ----------------------------
(***************************************************************************)
(* The secret sharing engine in use: a dealer splits a secret with         *)
(* split_secret_bytes(secret, t, n); share holders may alter a share; a    *)
(* caller reconstructs from a list of shares in the order it supplies      *)
(* them with reconstruct_secret_bytes(shares, t), or checks a list with    *)
(* verify_shares.  The dealt shares stay; every later call sees them.      *)
(***************************************************************************)
EXTENDS Shamir, FiniteSets

CONSTANTS
  Secrets,     \* secrets a dealer may split (byte sequences)
  Thresholds,  \* values of t the dealer may pass
  Totals,      \* values of n the dealer may pass
  Coeffs,      \* values random.randint(0, 255) may draw in a run
  MaxList,     \* longest share list a caller passes
  MaxTamper    \* how many shares may be altered after dealing

ASSUME /\ Coeffs \subseteq Elems
       /\ MaxList \in Nat /\ MaxTamper \in Nat

VARIABLES
  scheme,      \* [t, n] of the dealt shares, or NoScheme before dealing
  secret,      \* the secret that was split
  shares,      \* the dealt shares, share k has x = k
  tampered,    \* indices of the shares that were altered
  splitError,  \* the ValueError of the last rejected split, or "none"
  last         \* the last reconstruct or verify call and its result

vars == <<scheme, secret, shares, tampered, splitError, last>>

NoScheme == [t |-> 0, n |-> 0]
NoCall   == [kind |-> "none", list |-> <<>>, out |-> Ok(<<>>)]

(* The share lists a caller may pass: indices of dealt shares, in any     *)
(* order, with repetitions, of length 0..MaxList.                         *)
Lists(n) == UNION {[1..m -> 1..n] : m \in 0..MaxList}

Pick(list) == [j \in 1..Len(list) |-> shares[list[j]]]

Init ==
  /\ scheme = NoScheme
  /\ secret = <<>>
  /\ shares = <<>>
  /\ tampered = {}
  /\ splitError = "none"
  /\ last = NoCall

(* split_secret_bytes: the constructor checks t and n, then every share   *)
(* is evaluated with coefficients drawn for it alone.                     *)
Split ==
  \E s \in Secrets, t \in Thresholds, n \in Totals :
    LET bad == CheckParams(t, n) IN
    /\ scheme = NoScheme
    /\ IF bad # "none"
       THEN /\ splitError' = bad
            /\ UNCHANGED <<scheme, secret, shares>>
       ELSE \E draws \in Draws(s, t, n, Coeffs) :
              /\ scheme' = [t |-> t, n |-> n]
              /\ secret' = s
              /\ shares' = SplitSecret(s, n, draws)
              /\ splitError' = "none"
    /\ UNCHANGED <<tampered, last>>

(* A holder changes one byte of the y of a share it holds. *)
Tamper ==
  \E k \in 1..scheme.n \ tampered, v \in Coeffs :
    \E b \in 1..Len(secret) :
      /\ scheme # NoScheme
      /\ Cardinality(tampered) < MaxTamper
      /\ v # shares[k].y[b]
      /\ shares' = [shares EXCEPT ![k].y[b] = v]
      /\ tampered' = tampered \cup {k}
      /\ UNCHANGED <<scheme, secret, splitError, last>>

(* reconstruct_secret_bytes(shares, t) with the threshold of the scheme. *)
Reconstruct ==
  \E list \in Lists(scheme.n) :
    /\ scheme # NoScheme
    /\ last' = [kind |-> "reconstruct", list |-> list,
                out |-> ReconstructSecretBytes(Pick(list), scheme.t)]
    /\ UNCHANGED <<scheme, secret, shares, tampered, splitError>>

(* verify_shares(shares) on an object built with the scheme's t and n. *)
Verify ==
  \E list \in Lists(scheme.n) :
    /\ scheme # NoScheme
    /\ last' = [kind |-> "verify", list |-> list,
                out |-> Ok(VerifyShares(Pick(list), scheme.t))]
    /\ UNCHANGED <<scheme, secret, shares, tampered, splitError>>

Next == Split \/ Tamper \/ Reconstruct \/ Verify

Spec == Init /\ [][Next]_vars

-----------------------------------------------------------------------------
TypeOK ==
  /\ scheme \in [t : Thresholds \cup {0}, n : Totals \cup {0}]
  /\ secret \in Secrets \cup {<<>>}
  /\ shares \in Seq([x : 1..255, y : Seq(Elems)])
  /\ tampered \subseteq DOMAIN shares
  /\ splitError \in {"none", "ThresholdNotPositive", "ThresholdExceedsTotal",
                     "TooManyShares"}
  /\ last.kind \in {"none", "reconstruct", "verify"}

Distinct(s) == \A i, j \in DOMAIN s : i # j => s[i] # s[j]

(* Round trip (spec 8): reconstructing from t or more distinct unaltered  *)
(* shares of one split, in any order, gives back the secret that was      *)
(* split.  split_secret draws the coefficients once per share instead of  *)
(* once per byte position, so the shares do not lie on one polynomial.   *)
RoundTrip ==
  (last.kind = "reconstruct" /\ Len(last.list) >= scheme.t
     /\ Distinct(SubSeq(last.list, 1, scheme.t))
     /\ \A j \in 1..Len(last.list) : last.list[j] \notin tampered)
    => last.out = Ok(secret)

(* Fewer than t shares reveal nothing (data model, threshold scheme): in  *)
(* every dealing, for every set of fewer than t shares and every other    *)
(* secret of the same length, some draw of the coefficients would have    *)
(* dealt those very shares for that other secret.  A share that fixed the *)
(* secret, for instance one dealt with no random coefficient, breaks it.  *)
(* Checked on the dealing step (the shares are fixed from then on).       *)
RevealsNothing(sch, sec, shs) ==
  \A S \in SUBSET (1..sch.n) :
    Cardinality(S) < sch.t =>
      \A s2 \in {z \in Secrets : Len(z) = Len(sec)} :
        \E d \in [S -> [1..Len(s2) -> [1..sch.t-1 -> Elems]]] :
          \A k \in S : EvaluateAtPoint(s2, k, d[k]) = shs[k].y

DealtSharesRevealNothing ==
  [][scheme = NoScheme /\ scheme' # NoScheme
       => RevealsNothing(scheme', secret', shares')]_vars

(* reconstruct_secret_bytes has no duplicate check of its own: a repeated *)
(* x-coordinate among the t shares it uses is caught only by the zero     *)
(* denominator of _lagrange_interpolation, which runs once per byte.      *)
(* Whenever it returns a secret of at least one byte, those t shares had *)
(* distinct x; for an empty secret no interpolation runs and a repeated  *)
(* share is accepted.                                                     *)
ReconstructionUsedDistinctShares ==
  (last.kind = "reconstruct" /\ last.out.err = "none" /\ last.out.val # <<>>)
    => Distinct(SubSeq(last.list, 1, scheme.t))
=============================================================================
