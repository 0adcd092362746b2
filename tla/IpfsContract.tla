----------------------------- MODULE IpfsContract -----------------------------
(***************************************************************************)
(* What IPFSManager of citrate_sdk/ipfs.py promises its caller, with every *)
(* call one request and one atomic outcome.  `store` is the content some  *)
(* node of the manager holds pinned; `call` is the call in progress.       *)
(*   - an upload may store its data (on one node or several) before it    *)
(*     returns, and returns the CID of its data only once it is stored;   *)
(*   - a download returns only content that is stored, under its own CID; *)
(*   - either call may fail instead, an upload after storing or not;      *)
(*   - nothing else is ever stored, and nothing is ever lost.              *)
(* The caller consumes the outcome and the manager is idle again.          *)
(***************************************************************************)
EXTENDS Outcome

VARIABLES store, call

Cid(d) == <<"cid", d>>
Idle   == [st |-> "idle", arg |-> <<>>, out |-> Ok(<<>>)]

Init == store = {} /\ call = Idle

Begin ==
  /\ call.st = "idle"
  /\ call'.st \in {"upload", "download"} /\ call'.out = Ok(<<>>)
  /\ UNCHANGED store

Store ==
  /\ call.st = "upload"
  /\ store' = store \cup {Cid(call.arg)}
  /\ UNCHANGED call

UploadReturns ==
  /\ call.st = "upload" /\ Cid(call.arg) \in store
  /\ call' = [call EXCEPT !.st = "done", !.out = Ok(Cid(call.arg))]
  /\ UNCHANGED store

DownloadReturns ==
  /\ call.st = "download" /\ call.arg \in store
  /\ call' = [call EXCEPT !.st = "done", !.out = Ok(call.arg)]
  /\ UNCHANGED store

Fails ==
  /\ call.st \in {"upload", "download"}
  /\ call'.st = "done" /\ call'.arg = call.arg /\ call'.out.err # "none"
  /\ \/ store' = store
     \/ call.st = "upload" /\ store' = store \cup {Cid(call.arg)}

Finish ==
  /\ call.st = "done"
  /\ call' = Idle
  /\ UNCHANGED store

Next == Begin \/ Store \/ UploadReturns \/ DownloadReturns \/ Fails \/ Finish

Spec == Init /\ [][Next]_<<store, call>>
=============================================================================
