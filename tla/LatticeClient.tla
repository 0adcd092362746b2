---------------------------- MODULE LatticeClient ----------------------------
(***************************************************************************)
(* LatticeClient.deploy_model (lattice_sdk/client.py) composed with the   *)
(* IPFS manager it uploads through, one JSON-RPC node that mines, and a   *)
(* download of a deployed model.  The program is one thread: pc is the    *)
(* call it is in.  Every RPC may fail with a network error; the reply of  *)
(* eth_sendRawTransaction may be lost after the node accepted the         *)
(* transaction.  A transaction is abstracted to the fields the properties  *)
(* read: nonce, the IPFS reference and the model; its hash is itself.     *)
(* _wait_for_receipt's 60 one-second polls are Timeout polls.             *)
(***************************************************************************)
EXTENDS IpfsManager, FiniteSets

CONSTANTS
  Models,      \* model files a caller calls, model values
  MaxCalls,    \* SDK calls (deploy, inference, purchase) in a run
  Timeout      \* polls of _wait_for_receipt before "Transaction timeout"

VARIABLES
  pc,          \* "idle", a step of deploy_model, or "download"
  dep,         \* the call's locals: kind, enc, model, data, ref, nonce, tx, polls
  calls,       \* SDK calls so far
  mempool,     \* transactions the node accepted and has not mined
  chain,       \* mined transactions with their receipt status, in order
  returned,    \* results returned: ModelDeployment, InferenceResult, purchase tx hash
  keyManager,  \* self.key_manager is set: the client was given a private key
  seenDown     \* (history) the nodes that were down at some moment of the current download

vars == <<ipfsVars, pc, dep, calls, mempool, chain, returned, keyManager, seenDown>>

NoDep == [kind |-> "none", enc |-> FALSE, model |-> NoClient, data |-> <<>>, ref |-> <<>>, nonce |-> 0, tx |-> <<>>, polls |-> 0]

(* The data deploy_model uploads: the model, or encrypt_model's output     *)
(* under a fresh key (distinct for every call).                          *)
Payload(m, enc) == IF enc THEN <<"ct", m, calls>> ELSE m
Fallback(d)     == <<"fallback", d>>
Held(c)         == \E n \in Nodes : up[n] /\ c \in pinned[n]

(* LatticeClient(rpc_url, private_key): a KeyManager when a private key  *)
(* is given, else None; the request ids only number requests.            *)
KeyManagerGiven == BOOLEAN

Init ==
  /\ IpfsInit /\ keyManager \in KeyManagerGiven
  /\ pc = "idle" /\ dep = NoDep /\ calls = 0
  /\ mempool = {} /\ chain = <<>> /\ returned = {} /\ seenDown = {}

(* A raised LatticeError ends the call. *)
Raise == pc' = "idle" /\ dep' = NoDep

(* deploy_model: hash, encrypt_model when config.encrypted, then          *)
(* _upload_to_ipfs, i.e. upload_to_ipfs(data) through the manager.       *)
DeployStart(m, enc) ==
  /\ pc = "idle" /\ calls < MaxCalls /\ keyManager
  /\ UploadStart(Payload(m, enc))
  /\ pc' = "upload"
  /\ dep' = [NoDep EXCEPT !.kind = "deploy", !.enc = enc, !.model = m, !.data = Payload(m, enc)]
  /\ calls' = calls + 1
  /\ UNCHANGED <<mempool, chain, returned, seenDown, keyManager>>

(* inference(model_id, input_data, encrypted) of a deployed model: the   *)
(* input goes through encrypt_data when encrypted, then the transaction.  *)
InferenceStart(r, enc) ==
  /\ pc = "idle" /\ calls < MaxCalls /\ r.kind = "deploy" /\ keyManager
  /\ pc' = "nonce"
  /\ dep' = [NoDep EXCEPT !.kind = "inference", !.enc = enc, !.model = r.model, !.ref = r.ref]
  /\ calls' = calls + 1
  /\ UNCHANGED <<ipfsVars, mempool, chain, returned, seenDown, keyManager>>

(* purchase_model_access(model_id, payment_amount): one transaction, whose *)
(* hash is returned without waiting for a receipt.                       *)
PurchaseStart(r) ==
  /\ pc = "idle" /\ calls < MaxCalls /\ r.kind = "deploy" /\ keyManager
  /\ pc' = "nonce"
  /\ dep' = [NoDep EXCEPT !.kind = "purchase", !.model = r.model, !.ref = r.ref]
  /\ calls' = calls + 1
  /\ UNCHANGED <<ipfsVars, mempool, chain, returned, seenDown, keyManager>>

Result == [kind |-> dep.kind, tx |-> dep.tx, ref |-> dep.ref, model |-> dep.model]

(* Without a key_manager, deploy_model and purchase_model_access raise    *)
(* "Private key required" first, and inference reaches _send_transaction, *)
(* which raises the same before any request.                              *)
NoKeyCall ==
  /\ pc = "idle" /\ calls < MaxCalls /\ ~keyManager
  /\ calls' = calls + 1
  /\ UNCHANGED <<ipfsVars, pc, dep, mempool, chain, returned, keyManager, seenDown>>

(* _upload_to_ipfs: any exception becomes the local hash fallback. *)
Uploaded ==
  /\ pc = "upload" /\ ipfs.op = "done"
  /\ dep' = [dep EXCEPT !.ref = IF ipfs.out.err = "none" THEN ipfs.out.val ELSE Fallback(dep.data)]
  /\ ipfs' = Idle
  /\ pc' = "nonce"
  /\ UNCHANGED <<up, pinned, active, flips, calls, mempool, chain, returned, seenDown, keyManager>>

(* Defect variant: the count read at "latest", the mined ones only. *)
GetNonceLatest ==
  /\ pc = "nonce"
  /\ \/ /\ dep' = [dep EXCEPT !.nonce = Len(chain)]
        /\ pc' = "send"
     \/ Raise
  /\ UNCHANGED <<ipfsVars, calls, mempool, chain, returned, seenDown, keyManager>>

(* _send_transaction: get_nonce(address) reads eth_getTransactionCount   *)
(* at "pending": the mined and the pending transactions.                 *)
GetNonce ==
  /\ pc = "nonce"
  /\ \/ /\ dep' = [dep EXCEPT !.nonce = Len(chain) + Cardinality(mempool)]
        /\ pc' = "send"
     \/ Raise
  /\ UNCHANGED <<ipfsVars, calls, mempool, chain, returned, seenDown, keyManager>>

(* sign_transaction, then eth_sendRawTransaction. *)
Send ==
  /\ pc = "send"
  /\ LET tx == [kind |-> dep.kind, nonce |-> dep.nonce, ref |-> dep.ref, model |-> dep.model] IN
     \/ /\ mempool' = mempool \cup {tx}
        /\ \/ /\ dep.kind # "purchase"
              /\ pc' = "poll"
              /\ dep' = [dep EXCEPT !.tx = tx, !.polls = 0]
              /\ UNCHANGED returned
           \/ /\ dep.kind = "purchase"
              /\ returned' = returned \cup {[Result EXCEPT !.tx = tx]}
              /\ pc' = "idle" /\ dep' = NoDep
           \/ Raise /\ UNCHANGED returned   \* the reply is lost
     \/ /\ Raise                            \* the request never arrives
        /\ UNCHANGED <<mempool, returned>>
  /\ UNCHANGED <<ipfsVars, calls, chain, seenDown, keyManager>>

Mined(tx) == {k \in 1..Len(chain) : chain[k].tx = tx}

(* Defect variant: the elapsed time is measured from each poll, so the   *)
(* loop never times out.                                                 *)
PollNoTimeout ==
  /\ pc = "poll"
  /\ \/ Mined(dep.tx) # {} /\ pc' = "extract" /\ UNCHANGED dep
     \/ UNCHANGED <<pc, dep>>
  /\ UNCHANGED <<ipfsVars, calls, mempool, chain, returned, seenDown, keyManager>>

(* Defect variant: the loop runs while elapsed <= timeout, one poll more. *)
PollOneMore ==
  /\ pc = "poll"
  /\ \/ Mined(dep.tx) # {} /\ pc' = "extract" /\ UNCHANGED dep
     \/ IF dep.polls < Timeout
        THEN dep' = [dep EXCEPT !.polls = @ + 1] /\ UNCHANGED pc
        ELSE Raise
  /\ UNCHANGED <<ipfsVars, calls, mempool, chain, returned, seenDown, keyManager>>

(* _wait_for_receipt: eth_getTransactionReceipt, a receipt when mined;   *)
(* a null result or a LatticeError costs one poll; at Timeout it raises.  *)
Poll ==
  /\ pc = "poll"
  /\ \/ /\ Mined(dep.tx) # {}
        /\ pc' = "extract"
        /\ UNCHANGED dep
     \/ /\ IF dep.polls + 1 < Timeout
           THEN dep' = [dep EXCEPT !.polls = @ + 1] /\ UNCHANGED pc
           ELSE Raise
  /\ UNCHANGED <<ipfsVars, calls, mempool, chain, returned, seenDown, keyManager>>

(* Defect variant: the result is read from the first log, without       *)
(* looking for the ModelDeployed or InferenceComplete topic.             *)
ExtractIgnoresStatus ==
  /\ pc = "extract"
  /\ returned' = returned \cup {Result}
  /\ pc' = "idle" /\ dep' = NoDep
  /\ UNCHANGED <<ipfsVars, calls, mempool, chain, seenDown, keyManager>>

(* decrypt_data of the output's "encrypted" package: the key inside it     *)
(* opens the ciphertext, or any failure becomes LatticeError.             *)
DecryptData == {Ok("output"), Err("LatticeError")}

(* _extract_model_id_from_receipt and _extract_inference_output: the     *)
(* ModelDeployed or InferenceComplete log is there only when the         *)
(* precompile succeeded.  An encrypted inference whose output carries an *)
(* "encrypted" package goes through decrypt_data, which raises when the  *)
(* package does not open.                                                *)
Extract ==
  /\ pc = "extract"
  /\ LET r == chain[CHOOSE k \in Mined(dep.tx) : TRUE] IN
     \/ /\ r.ok
        /\ \E out \in IF dep.kind = "inference" /\ dep.enc THEN DecryptData ELSE {Ok("output")} :
             IF out.err = "none"
             THEN returned' = returned \cup {Result} /\ pc' = "idle" /\ dep' = NoDep
             ELSE Raise /\ UNCHANGED returned
     \/ /\ ~r.ok
        /\ Raise
        /\ UNCHANGED returned
  /\ UNCHANGED <<ipfsVars, calls, mempool, chain, seenDown, keyManager>>

(* download_from_ipfs(ipfs_hash) of a deployed model's CID. *)
Download(c) ==
  /\ pc = "idle"
  /\ DownloadStart(c)
  /\ pc' = "download"
  /\ seenDown' = {n \in Nodes : ~up[n]}
  /\ UNCHANGED <<dep, calls, mempool, chain, returned, keyManager>>

Downloaded ==
  /\ pc = "download" /\ ipfs.op = "done"
  /\ ipfs' = Idle /\ pc' = "idle" /\ seenDown' = {}
  /\ UNCHANGED <<up, pinned, active, flips, dep, calls, mempool, chain, returned, keyManager>>

(* The node mines the pending transaction with the next nonce; the       *)
(* precompile may fail, which the receipt records.                       *)
Mine ==
  \E tx \in mempool, ok \in BOOLEAN :
    /\ tx.nonce = Len(chain)
    /\ chain' = Append(chain, [tx |-> tx, ok |-> ok])
    /\ mempool' = mempool \ {tx}
    /\ UNCHANGED <<ipfsVars, pc, dep, calls, returned, seenDown, keyManager>>

IpfsNodeStep(n) ==
  /\ Flip(n)
  /\ seenDown' = IF pc = "download" THEN seenDown \cup {m \in Nodes : ~up'[m]} ELSE seenDown
  /\ UNCHANGED <<pc, dep, calls, mempool, chain, returned, keyManager>>

ProgramStep ==
  \/ Uploaded \/ GetNonce \/ Send \/ Poll \/ Extract \/ Downloaded
  \/ (IpfsStep /\ UNCHANGED <<pc, dep, calls, mempool, chain, returned, seenDown, keyManager>>)

Next ==
  \/ \E m \in Models, enc \in BOOLEAN : DeployStart(m, enc)
  \/ \E r \in returned, enc \in BOOLEAN : InferenceStart(r, enc)
  \/ \E r \in returned : PurchaseStart(r)
  \/ NoKeyCall
  \/ \E r \in returned : r.kind = "deploy" /\ r.ref[1] = "cid" /\ Download(r.ref)
  \/ ProgramStep
  \/ Mine
  \/ \E n \in Nodes : IpfsNodeStep(n)

(* The program runs on: each of its steps (an RPC or HTTP request that    *)
(* returns or fails) is weakly fair.  The node and the IPFS nodes get no  *)
(* fairness: they may never mine or never come back.                    *)
Spec == Init /\ [][Next]_vars /\ WF_vars(ProgramStep)
-----------------------------------------------------------------------------

Phases == {"idle", "upload", "nonce", "send", "poll", "extract", "download"}

TypeOK ==
  /\ pc \in Phases
  /\ calls \in 0..MaxCalls
  /\ dep.polls \in 0..Timeout-1 /\ dep.model \in Models \cup {NoClient}
  /\ \A tx \in mempool : tx.nonce \in 0..MaxCalls /\ tx.model \in Models
  /\ \A k \in 1..Len(chain) : chain[k].ok \in BOOLEAN /\ chain[k].tx.nonce = k - 1
  /\ up \in [Nodes -> BOOLEAN] /\ active \in Nodes \cup {NoClient}
  /\ flips \in 0..MaxFlips /\ seenDown \subseteq Nodes

(* A ModelDeployment or InferenceResult the client returned names a       *)
(* transaction the node mined with its ModelDeployed or InferenceComplete *)
(* log, and a deployment's IPFS hash, unless it is the local fallback, is *)
(* pinned on some node: what the SDK reports done is on chain and its      *)
(* model can be fetched, whatever failed and was retried on the way.      *)
ReturnedResultIsDurable ==
  \A r \in returned :
    /\ r.kind # "purchase" => \E k \in Mined(r.tx) : chain[k].ok
    /\ r.ref[1] = "cid" => \E n \in Nodes : r.ref \in pinned[n]

(* IPFSManager.download raises only if every node holding the content   *)
(* was down at some moment of the call.  The holders need not have been  *)
(* down at the same time: the loop over the active client and then every *)
(* client may try each holder just while it is down, but a holder that   *)
(* stays up serves the first node the loop asks.                         *)
DownloadFailsOnlyIfHoldersWentDown ==
  (pc = "download" /\ ipfs.op = "done" /\ ipfs.out.err # "none")
    => {n \in Nodes : ipfs.data \in pinned[n]} \subseteq seenDown

(* No two transactions the node accepted carry the same nonce, so none   *)
(* replaces another or waits forever behind it.  get_nonce counts the     *)
(* pending transactions too, which covers a transaction whose             *)
(* eth_sendRawTransaction reply was lost and which the node still holds   *)
(* when the next call reads its nonce.                                   *)
AcceptedNoncesDistinct ==
  LET accepted == mempool \cup {chain[k].tx : k \in 1..Len(chain)} IN
  \A t1, t2 \in accepted : t1.nonce = t2.nonce => t1 = t2

(* The content the manager's current request needs from the network:    *)
(* pin/add of the uploaded data, cat of the downloaded CID.              *)
Awaited == IF ipfs.op = "upload" THEN Cid(ipfs.data) ELSE ipfs.data

(* The manager waits on a request without a timeout (pin/add of          *)
(* pin_file, cat of download_bytes, the active client's cat) for content  *)
(* no up node holds.                                                      *)
WaitsOnLostContent ==
  ipfs.phase \in {"pin", "cat", "active"} /\ ~Held(Awaited)

(* Every deploy_model, inference, purchase and download call returns or  *)
(* raises, even when the node never mines (_wait_for_receipt gives up    *)
(* after Timeout polls), unless from some moment on it waits forever in  *)
(* one request with no timeout for content no up node holds again.       *)
CallsTerminate ==
  pc # "idle" ~> (pc = "idle" \/ []WaitsOnLostContent)
=============================================================================
