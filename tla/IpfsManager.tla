----------------------------- MODULE IpfsManager -----------------------------
(***************************************************************************)
(* IPFSManager of citrate_sdk/ipfs.py: upload with fallback over the node *)
(* list and replication pins, download trying the active client first.    *)
(* Every HTTP request of the code is one step, and nodes go down and come *)
(* back between steps.  Content is addressed by its hash: Cid(d) names    *)
(* data d.  A node that is up answers; `cat` of content no up node holds  *)
(* does not answer (the code's post has no timeout) until a holder is up. *)
(* The manager is the singleton of get_ipfs_manager, whose node list is    *)
(* the one of its first call.                                             *)
(***************************************************************************)
EXTENDS Naturals, Sequences, Outcome

CONSTANTS
  IpfsUrls,   \* ipfs_urls of get_ipfs_manager's first call, <<>> for None
  DefaultUrls,\* its defaults: localhost:5001, then the Infura and Fleek nodes
  MaxFlips    \* node failures and recoveries in a run

VARIABLES
  up,         \* up[n]: node n answers requests
  pinned,     \* pinned[n]: the CIDs node n stores pinned
  active,     \* self.active_client
  flips,      \* node state changes so far
  ipfs        \* the manager call in progress (see Idle)

ipfsVars == <<up, pinned, active, flips, ipfs>>

(* get_ipfs_manager: the first call builds the manager, from ipfs_urls   *)
(* when it is non-empty (primary its head, fallbacks its tail), else from *)
(* the defaults; every later call returns that manager.  IPFSManager's    *)
(* clients are [self.primary] + self.fallbacks.                            *)
ManagerClients(urls) == IF urls # <<>> THEN urls ELSE DefaultUrls

Clients  == ManagerClients(IpfsUrls)
Nodes    == {Clients[k] : k \in 1..Len(Clients)}
NoClient == "none"
NoErr    == "none"
Cid(d)   == <<"cid", d>>

(* op: "idle", "upload", "download", or "done" with the call's outcome in *)
(* out; i indexes the client loop, j the replication loop, err is        *)
(* last_error, phase the next request of the call.                       *)
Idle == [op |-> "idle", data |-> <<>>, i |-> 1, j |-> 1, phase |-> "none",
         err |-> NoErr, out |-> Ok(<<>>)]

IpfsInit ==
  /\ up = [n \in Nodes |-> TRUE]
  /\ pinned = [n \in Nodes |-> {}]
  /\ active = NoClient
  /\ flips = 0
  /\ ipfs = Idle

Node == Clients[ipfs.i]

(* The loop's next client after one that was unavailable (e = NoErr) or   *)
(* raised IPFSError; after the last, raise last_error, or "No IPFS nodes  *)
(* available" when no client raised.                                      *)
Advance(e) ==
  LET err == IF e = NoErr THEN ipfs.err ELSE e IN
  IF ipfs.i < Len(Clients)
  THEN [ipfs EXCEPT !.i = @ + 1, !.phase = "avail", !.err = err]
  ELSE [ipfs EXCEPT !.op = "done", !.phase = "none",
                    !.out = Err(IF err = NoErr THEN "NoNodes" ELSE err)]

(* upload(data) *)
UploadStart(d) ==
  /\ ipfs.op = "idle"
  /\ ipfs' = [Idle EXCEPT !.op = "upload", !.data = d, !.phase = "avail"]
  /\ UNCHANGED <<up, pinned, active, flips>>

(* client.is_available(): /api/v0/version, False when the node is down. *)
UpAvail ==
  /\ ipfs.op = "upload" /\ ipfs.phase = "avail"
  /\ ipfs' = IF up[Node] THEN [ipfs EXCEPT !.phase = "add"] ELSE Advance(NoErr)
  /\ UNCHANGED <<up, pinned, active, flips>>

(* Defect variant: /api/v0/add without pin=true, so the data is not kept. *)
UpAddNoPin ==
  /\ ipfs.op = "upload" /\ ipfs.phase = "add"
  /\ \/ up[Node] /\ \/ ipfs' = [ipfs EXCEPT !.phase = "verify"]
                    \/ ipfs' = Advance("IPFSError")
     \/ ~up[Node] /\ ipfs' = Advance("IPFSError")
  /\ UNCHANGED <<up, pinned, active, flips>>

(* upload_bytes: /api/v0/add with pin=true.  A node that stored the data  *)
(* may still fail to deliver its answer, which the code sees as a         *)
(* connection error.                                                      *)
UpAdd ==
  /\ ipfs.op = "upload" /\ ipfs.phase = "add"
  /\ \/ /\ up[Node]
        /\ pinned' = [pinned EXCEPT ![Node] = @ \cup {Cid(ipfs.data)}]
        /\ \/ ipfs' = [ipfs EXCEPT !.phase = "verify"]
           \/ ipfs' = Advance("IPFSError")
     \/ /\ ~up[Node]
        /\ ipfs' = Advance("IPFSError")
        /\ UNCHANGED pinned
  /\ UNCHANGED <<up, active, flips>>

(* _verify_upload: /api/v0/object/stat; then active_client is set and the *)
(* replication loop starts.                                              *)
UpVerify ==
  /\ ipfs.op = "upload" /\ ipfs.phase = "verify"
  /\ IF up[Node]
     THEN /\ active' = Node
          /\ ipfs' = [ipfs EXCEPT !.phase = "replicate", !.j = 1]
     ELSE /\ ipfs' = Advance("IPFSError")
          /\ UNCHANGED active
  /\ UNCHANGED <<up, pinned, flips>>

(* _replicate_to_other_nodes: is_available of every other client, then   *)
(* pin_file, whose result and errors are ignored; then the upload returns *)
(* the hash.                                                              *)
UpReplicate ==
  /\ ipfs.op = "upload" /\ ipfs.phase = "replicate"
  /\ ipfs' = IF ipfs.j > Len(Clients)
             THEN [ipfs EXCEPT !.op = "done", !.phase = "none", !.out = Ok(Cid(ipfs.data))]
             ELSE IF Clients[ipfs.j] # Node /\ up[Clients[ipfs.j]]
             THEN [ipfs EXCEPT !.phase = "pin"]
             ELSE [ipfs EXCEPT !.j = @ + 1]
  /\ UNCHANGED <<up, pinned, active, flips>>

(* Node n can serve c: n is up and some up node holds c (n fetches it    *)
(* from the network when it does not hold it itself).                   *)
Serves(n, c) == up[n] /\ \E m \in Nodes : up[m] /\ c \in pinned[m]

(* pin_file: /api/v0/pin/add, with no timeout.  A node that is down fails *)
(* the post (False); one that is up fetches the content and pins it, and  *)
(* does not answer while no up node holds it: no step.                    *)
UpPin ==
  /\ ipfs.op = "upload" /\ ipfs.phase = "pin"
  /\ LET m == Clients[ipfs.j] IN
     \/ ~up[m] /\ UNCHANGED pinned
     \/ Serves(m, Cid(ipfs.data)) /\ pinned' = [pinned EXCEPT ![m] = @ \cup {Cid(ipfs.data)}]
  /\ ipfs' = [ipfs EXCEPT !.phase = "replicate", !.j = @ + 1]
  /\ UNCHANGED <<up, active, flips>>

(* download(ipfs_hash) *)
DownloadStart(c) ==
  /\ ipfs.op = "idle"
  /\ ipfs' = [Idle EXCEPT !.op = "download", !.data = c,
                          !.phase = IF active # NoClient THEN "active" ELSE "avail"]
  /\ UNCHANGED <<up, pinned, active, flips>>

(* Defect variant: an IPFSError of the active client is raised, not     *)
(* passed over to the other clients.                                     *)
DownActiveNoFallback ==
  /\ ipfs.op = "download" /\ ipfs.phase = "active"
  /\ \/ /\ Serves(active, ipfs.data)
        /\ ipfs' = [ipfs EXCEPT !.op = "done", !.phase = "none", !.out = Ok(ipfs.data)]
     \/ /\ ~up[active]
        /\ ipfs' = [ipfs EXCEPT !.op = "done", !.phase = "none", !.out = Err("IPFSError")]
  /\ UNCHANGED <<up, pinned, active, flips>>

(* The active client first; any IPFSError of it is passed over.  A node  *)
(* that is up but finds no holder does not answer: no step.             *)
DownActive ==
  /\ ipfs.op = "download" /\ ipfs.phase = "active"
  /\ \/ /\ Serves(active, ipfs.data)
        /\ ipfs' = [ipfs EXCEPT !.op = "done", !.phase = "none", !.out = Ok(ipfs.data)]
     \/ /\ ~up[active]
        /\ ipfs' = [ipfs EXCEPT !.phase = "avail", !.i = 1]
  /\ UNCHANGED <<up, pinned, active, flips>>

(* Defect variant: an unavailable client is asked again instead of the  *)
(* loop moving on to the next one.                                       *)
DownAvailNoAdvance ==
  /\ ipfs.op = "download" /\ ipfs.phase = "avail"
  /\ ipfs' = IF up[Node] THEN [ipfs EXCEPT !.phase = "cat"] ELSE ipfs
  /\ UNCHANGED <<up, pinned, active, flips>>

DownAvail ==
  /\ ipfs.op = "download" /\ ipfs.phase = "avail"
  /\ ipfs' = IF up[Node] THEN [ipfs EXCEPT !.phase = "cat"] ELSE Advance(NoErr)
  /\ UNCHANGED <<up, pinned, active, flips>>

(* download_bytes: /api/v0/cat. *)
DownCat ==
  /\ ipfs.op = "download" /\ ipfs.phase = "cat"
  /\ \/ /\ Serves(Node, ipfs.data)
        /\ ipfs' = [ipfs EXCEPT !.op = "done", !.phase = "none", !.out = Ok(ipfs.data)]
     \/ /\ ~up[Node]
        /\ ipfs' = Advance("IPFSError")
  /\ UNCHANGED <<up, pinned, active, flips>>

(* The manager's own steps, each one HTTP request of the code. *)
IpfsStep == UpAvail \/ UpAdd \/ UpVerify \/ UpReplicate \/ UpPin
            \/ DownActive \/ DownAvail \/ DownCat

(* A node goes down or comes back (its pins survive). *)
Flip(n) ==
  /\ flips < MaxFlips
  /\ up' = [up EXCEPT ![n] = ~@]
  /\ flips' = flips + 1
  /\ UNCHANGED <<pinned, active, ipfs>>
-----------------------------------------------------------------------------
(* The manager implements IpfsContract: the stored content is what some   *)
(* node holds pinned, and the call is the manager's call with its outcome. *)
Contract == INSTANCE IpfsContract WITH
  store <- UNION {pinned[n] : n \in Nodes},
  call  <- [st |-> ipfs.op, arg |-> ipfs.data, out |-> ipfs.out]

(* Every upload and download, over the fallback loops, the lost replies  *)
(* of add, the replication pins and nodes failing between requests, is   *)
(* one of the contract's outcomes: an upload returns its CID only once   *)
(* some node pinned it, a download returns only pinned content, and      *)
(* nothing but uploaded data is ever pinned.                             *)
ImplementsIpfsContract == Contract!Spec
=============================================================================
