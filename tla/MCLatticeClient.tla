--------------------------- MODULE MCLatticeClient ---------------------------
EXTENDS LatticeClient

CONSTANTS c1, c2, c3, m1

(* LatticeClient calls upload_to_ipfs(data) and download_from_ipfs(cid)  *)
(* with no ipfs_urls: the manager has the three default nodes.            *)
MCIpfsUrls    == <<>>
MCDefaultUrls == <<c1, c2, c3>>
MCModels  == {m1}
=============================================================================
