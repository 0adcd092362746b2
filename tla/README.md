# TLA+ models of the citrate Python SDKs and tools

This directory models, in TLA+, the Python SDKs under
`src/citrate/sdks/python` and `src/lattice-v3/sdks/python`, and the publishing
tools under `src/citrate/tools`. TLC checks the models.

`PROJECT.json` lists:
- every definition that models code, with its source lines ("map");
- every run, with its mutants;
- the findings;
- the hazards the code is exposed to.

## 1. The system

| Part | Source | State | Operations |
|---|---|---|---|
| Field Engine | `lattice_sdk/finite_field.py` `GF256` | class tables `_exp_table`, `_log_table`, flag `_initialized`, shared by all threads | `_initialize_tables` (lazy, no lock), `_multiply_raw`, `multiply`, `divide`, `power`, `inverse` |
| Secret Sharing | `finite_field.py` `ShamirSecretSharing`, `split_secret_bytes`, `reconstruct_secret_bytes` | `threshold`, `total_shares` | split, per-point evaluation, reconstruction, Lagrange interpolation, `verify_shares` |
| Key Agreement | `citrate_sdk/ecdh_real.py` `ECDHManager`, and `KeyManager.derive_shared_key` of both `crypto.py` | one private key | key load/generation, exports, `perform_ecdh`, `derive_shared_secret`, sign, verify |
| Envelope Encryption | `citrate_sdk/crypto.py` and `lattice_sdk/crypto.py` `KeyManager` | envelopes held by the caller | `encrypt_model`, `decrypt_model`, key wrapping, key shares, `reconstruct_key_from_shares` |
| IPFS manager | `citrate_sdk/ipfs.py` `IPFSManager` | the node clients, `active_client` | `upload` (availability, add, verify, replication pins), `download` |
| Lattice client | `lattice_sdk/client.py` `LatticeClient` | the node's mempool and chain, seen through RPC | `deploy_model`, `inference`, `purchase_model_access`, `_send_transaction`, `_wait_for_receipt`, `download_from_ipfs` |
| Publishing tools | `tools/deploy_modern_model.py`, `tools/import_model.py` | the IPFS daemon's pins, `metadata.json` files, the chain registry | deploy (download, convert, hash, add, write metadata); import (`huggingface`, `deploy`, register) |

How the parts interact:
- The Envelope service encrypts a model. It wraps the data key with a key derived from the owner's account key, and splits the key with the Secret Sharing engine.
- The Secret Sharing engine's arithmetic is the Field Engine.
- The lattice client encrypts a model (optionally), uploads it through the IPFS manager, and sends a transaction carrying the CID. It then polls the node for the receipt.
- The tools pin content on a local IPFS daemon and register metadata on chain. Metadata written by one tool may be read by the other.

Two imports in the repository do not resolve:
- `lattice_sdk/client.py:16` imports `.ipfs`, which `lattice_sdk` does not ship. The model takes this to be `citrate_sdk/ipfs.py`.
- `citrate_sdk/crypto.py:18` imports `.finite_field`, which only `lattice_sdk` has. The model takes this to be `lattice_sdk/finite_field.py`.

## 2. Modules

| Module | Models | State (VARIABLES) and actions |
|---|---|---|
| `Outcome` | the results of calls | `Ok(v)` / `Err(name)` records, where `.err = "none"` means success |
| `GF256` | `GF256`, as pure operators over width `W`, polynomial `Poly` and generator `Gen` | `MultiplyRaw` (shift-and-add with `Bitwise`); the table loops as a blocked tuple-state recursion; `Multiply`, `Divide`, `Power` and `Inverse` with their early returns; reference definitions `RefPower`, `IsQuotient`, `IsInverse` |
| `FieldEngine` | the class tables used by `Threads` | `expT`, `logT`, `initialized`, plus per-thread `pc`/locals/`call`/`result`. Each statement of `_initialize_tables` is one step (`Check`, `AllocExp`, `AllocLog`, `FillExp`, `FillLog`, `LogZero`, `SetInit`). The exception is the overflow copy `exp[i] = exp[i - 255]`, which is two steps, `CopyRead` and `CopyWrite`, with the value read held in `lv`. CPython 3.8 and 3.9, which `setup.py` admits, can switch threads between the read and the store. `Compute` reads whatever tables are current. |
| `Shamir` | the Shamir code as operators over byte sequences | `CheckParams`, `SplitSecret` (one coefficient draw per point, as the code does), `LagrangeInterpolation`, `ReconstructSecret(Bytes)`, `VerifyShares` |
| `SecretSharing` | a caller dealing, altering and recombining shares | `Split`, `Tamper`, `Reconstruct` (any list of up to `MaxList` shares, in any order, repeats allowed), `Verify` |
| `LagrangeCheck` | `_lagrange_interpolation` against its definition | `Init` enumerates polynomials and point lists, including repeated x |
| `Ecdh` | `ECDHManager` on y² = x³ + 7 mod P with P ≡ 3 mod 4 and prime group order | `LoadOutcomes`, exports, `RecoverY`, `DecodeForEcdh`, `PerformEcdh`, `DeriveSharedSecret`, `LatticeDeriveSharedKey`, `SignMessage`, `VerifySignature` |
| `KeyAgreement` | two parties exchanging keys in every encoding | `Create`, `CreateKeyManager` (KeyManager's `_load_or_generate_key`), `Derive`, `KmDerive` (KeyManager.derive_shared_key with its fixed salt), `LatticeDerive`, `Sign`, `Verify` |
| `EnvelopeContract` | what the service promises (spec 3, 4.4) | a vault of sealed payloads: `Seal`, `OpenAsOwner`, `OpenFromShares`, `Damage` |
| `Envelope` | both `KeyManager`s writing one store | `envs`, `tampered`, `last`. `EncryptModel`, `DecryptModel` (and their lattice instances `LatticeEncryptModel`, `LatticeDecryptModel`), `RecoverFromShares` (share lists), and `Tamper` (fields altered or swapped between envelopes). Each action is the whole method. |
| `IpfsManager` | `IPFSManager`, with the node list of `get_ipfs_manager` (`ManagerClients`) | `up`, `pinned`, `active`, `flips`, `ipfs`. One step per HTTP request: `UpAvail`, `UpAdd`, `UpVerify`, `UpReplicate`, `UpPin`, `DownActive`, `DownAvail`, `DownCat`. `Flip(n)` takes a node down or brings it back. |
| `IpfsContract` | what `IPFSManager` promises its caller | `store` (content some node holds pinned) and `call`: `Begin`, `Store`, `UploadReturns`, `DownloadReturns`, `Fails`, `Finish` |
| `LatticeClient` | `LatticeClient` composed with `IpfsManager` and a mining node | `pc`, `dep`, `calls`, `mempool`, `chain`, `returned`, `keyManager` (set once, from the constructor's `private_key`), plus the history variable `seenDown` (the nodes down at some moment of the current download). Actions `NoKeyCall` (a keyless client raises), `DeployStart`, `InferenceStart`, `PurchaseStart`, `Uploaded`, `GetNonce`, `Send`, `Poll`, `Extract`, `Download`, `Downloaded`; the node's `Mine` and `IpfsNodeStep` |
| `ModelPublishing` | the two tools as two processes | `pinned`, `files`, `registry`, `dt`, `im`, `runs`. Deploy tool: `DtMain` (`DtRefused` when `check_dependencies` fails, else `DtStart`), `DtDownload`, `DtConvert`, `DtUpload`, `DtOpen`, `DtDump`. Importer: `ImConnectFails`, `ImStart`, `ImConvert`, `ImAdd`, `ImPin`, `ImMetadata`, `ImRegister`. `convert_to_coreml.py` as operators: `ConfigType`, `Convert`, `NeuralEngine`, `ConvertedPackages` |

How the models abstract the code:
- Cryptographic primitives (AES-GCM, HKDF, SHA-256, ECDSA) are symbolic constructors. Decryption fails unless the key and nonce match.
- Content is an injective tag of what it is the content of. A CID is `<<"cid", c>>` and a hash is `<<"sha256", c>>`.
- Every RPC, HTTP or subprocess call that can fail is a disjunct of its action.
- The `MC*` modules give the constants for each cfg.
- Each model has defect variants (e.g. `PollNoTimeout`) defined next to the definition they mutate. The mutants in `PROJECT.json` use them.

## 3. Runs

| Run | Module / cfg | Checks | Result |
|---|---|---|---|
| `fieldengine_gf256` | MCFieldEngine / `FieldEngine_gf256.cfg` | `TypeOK`, `ResultsAgreeWithReference`, `QuiescentTablesComplete` on the real field (W=8, 0x11b, generator 3), one thread | passes (~250k states) |
| `fieldengine_concurrent` | `FieldEngine_concurrent.cfg` | `QuiescentTablesComplete` with two threads initialising at once, W=2, thread symmetry | **violated** (finding 5) |
| `fieldengine_race` | `FieldEngine_race.cfg` | `ResultsAgreeWithReference` with two threads | **violated** (finding 2) |
| `lagrange` | MCLagrangeCheck / `LagrangeCheck.cfg` | `InterpolationRecoversConstantTerm`: distinct x give p(0); a repeated x gives the degenerate-points error | passes |
| `secretsharing_secrecy` | MCSecretSharing / `SecretSharing_secrecy.cfg` | `TypeOK`, `DealtSharesRevealNothing`: fewer than t shares are consistent with every secret; `ReconstructionUsedDistinctShares` | passes (~10k states) |
| `secretsharing_roundtrip` | `SecretSharing_roundtrip.cfg` | `RoundTrip` | **violated** (finding 1) |
| `keyagreement` | MCKeyAgreement / `KeyAgreement.cfg` | `TypeOK`; `EcdhSymmetry` (ECDH and KeyManager derivation agree both ways for every encoding and salt); `GenuineSignaturesVerify` | passes (~35k states, ~50 s) |
| `keyagreement_lattice_derive` | `KeyAgreement_LatticeDeriveAcceptsPeerKeys.cfg` | `LatticeDeriveAcceptsPeerKeys` | **violated** (finding 3) |
| `envelope` | MCEnvelope / `Envelope.cfg` | `TypeOK`; `ImplementsContract`, i.e. `EnvelopeContract!Spec` under the refinement mapping in `Envelope` | passes (~100k states, ~70 s) |
| `envelope_keyleak` | `Envelope_keyleak.cfg` | `KeyNeverInEnvelope` | **violated** (finding 4) |
| `latticeclient` | MCLatticeClient / `LatticeClient.cfg` | `TypeOK`; `ReturnedResultIsDurable`; `DownloadFailsOnlyIfHoldersWentDown`; `AcceptedNoncesDistinct`; `CallsTerminate` (liveness); `ImplementsIpfsContract`, i.e. `IpfsContract!Spec` under the refinement mapping in `IpfsManager` | passes (~420k states, ~70 s) |
| `publishing` | MCModelPublishing / `ModelPublishing.cfg` | `TypeOK`; `RegisteredMetadataDescribesPinnedContent` | passes (~67k states) |

What the properties of the passing runs say:
- `envelope`: envelopes are written by both SDKs into one store, and are opened by their owners, by other accounts, and from share lists. Stored fields are altered or swapped between envelopes. The refinement shows three things hold:
  - only the owner opens an envelope through the owner path;
  - the owner always opens an intact envelope;
  - no path ever yields a wrong plaintext.
- `latticeclient`, `ReturnedResultIsDurable`: a deployment or inference result that the client returns comes from a transaction that was mined with success. The CID of a returned deployment is pinned on some node.
- `latticeclient`, `DownloadFailsOnlyIfHoldersWentDown`: a download raises only if every node holding the content was down at some moment of the call. The holders need not be down at the same time: the loop may ask each holder just while it is down. A holder that stays up serves the first node the loop asks. This covers a stale `active_client` and nodes flipping between the availability check and `cat`.
- `latticeclient`, `AcceptedNoncesDistinct`: no two transactions in the mempool or on chain carry the same nonce. `get_nonce` reads the "pending" count, so a transaction whose `eth_sendRawTransaction` reply was lost still counts when the next call takes its nonce.
- `latticeclient`, `CallsTerminate`: every SDK call and every download returns or raises, even when the node never mines. There is one exception: the call waits forever in a request with no timeout (`pin/add` of `pin_file` during replication, or `cat`) for content that no up node ever holds again. A deploy whose upload already succeeded can hang in this way when its origin node goes down after the verify request.
- `latticeclient`, `ImplementsIpfsContract`: the HTTP-level `IPFSManager` refines the contract `IpfsContract`. The mapping takes the store to the union of the pinned sets of all nodes and the call to `ipfs.op`, `ipfs.data` and `ipfs.out`. Every request step of an upload or download (availability checks, fallback to the next client, the verify request, the replication pins) is a stutter, except the one `add` or `pin` that first stores the content. So an upload returns a CID only once it is pinned somewhere, a download returns only pinned content, and no step unpins anything. An `add` whose reply is lost has stored the content on that node; the manager moves on to the next client. The call then ends in a failure that stored, or it stores again elsewhere and returns the CID. The mutant sends `add` without `pin=true`: then the CID returned is stored nowhere.
- `secretsharing_secrecy`, `ReconstructionUsedDistinctShares`: when `reconstruct_secret_bytes` returns a non-empty secret, the t shares it used had distinct x. The code has no duplicate check of its own; the zero denominator of `_lagrange_interpolation` is what catches a repeat. For the empty secret no interpolation runs, and a repeated share is accepted.
- `publishing`: every format entry of registered metadata names content the daemon holds pinned, together with that same content's hash. Nothing in either tool unpins, so no interleaving can break the pinned half. The property is really about the pairing of hash and CID on every path that builds metadata: `deploy_modern_model`'s per-format entries, `_create_metadata` of a model file, and a metadata file read back. Its mutant is the obvious fix of the `.mlpackage` crash, hashing the package directory, which would register the package's hash with the tar's CID. A truncated `metadata.json` and a stale `--metadata` file are not caught by it (see section 4).

Each property of a passing run has a mutant in `PROJECT.json`: a plausible bug in a mapped definition, which the property catches. Examples:
- an off-by-one in the log fill;
- a shifted overflow copy;
- coefficients drawn one too few;
- the wrong square-root exponent;
- a fixed wrapping salt;
- a poll too many;
- a receipt status ignored;
- no fallback after the active client fails;
- no `SUPPORTED_MODELS` check;
- hashing the `.mlpackage` directory instead of failing on it.

### Bounds

- **Secrets and keys:** secrets are one byte, or empty. The code treats bytes independently, and the empty secret is where the per-byte checks never run.
- **Thresholds** {0,1,2} and **totals** {1,2,3,256} cover:
  - invalid parameters;
  - t > n;
  - n > 255;
  - the non-trivial t = 2.
- **Share lists** of up to 2–3 shares cover duplicates, reordering and windows.
- **Field Engine:** the W=8 run has the real tables. The race needs a handful of statements, and W=2 (with the same table shape) keeps that small enough to interleave exhaustively.
- **Curve:** the curve mod 43 has prime order 31, and 43 ≡ 3 mod 4 as on secp256k1. The scalars {2, 4, 30} give points with odd and with even y. The key inputs cover:
  - `None` and `b''`;
  - a 31-byte key;
  - 32-byte keys with the values 0, 4 and N.
- **Envelopes:** two envelopes, two owners and one alteration. Together they reach swaps between envelopes, a foreign owner, and both SDKs.
- **Lattice client:** the three IPFS nodes of `get_ipfs_manager`'s defaults (the client passes no URLs), with three flips, reach a failed download (every holder down), a `cat` blocked at an up node that does not hold the content, and a replication pin blocked behind a downed origin. Each of these needs at least one flip to make a node miss the content or the pin, and one more to take the holders down. A failure in which the holders are down one after another, never all at once, needs a fourth flip. The property states that case through `seenDown`, but the run does not reach it. Two calls give a deploy followed by an inference or a purchase. `Timeout` = 2 polls gives both "mined in time" and "timed out".
- **Publishing tools:** two runs of each tool interleave a rewrite of `metadata.json` with an import that reads it. Each run may also stop at the dependency check or the connection. A `huggingface` import may pass `--optimize`, which leaves two packages for `mlpackages[0]` to pick from.

### Fairness

The only fairness assumption is `WF_vars(ProgramStep)` in `LatticeClient`, which covers the client's own steps. It holds because the program is a single thread that runs whenever it is not blocked. The node (`Mine`) and the IPFS nodes are given no fairness, because nothing in the code makes them act. `CallsTerminate` therefore holds only because of the client's own timeout and failure paths.

`DownCat`, `DownActive` and `UpPin` at an up node have no step while no up node holds the content. The code's `post` to `cat` and to `pin/add` has no timeout, so it waits. A call can therefore block for as long as the outage lasts. That is why `CallsTerminate` concludes "returns or raises, or waits forever for content that no up node holds again".

The Field Engine and the tools are checked for safety only.

## 4. Findings

Runs that TLC finds violated:
1. **Code bug** (`secretsharing_roundtrip`): `split_secret` draws fresh random coefficients for every share point (`finite_field.py:146`, `196-198`). Reconstruction with t ≥ 2 therefore returns a wrong secret. This is against spec 4.2 and `test_key_reconstruction`.
2. **Divergence** (`fieldengine_race`): `_initialize_tables` (`finite_field.py:24-42`) checks `_initialized` and then rebuilds the class tables without a lock. A thread can read zero tables and return a wrong product. Spec 4.1 and 5 require initialisation that is safe under concurrency.
3. **Code bug** (`keyagreement_lattice_derive`): the lattice `derive_shared_key` builds the peer point with y = 0 (`lattice_sdk/crypto.py:198`). That point is on no curve of prime order, so the call fails for every key.
4. **Divergence** (`envelope_keyleak`): with `threshold_shares = 1`, every share's y is the data key (`citrate_sdk/crypto.py:120`). Spec 3 says the key never appears in the envelope in clear.
5. **Divergence** (`fieldengine_concurrent`): the overflow copy `cls._exp_table[i] = cls._exp_table[i - 255]` (`finite_field.py:39`) reads and stores in two bytecodes. On CPython 3.8 and 3.9 a thread may be switched out between them. One thread reads 0 from the table another thread has just reallocated. The other thread then fills and finishes the table, and the late store leaves that entry 0 for good, after both threads have set `_initialized`. Every later lookup through the entry is wrong. This breaks spec 4.1 and 5 permanently, where finding 2 is a transient wrong read.

Divergences reported without a run. Each is plain from the code or reached by a unit test:
- `verify_shares` discards each window's reconstruction, so it cannot detect disagreement (`finite_field.py:264`).
- `generate_keypair` hands out the 32-byte x-only key, which `verify_signature` never accepts (`ecdh_real.py:55`, `218-225`).
- `b''` is falsy, so it generates a key instead of being rejected by the length check (`ecdh_real.py:24`).
- `verify_signature` does not check the prefix byte (`ecdh_real.py:218-222`).
- The lattice `reconstruct_key_from_shares` hashes the share values, so share holders never recover the key (`lattice_sdk/crypto.py:273`). The code marks it a placeholder.
- `encrypt_data` packs its key in clear with the ciphertext.
- `import_model.py huggingface` always fails: `_create_metadata` opens the `.mlpackage` directory (`import_model.py:212`).
- `deploy_modern_model` silently drops a format whose conversion failed (`deploy_modern_model.py:366`).
- Some failures leave the node state behind:
  - a lost `citrate_deployModel` reply registers the model twice when the user re-runs the import;
  - a receipt timeout or a lost `eth_sendRawTransaction` reply in `deploy_model` leaves an orphaned deployment on chain.
- `get_ipfs_manager` keeps the node list of its first call.
- `pin_file` posts `pin/add` with no timeout (`ipfs.py:135`). During replication after a successful upload, a downed origin makes the pin wait forever, and `deploy_model` never returns.
- `import_model.py deploy --metadata` registers the metadata file as it is. Its CIDs come from an earlier `deploy_modern_model` run, not from the file the command has just uploaded (`import_model.py:299`). A `metadata.json` read while it is truncated fails `json.load`, leaving the model added and pinned but unregistered.
- `KeyManager()` without a key draws the account key and, separately, a random ECDH key (`citrate_sdk/crypto.py:45`, `55`). `get_private_key` returns only the account key. A manager rebuilt from it after a restart has another ECDH key, so shared keys derived before the restart cannot be derived again. The lattice `KeyManager` draws a fresh ECDH key even when it is given a private key (`lattice_sdk/crypto.py:46`). `KeyAgreement` models which key a manager holds, but no restart. The restart would need a violation run, and the project's twelve runs are all used.
- `import_model.py huggingface` runs `convert_to_coreml.py` with `cwd` set to `citrate/tools` (`import_model.py:167`). The script exists only in `lattice-v3/tools`, so in this repository the conversion fails before `_create_metadata` is reached. The model keeps the success path for a tree where the script is copied in.
- With `--optimize`, `_convert_to_coreml` returns `mlpackages[0]` of a directory holding both `<name>.mlpackage` and `<name>_neural_engine.mlpackage` (`import_model.py:184`). Which one is published depends on the directory listing order.
- Lattice `inference` with `encrypt_input` sends `encrypt_data`'s package, key included, as transaction data (`lattice_sdk/client.py:212`).
- The examples do not run as written:
  - the citrate_sdk examples import `CitrateClient`, which `citrate_sdk` does not define;
  - `batch_inference.py`, `text_classification.py` and `image_classification.py` `json.loads` the whole stdout of `import_model.py`, which prints progress lines before its JSON;
  - `batch_inference.py` divides by the number of successful items, which is zero when all fail.
- Unresolved imports: `citrate_sdk/__init__` imports `.client`, which does not exist, in addition to the two imports of section 1.

## 5. Not modelled

- **Error classes, dataclasses and package metadata:** no state changes. Errors appear in the models as named outcomes.
- **Examples and tests:** they state expected behaviour, which the properties use, but they are not part of the system.
- **The numerical part of `convert_to_coreml.py`, and the genesis model generator:** conversion with coremltools and PyTorch. `ModelPublishing` models the converter's control: its config default, its type dispatch, and the packages it leaves behind. Each conversion is abstracted to the package it saves, or to an exception.
- **Read-only RPCs:**
  - `get_balance`;
  - `get_model_info`;
  - listings;
  - the IPFS `pin`/`unpin`/`get_stats` helpers outside upload.

  They change no state. The node's answers to them appear only through the calls modelled.
- **`sign_transaction`:** a library call that is abstracted to the transaction record it produces.
- **`encrypt_data`/`decrypt_data` of the KeyManagers:** the key travels in clear (see section 4). `DecryptData` in `LatticeClient` models only its outcomes.
