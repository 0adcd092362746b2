--------------------------- MODULE ModelPublishing ---------------------------
(***************************************************************************)
(* The two publishing tools of citrate/tools as two processes sharing the *)
(* local IPFS daemon, the metadata files on disk and the chain registry:  *)
(*   - deploy_modern_model.py deploy_model(model_key, formats): download   *)
(*     the SafeTensors base, convert the GGUF and MLX variants (a failed  *)
(*     conversion is skipped), hash, `ipfs add` each format, then write   *)
(*     work_dir/metadata.json;                                            *)
(*   - import_model.py ModelImporter: `huggingface` (convert to CoreML,   *)
(*     tar, add, pin, metadata, register) and `deploy` (add and pin a     *)
(*     model file, load the given metadata JSON or create it, register    *)
(*     with citrate_deployModel).                                         *)
(* Content is abstracted to what it is the content of; a CID and a SHA-256 *)
(* are injective tags of content.  Every subprocess or HTTP call may fail.*)
(***************************************************************************)
EXTENDS Naturals, FiniteSets

CONSTANTS
  Supported,     \* keys of SUPPORTED_MODELS
  ModelKeys,     \* model_key arguments, Supported and unknown ones
  FormatChoices, \* --formats arguments: non-empty subsets of the choices
  HfModels,      \* HuggingFace names given to `import_model.py huggingface`
  ModelFiles,    \* model files given to `import_model.py deploy`
  CoreMLTypes,   \* CoreMLTypes[n]: "type" of convert_to_coreml's SUPPORTED_MODELS entry n
  MaxRuns        \* invocations of each tool

Gguf    == {"gguf_q4", "gguf_q8"}
NoFile  == "none"
(* metadata.json: absent, truncated by open('w') before json.dump, or written. *)
Absent  == [st |-> "none", meta |-> {}]
Torn    == [st |-> "torn", meta |-> {}]
Written(m) == [st |-> "written", meta |-> m]

Cid(c) == <<"cid", c>>
Sha(c) == <<"sha256", c>>
Content(k, f) == <<k, f>>

(* One metadata format entry: the CID and SHA-256 it records. *)
Entry(cid, sha) == [cid |-> cid, sha |-> sha]

VARIABLES
  pinned,    \* CIDs the local IPFS daemon holds pinned
  files,     \* files[k]: model_deployment/k/metadata.json
  registry,  \* metadata registered through citrate_deployModel
  dt,        \* deploy_modern_model's process: pc, key, formats, produced, uploaded
  im,        \* import_model's process: pc, name, file, metadata path, metadata
  runs       \* runs[t]: invocations of tool t so far

vars == <<pinned, files, registry, dt, im, runs>>

DtIdle == [pc |-> "idle", key |-> NoFile, fs |-> {}, todo |-> {}, paths |-> {}, up |-> {}]
ImIdle == [pc |-> "idle", name |-> NoFile, opt |-> FALSE, file |-> NoFile, mpath |-> NoFile, meta |-> {}]

Init ==
  /\ pinned = {} /\ registry = {}
  /\ files = [k \in ModelKeys |-> Absent]
  /\ dt = DtIdle /\ im = ImIdle
  /\ runs = [t \in {"deploy_tool", "importer"} |-> 0]

-----------------------------------------------------------------------------
(* deploy_modern_model.py *)

DtEnd == dt' = DtIdle

(* Defect variant: the SUPPORTED_MODELS check is dropped. *)
DtStartNoKeyCheck(k, fs) ==
  /\ dt.pc = "idle" /\ runs["deploy_tool"] < MaxRuns
  /\ runs' = [runs EXCEPT !["deploy_tool"] = @ + 1]
  /\ dt' = [DtIdle EXCEPT !.pc = "download", !.key = k, !.fs = fs]
  /\ UNCHANGED <<pinned, files, registry, im>>

(* main, `deploy_modern_model.py MODEL`: check_dependencies runs `which` *)
(* on huggingface-cli and on ipfs, and a missing one exits with status 1 *)
(* before deploy_model.  --list, --check-deps and no MODEL change nothing.*)
DtRefused ==
  /\ dt.pc = "idle" /\ runs["deploy_tool"] < MaxRuns
  /\ runs' = [runs EXCEPT !["deploy_tool"] = @ + 1]
  /\ UNCHANGED <<pinned, files, registry, dt, im>>

(* deploy_model: an unknown key returns False.  Every choice of --formats *)
(* needs the base, so the download always runs first.                    *)
DtStart(k, fs) ==
  /\ dt.pc = "idle" /\ runs["deploy_tool"] < MaxRuns
  /\ runs' = [runs EXCEPT !["deploy_tool"] = @ + 1]
  /\ dt' = IF k \in Supported
           THEN [DtIdle EXCEPT !.pc = "download", !.key = k, !.fs = fs]
           ELSE DtIdle
  /\ UNCHANGED <<pinned, files, registry, im>>

(* download_from_huggingface: huggingface-cli; a failure raises, and     *)
(* deploy_model's handler returns False.                                 *)
DtDownload ==
  /\ dt.pc = "download"
  /\ \/ dt' = [dt EXCEPT !.pc = "convert", !.paths = {"safetensors"},
                         !.todo = dt.fs \cap (Gguf \cup {"mlx"})]
     \/ DtEnd
  /\ UNCHANGED <<pinned, files, registry, im, runs>>

(* convert_to_gguf for each gguf_ format, then convert_to_mlx: either     *)
(* returns None on any failure, and the format is left out.              *)
DtConvert ==
  /\ dt.pc = "convert"
  /\ \E f \in dt.todo :
       /\ f = "mlx" => dt.todo \cap Gguf = {}
       /\ \E ok \in BOOLEAN :
            dt' = [dt EXCEPT !.todo = @ \ {f}, !.paths = IF ok THEN @ \cup {f} ELSE @]
  /\ UNCHANGED <<pinned, files, registry, im, runs>>

(* calculate_hash of every path, then upload_to_ipfs (`ipfs add`, which  *)
(* pins) of each; a CalledProcessError is re-raised and ends the run with *)
(* False, leaving what was added pinned.                                  *)
DtUpload ==
  /\ dt.pc = "convert" /\ dt.todo = {}
  /\ \E f \in dt.paths \ dt.up :
       \/ /\ pinned' = pinned \cup {Cid(Content(dt.key, f))}
          /\ dt' = [dt EXCEPT !.up = @ \cup {f}]
       \/ /\ DtEnd
          /\ UNCHANGED pinned
  /\ UNCHANGED <<files, registry, im, runs>>

(* create_model_metadata: one entry per uploaded format. *)
DtMetadata == {Entry(Cid(Content(dt.key, f)), Sha(Content(dt.key, f))) : f \in dt.up}

(* open(metadata_path, 'w') truncates the file; json.dump then writes it. *)
DtOpen ==
  /\ dt.pc = "convert" /\ dt.todo = {} /\ dt.up = dt.paths
  /\ files' = [files EXCEPT ![dt.key] = Torn]
  /\ dt' = [dt EXCEPT !.pc = "dump"]
  /\ UNCHANGED <<pinned, registry, im, runs>>

DtDump ==
  /\ dt.pc = "dump"
  /\ files' = [files EXCEPT ![dt.key] = Written(DtMetadata)]
  /\ DtEnd
  /\ UNCHANGED <<pinned, registry, im, runs>>

DtMain(k, fs) == DtRefused \/ DtStart(k, fs)

-----------------------------------------------------------------------------
(* convert_to_coreml.py, run by _convert_to_coreml.  A package is named by *)
(* the model and by its variant: the converted model, or the palettized   *)
(* copy optimize_for_neural_engine saves beside it.                        *)

(* _get_model_config: an unlisted name gets the "classification" defaults. *)
ConfigType(n) == IF n \in DOMAIN CoreMLTypes THEN CoreMLTypes[n] ELSE "classification"

(* _convert_text_model and _convert_vision_model: load, trace, ct.convert *)
(* and save output_dir/<name>.mlpackage, with the tokenizer or processor  *)
(* in a directory beside it that the *.mlpackage glob does not match.    *)
Saved(n) == {<<n, "mlpackage">>}

(* convert: text types and image_classification are converted; any other *)
(* type raises ValueError.                                                *)
Convert(n) ==
  IF ConfigType(n) \in {"classification", "generation", "qa", "image_classification"}
  THEN Saved(n) ELSE {}

(* optimize_for_neural_engine: <stem>_neural_engine.mlpackage beside it. *)
NeuralEngine(p) == <<p[1], "neural_engine">>

(* main: the packages left in --output-dir after a successful run.       *)
ConvertedPackages(n, opt) ==
  Convert(n) \cup (IF opt THEN {NeuralEngine(p) : p \in Convert(n)} ELSE {})

-----------------------------------------------------------------------------
(* import_model.py *)

ImEnd == im' = ImIdle

(* ModelImporter(): ipfshttpclient.connect, then Web3.is_connected; a    *)
(* failure of either exits with status 1 before any command runs.        *)
ImConnectFails ==
  /\ im.pc = "idle" /\ runs["importer"] < MaxRuns
  /\ runs' = [runs EXCEPT !["importer"] = @ + 1]
  /\ UNCHANGED <<pinned, files, registry, dt, im>>

(* main, once connected: `list` prints, `huggingface [--optimize]` and   *)
(* `deploy [--metadata]` start.                                           *)
ImStart ==
  /\ im.pc = "idle" /\ runs["importer"] < MaxRuns
  /\ runs' = [runs EXCEPT !["importer"] = @ + 1]
  /\ \/ UNCHANGED im
     \/ \E n \in HfModels, opt \in BOOLEAN :
          im' = [ImIdle EXCEPT !.pc = "coreml", !.name = n, !.opt = opt]
     \/ \E mf \in ModelFiles, mp \in {NoFile} \cup ModelKeys :
          im' = [ImIdle EXCEPT !.pc = "add", !.file = mf, !.mpath = mp]
  /\ UNCHANGED <<pinned, files, registry, dt>>

(* _convert_to_coreml: the script is run with cwd citrate/tools, and any *)
(* failure raises (CalledProcessError), as does an empty glob; otherwise *)
(* mlpackages[0], whichever package the directory listing gives first.   *)
(* _upload_to_ipfs then adds <stem>.tar.gz of it.                         *)
ImConvert ==
  /\ im.pc = "coreml"
  /\ \/ \E p \in ConvertedPackages(im.name, im.opt) :
          im' = [im EXCEPT !.pc = "add", !.file = <<p, "tar">>]
     \/ ImEnd
  /\ UNCHANGED <<pinned, files, registry, dt, runs>>

(* self.ipfs.add (the daemon pins what it adds), then self.ipfs.pin.add. *)
ImAdd ==
  /\ im.pc = "add"
  /\ \/ /\ pinned' = pinned \cup {Cid(im.file)}
        /\ im' = [im EXCEPT !.pc = "pin"]
     \/ ImEnd /\ UNCHANGED pinned
  /\ UNCHANGED <<files, registry, dt, runs>>

ImPin ==
  /\ im.pc = "pin"
  /\ \/ im' = [im EXCEPT !.pc = "meta"]
     \/ ImEnd
  /\ UNCHANGED <<pinned, files, registry, dt, runs>>

(* Defect variant: _create_metadata hashes the .mlpackage directory the   *)
(* way calculate_hash does, instead of failing on open().                *)
ImMetadataHashesDir ==
  /\ im.pc = "meta"
  /\ im' = [im EXCEPT !.pc = "register",
                      !.meta = IF im.name # NoFile
                               THEN {Entry(Cid(im.file), Sha(im.file[1]))}
                               ELSE IF im.mpath # NoFile /\ files[im.mpath].st = "written"
                               THEN files[im.mpath].meta
                               ELSE {Entry(Cid(im.file), Sha(im.file))}]
  /\ UNCHANGED <<pinned, files, registry, dt, runs>>

(* huggingface: _create_metadata opens the .mlpackage, a directory, and  *)
(* raises.  deploy: the metadata JSON when the path exists (a truncated  *)
(* file fails json.load), else _create_metadata of the model file, whose *)
(* model_hash and ipfs_cid describe the same bytes.                       *)
ImMetadata ==
  /\ im.pc = "meta"
  /\ IF im.name # NoFile \/ (im.mpath # NoFile /\ files[im.mpath] = Torn)
     THEN ImEnd
     ELSE im' = [im EXCEPT !.pc = "register",
                           !.meta = IF im.mpath # NoFile /\ files[im.mpath].st = "written"
                                    THEN files[im.mpath].meta
                                    ELSE {Entry(Cid(im.file), Sha(im.file))}]
  /\ UNCHANGED <<pinned, files, registry, dt, runs>>

(* _register_on_chain: citrate_deployModel; an "error" raises, and a     *)
(* reply lost after the node registered raises as well.                  *)
ImRegister ==
  /\ im.pc = "register"
  /\ \/ registry' = registry \cup {im.meta}
     \/ UNCHANGED registry
  /\ ImEnd
  /\ UNCHANGED <<pinned, files, dt, runs>>

-----------------------------------------------------------------------------
Next ==
  \/ \E k \in ModelKeys, fs \in FormatChoices : DtMain(k, fs)
  \/ DtDownload \/ DtConvert \/ DtUpload \/ DtOpen \/ DtDump
  \/ ImConnectFails \/ ImStart \/ ImConvert \/ ImAdd \/ ImPin \/ ImMetadata \/ ImRegister

Spec == Init /\ [][Next]_vars

TypeOK ==
  /\ dt.pc \in {"idle", "download", "convert", "dump"}
  /\ im.pc \in {"idle", "coreml", "add", "pin", "meta", "register"}
  /\ dt.up \subseteq dt.paths /\ dt.todo \subseteq Gguf \cup {"mlx"}
  /\ \A t \in DOMAIN runs : runs[t] \in 0..MaxRuns
  /\ \A k \in ModelKeys : files[k] # Absent => k \in Supported

(* Every format entry of metadata registered on chain, whichever tool and *)
(* path produced it, names a CID the daemon holds pinned and the SHA-256 *)
(* of the same content: a node that fetches the CID can check the hash.  *)
RegisteredMetadataDescribesPinnedContent ==
  \A meta \in registry : \A e \in meta :
    /\ e.cid \in pinned
    /\ e.cid[2] = e.sha[2]
=============================================================================
