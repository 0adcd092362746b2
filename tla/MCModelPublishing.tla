-------------------------- MODULE MCModelPublishing --------------------------
EXTENDS ModelPublishing

CONSTANTS k1, kx, h1, f1

MCSupported     == {k1}
MCModelKeys     == {k1, kx}
(* The default formats, and the two conversions a run may add.            *)
MCFormatChoices == {{"safetensors", "gguf_q4"}, {"gguf_q8", "mlx"}}
MCHfModels      == {h1}
MCModelFiles    == {f1}
(* h1 stands for a listed model; an unlisted name takes the defaults.     *)
MCCoreMLTypes   == [n \in {h1} |-> "classification"]
=============================================================================
