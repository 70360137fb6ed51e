--------------------------- MODULE MCImageRuntime ---------------------------
(* Two SKUs of one repo. *)
EXTENDS ImageRuntime

TwoSkus == <<"fast", "fine">>
OneSku  == <<"fast">>
SharedRepo(k) == "qwen-image"
=============================================================================
