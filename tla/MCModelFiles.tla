---------------------------- MODULE MCModelFiles ----------------------------
(* Two text models of one file, or a vision model with its companion file.   *)
EXTENDS ModelFiles

TwoTexts == <<"qwen", "phi">>
OneVision == <<"seer">>
Files(m) == IF m = "seer" THEN <<"weights", "mmproj">> ELSE <<"weights">>
=============================================================================
