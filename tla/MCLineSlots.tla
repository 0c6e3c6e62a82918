----------------------------- MODULE MCLineSlots ----------------------------
(* LineSlots on a short frame, whose blanking is as long as a full set of slots. *)
EXTENDS LineSlots
=============================================================================
