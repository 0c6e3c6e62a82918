--------------------------- MODULE MCLinePoolScan ----------------------------
(***************************************************************************)
(* LinePoolScan on small instances.                                        *)
(* Three lines, so that a read can follow a duplicate up past another      *)
(* line, and a pool that two full lines and the padding of a wrap exhaust. *)
(***************************************************************************)
EXTENDS LinePoolScan
=============================================================================
