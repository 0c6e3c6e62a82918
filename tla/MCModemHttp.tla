----------------------------- MODULE MCModemHttp -----------------------------
(***************************************************************************)
(* ModemHttp on small instances: a window of four units and chunks of two, *)
(* so that a top-up may be larger than half of the window, as it may with  *)
(* chunks of 1023 bytes and a window of 8192.                              *)
(***************************************************************************)
EXTENDS ModemHttp
=============================================================================
