---------------------------- MODULE MCHttpClient -----------------------------
(***************************************************************************)
(* HttpClient on small instances: two hosts to go between, and three names *)
(* of requests, so that a byte two requests old is still told apart.       *)
(***************************************************************************)
EXTENDS HttpClient
=============================================================================
