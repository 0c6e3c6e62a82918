---------------------------- MODULE MCKioskLoop -----------------------------
(***************************************************************************)
(* KioskLoop on small instances: which adverse events a run allows.        *)
(***************************************************************************)
EXTENDS KioskLoop

BadBodies == {"badjson", "short", "version", "toomany", "badnext", "nodefs", "noid"}
Outages == {"status500", "notfound", "timeout", "closed", "redirect", "wifi", "nostart", "netcheck"}
Interventions == {"power", "restart", "portal", "forget", "newset", "notls"}
AllButConsole == BadBodies \cup Outages \cup Interventions
Everything == AllButConsole \cup {"console"}
=============================================================================
