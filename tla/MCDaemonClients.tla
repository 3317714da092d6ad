--------------------------- MODULE MCDaemonClients --------------------------
(* Instances of DaemonClients for TLC.                                      *)
EXTENDS DaemonClients, TLC

CONSTANTS a, b, s1, s2

OwnSessions == (a :> s1) @@ (b :> s2)
OneSession == (a :> s1)
=============================================================================
