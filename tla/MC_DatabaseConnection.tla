------------------------ MODULE MC_DatabaseConnection ------------------------
(* Two connection objects and two configurations: a second construction  *)
(* with a different configuration than the first.                         *)
EXTENDS DatabaseConnection

MCConns == {"conn1", "conn2"}
MCConfigs == {"cfgA", "cfgB"}
=============================================================================
