---------------------------- MODULE MCInstallCommit ----------------------------
(* InstallCommit on two configurations: each installation may plan the one    *)
(* on disk again, or the other one.                                           *)
EXTENDS InstallCommit
=============================================================================
