------------------------------- MODULE MCRelease -------------------------------
(* Instances of Release for TLC.                                           *)
EXTENDS Release

(* Two packages, the second of which depends on the first.                 *)
MCPackages == <<"core", "client">>
=============================================================================
