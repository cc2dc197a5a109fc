----------------------- MODULE MCDocumentDatabaseMutex -----------------------
(* Instances of DocumentDatabaseMutex for TLC.                             *)
EXTENDS DocumentDatabaseMutex, TLC

CONSTANTS o1, o2, c1, c2, v1, v2, v3, v4

MCObjects == {o1, o2}
MCCallers == {c1, c2}
MCVersions == {v1, v2, v3, v4}
TwoVersions == {v1, v2}

(* One caller per object.                                                  *)
OwnObject == c1 :> o1 @@ c2 :> o2

(* Equal clocks, and clocks that differ by one.                            *)
NoSkew == [o \in {o1, o2} |-> 0]
OneAhead == o1 :> 1 @@ o2 :> 0

VersionSymmetry == Permutations(MCVersions)
=============================================================================
