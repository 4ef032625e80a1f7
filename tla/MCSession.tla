----------------------------- MODULE MCSession -----------------------------
(***************************************************************************)
(* Three runs, two of them for source files of the same name in different  *)
(* directories.                                                            *)
(***************************************************************************)
EXTENDS Session

CONSTANTS s1, s2, s3

ThreeSessions == {s1, s2, s3}
TwoNames == [s \in ThreeSessions |-> IF s = s3 THEN "b.go" ELSE "a.go"]
=============================================================================
