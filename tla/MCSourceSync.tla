--------------------------- MODULE MCSourceSync ---------------------------
(* Two files, three commits.  The second commit changes f1, breaks f2; the *)
(* third removes f1, repairs f2.  No file returns to an earlier content.   *)
EXTENDS SourceSync, TLC

CONSTANTS f1, f2, v1, v2, w1, w2, w3

MCTree == <<f1 :> v1 @@ f2 :> w1, f1 :> v2 @@ f2 :> w2, f1 :> Absent @@ f2 :> w3>>
=============================================================================
