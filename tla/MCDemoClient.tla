---------------------------- MODULE MCDemoClient -----------------------------
(* Four issuers of whom up to two are updated. *)
EXTENDS DemoClient

CONSTANTS old1, old2, old3, old4, new1, new2, new3, new4, s1, s2, s3, s4, u1, u2, u3, u4

Submissions == <<s1, s2, s3, s4>>
Updates == <<u1, u2, u3, u4>>
OldRoots == <<old1, old2, old3, old4>>
NewRoots == <<new1, new2, new3, new4>>
Fresh == { <<>> }
=============================================================================
