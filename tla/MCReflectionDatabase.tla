------------------------ MODULE MCReflectionDatabase ------------------------
(* A server with three files.  The last file name, symbol and extension are  *)
(* not the server's; the second file declares two things.                    *)
EXTENDS ReflectionDatabase, TLC

CONSTANTS f1, f2, f3, f4, s1, s2, s3, e1, e2

MCDeclares == (f1 :> {s1}) @@ (f2 :> {s2, e1}) @@ (f3 :> {})
=============================================================================
