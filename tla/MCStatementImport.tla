------------------------ MODULE MCStatementImport ------------------------
(* Two imports: one of two files, one of a single file without movements,   *)
(* or with a movement of the first.                                         *)
EXTENDS StatementImport

CONSTANTS j1, j2, f1, f2, f3, m1, m2

MCFilesOf == (j1 :> <<f1, f2>>) @@ (j2 :> <<f3>>)
MCContent == (f1 :> <<m1, m1>>) @@ (f2 :> <<m2>>) @@ (f3 :> <<>>)
MCRepeated == (f1 :> <<m1, m1>>) @@ (f2 :> <<m2>>) @@ (f3 :> <<m1>>)
=============================================================================
