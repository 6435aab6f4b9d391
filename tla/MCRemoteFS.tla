----------------------------- MODULE MCRemoteFS -----------------------------
(***************************************************************************)
(* Two processes and a directory with a file and a directory that has      *)
(* another; twin is a path that is only cleared, and matches dir.          *)
(***************************************************************************)
EXTENDS RemoteFS, TLC

CONSTANTS p1, p2, dir, subdir, twin, file, note

Parents == dir :> Top @@ twin :> Top @@ subdir :> dir @@ note :> dir @@ file :> subdir
Matches == [d \in Dir |-> IF d = twin THEN {twin, dir} ELSE {d}]
Uses ==
  p1 :> {<<"item", file>>, <<"list", dir>>, <<"create", file>>, <<"remove", dir>>,
         <<"remove", note>>, <<"clear", twin>>} @@
  p2 :> {<<"create", file>>, <<"create", note>>, <<"fresh", dir>>, <<"clearAll", Top>>}
=============================================================================
