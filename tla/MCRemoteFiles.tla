---------------------------- MODULE MCRemoteFiles ----------------------------
(* TLC instances of RemoteFiles: a root w with a protected directory a     *)
(* (and x in it), a file f and the roots file, and a place o outside.      *)
EXTENDS RemoteFiles, TLC

W == <<"c", "w">>
A == <<"c", "w", "a">>
X == <<"c", "w", "a", "x">>
F == <<"c", "w", "f">>
O == <<"c", "o">>
R == <<"c", "w", "roots">>
S == <<"c", "w", "ssh">>

MCNames == {"c", "w", "a", "x", "f", "o", "roots", "ssh", ".."}
MCHardNames == {"ssh"}
MCHardLast  == {"roots"}
MCSoftNames == {"a"}

MCDirs  == {W, A, X, O}
MCFiles == {F}
MCPaths == MCDirs \cup MCFiles \cup {R, S}
MCRequests == {W, X, F, R, <<"c", "w", "..", "o">>}
MCResolve == [r \in MCRequests |-> IF HasTraversal(r) THEN O ELSE r]

Text(form, bom, crlf, lf) == [form |-> form, bom |-> bom, crlf |-> crlf, lf |-> lf]
MCPcTexts == {Text("utf8", TRUE, 1, 0), Text("foreign", FALSE, 0, 0), Text("late", FALSE, 0, 1)}
MCPhoneTexts == {Text("utf8", FALSE, 0, 1)}
MCPhoneRoots == {{}, {A}, {W, O}}
MCPcRoots == {{O, X}}

Symmetry == Permutations(Calls)
=============================================================================
