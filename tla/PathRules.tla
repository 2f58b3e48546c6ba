------------------------------ MODULE PathRules ------------------------------
(***************************************************************************)
(* The path rules of lib/security.js.  A path is the sequence of its       *)
(* names, drive first, as normPath leaves it: one separator, one case, no  *)
(* trailing separator; << >> is the empty path.  Only the sets a name      *)
(* belongs to matter here:                                                 *)
(*   HardNames   HARD_DENY_SEGMENTS and the directories of DENY_FILE,      *)
(*   HardLast    the file names of DENY_FILE, which count as last name,    *)
(*   SoftNames   DENY_SEGMENTS.                                            *)
(***************************************************************************)
EXTENDS Integers, Sequences

CONSTANTS HardNames, HardLast, SoftNames, DotDot

(* A network path or one with '..' is refused as it is spelled.            *)
HasTraversal(raw) == \E i \in 1..Len(raw) : raw[i] = DotDot

(* p is the root r or lies inside it.                                      *)
Inside(p, r) ==
    /\ r # << >>
    /\ Len(r) <= Len(p) /\ \A i \in 1..Len(r) : p[i] = r[i]

IsWithin(p, roots) == \E r \in roots : Inside(p, r)

(* Mutant: the file patterns are forgotten.                                *)
HardDeniedNames(p) == \E i \in 1..Len(p) : p[i] \in HardNames

HardDenied(p) ==
    \/ \E i \in 1..Len(p) : p[i] \in HardNames
    \/ p # << >> /\ p[Len(p)] \in HardLast

SoftDenied(p) == \E i \in 1..Len(p) : p[i] \in SoftNames

(* A registered workspace opens the protected area it lies in itself,      *)
(* never a hard-denied path.                                               *)
Opens(w, p) == SoftDenied(w) /\ Inside(p, w)

(* Mutant: any workspace opens what is in it, also one above the area.     *)
DeniedUnlessInside(p, workspaces) == HardDenied(p) \/ (SoftDenied(p) /\ ~IsWithin(p, workspaces))

DeniedPath(p, workspaces) ==
    \/ HardDenied(p)
    \/ SoftDenied(p) /\ ~\E w \in workspaces : Opens(w, p)

(* Mutant: an empty list narrows everything.                               *)
CanSetAllInside(next, current) == \A r \in next : IsWithin(r, current)

(* The phone may narrow the approved roots, never widen them.              *)
CanSetRoots(next, current) == next # {} /\ \A r \in next : IsWithin(r, current)

ParentOf(p) == IF Len(p) <= 1 THEN << >> ELSE SubSeq(p, 1, Len(p) - 1)
=============================================================================
