--------------------------- MODULE MCServerDriver ---------------------------
(***************************************************************************)
(* Two files that reference each other when they hold text t2; b declares  *)
(* a package; the build file lists a only.  With a third file, c, the text *)
(* t2 references c instead.                                                *)
(***************************************************************************)
EXTENDS ServerDriver

CONSTANTS ua, ub, uc, t1, t2, f1

MCUri == {ua, ub}
MCUri3 == {ua, ub, uc}
MCText == {t1, t2}
MCRefs == [t \in {t1, t2, Garbled} |-> IF t = t2 THEN {ua, ub} ELSE {}]
MCRefs3 == [t \in {t1, t2, Garbled} |-> IF t = t2 THEN {uc} ELSE {}]
MCBroken == {t2, Garbled}
MCAllBroken == {t1, t2, Garbled}
MCNoTop == {Garbled}
MCPkg == {ub}
MCSources == [f \in BuildFile |-> {ua}]
=============================================================================
