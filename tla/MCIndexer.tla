------------------------------ MODULE MCIndexer ------------------------------
(***************************************************************************)
(* Four texts: a module, a module that references it and declares a second *)
(* one twice, a header that includes another, a header with a class.       *)
(***************************************************************************)
EXTENDS Indexer

CONSTANTS ua, ub, module1, module2, header, classes, m1, m2, own, included, name1

MCUri == {ua, ub}
MCText == {module1, module2, header, classes}
MCSymbol == {m1, m2}
MCMembers ==
  [t \in MCText |-> [s \in MCSymbol |->
     CASE t = module1 /\ s = m1 -> 1
       [] t = module2 /\ s = m1 -> 1
       [] t = module2 /\ s = m2 -> 2
       [] OTHER -> 0]]
MCReferenced == [t \in MCText |-> IF t \in {module2, classes} THEN {name1} ELSE {}]
MCDefines == [t \in MCText |-> IF t \in {module1, header, classes} THEN {own} ELSE {}]
MCIncludes == [t \in MCText |-> IF t = header THEN {included} ELSE {}]
MCOnce == [u \in MCUri |-> 1]
MCShared == [u \in MCUri |-> {"editor", "tool"}]
MCApart == [u \in MCUri |-> IF u = ua THEN {"editor"} ELSE {"tool"}]
MCSome == [u \in MCUri |-> IF u = ua THEN 2 ELSE 0]
=============================================================================
