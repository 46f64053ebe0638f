--------------------------- MODULE MCClassLinker ---------------------------
(* Two threads, two declared classes, an array of one and an array of it.  *)
EXTENDS ClassLinker

CONSTANTS t1, t2, A, B, arrayA, arrayArrayA

ArrayBases == [a \in {arrayA, arrayArrayA} |->
                 IF a = arrayA THEN A ELSE arrayA]

\* A may extend B and B may extend A: chains, siblings, a root and a cycle.
DeclaredSupers == [c \in {A, B} |->
                     IF c = A THEN {B, Object} ELSE {A, Object, NoClass}]

FieldChoices == [c \in {A, B} |->
                   IF c = A THEN {<<"BYTE", "REFERENCE", "INT">>}
                   ELSE {<<"REFERENCE", "SHORT", "BYTE">>}]
MethodChoices == [c \in {A, B} |->
                    IF c = A THEN {<<"equals", "hash">>}
                    ELSE {<<"hash", "equals">>}]
=============================================================================
