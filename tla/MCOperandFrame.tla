---------------------------- MODULE MCOperandFrame ----------------------------
(* Symmetry and argument lists for the run of OperandFrame.                *)
EXTENDS OperandFrame, TLC

Symmetry == Permutations(Objects)

ArgumentLists == {<<"REFERENCE">>, <<"LONG", "REFERENCE">>}

ResultSlots == {<<>>} \cup { <<Ref(o)>> : o \in Objects }

===============================================================================
