---------------------------- MODULE ClassLayout ----------------------------
(***************************************************************************)
(* What Class::link computes from the declaration of a class and from its  *)
(* linked superclass: the offsets of the fields in the object, the size of *)
(* the field buffer, and the table virtual calls are dispatched through.   *)
(***************************************************************************)
EXTENDS Integers, Sequences, SequencesExt, FiniteSets

\* The buckets in the order in which orderFieldBuckets lays them out.
BucketOrder == <<"REFERENCE", "HANDLE", "DOUBLE", "LONG", "FLOAT", "INT",
                 "SHORT", "BYTE", "CHAR", "BOOL">>

Types == ToSet(BucketOrder)

\* GetTypeSize, and the sizes orderFieldBuckets gives to orderFieldBucket.
TypeSize(type) ==
    CASE type \in {"REFERENCE", "HANDLE", "DOUBLE", "LONG"} -> 8
      [] type \in {"FLOAT", "INT"} -> 4
      [] type = "SHORT" -> 2
      [] OTHER -> 1

Align(offset, alignment) ==
    ((offset + alignment - 1) \div alignment) * alignment

\* Mutant of BucketStart: the offset of the references is not aligned.
BucketStartUnaligned(offset, type) ==
    IF type = "HANDLE" THEN Align(offset, 8) ELSE offset

\* Only the references and the handles start at an aligned offset.
BucketStart(offset, type) ==
    IF type \in {"REFERENCE", "HANDLE"} THEN Align(offset, 8) ELSE offset

Count(types, type) == Cardinality({i \in DOMAIN types : types[i] = type})

\* Where each bucket ends: they follow each other from the superclass's size.
BucketEnd(base, types) ==
    LET end[k \in 0 .. Len(BucketOrder)] ==
            IF k = 0 THEN base
            ELSE BucketStart(end[k - 1], BucketOrder[k])
                    + Count(types, BucketOrder[k]) * TypeSize(BucketOrder[k])
    IN  end

\* In its bucket a field comes after those declared before it.
FieldOffset(base, types, i) ==
    LET bucket == CHOOSE k \in DOMAIN BucketOrder : BucketOrder[k] = types[i]
    IN  BucketStart(BucketEnd(base, types)[bucket - 1], types[i])
            + Count(SubSeq(types, 1, i - 1), types[i]) * TypeSize(types[i])

LayOut(base, types) ==
    [size |-> BucketEnd(base, types)[Len(BucketOrder)],
     at |-> [i \in DOMAIN types |-> FieldOffset(base, types, i)]]

-----------------------------------------------------------------------------
(* A table entry is a method, <<class, name>>; the name stands for the     *)
(* name and the descriptor, which std::find_if compares together.          *)

Position(table, name) ==
    SelectInSeq(table, LAMBDA method : method[2] = name)

\* Mutant of Install: a method of the same name does not take over its entry.
InstallAppending(table, method) == Append(table, method)

\* A method takes over the first entry of its name, or opens a new one.
Install(table, method) ==
    LET old == Position(table, method[2])
    IN  IF old = 0 THEN Append(table, method)
        ELSE [table EXCEPT ![old] = method]

VTable(class, inherited, names) ==
    LET table[k \in 0 .. Len(names)] ==
            IF k = 0 THEN inherited
            ELSE Install(table[k - 1], <<class, names[k]>>)
    IN  table[Len(names)]

\* mVTableIndex of every method of the class.
Slots(table, names) == [name \in ToSet(names) |-> Position(table, name)]

=============================================================================
