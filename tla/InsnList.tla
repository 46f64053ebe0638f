------------------------------- MODULE InsnList -------------------------------
(***************************************************************************)
(* A function's code on its way from the instruction builder of moduleweb  *)
(* (moduleweb/src/builder/insn_builder.c) to the executor that fetches it  *)
(* (framework/src/bytecode/Executor.cpp): the buffer that grows, the       *)
(* labels that are patched when the code is finished, and the operands     *)
(* that a WIDE prefix widens on both sides.                                *)
(*                                                                         *)
(* One opcode stands for each shape of operands.  A byte has Byte values,  *)
(* 256 in the code, and a number is as many bytes as it is in the code.    *)
(***************************************************************************)
EXTENDS Integers, Sequences, Functions

CONSTANTS
  Byte,        \* the number of values of a byte
  NOP, WIDE,   \* opcodes: no operation, the prefix,
  LOAD,        \*   an instruction on a local (LOAD, STORE, RLOAD ...),
  INC,         \*   INC,
  JMP,         \*   a jump,
  CALL,        \*   an instruction on a constant (CALL, NEW, GETFIELD ...),
  LPUSH,       \*   an immediate operand
  Labels,      \* the labels the client creates
  Locals,      \* the locals it names, u16
  Increments,  \* the increments it asks for, i16
  LocalSlots,  \* the client's counts, u16: of the locals
  StackDepth,  \*   and of the slots of the stack
  InitialSize, \* bytes that moduleweb_insn_list_init allocates, 64 in the code
  MaxInsns     \* bound on the instructions of the list

Opcodes == <<NOP, WIDE, LOAD, INC, JMP, CALL, LPUSH>>

ASSUME OpcodeAssumption ==
  /\ Byte \in Nat \ {0, 1}
  /\ IsInjective(Opcodes)
  /\ \A i \in DOMAIN Opcodes : Opcodes[i] \in 0..(Byte - 1)

Shorts == Byte * Byte   \* the values of two bytes

\* The highest bit is the sign: an i8 and an i16 hold half of the values below zero.
FitsByte(value) == 2 * value >= -Byte /\ 2 * value < Byte
FitsShort(value) == 2 * value >= -Shorts /\ 2 * value < Shorts

ASSUME ClientAssumption ==
  /\ Locals \subseteq 0..(Shorts - 1)
  /\ Increments \subseteq Int /\ \A by \in Increments : FitsShort(by)
  /\ LocalSlots \in Nat /\ StackDepth \in Nat

\* The longest instruction is an opcode and eight bytes, and the length of the code is
\* a u32.
ASSUME SizeAssumption ==
  /\ InitialSize \in Nat /\ InitialSize >= 9
  /\ MaxInsns \in Nat /\ 9 * MaxInsns < Shorts * Shorts

VARIABLES
  bytes,      \* what is written, up to writer_stream.memory.pos; the attribute's info
              \* once it is stored; the function's code once it is loaded
  size,       \* list->size
  room,       \* writer_stream.memory.size
  wideOpcode, \* list->wide_opcode
  location,   \* label |-> its location, or Unset
  forwards,   \* list->forward_labels
  prog,       \* the instructions the client asked for, with where they begin
  starved,    \* some allocation has failed (history)
  phase,      \* "building", "stored", "running", "exited"
  pc, wide    \* the executor's mPC and mWide

codeVars == <<bytes, size, room, wideOpcode, location, forwards, prog,
          starved, phase, pc, wide>>

building == <<bytes, size, room, wideOpcode, location, forwards, prog, starved>>

Unset == -1

-------------------------------------------------------------------------------
(* Numbers, big endian.                                                    *)

Digits(value, n) ==
  LET rest[i \in 0..n] == IF i = 0 THEN value ELSE rest[i - 1] \div Byte
  IN  [i \in 1..n |-> rest[n - i] % Byte]

Number(digits) ==
  LET number[i \in 0..Len(digits)] ==
        IF i = 0 THEN 0 ELSE number[i - 1] * Byte + digits[i]
  IN  number[Len(digits)]

\* A u16 read as an i16.
Signed(value) == IF 2 * value >= Shorts THEN value - Shorts ELSE value

-------------------------------------------------------------------------------
(* The builder.                                                            *)

\* moduleweb_insn_list_init zeroes the list, the wide opcode too; the client may set it.
CodeInit ==
  /\ bytes = <<>>
  /\ size = InitialSize /\ room = InitialSize
  /\ wideOpcode \in {NOP, WIDE}
  /\ location = [l \in Labels |-> Unset]
  /\ forwards = <<>>
  /\ prog = <<>>
  /\ starved = FALSE
  /\ phase = "building"
  /\ pc = 0 /\ wide = FALSE

\* Mutant of Full: the buffer may be filled to its last byte.
FullExactly(n) == Len(bytes) + n > size

\* moduleweb_insn_list_prepare: the new size is kept when realloc has failed, and
\* the stream then stays as it was.
Full(n) == Len(bytes) + n >= size

Prepare(n, allocated) ==
  /\ size' = IF Full(n) THEN 2 * size ELSE size
  /\ room' = IF Full(n) /\ allocated THEN 2 * size ELSE room
  /\ starved' = (starved \/ (Full(n) /\ ~allocated))

\* Writes to a stream over a buffer: one that does not fit fails and writes nothing,
\* and the instruction is left there.
Written(parts) ==
  LET stream[i \in 0..Len(parts)] ==
        IF i = 0 THEN [ok |-> TRUE, out |-> bytes]
        ELSE IF stream[i - 1].ok /\ Len(stream[i - 1].out) + Len(parts[i]) <= room'
        THEN [ok |-> TRUE, out |-> stream[i - 1].out \o parts[i]]
        ELSE [ok |-> FALSE, out |-> stream[i - 1].out]
  IN  stream[Len(parts)]

\* An instruction of n bytes that the client asked for: nothing is written when the
\* buffer could not grow, and nobody is told.
Emit(n, parts, op, args, allocated) ==
  /\ Len(prog) < MaxInsns
  /\ Prepare(n, allocated)
  /\ IF Full(n) /\ ~allocated
     THEN UNCHANGED <<bytes, prog>>
     ELSE /\ bytes' = Written(parts).out
          /\ prog' = Append(prog, [at |-> Len(bytes), op |-> op, args |-> args])

\* moduleweb_insn_list_long and its shorter siblings.
Push(allocated) ==
  /\ Emit(9, <<<<LPUSH>>, Digits(1, 8)>>, LPUSH, <<1>>, allocated)
  /\ UNCHANGED <<location, forwards>>

\* _global_var, _call, _class, _field, _method, _ldc_str: the index is 16 bits wide.
ConstantInsn(index, allocated) ==
  /\ Emit(3, <<<<CALL>>, Digits(index, 2)>>, CALL, <<index>>, allocated)
  /\ UNCHANGED <<location, forwards>>

\* moduleweb_insn_list_var.
Var(local, allocated) ==
  /\ IF local > Byte - 1
     THEN Emit(4, <<<<wideOpcode>>, <<LOAD>>, Digits(local, 2)>>, LOAD, <<local>>, allocated)
     ELSE Emit(2, <<<<LOAD>>, Digits(local, 1)>>, LOAD, <<local>>, allocated)
  /\ UNCHANGED <<location, forwards>>

\* moduleweb_insn_list_inc: the wide form asks for five bytes and writes six, and the
\* byte that prepare keeps free is the sixth.
IncIsWide(local, by) == local > Byte - 1 \/ ~FitsByte(by)

IncInsn(local, by, allocated) ==
  /\ IF IncIsWide(local, by)
     THEN Emit(5, <<<<WIDE>>, <<INC>>, Digits(local, 2), Digits(by, 2)>>,
               INC, <<local, by>>, allocated)
     ELSE Emit(3, <<<<INC>>, Digits(local, 1), Digits(by, 1)>>,
               INC, <<local, by>>, allocated)
  /\ UNCHANGED <<location, forwards>>

\* Mutant of Displacement: counted from the opcode.
DisplacementFromOpcode(from, to) == to - from + 2

\* What is added to the pc behind the operand.
Displacement(from, to) == to - from

\* moduleweb_insn_list_jump and moduleweb_insn_list_forward_label: a label that has no
\* location yet is written as whatever its memory holds, and remembered.
Jump(label, garbage, allocated) ==
  LET end == Len(bytes) + 3
      here == IF location[label] = Unset THEN garbage ELSE location[label]
  IN  /\ Emit(3, <<<<JMP>>, Digits(Displacement(end, here), 2)>>, JMP, <<label>>, allocated)
      /\ forwards' = IF location[label] # Unset \/ (Full(3) /\ ~allocated)
                        \/ ~Written(<<<<JMP>>, <<0, 0>>>>).ok
                     THEN forwards
                     ELSE Append(forwards, [label |-> label, location |-> end - 2,
                                            origin |-> end])
      /\ UNCHANGED location

\* moduleweb_insn_list_add_label.  The client adds a label once.
AddLabel(label) ==
  /\ location[label] = Unset
  /\ location' = [location EXCEPT ![label] = Len(bytes)]
  /\ UNCHANGED <<bytes, size, room, forwards, prog, starved>>

Build ==
  /\ phase = "building"
  /\ \/ \E allocated \in BOOLEAN :
          \/ Push(allocated)
          \/ ConstantInsn(1, allocated)
          \/ \E local \in Locals : Var(local, allocated)
          \/ \E local \in Locals, by \in Increments : IncInsn(local, by, allocated)
          \/ \E label \in Labels, garbage \in {0, Byte} : Jump(label, garbage, allocated)
     \/ \E label \in Labels : AddLabel(label)
  /\ UNCHANGED <<wideOpcode, phase, pc, wide>>

\* moduleweb_insn_list_patch_labels.
Patched(code, forward) ==
  LET digits == Digits(Displacement(forward.origin, location[forward.label]), 2)
  IN  [code EXCEPT ![forward.location + 1] = digits[1], ![forward.location + 2] = digits[2]]

PatchedAll ==
  LET code[i \in 0..Len(forwards)] ==
        IF i = 0 THEN bytes ELSE Patched(code[i - 1], forwards[i])
  IN  code[Len(forwards)]

\* moduleweb_attribute_builder_code: the counts of locals and of stack slots, the length
\* of the code and the code.
CodeAttribute(code) ==
  Digits(LocalSlots, 2) \o Digits(StackDepth, 2) \o Digits(Len(code), 4) \o code

\* The attribute is made and the list freed.  The client has added every label it jumps to.
Finish ==
  /\ phase = "building"
  /\ \A i \in DOMAIN forwards : location[forwards[i].label] # Unset
  /\ bytes' = CodeAttribute(PatchedAll)
  /\ phase' = "stored"
  /\ UNCHANGED <<size, room, wideOpcode, location, forwards, prog, starved, pc, wide>>

-------------------------------------------------------------------------------
(* The function is loaded.                                                 *)

\* moduleweb_code_attribute_init reads a stream over the attribute: the code is a pointer
\* into it, and nothing checks that it holds as many bytes as the length says.
CodeOf(info) ==
  LET length == Number(SubSeq(info, 5, 8)) IN SubSeq(info, 9, 8 + length)

\* The constructor of Function, and enterFunction.
LoadFunction ==
  /\ phase = "stored"
  /\ bytes' = CodeOf(bytes)
  /\ phase' = "running"
  /\ UNCHANGED <<size, room, wideOpcode, location, forwards, prog, starved, pc, wide>>

-------------------------------------------------------------------------------
(* The executor.                                                           *)

\* fetch, fetchShort, fetchInt, fetchLong.  The pc is unsigned: a jump to before the
\* code leaves it far behind the code.
InCode(n) == pc >= 0 /\ pc + n <= Len(bytes)
Fetched(at, n) == Number(SubSeq(bytes, at + 1, at + n))

\* The bytes of an operand that an instruction fetches; INC fetches two.
Width(op, isWide) ==
  CASE op \in {LOAD, INC} -> IF isWide THEN 2 ELSE 1
    [] op = JMP   -> 2
    [] op = CALL  -> IF isWide THEN 4 ELSE 2
    [] op = LPUSH -> 8
    [] OTHER      -> 0

Length(op, isWide) == 1 + (IF op = INC THEN 2 ELSE 1) * Width(op, isWide)

\* Inc: an increment of one byte is fetched without its sign.
Increment(at, isWide) ==
  IF isWide THEN Signed(Fetched(at + 3, 2)) ELSE Fetched(at + 2, 1)

\* What the handler of the opcode at a place is given.
Operands(at, isWide) ==
  LET op == bytes[at + 1]
  IN  CASE op = INC  -> <<Fetched(at + 1, Width(op, isWide)), Increment(at, isWide)>>
        [] op = JMP  -> <<at + 3 + Signed(Fetched(at + 1, 2))>>
        [] op \in {LOAD, CALL, LPUSH} -> <<Fetched(at + 1, Width(op, isWide))>>
        [] OTHER     -> <<>>

\* ThrowFetchOutOfBounds, ThrowInvalidOpcode.
FetchFails ==
  /\ phase' = "exited"
  /\ UNCHANGED <<building, pc, wide>>

\* The handlers without a WideGuard leave the flag as it is.
Unguarded == {NOP, JMP, LPUSH}

\* executeInstruction: NOP is passed over, Wide sets the flag, a jump is taken or not,
\* and any other handler fetches its operands and clears the flag.
ExecuteInstruction ==
  /\ phase = "running"
  /\ LET op == bytes[pc + 1]
     IN  IF ~InCode(1) \/ (op \notin Range(Opcodes)) \/ ~InCode(Length(op, wide))
         THEN FetchFails
         ELSE /\ \/ pc' = pc + Length(op, wide)
                 \/ op = JMP /\ pc' = Operands(pc, wide)[1]
              /\ wide' = (op = WIDE \/ (op \in Unguarded /\ wide))
              /\ UNCHANGED <<building, phase>>

CodeNext == Build \/ Finish \/ LoadFunction \/ ExecuteInstruction

CodeSpec == CodeInit /\ [][CodeNext]_codeVars

-------------------------------------------------------------------------------

\* The type invariant.
CodeTypeOK ==
  /\ bytes \in Seq(0..(Byte - 1))
  /\ size \in Nat /\ room \in Nat /\ (phase # "stored" => Len(bytes) <= room)
  /\ location \in [Labels -> Nat \cup {Unset}]
  /\ phase \in {"building", "stored", "running", "exited"}
  /\ starved \in BOOLEAN /\ wide \in BOOLEAN

\* An instruction that the two sides write and read alike: a narrow increment is not
\* negative, a local of two bytes has the prefix that the client has set, and a jump
\* reaches its label with 16 bits.
Representable(insn) ==
  CASE insn.op = INC  -> insn.args[2] >= 0 \/ IncIsWide(insn.args[1], insn.args[2])
    [] insn.op = LOAD -> insn.args[1] < Byte \/ wideOpcode = WIDE
    [] insn.op = JMP  -> FitsShort(location[insn.args[1]] - (insn.at + 3))
    [] OTHER          -> TRUE

\* The instruction behind the prefix, and where the next one begins.
Prefixed(insn) == insn.at < Len(bytes) /\ bytes[insn.at + 1] = WIDE
Opcode(insn) == insn.at + (IF Prefixed(insn) THEN 1 ELSE 0)
EndOf(k) == IF k < Len(prog) THEN prog[k + 1].at ELSE Len(bytes)

\* The operands the client asked for, a label being the place where it was added.
Asked(insn) == IF insn.op = JMP THEN <<location[insn.args[1]]>> ELSE insn.args

\* When no allocation failed, the executor finds each instruction that can be
\* represented where the builder put it, with the operand the client gave, and the
\* next instruction right behind it: however the buffer grew and whether a label came
\* before or after the jumps to it.
DecodesAsEmitted ==
  phase \in {"running", "exited"} /\ ~starved =>
    \A k \in DOMAIN prog :
      Representable(prog[k]) =>
        LET at == Opcode(prog[k])
            isWide == Prefixed(prog[k])
        IN  /\ at + Length(prog[k].op, isWide) = EndOf(k)
            /\ bytes[at + 1] = prog[k].op
            /\ Operands(at, isWide) = Asked(prog[k])

Boundaries == { prog[k].at : k \in DOMAIN prog } \cup {Len(bytes)}

\* The code that runs is the code that was built: the pc is at an instruction of the
\* builder's, or behind a prefix with the flag set, as long as every instruction can
\* be represented and no allocation failed.
RunsOnBoundaries ==
  phase = "running" /\ ~starved /\ (\A k \in DOMAIN prog : Representable(prog[k])) =>
    IF wide THEN pc - 1 \in Boundaries /\ bytes[pc] = WIDE ELSE pc \in Boundaries

\* No byte is written behind the room there is, however the list grew, and what runs is
\* what was built.
ExecutionSound == CodeTypeOK /\ RunsOnBoundaries

===============================================================================
