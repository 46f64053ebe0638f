------------------------------ MODULE ModuleFiles ------------------------------
(***************************************************************************)
(* A module from its builder to a file and back: a client describes it and *)
(* asks for constants (moduleweb/src/builder), builds it, writes it over   *)
(* what the file held before, and somebody reads it, with failures of the  *)
(* system and of the allocator on the way.  The builders hardly look for   *)
(* them: a failed copy of an attribute's bytes or of a superclass's name   *)
(* is passed over in silence, and every other one ends the process, there  *)
(* and then or when the module is built.                                   *)
(***************************************************************************)
EXTENDS ModuleInfo, FiniteSetsExt

CONSTANTS
  Names,       \* names the client uses
  Descriptors, \* descriptors it uses
  Modules,     \* modules its constants refer to
  Targets,     \* names of what they refer to
  Payload,     \* what its attributes hold
  Modifiers,   \* its modifiers
  NoString,    \* the null pointer that strdup returns
  U16Max,      \* 0xFFFF in the code
  Capacities,  \* 0x10000 in the code: the capacity of a pool is a u16 as well
  OutBlock,    \* tokens in a buffer of an outstream
  StaleSizes,  \* how long the file may be that is written over
  Junk,        \* a token of that file
  MaxClasses,  \* bound on the classes
  MaxCalls,    \* bound on the client's calls that add to the class or the module
  MaxFuel      \* bound on the calls to the system that succeed before one fails

ASSUME OutBlockAssumption ==
  /\ OutBlock \in Nat \ {0} /\ U16Max \in Nat
  /\ Capacities \in { 2^k : k \in 3..16 }

VARIABLES
  builder,  \* the module builder: what was added to it, its pools and their capacities,
            \*   the next index; whether a string that it or its open class needs is a
            \*   null pointer; whether it has not written to one
  open,     \* the class builder: a sequence of none or one class
  heap,     \* the blocks of the builders and of the module they have built
  asked,    \* what the client asked for, complete when it is built (history)
  given,    \* the constants it was given (history)
  calls,    \* number of its calls
  phase,    \* "building", "deleted", "oversized", "writing", "accepted", "refused",
            \*   "closed", "read", "unread", "released", "built", "unopened", "crashed"
  info,     \* the module_info that is written
  file,     \* the file
  flushed,  \* tokens in it that were flushed
  torn,     \* whether a part of a buffer was written, and the buffer again
  reader    \* the reader when it is done

vars == <<builder, open, heap, asked, given, calls, phase, info, file, flushed, torn, reader>>

-------------------------------------------------------------------------------
(* The constants of a builder.                                             *)

\* moduleweb_module_builder, zeroed, and constant_pool_index = 1 set by the client.
EmptyBuilder ==
  [attributes |-> <<>>, classes |-> <<>>, globals |-> <<>>, functions |-> <<>>,
   pools |-> [t \in ConstantTypes |-> <<>>], capacity |-> [t \in ConstantTypes |-> 0],
   next |-> 1, val |-> 0, null |-> FALSE, ok |-> TRUE]

\* Mutant of Find: an existing constant is recognised by its last argument.
FindByLast(b, type, args) ==
  { k \in DOMAIN b.pools[type] : Last(b.pools[type][k].args) = Last(args) }

\* The loop over the constants of a type.
Find(b, type, args) == { k \in DOMAIN b.pools[type] : b.pools[type][k].args = args }

\* ensure_const_pool_capacity: twice the greatest capacity is 0, realloc to 0 frees the pool
\* and returns NULL, and the constant is written behind it.
EnsureCapacity(b, type) ==
  LET size == Len(b.pools[type])
      capacity == CASE size = 0 -> 4
                    [] size > 0 /\ size < b.capacity[type] -> b.capacity[type]
                    [] OTHER -> (2 * b.capacity[type]) % Capacities
  IN  [b EXCEPT !.capacity[type] = capacity, !.ok = @ /\ capacity > 0]

\* The rest of moduleweb_module_builder_resolve_*: val is the result.
Resolve(b, type, args) ==
  LET found == Find(b, type, args)
  IN  IF found # {} THEN [b EXCEPT !.val = b.pools[type][Min(found)].index]
      ELSE [EnsureCapacity(b, type) EXCEPT
              !.pools[type] = Append(@, [index |-> b.next, args |-> args]),
              !.next = (b.next + 1) % (U16Max + 1),
              !.val = b.next]

\* A value that the rest of a function goes on with.
With(value, Then(_)) == Then(value)

\* Two arguments, resolved one after the other, are a constant.
Pair(type, first, Second(_)) ==
  With(Second(first), LAMBDA second : Resolve(second, type, <<first.val, second.val>>))

ResolveString(b, string) == Resolve(b, ASCII, <<string>>)

ResolveName(b, name, descriptor) ==
  Pair(NAME, ResolveString(b, name), LAMBDA n : ResolveString(n, descriptor))

ResolveModuleRef(b, name) ==
  With(ResolveString(b, name), LAMBDA n : Resolve(n, MODULE_REF, <<n.val>>))

\* moduleweb_module_builder_resolve_global_var_ref and _function_ref.
ResolveEntity(b, type, ref) ==
  Pair(type, ResolveModuleRef(b, ref.module),
       LAMBDA m : ResolveName(m, ref.name, ref.descriptor))

ResolveClassRef(b, ref) ==
  Pair(CLASS_REF, ResolveModuleRef(b, ref.module), LAMBDA m : ResolveString(m, ref.class))

\* moduleweb_module_builder_resolve_field_ref and _method_ref, which stores its operands
\* as those of a field.
ResolveMember(b, type, ref) ==
  Pair(type, ResolveClassRef(b, ref), LAMBDA c : ResolveName(c, ref.name, ref.descriptor))

ResolveRef(b, type, ref) ==
  CASE type = CLASS_REF -> ResolveClassRef(b, ref)
    [] type \in {FIELD_REF, METHOD_REF} -> ResolveMember(b, type, ref)
    [] OTHER -> ResolveEntity(b, type, ref)

-------------------------------------------------------------------------------
(* Building.  A step threads the builder through and appends to its output. *)

Thread(b, seq, Step(_, _)) ==
  FoldLeft(LAMBDA s, x :
             With(Step(s.b, x), LAMBDA y : [b |-> y.b, out |-> Append(s.out, y.out)]),
           [b |-> b, out |-> <<>>], seq)

\* moduleweb_module_builder_transfer_attributes: the payloads change hands.
TransferAttributes(b, attributes) ==
  Thread(b, attributes,
         LAMBDA c, a : With(ResolveString(c, a.name),
                            LAMBDA n : [b |-> n, out |-> [name |-> n.val, info |-> a.info]]))

\* A field, a global variable or a function of moduleweb_module_builder_build.
BuildMember(b, member) ==
  With(ResolveName(b, member.name, member.descriptor), LAMBDA n :
  With(TransferAttributes(n, member.attributes), LAMBDA attributes :
    [b |-> attributes.b,
     out |-> [modifiers |-> member.modifiers, name |-> n.val, attributes |-> attributes.out]]))

BuildMethod(b, method) ==
  With(ResolveName(b, method.name, method.descriptor), LAMBDA n :
  With(ResolveEntity(n, FUNCTION_REF, method.target), LAMBDA f :
  With(TransferAttributes(f, method.attributes), LAMBDA attributes :
    [b |-> attributes.b,
     out |-> [modifiers |-> method.modifiers, name |-> n.val, function |-> f.val,
              attributes |-> attributes.out]])))

\* A class has no superclass, or it has lost one: strdup of one of its two names failed.
Superless(class) == class.super \in {<<>>, <<NoString>>}

BuildClass(b, class) ==
  With(ResolveString(b, class.name), LAMBDA n :
  With(IF Superless(class) THEN [n EXCEPT !.val = 0] ELSE ResolveClassRef(n, class.super[1]),
       LAMBDA super :
  With(TransferAttributes(super, class.attributes), LAMBDA attributes :
  With(Thread(attributes.b, class.fields, BuildMember), LAMBDA fields :
  With(Thread(fields.b, class.methods, BuildMethod), LAMBDA methods :
    [b |-> methods.b,
     out |-> [name |-> n.val, modifiers |-> class.modifiers, super |-> super.val,
              attributes |-> attributes.out, fields |-> fields.out,
              methods |-> methods.out]])))))

\* total_constant_pool_size.
PoolSize(b) == FoldLeft(+, 1, [t \in 1..8 |-> Len(b.pools[t - 1])])

\* The loop that fills info->constant_pool, each constant at its index.
FillPool(b) ==
  [i \in 1..(PoolSize(b) - 1) |->
     LET at == CHOOSE at \in UNION { {t} \X DOMAIN b.pools[t] : t \in ConstantTypes } :
                 b.pools[at[1]][at[2]].index = i
     IN  [type |-> at[1], args |-> b.pools[at[1]][at[2]].args]]

\* The module_info, and the builder with all its constants.
BuildModule(b) ==
  With(TransferAttributes(b, b.attributes), LAMBDA attributes :
  With(Thread(attributes.b, b.classes, BuildClass), LAMBDA classes :
  With(Thread(classes.b, b.globals, BuildMember), LAMBDA globals :
  With(Thread(globals.b, b.functions, BuildMember), LAMBDA functions :
    [b |-> functions.b,
     out |-> [attributes |-> attributes.out, classes |-> classes.out,
              globals |-> globals.out, functions |-> functions.out,
              pool |-> IF PoolSize(functions.b) > U16Max THEN <<>> ELSE FillPool(functions.b)]]))))

-------------------------------------------------------------------------------
(* The memory of the builders.  A string that could not be copied is       *)
(* neither allocated nor freed: these sets have it in both.                *)

StringBlocks(parts, owner) == { Block(part, owner, 0) : part \in parts }
TableOf(seq, part, owner) == IF seq = <<>> THEN {} ELSE {Block(part, owner, 0)}

\* moduleweb_attribute_vector_delete: the vector, the names and the payloads.
VectorDelete(attributes, owner) ==
  TableOf(attributes, "vector", owner) \cup InfoBlocks(attributes, owner)
    \cup { Block("aname", owner, k) : k \in DOMAIN attributes }

\* moduleweb_field_delete, and its two siblings of the same form.
MemberDelete(member, owner) ==
  StringBlocks({"name", "descriptor"}, owner) \cup VectorDelete(member.attributes, owner)
GlobalVarDelete(globalVar, j) == MemberDelete(globalVar, <<"global", 0, j>>)
FunctionDelete(function, j) == MemberDelete(function, <<"function", 0, j>>)

FieldsDelete(fields, i) ==
  UNION { MemberDelete(fields[j], <<"field", i, j>>) : j \in DOMAIN fields }

\* moduleweb_method_delete.
MethodDelete(method, owner) ==
  MemberDelete(method, owner) \cup StringBlocks({"fmodule", "fname", "fdescriptor"}, owner)

MethodsDelete(class, i) ==
  UNION { MethodDelete(class.methods[j], <<"method", i, j>>) : j \in DOMAIN class.methods }

\* moduleweb_class_delete: it does not know of methods.
ClassDelete(class, i) ==
  StringBlocks({"name"} \cup (IF Superless(class) THEN {} ELSE {"smodule", "sname"}), ClassAt(i))
    \cup VectorDelete(class.attributes, ClassAt(i))
    \cup FieldsDelete(class.fields, i)
    \cup TableOf(class.fields, "fvector", ClassAt(i))

\* moduleweb_class_builder_delete, of the same form.
ClassBuilderDelete(class, i) == ClassDelete(class, i)

\* What the client's calls have allocated for a class.
ClassAllocated(class, i) ==
  ClassDelete(class, i) \cup TableOf(class.fields, "fvector", ClassAt(i))
    \cup MethodsDelete(class, i) \cup TableOf(class.methods, "mvector", ClassAt(i))

\* moduleweb_constant_delete for each constant, and the pools.
PoolBlocks(b) ==
  { Block("bytes", Constant(c.index), 0) : c \in ToSet(b.pools[ASCII]) }
    \cup { Block("constants", Constant(t), 0) : t \in { u \in ConstantTypes : b.pools[u] # <<>> } }

\* moduleweb_module_builder_delete.
BuilderDelete(b) ==
  VectorDelete(b.attributes, Module) \cup PoolBlocks(b)
    \cup UNION { ClassDelete(b.classes[i], i) : i \in DOMAIN b.classes }
    \cup UNION { GlobalVarDelete(b.globals[j], j) : j \in DOMAIN b.globals }
    \cup UNION { FunctionDelete(b.functions[j], j) : j \in DOMAIN b.functions }
    \cup TableOf(b.classes, "cvector", Module) \cup TableOf(b.globals, "gvector", Module)
    \cup TableOf(b.functions, "uvector", Module)

\* What is allocated in a builder: what it deletes, and the methods.
Allocated(b) ==
  BuilderDelete(b) \cup UNION { ClassAllocated(b.classes[i], i) : i \in DOMAIN b.classes }

-------------------------------------------------------------------------------
(* The client describes its module.                                        *)

\* An attribute, whose bytes moduleweb_attribute_builder_info may have had no memory for.
Attributes ==
  {<<>>} \cup { <<[name |-> n, info |-> i]>> : n \in Modules, i \in {Payload, NoInfo} }
Entities == [module : Modules, name : Targets, descriptor : Descriptors]
Members == [modifiers : Modifiers, name : Names, descriptor : Descriptors, attributes : Attributes]
Methods == [modifiers : Modifiers, name : Names, descriptor : Descriptors,
            attributes : Attributes, target : Entities]
ClassRefs == [module : Modules, class : Targets]
Supers == {<<>>, <<NoString>>} \cup { <<ref>> : ref \in ClassRefs }

References ==
  ({GLOBAL_VAR_REF, FUNCTION_REF} \X Entities)
    \cup ({CLASS_REF} \X ClassRefs)
    \cup ({FIELD_REF, METHOD_REF}
            \X [module : Modules, class : Targets, name : Targets, descriptor : Descriptors])

Init ==
  /\ builder = EmptyBuilder
  /\ open = <<>> /\ heap = {}
  /\ asked = EmptyBuilder /\ given = {} /\ calls = 0
  /\ phase = "building"
  /\ info = <<>> /\ reader = <<>>
  /\ file \in { [i \in 1..n |-> Junk] : n \in StaleSizes }
  /\ flushed = 0 /\ torn = FALSE

\* strdup of a name or a descriptor may fail, which nobody looks for until Build reads it.
Copied(b) == {b, [b EXCEPT !.null = TRUE]}

Call ==
  /\ phase = "building"
  /\ calls < MaxCalls
  /\ calls' = calls + 1
  /\ UNCHANGED <<heap, asked, info, file, flushed, torn, reader>>

\* moduleweb_class_builder_name, _modifiers, _super_class.
OpenClass ==
  /\ phase = "building"
  /\ open = <<>> /\ Len(builder.classes) < MaxClasses
  /\ \E name \in Names, modifiers \in Modifiers, super \in Supers :
       open' = <<[name |-> name, modifiers |-> modifiers, super |-> super,
                  attributes |-> <<>>, fields |-> <<>>, methods |-> <<>>]>>
  /\ builder' \in Copied(builder)
  /\ UNCHANGED <<heap, asked, given, calls, phase, info, file, flushed, torn, reader>>

\* moduleweb_class_builder_add_attribute.
AddClassAttribute ==
  /\ Call
  /\ open # <<>>
  /\ \E attributes \in Attributes :
       open' = <<[open[1] EXCEPT !.attributes = @ \o attributes]>>
  /\ builder' \in Copied(builder)
  /\ UNCHANGED <<given, phase>>

\* moduleweb_class_builder_add_field of what moduleweb_field_builder_build returned.
AddField ==
  /\ Call
  /\ open # <<>>
  /\ \E field \in Members : open' = <<[open[1] EXCEPT !.fields = Append(@, field)]>>
  /\ builder' \in Copied(builder)
  /\ UNCHANGED <<given, phase>>

\* moduleweb_class_builder_add_method.
AddMethod ==
  /\ Call
  /\ open # <<>>
  /\ \E method \in Methods : open' = <<[open[1] EXCEPT !.methods = Append(@, method)]>>
  /\ builder' \in Copied(builder)
  /\ UNCHANGED <<given, phase>>

\* moduleweb_class_builder_build and moduleweb_module_builder_add_class.
AddClass ==
  /\ phase = "building"
  /\ open # <<>>
  /\ builder' = [builder EXCEPT !.classes = Append(@, open[1])]
  /\ open' = <<>>
  /\ UNCHANGED <<heap, asked, given, calls, phase, info, file, flushed, torn, reader>>

\* moduleweb_attribute_builder and moduleweb_module_builder_add_attribute.
AddAttribute ==
  /\ Call
  /\ \E attributes \in Attributes :
       builder' \in Copied([builder EXCEPT !.attributes = @ \o attributes])
  /\ UNCHANGED <<open, given, phase>>

\* moduleweb_module_builder_add_global_var of what moduleweb_global_var_builder_build
\* returned.
AddGlobalVar ==
  /\ Call
  /\ \E member \in Members :
       builder' \in Copied([builder EXCEPT !.globals = Append(@, member)])
  /\ UNCHANGED <<open, given, phase>>

\* moduleweb_module_builder_add_function of what moduleweb_function_builder_build returned.
AddFunction ==
  /\ Call
  /\ \E member \in Members :
       builder' \in Copied([builder EXCEPT !.functions = Append(@, member)])
  /\ UNCHANGED <<open, given, phase>>

\* An instruction or the client itself asks for a constant.
AskConstant ==
  /\ Call
  /\ \E reference \in References :
       With(ResolveRef(builder, reference[1], reference[2]), LAMBDA resolved :
         IF resolved.ok
         THEN /\ builder' = resolved
              /\ given' = given \cup {<<reference, resolved.val>>}
              /\ UNCHANGED phase
         ELSE /\ phase' = "crashed"
              /\ UNCHANGED <<builder, given>>)
  /\ UNCHANGED open

\* There is no memory for a vector, and the process exits; or for a pool, a string of it
\* or a table of the module, and it writes to a null pointer.
OutOfMemory ==
  /\ phase = "building"
  /\ phase' = "crashed"
  /\ UNCHANGED <<builder, open, heap, asked, given, calls, info, file, flushed, torn, reader>>

\* moduleweb_module_builder_delete, and moduleweb_class_builder_delete on an open class.
Delete ==
  /\ phase = "building"
  /\ phase' = "deleted"
  /\ LET i == Len(builder.classes) + 1
         ofOpen == IF open = <<>> THEN {} ELSE ClassAllocated(open[1], i)
         deleted == IF open = <<>> THEN {} ELSE ClassBuilderDelete(open[1], i)
     IN  heap' = (Allocated(builder) \cup ofOpen) \ (BuilderDelete(builder) \cup deleted)
  /\ UNCHANGED <<builder, open, asked, given, calls, info, file, flushed, torn, reader>>

\* moduleweb_module_builder_build: a null pointer in place of a string ends the process; with
\* too many constants it returns half-way and nobody is told.
Build ==
  /\ phase = "building" /\ open = <<>>
  /\ \E built \in {BuildModule(builder)} :
     LET full == built.b
         methods == UNION { MethodsDelete(full.classes[i], i) : i \in DOMAIN full.classes }
         moved == { block \in ModuleBlocks(built.out) : block[1] \in {"info", "bytes"} }
     IN  /\ asked' = builder
         /\ IF builder.null \/ ~full.ok \/ PoolSize(full) > U16Max
            THEN /\ phase' = IF builder.null \/ ~full.ok THEN "crashed" ELSE "oversized"
                 /\ UNCHANGED <<builder, heap, info>>
            ELSE /\ phase' = "built"
                 /\ info' = built.out
                 /\ heap' = (Allocated(full) \ ((BuilderDelete(full) \cup methods) \ moved))
                              \cup ModuleBlocks(built.out)
                 /\ builder' = [EmptyBuilder EXCEPT !.next = 0]
  /\ UNCHANGED <<open, given, calls, file, flushed, torn, reader>>

-------------------------------------------------------------------------------
(* The writer: moduleweb_writer_accept over an outstream.                   *)

\* moduleweb_outstream_init: it fails, or works without a buffer to write to.
OpenOut ==
  /\ phase = "built"
  /\ \E fuel \in 0..Cardinality(StreamBlocks) :
       LET stream == OutstreamInit(Reader(<<>>, FALSE, fuel))
       IN  /\ heap' = heap \cup stream.live
           /\ phase' = CASE ~stream.ok -> "unopened"
                          [] stream.live = StreamBlocks -> "writing"
                          [] OTHER -> "crashed"
  /\ UNCHANGED <<builder, open, asked, given, calls, info, file, flushed, torn, reader>>

\* Opening does not cut off what the file held.
Overlay(tokens, at, new) ==
  [i \in 1..(IF at + Len(new) > Len(tokens) THEN at + Len(new) ELSE Len(tokens)) |->
     IF i \in (at + 1)..(at + Len(new)) THEN new[i - at] ELSE tokens[i]]

\* What is in the buffer when it is flushed.
Buffered ==
  LET all == Emission(info)
  IN  SubSeq(all, flushed + 1, IF flushed + OutBlock < Len(all) THEN flushed + OutBlock ELSE Len(all))

\* moduleweb_file_write of the first n tokens of the buffer.
FileWrite(n) == Overlay(file, flushed, SubSeq(Buffered, 1, n))

\* moduleweb_outstream_write_bytes flushes a full buffer, and moduleweb_writer_accept
\* the last one.
Flush ==
  /\ phase = "writing"
  /\ file' = FileWrite(Len(Buffered))
  /\ flushed' = flushed + Len(Buffered)
  /\ phase' = IF flushed' = Len(Emission(info)) THEN "accepted" ELSE "writing"
  /\ UNCHANGED <<builder, open, heap, asked, given, calls, info, torn, reader>>

\* moduleweb_outstream_flush fails, or the system writes less than was asked: the buffer
\* keeps all it held.
FlushFails ==
  /\ phase = "writing"
  /\ \E n \in {0, Len(Buffered) - 1} :
       /\ file' = FileWrite(n)
       /\ torn' = (n > 0)
  /\ phase' = "refused"
  /\ UNCHANGED <<builder, open, heap, asked, given, calls, info, flushed, reader>>

\* moduleweb_outstream_uninit flushes what the buffer holds, once more after a failure;
\* torn files, in which a part of a buffer comes twice, are not followed further.
Close ==
  /\ \/ /\ phase = "accepted"
        /\ UNCHANGED <<file, flushed>>
     \/ /\ phase = "refused" /\ ~torn
        /\ \E n \in {Len(Buffered), 0} :
             /\ file' = FileWrite(n)
             /\ flushed' = flushed + n
  /\ phase' = "closed"
  /\ heap' = InstreamClose([Reader(<<>>, FALSE, 0) EXCEPT !.live = heap]).live
  /\ UNCHANGED <<builder, open, asked, given, calls, info, torn, reader>>

-------------------------------------------------------------------------------
(* The reader.                                                             *)

\* What is left when the reader is done.
Outcome(r) ==
  [ok |-> r.ok, memory |-> r.memory, tail |-> r.tail, spare |-> r.fuel > 0,
   live |-> r.live, wild |-> r.wild, module |-> IF r.ok THEN <<Top(r)>> ELSE <<>>]

\* LoadModuleFromFile.  What is left of the older file behind a part of the new one is
\* not followed.
ReadFile ==
  /\ phase = "closed"
  /\ flushed \in {0, Len(Emission(info)), Len(file)}
  /\ \E fuel \in 0..MaxFuel : reader' = Outcome(LoadModuleFromFile(Reader(file, FALSE, fuel)))
  /\ phase' = IF reader'.ok THEN "read" ELSE "unread"
  /\ UNCHANGED <<builder, open, heap, asked, given, calls, info, file, flushed, torn>>

\* moduleweb_module_info_init on the bytes in memory, as the native interface does.
ReadMemory ==
  /\ phase = "accepted"
  /\ \E tokens \in {Emission(info)}, fuel \in 0..MaxFuel, garbage \in BOOLEAN :
       reader' = Outcome(ModuleInit(Reader(tokens, TRUE, fuel), garbage))
  /\ phase' = IF reader'.ok THEN "read" ELSE IF reader'.tail THEN "crashed" ELSE "unread"
  /\ UNCHANGED <<builder, open, heap, asked, given, calls, info, file, flushed, torn>>

\* moduleweb_module_info_uninit.
Uninit ==
  /\ phase = "read"
  /\ LET blocks == ModuleBlocks(reader.module[1])
     IN  reader' = [reader EXCEPT !.live = @ \ blocks, !.wild = @ \cup (blocks \ reader.live)]
  /\ phase' = "released"
  /\ UNCHANGED <<builder, open, heap, asked, given, calls, info, file, flushed, torn>>

Next ==
  \/ OpenClass \/ AddClassAttribute \/ AddField \/ AddMethod \/ AddClass
  \/ AddAttribute \/ AddGlobalVar \/ AddFunction \/ AskConstant
  \/ OutOfMemory \/ Delete \/ Build
  \/ OpenOut \/ Flush \/ FlushFails \/ Close
  \/ ReadFile \/ ReadMemory \/ Uninit

Spec == Init /\ [][Next]_vars

-------------------------------------------------------------------------------

\* The type invariant, with the shape of the constants: they are in the memory of their
\* pool, and each refers to constants of lower indices.
TypeOK ==
  /\ \A t \in ConstantTypes : Len(builder.pools[t]) <= builder.capacity[t]
  /\ \A t \in ConstantTypes : \A k \in DOMAIN builder.pools[t] :
       LET c == builder.pools[t][k]
       IN  /\ c.index \in 1..U16Max
           /\ t # ASCII => \A j \in DOMAIN c.args : c.args[j] \in 1..(c.index - 1)
  /\ calls \in 0..MaxCalls
  /\ phase \in {"building", "deleted", "oversized", "writing", "accepted", "refused",
                "closed", "read", "unread", "released", "built", "unopened", "crashed"}
  /\ flushed \in 0..Len(file) /\ torn \in BOOLEAN

\* What an index stands for in a module that was read; 0 stands for nothing.
Argument(args, k) == IF k \in DOMAIN args THEN args[k] ELSE 0
TextAt(m, i) == Argument(Get(m, i, ASCII), 1)
NameAt(m, i) ==
  LET c == Get(m, i, NAME) IN <<TextAt(m, Argument(c, 1)), TextAt(m, Argument(c, 2))>>
ModuleAt(m, i) == TextAt(m, Argument(Get(m, i, MODULE_REF), 1))
EntityAt(m, type, i) ==
  LET c == Get(m, i, type) IN <<ModuleAt(m, Argument(c, 1))>> \o NameAt(m, Argument(c, 2))
ClassRefAt(m, i) ==
  LET c == Get(m, i, CLASS_REF)
  IN  <<ModuleAt(m, Argument(c, 1)), TextAt(m, Argument(c, 2))>>
MemberAt(m, type, i) ==
  LET c == Get(m, i, type) IN ClassRefAt(m, Argument(c, 1)) \o NameAt(m, Argument(c, 2))

Denotes(m, type, i, ref) ==
  CASE type = CLASS_REF -> ClassRefAt(m, i) = <<ref.module, ref.class>>
    [] type \in {FIELD_REF, METHOD_REF} ->
         MemberAt(m, type, i) = <<ref.module, ref.class, ref.name, ref.descriptor>>
    [] OTHER -> EntityAt(m, type, i) = <<ref.module, ref.name, ref.descriptor>>

\* The text of a reference.
Shown(type, ref) ==
  CASE type = CLASS_REF -> <<ref.module, "::", ref.class>>
    [] type \in {FIELD_REF, METHOD_REF} ->
         <<ref.module, "::", ref.class, "::", ref.name, ref.descriptor>>
    [] OTHER -> <<ref.module, "::", ref.name, ref.descriptor>>

AttributesAgree(m, read, wanted) ==
  /\ Len(read) = Len(wanted)
  /\ \A k \in DOMAIN read :
       /\ read[k].info = IF wanted[k].info = NoInfo THEN <<>> ELSE wanted[k].info
       /\ AttributeArrayGet(m, read, wanted[k].name, 1)
            = { j \in DOMAIN wanted : wanted[j].name = wanted[k].name }

MembersAgree(m, read, wanted) ==
  /\ Len(read) = Len(wanted)
  /\ \A k \in DOMAIN read :
       /\ read[k].modifiers = wanted[k].modifiers
       /\ NameAt(m, read[k].name) = <<wanted[k].name, wanted[k].descriptor>>
       /\ AttributesAgree(m, read[k].attributes, wanted[k].attributes)

ClassesAgree(m, read, wanted) ==
  /\ Len(read) = Len(wanted)
  /\ \A k \in DOMAIN read :
       /\ read[k].modifiers = wanted[k].modifiers
       /\ TextAt(m, read[k].name) = wanted[k].name
       /\ IF Superless(wanted[k]) THEN read[k].super = 0
          ELSE Denotes(m, CLASS_REF, read[k].super, wanted[k].super[1])
       /\ AttributesAgree(m, read[k].attributes, wanted[k].attributes)
       /\ MembersAgree(m, read[k].fields, wanted[k].fields)
       /\ \A f \in ToSet(wanted[k].fields) :
            ClassGetField(m, read[k], f.name, f.descriptor)
              = { j \in DOMAIN wanted[k].fields :
                    /\ wanted[k].fields[j].name = f.name
                    /\ wanted[k].fields[j].descriptor = f.descriptor }
       /\ MembersAgree(m, read[k].methods, wanted[k].methods)
       /\ \A j \in DOMAIN read[k].methods :
            Denotes(m, FUNCTION_REF, read[k].methods[j].function, wanted[k].methods[j].target)

\* A module that is read is the module the client described, each name and reference
\* looked up among its constants, and each index the client was given before the module
\* was complete denotes, and prints as, what it asked for: however constants are shared
\* and blocks flushed and loaded.  Of the failures on the way only two leave a module that
\* can be read and is another one than was described, and they change nothing else: an
\* attribute whose bytes could not be copied is read back empty, and a class of whose
\* superclass a name could not be copied is read back without one.
RoundTrip ==
  phase = "read" =>
    LET m == reader.module[1]
    IN  /\ AttributesAgree(m, m.attributes, asked.attributes)
        /\ ClassesAgree(m, m.classes, asked.classes)
        /\ MembersAgree(m, m.globals, asked.globals)
        /\ MembersAgree(m, m.functions, asked.functions)
        /\ \A g \in given : /\ Denotes(m, g[1][1], g[2], g[1][2])
                             /\ ConstantToString(m)[g[2]] = Shown(g[1][1], g[1][2])

\* The last block that the reader of a complete module loads ends here.
LastLoaded == ((Len(Emission(info)) + InBlock - 1) \div InBlock) * InBlock

\* A module that was completely written over a longer file is refused exactly when the
\* rest of that file goes beyond the block in which the module ends, provided
\* nothing failed.
RefusedForTail ==
  phase \in {"read", "unread"} /\ ~reader.memory /\ reader.spare
    /\ flushed = Len(Emission(info)) =>
      (phase = "unread" <=> Len(file) > LastLoaded)

\* The memory of a reader for the attributes of function j, which may not be there.
AttributesOf(j) ==
  LET owner == <<"function", 0, j>>
      n == IF j \in DOMAIN info.functions THEN Len(info.functions[j].attributes) ELSE 0
  IN  {Block("array", owner, 0)} \cup { Block("info", owner, k) : k \in 1..n }

\* A reader that gives up, wherever a read or an allocation failed, frees all it had
\* allocated but the tables of classes, globals and functions and at most one array of
\* attributes, and frees nothing it does not hold.  If it gives up because the file goes
\* on behind the module, it keeps the attributes of as many functions as the module has
\* beyond the number of its classes; and if it has fewer functions than classes, it frees
\* the attributes of functions that are not there.  When the module was read, uninit
\* frees all of it but the struct.
FailedReadKeepsTables ==
  /\ phase = "unread" =>
       LET classes == Len(info.classes)
           functions == Len(info.functions)
           beyond == IF reader.tail THEN (classes + 1)..functions ELSE {}
           absent == IF reader.tail THEN (functions + 1)..classes ELSE {}
           kept == UNION { AttributesOf(j) : j \in beyond }
           others == reader.live \ (Tables \cup kept)
       IN  /\ reader.wild = UNION { AttributesOf(j) : j \in absent }
           /\ kept \subseteq reader.live
           /\ \A b, c \in others : b[1] = "array" /\ b = c
  /\ phase = "released" => reader.wild = {} /\ \A b \in reader.live : b[1] = "struct"

\* A builder that is deleted or built frees what it does not hand to the module: all but
\* the methods of its classes, and after a build all but their tables; and no stream
\* keeps anything when it was closed or did not open.
BuildersFreeAllButMethods ==
  /\ phase = "deleted" => \A b \in heap : b[1] = "mvector" \/ b[2] = "method"
  /\ phase \in {"built", "unopened", "writing", "accepted", "closed"} =>
       \A b \in heap \ (ModuleBlocks(info) \cup StreamBlocks) : b[1] = "mvector"
  /\ phase \in {"unopened", "closed"} => heap \cap StreamBlocks = {}

\* What a client is left with when something fails: a refusal only for a reason, and
\* nothing of a builder, a stream or an abandoned reader but the blocks named above.
RefusalsClean ==
  TypeOK /\ RefusedForTail /\ FailedReadKeepsTables /\ BuildersFreeAllButMethods

===============================================================================
