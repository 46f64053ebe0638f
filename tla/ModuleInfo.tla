------------------------------- MODULE ModuleInfo -------------------------------
(***************************************************************************)
(* Module files: what moduleweb writes for a module (the *_emit_bytes      *)
(* functions), what it reads back and allocates for it (the *_init         *)
(* functions, with the streams below them), what it frees when it gives up *)
(* and what *_uninit frees.                                                *)
(*                                                                         *)
(* A file is a sequence of tokens: a number or a run of bytes each.  A     *)
(* block of memory is named <<part, kind of owner, class, index, k>>.      *)
(***************************************************************************)
EXTENDS Integers, Sequences, SequencesExt

CONSTANTS
  Magic,       \* MODULEWEB_MAGIC_NUMBER
  Version,     \* bytecode_version
  InBlock,     \* tokens in a buffer of an instream, 16K bytes in the code
  NoInfo       \* a null pointer in place of the bytes of an attribute

ASSUME BlockAssumption == InBlock \in Nat \ {0}

\* moduleweb_constant_type.
ASCII == 0     NAME == 1     MODULE_REF == 2     GLOBAL_VAR_REF == 3
FUNCTION_REF == 4     CLASS_REF == 5     FIELD_REF == 6     METHOD_REF == 7
ConstantTypes == 0..7

-------------------------------------------------------------------------------
(* Writing.                                                                *)

\* moduleweb_attribute_info_emit_bytes, moduleweb_attribute_array_emit_bytes.  Where there
\* are no bytes the length is 0.
EmitAttribute(attribute) ==
  <<attribute.name>> \o (IF attribute.info = NoInfo THEN <<0>> ELSE <<1, attribute.info>>)
EmitAttributes(attributes) ==
  <<Len(attributes)>> \o FlattenSeq([i \in DOMAIN attributes |-> EmitAttribute(attributes[i])])

\* moduleweb_constant_*_info_emit_bytes: a string is preceded by its length.
EmitArguments(constant) ==
  (IF constant.type = ASCII THEN <<1>> ELSE <<>>) \o constant.args

\* moduleweb_constant_info_emit_bytes.
EmitConstant(constant) == <<constant.type>> \o EmitArguments(constant)

\* moduleweb_field_info_emit_bytes, and its two siblings of the same form.
EmitMember(member) == <<member.modifiers, member.name>> \o EmitAttributes(member.attributes)
EmitGlobalVar(globalVar) == EmitMember(globalVar)
EmitFunction(function) == EmitMember(function)

\* moduleweb_method_info_emit_bytes.
EmitMethod(method) ==
  <<method.modifiers, method.name, method.function>> \o EmitAttributes(method.attributes)

\* moduleweb_class_info_emit_bytes.
EmitClass(class) ==
  <<class.name, class.modifiers, class.super>> \o EmitAttributes(class.attributes)
    \o <<Len(class.fields)>>
    \o FlattenSeq([i \in DOMAIN class.fields |-> EmitMember(class.fields[i])])
    \o <<Len(class.methods)>>
    \o FlattenSeq([i \in DOMAIN class.methods |-> EmitMethod(class.methods[i])])

\* moduleweb_module_info_emit_bytes: constant 0 does not exist.
Emission(info) ==
  <<Magic, Version>> \o EmitAttributes(info.attributes)
    \o <<Len(info.pool) + 1>>
    \o FlattenSeq([i \in DOMAIN info.pool |-> EmitConstant(info.pool[i])])
    \o <<Len(info.classes)>>
    \o FlattenSeq([i \in DOMAIN info.classes |-> EmitClass(info.classes[i])])
    \o <<Len(info.globals)>>
    \o FlattenSeq([i \in DOMAIN info.globals |-> EmitGlobalVar(info.globals[i])])
    \o <<Len(info.functions)>>
    \o FlattenSeq([i \in DOMAIN info.functions |-> EmitFunction(info.functions[i])])

-------------------------------------------------------------------------------
(* The blocks of a module that has been read or built.                     *)

Module == <<"module", 0, 0>>
Constant(i) == <<"constant", 0, i>>
ClassAt(i) == <<"class", i, 0>>
Block(part, owner, k) == <<part>> \o owner \o <<k>>

\* moduleweb_attribute_info_uninit for each attribute, and the array.
InfoBlocks(attributes, owner) ==
  { Block("info", owner, k) : k \in { j \in DOMAIN attributes : attributes[j].info # NoInfo } }
AttributeBlocks(attributes, owner) ==
  InfoBlocks(attributes, owner) \cup {Block("array", owner, 0)}

\* moduleweb_constant_ascii_info_uninit: the others hold no memory.
AsciiBlock(i) == Block("bytes", Constant(i), 0)

\* moduleweb_constant_info_uninit.
ConstantBlocks(pool) ==
  { AsciiBlock(i) : i \in { j \in DOMAIN pool : pool[j].type = ASCII } }

\* moduleweb_field_info_uninit and its siblings.
MemberBlocks(members, kind, class) ==
  UNION { AttributeBlocks(members[j].attributes, <<kind, class, j>>) : j \in DOMAIN members }

\* moduleweb_class_info_uninit.
ClassBlocks(class, i) ==
  AttributeBlocks(class.attributes, ClassAt(i))
    \cup MemberBlocks(class.fields, "field", i) \cup {Block("fields", ClassAt(i), 0)}
    \cup MemberBlocks(class.methods, "method", i) \cup {Block("methods", ClassAt(i), 0)}

ClassesBlocks(classes) == UNION { ClassBlocks(classes[i], i) : i \in DOMAIN classes }

\* moduleweb_module_info_uninit.
NameBlock == Block("name", Module, 0)
Tables == { Block(part, Module, 0) : part \in {"classes", "globals", "functions"} }
ModuleBlocks(info) ==
  {NameBlock, Block("pool", Module, 0)} \cup Tables
    \cup AttributeBlocks(info.attributes, Module)
    \cup ConstantBlocks(info.pool) \cup ClassesBlocks(info.classes)
    \cup MemberBlocks(info.globals, "global", 0)
    \cup MemberBlocks(info.functions, "function", 0)

-------------------------------------------------------------------------------
(* The stream and the memory of a reader: file, the tokens loaded into the *)
(* buffer and those taken from it, how many of its calls to the allocator  *)
(* and to the system still succeed, what is allocated, what it has read,   *)
(* whether it found that the file goes on behind the module.               *)

Fail(r) == [r EXCEPT !.ok = FALSE]
Top(r) == Last(r.got)
Nth(r, n) == r.got[Len(r.got) + 1 - n]

\* The last n values read become one.
Reduce(r, n, value) == [r EXCEPT !.got = Append(SubSeq(@, 1, Len(@) - n), value)]

Succeed(r) ==
  IF ~r.ok THEN r
  ELSE IF r.fuel = 0 THEN Fail(r)
  ELSE [r EXCEPT !.fuel = @ - 1]

\* moduleweb_file_read: the loaded part of the file after it.  A call that fails reads
\* nothing, and does not say so.
FileRead(r) ==
  LET read == Succeed(r)
      most == IF r.loaded + InBlock < Len(r.file) THEN r.loaded + InBlock ELSE Len(r.file)
  IN  [read EXCEPT !.loaded = IF read.ok THEN most ELSE r.loaded, !.ok = TRUE]

\* The part of moduleweb_instream_read_bytes that loads the buffer: nothing is no good.
Refill(r) ==
  LET read == FileRead(r) IN IF read.loaded = r.loaded THEN Fail(read) ELSE read

\* moduleweb_instream_read_bytes; a stream over a buffer has it all before it.
Take(r) ==
  IF ~r.ok THEN r
  ELSE LET full == IF r.pos < r.loaded THEN r ELSE IF r.memory THEN Fail(r) ELSE Refill(r)
       IN  IF ~full.ok THEN full
           ELSE [full EXCEPT !.pos = @ + 1, !.got = Append(@, full.file[full.pos + 1])]

Malloc(r, block) ==
  LET called == Succeed(r)
  IN  IF called.ok THEN [called EXCEPT !.live = @ \cup {block}] ELSE called

\* A block that is freed and is not allocated is remembered in wild.
Free(r, blocks) ==
  [r EXCEPT !.live = @ \ blocks, !.wild = @ \cup (blocks \ r.live)]

\* if (failed) goto label: the label frees blocks, and gives up.
Try(r, Blocks(_), Then(_)) == IF r.ok THEN Then(r) ELSE Free(r, Blocks(r))

\* for (u16 i = 0; i < n; i++) if (init(&array[i], stream)) goto ...: the values of the
\* elements that were read are on top, whether all were or not.
Each(r, n, Init(_, _)) ==
  IF ~r.ok THEN r
  ELSE FoldLeft(LAMBDA s, i :
                  IF ~s.ok THEN s
                  ELSE LET e == Init(s, i)
                       IN  IF e.ok THEN Reduce(e, 2, Append(Nth(e, 2), Top(e)))
                           ELSE [e EXCEPT !.got = s.got],
                Reduce(r, 0, <<>>), [i \in 1..n |-> i])

-------------------------------------------------------------------------------
(* Reading.                                                                *)

\* moduleweb_attribute_info_init.  To read no bytes is to read nothing.
AttributeInit(r, block) ==
  Try(Malloc(Take(Take(r)), block), LAMBDA s : {}, LAMBDA room :
  IF Top(room) = 0 THEN Reduce(room, 2, [name |-> Nth(room, 2), info |-> <<>>]) ELSE
  Try(Take(room), LAMBDA s : {block}, LAMBDA body :
    Reduce(body, 3, [name |-> Nth(body, 3), info |-> Top(body)])))

\* moduleweb_attribute_array_init: the array itself stays when an attribute cannot be read.
AttributeArrayInit(r, owner) ==
  Try(Malloc(Take(r), Block("array", owner, 0)), LAMBDA s : {}, LAMBDA array :
  Try(Each(array, Top(array), LAMBDA s, k : AttributeInit(s, Block("info", owner, k))),
      LAMBDA s : InfoBlocks(Top(s), owner),
      LAMBDA all : Reduce(all, 2, Top(all))))

\* moduleweb_constant_ascii_info_init.
AsciiInit(r, i) ==
  Try(Malloc(Take(r), AsciiBlock(i)), LAMBDA s : {}, LAMBDA room :
  Try(Take(room), LAMBDA s : {AsciiBlock(i)}, LAMBDA text :
    Reduce(text, 3, [type |-> ASCII, args |-> <<Top(text)>>])))

\* The other moduleweb_constant_*_info_init, of one or two indices.
RefInit(r, type) ==
  IF type = MODULE_REF
  THEN Try(Take(r), LAMBDA s : {}, LAMBDA one :
         Reduce(one, 2, [type |-> type, args |-> <<Top(one)>>]))
  ELSE Try(Take(Take(r)), LAMBDA s : {}, LAMBDA two :
         Reduce(two, 3, [type |-> type, args |-> <<Nth(two, 2), Top(two)>>]))

\* moduleweb_constant_info_init.
ConstantInit(r, i) ==
  Try(Take(r), LAMBDA s : {}, LAMBDA type :
    IF Top(type) \notin ConstantTypes THEN Fail(type)
    ELSE IF Top(type) = ASCII THEN AsciiInit(type, i)
    ELSE RefInit(type, Top(type)))

\* moduleweb_field_info_init, and below its two siblings of the same form.
MemberInit(r, owner) ==
  Try(AttributeArrayInit(Take(Take(r)), owner), LAMBDA s : {}, LAMBDA all :
    Reduce(all, 3, [modifiers |-> Nth(all, 3), name |-> Nth(all, 2),
                    attributes |-> Top(all)]))

GlobalVarInit(r, j) == MemberInit(r, <<"global", 0, j>>)
FunctionInit(r, j) == MemberInit(r, <<"function", 0, j>>)

\* moduleweb_method_info_init.
MethodInit(r, owner) ==
  Try(AttributeArrayInit(Take(Take(Take(r))), owner), LAMBDA s : {}, LAMBDA all :
    Reduce(all, 4, [modifiers |-> Nth(all, 4), name |-> Nth(all, 3),
                    function |-> Nth(all, 2), attributes |-> Top(all)]))

\* What the labels of moduleweb_class_info_init free: read are the values read of the
\* class, its name, modifiers and superclass first.
ErrorAttributesOf(read, i) == AttributeBlocks(read[4], ClassAt(i))
ErrorFieldsOf(read, i) ==
  ErrorAttributesOf(read, i)
    \cup MemberBlocks(read[6], "field", i) \cup {Block("fields", ClassAt(i), 0)}
ErrorMethodsOf(read, i) ==
  ErrorFieldsOf(read, i)
    \cup MemberBlocks(read[8], "method", i) \cup {Block("methods", ClassAt(i), 0)}

\* moduleweb_class_info_init.
ClassInit(r, i) ==
  LET Read(s) == SubSeq(s.got, Len(r.got) + 1, Len(s.got))
  IN  Try(AttributeArrayInit(Take(Take(Take(r))), ClassAt(i)), LAMBDA s : {},
          LAMBDA attributes :
      Try(Malloc(Take(attributes), Block("fields", ClassAt(i), 0)),
          LAMBDA s : ErrorAttributesOf(Read(s), i),
          LAMBDA table :
      Try(Malloc(Take(Each(table, Top(table), LAMBDA s, j : MemberInit(s, <<"field", i, j>>))),
                 Block("methods", ClassAt(i), 0)),
          LAMBDA s : ErrorFieldsOf(Read(s), i),
          LAMBDA table2 :
      Try(Each(table2, Top(table2), LAMBDA s, j : MethodInit(s, <<"method", i, j>>)),
          LAMBDA s : ErrorMethodsOf(Read(s), i),
          LAMBDA methods :
      LET read == Read(methods)
      IN  Reduce(methods, 8,
                 [name |-> read[1], modifiers |-> read[2], super |-> read[3],
                  attributes |-> read[4], fields |-> read[6], methods |-> read[8]])))))

\* Mutant of AtEof: what is left in the buffer counts.
AtEofTaken(r, garbage) == IF r.memory THEN garbage ELSE r.pos = Len(r.file)

\* moduleweb_instream_is_eof: the file's position is that of the buffer's last byte.  Over
\* a buffer in memory it compares two members of the other half of the union.
AtEof(r, garbage) == IF r.memory THEN garbage ELSE r.loaded = Len(r.file)

\* What the labels of moduleweb_module_info_init free: none of them the tables of classes,
\* globals and functions.  read are the values read, the magic number and the version first.
ErrorAttributes(read) == {NameBlock} \cup AttributeBlocks(read[3], Module)
ErrorConstPool(read) ==
  ErrorAttributes(read) \cup {Block("pool", Module, 0)} \cup ConstantBlocks(read[5])
ErrorClasses(read) == ErrorConstPool(read) \cup ClassesBlocks(read[7])
ErrorGlobals(read) == ErrorClasses(read) \cup MemberBlocks(read[9], "global", 0)

\* The first n functions, of which fewer may have been read.
ErrorFunctions(read, n) ==
  ErrorGlobals(read)
    \cup UNION { AttributeBlocks(IF j \in DOMAIN read[11] THEN read[11][j].attributes ELSE <<>>,
                                 <<"function", 0, j>>) : j \in 1..n }

\* The magic number, the version and the memory for the module's name.
HeaderInit(start) ==
  Try(Take(start), LAMBDA s : {}, LAMBDA magic :
    Malloc(IF Top(magic) # Magic THEN Fail(magic) ELSE Take(magic), NameBlock))

\* u16 count, and the memory for that many.
TableInit(r, part) == Malloc(Take(r), Block(part, Module, 0))

\* moduleweb_module_info_init.  Behind an end of file that is not there the functions are
\* counted by the classes; but first it asks for the position and the size of the file,
\* and over a buffer in memory the handle of the file is the size of the buffer: it is
\* followed, and the process ends.
ModuleInit(start, garbage) ==
  Try(HeaderInit(start), LAMBDA s : {}, LAMBDA name :
  Try(AttributeArrayInit(name, Module), LAMBDA s : {NameBlock}, LAMBDA attributes :
  Try(TableInit(attributes, "pool"), LAMBDA s : ErrorAttributes(s.got), LAMBDA pool :
  Try(TableInit(Each(pool, Top(pool) - 1, ConstantInit), "classes"),
      LAMBDA s : ErrorConstPool(s.got), LAMBDA classes :
  Try(TableInit(Each(classes, Top(classes), ClassInit), "globals"),
      LAMBDA s : ErrorClasses(s.got), LAMBDA globals :
  Try(TableInit(Each(globals, Top(globals), GlobalVarInit), "functions"),
      LAMBDA s : ErrorGlobals(s.got), LAMBDA table :
  Try(Each(table, Top(table), FunctionInit),
      LAMBDA s : ErrorFunctions(s.got, Len(s.got[11])), LAMBDA functions :
  IF ~AtEof(functions, garbage)
  THEN [Fail(IF functions.memory THEN functions
             ELSE Free(functions, ErrorFunctions(functions.got, Len(functions.got[7]))))
          EXCEPT !.tail = TRUE]
  ELSE Reduce(functions, Len(functions.got),
              [attributes |-> functions.got[3], pool |-> functions.got[5],
               classes |-> functions.got[7], globals |-> functions.got[9],
               functions |-> functions.got[11]]))))))))

\* The calls of platform/files.c a stream makes, as they are built for Windows.  A lock is a
\* block as well.
StreamBlock(part) == Block(part, <<"stream", 0, 0>>, 0)
StreamBlocks == { StreamBlock(part) : part \in {"name", "file", "lock", "buffer"} }

FileOpenRead(r) == Malloc(r, StreamBlock("file"))
FileOpenWrite(r) == Malloc(r, StreamBlock("file"))
FileLock(r) == Malloc(r, StreamBlock("lock"))
FileGetSize(r) == Succeed(r)
FileUnlock(r) == Free(r, {StreamBlock("lock")})
FileClose(r) == Free(r, {StreamBlock("file")})

\* What the labels of moduleweb_instream_open undo.
FailFilename == {StreamBlock("name")}
FailFile == FailFilename \cup {StreamBlock("file")}

\* moduleweb_instream_open: a buffer that cannot be allocated is not noticed, and the first
\* read into it fails.
InstreamOpen(r) ==
  Try(Malloc(r, StreamBlock("name")), LAMBDA s : {}, LAMBDA name :
  Try(FileOpenRead(name), LAMBDA s : FailFilename, LAMBDA opened :
  Try(FileLock(opened), LAMBDA s : FailFile, LAMBDA locked :
  Try(FileGetSize(locked), LAMBDA s : FailFile \cup {StreamBlock("lock")}, LAMBDA sized :
    [Malloc(sized, StreamBlock("buffer")) EXCEPT !.ok = TRUE]))))

\* moduleweb_instream_close; free(NULL) does nothing.
InstreamClose(r) ==
  Free(FileClose(FileUnlock(r)),
       {StreamBlock("name")} \cup ({StreamBlock("buffer")} \cap r.live))

\* moduleweb_outstream_init, with the same hole.
OutstreamInit(r) ==
  Try(Malloc(r, StreamBlock("name")), LAMBDA s : {}, LAMBDA name :
  Try(FileOpenWrite(name), LAMBDA s : FailFilename, LAMBDA opened :
  Try(FileLock(opened), LAMBDA s : FailFile, LAMBDA locked :
    [Malloc(locked, StreamBlock("buffer")) EXCEPT !.ok = TRUE])))

\* LoadModuleFromFile: the destructor of the InStream closes what was opened.
LoadModuleFromFile(r) ==
  LET struct == Block("struct", Module, 0)
  IN  Try(InstreamOpen(r), LAMBDA s : {}, LAMBDA opened :
        InstreamClose(Try(Malloc(opened, struct), LAMBDA s : {}, LAMBDA room :
                      Try(ModuleInit(room, FALSE), LAMBDA s : {struct}, LAMBDA read : read))))

Reader(file, memory, fuel) ==
  [file |-> file, memory |-> memory, pos |-> 0, loaded |-> IF memory THEN Len(file) ELSE 0,
   fuel |-> fuel, ok |-> TRUE, tail |-> FALSE, live |-> {}, wild |-> {}, got |-> <<>>]

-------------------------------------------------------------------------------
(* Constants.                                                              *)

\* DEFINE_CONSTANT_GETTER, moduleweb_module_constant_check_bounds: the arguments of the
\* constant, or NoConstant.
NoConstant == <<>>
Get(info, i, type) ==
  IF i \notin DOMAIN info.pool THEN NoConstant
  ELSE IF info.pool[i].type # type THEN NoConstant
  ELSE info.pool[i].args

\* moduleweb_module_constant_to_string, the parts of the text.  (In a module whose
\* constants refer to later ones it need not return.)
ConstantToString(info) ==
  LET string[i \in DOMAIN info.pool] ==
        LET constant == info.pool[i]
            args == constant.args
        IN  CASE constant.type = ASCII -> args
              [] constant.type = MODULE_REF -> Get(info, args[1], ASCII)
              [] constant.type = NAME -> Get(info, args[1], ASCII) \o Get(info, args[2], ASCII)
              [] OTHER -> string[args[1]] \o <<"::">> \o string[args[2]]
  IN  string

\* moduleweb_attribute_array_get: the indices it may return, the first of which it returns.
AttributeArrayGet(info, attributes, name, from) ==
  { k \in from..Len(attributes) : Get(info, attributes[k].name, ASCII) = <<name>> }

\* moduleweb_class_get_field: likewise, where every field has a name.
ClassGetField(info, class, name, descriptor) ==
  { k \in DOMAIN class.fields :
      LET full == Get(info, class.fields[k].name, NAME)
      IN  /\ full # NoConstant
          /\ Get(info, full[1], ASCII) = <<name>>
          /\ Get(info, full[2], ASCII) = <<descriptor>> }

===============================================================================
