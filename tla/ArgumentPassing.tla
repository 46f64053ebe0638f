---------------------------- MODULE ArgumentPassing ----------------------------
(***************************************************************************)
(* What becomes of the arguments and the result of a call: a function is   *)
(* read from its descriptor (framework/src/Function.cpp), it is called by  *)
(* bytecode (Function::call, and CallVirtual) or by native code            *)
(* (CallTFunctionA and CallTFunctionV of                                   *)
(* framework/src/native_interface/ProvidedFunctions.cpp, and the wrappers  *)
(* of native/include/JesusVM/JesusNative.h), and it returns.               *)
(*                                                                         *)
(* A slot is 64 bits in the code; here every type has a number of values.  *)
(* A caller passes what the descriptor says: bytecode has pushed an        *)
(* operand of the right kind for every argument, and variadic native code  *)
(* promotes it.                                                            *)
(***************************************************************************)
EXTENDS Descriptors

CONSTANTS
  Chars,      \* the characters of descriptors
  MaxLength,  \* bound on their length
  Half,       \* of the number of values of each type; a slot is as wide as a long
  After,      \* the characters that may follow one in memory
  Passed,     \* the values that are passed and returned
  MaxCount,   \* bound on the arguments of a function that is called
  Names       \* names of native functions, in the one module Module

Module == <<"m">>
Integer == {"bool", "byte", "short", "int", "long", "char"}
CTypes == Integer \cup {"void", "reference", "handle"}
Longs == -Half["long"] .. (Half["long"] - 1)

ASSUME PassingAssumption ==
  /\ MaxLength \in Nat
  /\ \A type \in Integer : Half[type] \in Nat \ {0} /\ Half[type] <= Half["long"]
  /\ \A type \in {"byte", "short", "char"} : Half[type] <= Half["int"]
  /\ Passed \subseteq Longs
  /\ Chars \subseteq STRING /\ {"(", ")"} \subseteq Chars

VARIABLES
  text,      \* the descriptor in memory
  function,  \* what it was parsed as
  symbol,    \* of the native function, and the path it stands for
  call,      \* the call in progress
  phase      \* "file", "exited", "loaded", "linked", "entered", "returned"

passingVars == <<text, function, symbol, call, phase>>

NoSlot == [tag |-> "none", value |-> 0]
NoCall == [form |-> "none", this |-> FALSE, sent |-> <<>>, seen |-> <<>>,
           receiver |-> NoSlot, returned |-> 0, result |-> 0]

PassingInit ==
  /\ \E n \in 0..MaxLength : \E d \in [1..n -> Chars], c \in After :
       /\ n > 2 => d[1] = "("
       /\ text = Append(d, c)
  /\ function = Refused
  /\ symbol = [path |-> <<>>, name |-> <<>>]
  /\ call = NoCall
  /\ phase = "file"

Argument(i) == function.arguments[i].type
Arity == Len(function.arguments)
Taken == { i \in 1..Arity : Argument(i) # "void" }

\* The constructor of Function.
Load ==
  /\ phase = "file"
  /\ function' = ParseFunctionType(text)
  /\ phase' = IF function'.ok THEN "loaded" ELSE "exited"
  /\ UNCHANGED <<text, symbol, call>>

\* LinkNativeFunction.
Link(name) ==
  /\ phase = "loaded"
  /\ symbol' = [path |-> FunctionPath(Module, name, function.arguments),
                name |-> GetNativeFunctionName(Module, name, function.arguments)]
  /\ phase' = "linked"
  /\ UNCHANGED <<text, function, call>>

-------------------------------------------------------------------------------
(* Conversions.                                                            *)

\* A static_cast to the C type, and a read of the member of a JValue.
Cast(type, v) ==
  IF type \notin Integer THEN v
  ELSE LET size == 2 * Half[type]
       IN  IF type = "bool" THEN v % size
           ELSE ((v + Half[type]) % size) - Half[type]

\* What is read, as of one type, from a JValue made by JValue(T) of another: the member
\* of that type is assigned and the rest is as it was; for a type it does not know,
\* as bool or _String*, none is.
Reads(type, of, v) ==
  { Cast(type, raw) : raw \in { r \in Longs : of \in CTypes => Cast(of, r) = Cast(of, v) } }

Tag(type) == IF type \in Integer THEN "long" ELSE type

Slot(type, v) == [tag |-> Tag(type), value |-> v]

\* An operand as a local of the bytecode function that bytecode calls.
FromOperand(type, v) ==
  IF type = "bool" THEN (IF v = 0 THEN 0 ELSE 1) ELSE Cast(type, v)

-------------------------------------------------------------------------------
(* Calls.                                                                  *)

\* How many operands are above that of argument i.
Above(i) == Cardinality({ k \in Taken : k > i })

\* What bytecode has pushed, an operand of its own first.
Operands(below, sent) ==
  LET n == Cardinality(Taken)
      Pushed(p) == CHOOSE i \in Taken : Above(i) = n + 1 - p
  IN  [p \in 1..(n + 1) |->
         IF p = 1 THEN Slot("handle", below) ELSE Slot(Argument(Pushed(p)), sent[Pushed(p)])]

Popped(operands, i) == operands[Len(operands) - Above(i)]

\* Mutant of BytecodeLocal: the arguments are popped to the locals from the first on.
BytecodeLocalForward(i) == Above(i)

\* The local that argument i is popped to: nothing is popped for void, nor counted.
BytecodeLocal(i) == Arity - 1 - Above(i)

\* The locals of a function that has n of them, argument i being at local[i].
Locals(n, local, value) ==
  [l \in 0..(n - 1) |->
     IF \E i \in Taken : local[i] = l
     THEN LET i == CHOOSE i \in Taken : local[i] = l IN Slot(Argument(i), value[i])
     ELSE NoSlot]

Enter(form, this, sent, seen, receiver) ==
  /\ call' = [NoCall EXCEPT !.form = form, !.this = this, !.sent = sent, !.seen = seen,
                            !.receiver = receiver]
  /\ phase' = "entered"
  /\ UNCHANGED <<text, function, symbol>>

\* extractThis: the operand that is as deep as the function has arguments.
ExtractThis(operands) ==
  IF Len(operands) - Arity + 1 \in DOMAIN operands
  THEN operands[Len(operands) - Arity + 1]
  ELSE NoSlot

\* Call and CallVirtual of a bytecode function.
CallFromBytecode(sent, below) ==
  LET operands == Operands(below, sent)
      local == [i \in Taken |-> BytecodeLocal(i)]
      value == [i \in Taken |-> FromOperand(Argument(i), Popped(operands, i).value)]
  IN  /\ phase = "loaded"
      /\ Enter("bytecode", FALSE, sent, Locals(Arity, local, value), ExtractThis(operands))

\* Call and CallVirtual of a native function: it gets them in order, from dyncall.
CallNative(sent, below) ==
  LET operands == Operands(below, sent)
      local == [i \in Taken |-> i - 1]
      value == [i \in Taken |-> Cast(Argument(i), Popped(operands, i).value)]
  IN  /\ phase = "loaded"
      /\ IF Taken # 1..Arity
         THEN phase' = "exited" /\ UNCHANGED <<text, function, symbol, call>>
         ELSE Enter("native", FALSE, sent, Locals(Arity, local, value), ExtractThis(operands))

\* The local of argument i when native code calls, with the receiver first if there is
\* one.
NativeLocal(this, i) == IF this THEN i ELSE i - 1

NativeCall(form, this, sent, receiver, value) ==
  LET local == [i \in Taken |-> NativeLocal(this, i)]
      arguments == Locals(Arity + (IF this THEN 1 ELSE 0), local, value)
      seen == IF this THEN [arguments EXCEPT ![0] = receiver] ELSE arguments
  IN  /\ phase = "loaded"
      /\ Enter(form, this, sent, seen, IF this THEN receiver ELSE NoSlot)

\* CallTFunctionV, for the variadic functions too.
CallTFunctionV(this, sent, receiver) ==
  NativeCall("code", this, sent, receiver, [i \in Taken |-> Cast(Argument(i), sent[i])])

\* CallTFunctionA, with an array of JValues made of values of the declared types.
CallTFunctionA(this, sent, receiver) ==
  NativeCall("code", this, sent, receiver, [i \in Taken |-> Cast(Argument(i), sent[i])])

\* The same when argument odd is an int, or of a type that JValue does not know.
CallTFunctionAOdd(sent, odd, other) ==
  \E read \in Reads(Argument(odd), other, sent[odd]) :
    NativeCall("odd", FALSE, sent, NoSlot,
               [i \in Taken |-> IF i = odd THEN read ELSE Cast(Argument(i), sent[i])])

\* Prepare fills the table of functions, each entry with the function of its name: the
\* variadic ones start a list of their arguments and go on as their V forms.
Prepare == [variadic |-> "V", A |-> "A", V |-> "V"]

Forms == DOMAIN Prepare

\* The entry that each form of a wrapper uses, in the C++ context and as a C function:
\* the variadic ones start the list themselves and call the V entry.
CppFunction == [variadic |-> "V", A |-> "A", V |-> "V"]
CFunction == [variadic |-> "V", A |-> "A", V |-> "V"]
CMethod == [variadic |-> "V", A |-> "A", V |-> "V"]
CNewObject == [variadic |-> "V", A |-> "A", V |-> "V"]

\* The C++ context starts the list of a method call at the method, and the object is
\* between that and the arguments.
CppMethod == [variadic |-> "early", A |-> "A", V |-> "V"]

\* For a constructor it hands its list to the variadic entry, as one more argument.
CppNewObject == [variadic |-> "variadic", A |-> "A", V |-> "V"]

Through(entry, this, sent, receiver) ==
  IF Prepare[entry] = "V" THEN CallTFunctionV(this, sent, receiver)
  ELSE CallTFunctionA(this, sent, receiver)

CallFunction(sent) ==
  \E wrapper \in {CppFunction, CFunction}, form \in Forms :
    Through(wrapper[form], FALSE, sent, NoSlot)

\* What a list of arguments has for argument i when it starts one early, at the object.
FromTheObject(i, sent, receiver) ==
  LET before == { k \in Taken : k < i }
  IN  IF before = {} THEN receiver.value ELSE sent[Max(before)]

\* A list that is started at any but the last parameter is undefined: compilers that know
\* where the parameters end start it behind the object, the others at the object.
CallMethod(sent, receiver) ==
  \E wrapper \in {CppMethod, CMethod}, form \in Forms :
    IF wrapper[form] # "early" THEN Through(wrapper[form], TRUE, sent, receiver)
    ELSE \E read \in {sent, [i \in Taken |-> FromTheObject(i, sent, receiver)]} :
           NativeCall("odd", TRUE, sent, receiver,
                      [i \in Taken |-> Cast(Argument(i), read[i])])

\* NewObject with a constructor: of a list in a list, the constructor gets the address of
\* the list, and then whatever the call happens to have left there.
NewObject(sent, receiver) ==
  \E wrapper \in {CppNewObject, CNewObject}, form \in Forms :
    IF wrapper[form] # "variadic" THEN Through(wrapper[form], TRUE, sent, receiver)
    ELSE \E left \in [1..Arity -> Passed] :
           NativeCall("odd", TRUE, sent, receiver,
                      [i \in Taken |-> Cast(Argument(i), left[i])])

-------------------------------------------------------------------------------
(* The VM calls: Function::invoke, with a C++ value for every argument.    *)

\* Whether processArg takes a value of the type given: an integer where a smaller one is
\* declared, else the declared type alone; no void.
Takes(declared, given) ==
  IF declared \in {"byte", "short", "int", "char"} THEN given \in Integer
  ELSE declared # "void" /\ given = declared

\* processArgs: the local of argument i.
InvokedLocal(i) == i - 1

Invoke(given, sent) ==
  LET local == [i \in Taken |-> InvokedLocal(i)]
      value == [i \in Taken |-> FromOperand(Argument(i), Cast(given[i], sent[i]))]
  IN  /\ phase = "loaded"
      /\ IF \E i \in 1..Arity : ~Takes(Argument(i), given[i])
         THEN phase' = "exited" /\ UNCHANGED <<text, function, symbol, call>>
         ELSE Enter("invoke", FALSE, sent, Locals(Arity, local, value), NoSlot)

\* invokeNative is not implemented.
InvokeNative ==
  /\ phase = "loaded"
  /\ phase' = "exited"
  /\ UNCHANGED <<text, function, symbol, call>>

\* What the caller gets of the v that was returned.
Result(v) == IF call.form = "bytecode" THEN v ELSE Cast(function.returns, v)

\* The function returns v: bytecode gets the operand that was pushed, native code the
\* member of mReturnValue, and what a native function returns is of its type.
Return(v) ==
  /\ phase = "entered"
  /\ call.form = "native" => v = Cast(function.returns, v)
  /\ call' = [call EXCEPT !.returned = v, !.result = Result(v)]
  /\ phase' = "returned"
  /\ UNCHANGED <<text, function, symbol>>

-------------------------------------------------------------------------------

Sent == { sent \in [1..Arity -> Passed] : \A i \in 1..Arity : i \notin Taken => sent[i] = 0 }

PassingNext ==
  \/ Load
  \/ \E name \in Names : Link(name)
  \/ /\ phase = "loaded" /\ Arity <= MaxCount
     /\ \E sent \in Sent, other \in Passed \ {0} :
          \/ CallFromBytecode(sent, other)
          \/ CallNative(sent, other)
          \/ CallFunction(sent)
          \/ CallMethod(sent, Slot("reference", other))
          \/ NewObject(sent, Slot("reference", other)) /\ function.returns = "void"
          \/ \E odd \in 0..Arity :
               Invoke([i \in 1..Arity |-> IF i = odd THEN "int" ELSE Argument(i)], sent)
          \/ InvokeNative
          \/ \E odd \in Taken, type \in {"int", "other"} : CallTFunctionAOdd(sent, odd, type)
  \/ \E v \in Passed : Return(v)

PassingSpec == PassingInit /\ [][PassingNext]_passingVars

-------------------------------------------------------------------------------

AllFunctionTexts == UNION { FunctionTexts(Chars, n) : n \in 3..MaxLength }
AllDescriptors == { DescriptorOf(f) : f \in AllFunctionTexts }

\* The parser accepts the descriptors of the grammar and no others, and splits each into
\* the types of the one reading that it has, whatever is behind it in memory.  The
\* grammar is the code's: a class's name may start with a semicolon, and void may be an
\* argument or the base of an array.
DescriptorsExact ==
  LET d == SubSeq(text, 1, Length(text))
      readings == { f \in AllFunctionTexts : DescriptorOf(f) = d }
      arguments == [i \in 1..Arity |-> function.arguments[i].text]
  IN  /\ phase = "loaded" =>
           \E f \in readings :
             /\ readings = {f}
             /\ f[1] = arguments
             /\ function.returns =
                  IF Head(f[2]) \in Primitives THEN TypeOfLetter[Head(f[2])] ELSE "reference"
      /\ (phase = "exited" /\ ~function.ok) => d \notin AllDescriptors

\* v is a value of the type.
InRange(type, v) == Cast(type, v) = v

\* A Bool may be passed as its truth.
Arrives(type, v, w) == w = v \/ (type = "bool" /\ v # 0 /\ w = 1)

\* Whoever calls, every argument is in its own local and tagged as its kind, the receiver
\* is in local 0 and is the object that the method was dispatched on, and a result that
\* its type can hold arrives unchanged.  A value that its type can hold arrives unchanged
\* too, when bytecode or the VM calls, when it is in an array or a list, and when it is
\* given after "..." to a function, or to a method or constructor through the table or by
\* the C functions.  The rest is "odd", and nothing is claimed of its values: what is given
\* after "..." to a method or a constructor of the C++ context, and a JValue made of
\* another type.  A Bool that is neither 0 nor 1 is a 1 for the bytecode that bytecode or
\* the VM calls.  Nothing is claimed where void arguments shift the others.
ValuesArrive ==
  LET i0 == IF call.this THEN 1 ELSE 0
  IN  phase \in {"entered", "returned"} /\ Taken = 1..Arity =>
        /\ \A i \in 1..Arity :
             LET s == call.seen[i - 1 + i0]
             IN  /\ s.tag = Tag(Argument(i))
                 /\ (call.form # "odd" /\ InRange(Argument(i), call.sent[i])) =>
                      Arrives(Argument(i), call.sent[i], s.value)
        /\ (call.this \/ (call.form \in {"bytecode", "native"} /\ Arity > 0
                            /\ Argument(1) = "reference")) =>
             call.seen[0] = call.receiver
        /\ (phase = "returned" /\ InRange(function.returns, call.returned)) =>
             call.result = call.returned

\* No two native functions have one symbol, a symbol being read back as the path of its
\* function, unless a part of the path starts with one of the digits of the escapes.
SymbolsReadBack ==
  LET Plain(path) ==
        \A i \in 1..(Len(path) - 1) : path[i] = "/" => path[i + 1] \notin {"1", "2", "3", "4"}
  IN  phase = "linked" /\ Plain(symbol.path) => PathOfSymbol(symbol.name) = symbol.path

\* What the VM makes of the names it is given: a descriptor has one meaning, and so has
\* the symbol of a native function.
NamesExact == DescriptorsExact /\ SymbolsReadBack

===============================================================================
