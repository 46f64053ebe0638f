----------------------------- MODULE Descriptors -----------------------------
(***************************************************************************)
(* Type descriptors and what is made of them: the parser of                *)
(* framework/src/type/Type.cpp and framework/include/JesusVM/type/Type.h,  *)
(* the widths of the types, and the symbols that native functions are      *)
(* looked up by (framework/src/Linker.cpp).                                *)
(*                                                                         *)
(* A descriptor is a sequence of characters; it is given with the one that *)
(* follows it in memory, which the parser may read.  Indices count from 0, *)
(* as in the code.                                                         *)
(***************************************************************************)
EXTENDS Integers, FiniteSetsExt, SequencesExt

\* The descriptor in memory, and the length its string_view has.
Length(memory) == Len(memory) - 1

\* Further on there is no letter of a type.
At(memory, i) == IF i < Len(memory) THEN memory[i + 1] ELSE "?"

Bad == -1

\* The types by their letters, F and D not being parsed.
TypeOfLetter ==
  [V |-> "void", H |-> "handle", Z |-> "bool", B |-> "byte", S |-> "short",
   I |-> "int", L |-> "long", C |-> "char"]

Primitives == DOMAIN TypeOfLetter

\* Where the parser is after the ; of a class's name, whose first character it skips.
ParseClassType(memory, i) ==
  LET ends == { j \in (i + 1)..Length(memory) : At(memory, j) = ";" }
  IN  IF i >= Length(memory) \/ ends = {} THEN Bad ELSE Min(ends) + 1

ParseArrayBaseType(memory, i) ==
  LET base == Min({ j \in i..Len(memory) : At(memory, j) # "[" })
  IN  IF At(memory, base) = "R" THEN ParseClassType(memory, base + 1)
      ELSE IF At(memory, base) \in Primitives THEN base + 1
      ELSE Bad

\* TypeInfo::parse: what it says, where it is then, and the text of the type.
ParseType(memory, i) ==
  LET c == At(memory, i)
      next == IF c = "[" THEN ParseArrayBaseType(memory, i + 1)
              ELSE IF c = "R" THEN ParseClassType(memory, i + 1)
              ELSE IF c \in Primitives THEN i + 1
              ELSE Bad
  IN  [index |-> next,
       type |-> IF c \in Primitives THEN TypeOfLetter[c] ELSE "reference",
       text |-> IF next = Bad THEN <<>> ELSE SubSeq(memory, i + 1, next)]

Refused == [ok |-> FALSE, arguments |-> <<>>, returns |-> "void"]

\* The arguments from index i on, and the index of what follows them.
ArgumentsFrom(memory) ==
  LET f[i \in 0..(Len(memory) + 1)] ==
        IF i >= Length(memory) \/ At(memory, i) = ")" THEN [index |-> i, arguments |-> <<>>]
        ELSE LET argument == ParseType(memory, i)
             IN  IF argument.index = Bad THEN [index |-> Bad, arguments |-> <<>>]
                 ELSE [f[argument.index] EXCEPT !.arguments = <<argument>> \o @]
  IN  f

\* ParseFunctionType.
ParseFunctionType(memory) ==
  LET parsed == ArgumentsFrom(memory)[1]
      returns == ParseType(memory, parsed.index + 1)
  IN  IF \/ At(memory, 0) # "("
         \/ parsed.index \notin 0..(Length(memory) - 1)
         \/ returns.index # Length(memory)
      THEN Refused
      ELSE [ok |-> TRUE, arguments |-> parsed.arguments, returns |-> returns.type]

-------------------------------------------------------------------------------
(* The grammar that the parser is held against.                            *)

\* The texts of the types of n characters; the first character of a name is any.
TypeTexts(Chars) ==
  LET t[n \in Nat] ==
        IF n = 0 THEN {}
        ELSE IF n = 1 THEN { <<p>> : p \in Primitives \cap Chars }
        ELSE { <<"[">> \o base : base \in t[n - 1] }
               \cup { <<"R">> \o name \o <<";">> :
                        name \in { s \in [1..(n - 2) -> Chars] :
                                     /\ s # <<>>
                                     /\ \A i \in 2..(n - 2) : s[i] # ";" } }
  IN  t

\* The lists of types, each a sequence of texts, that have n characters.
ListsOfTexts(Chars) ==
  LET texts == TypeTexts(Chars)
      l[n \in Nat] ==
        IF n = 0 THEN { <<>> }
        ELSE UNION { { <<text>> \o rest : text \in texts[k], rest \in l[n - k] } : k \in 1..n }
  IN  l

\* The functions whose descriptors have n characters: their arguments' texts, then
\* the text of what they return.
FunctionTexts(Chars, n) ==
  UNION { ListsOfTexts(Chars)[k] \X TypeTexts(Chars)[n - 2 - k] : k \in 0..(n - 3) }

DescriptorOf(f) == <<"(">> \o FlattenSeq(f[1]) \o <<")">> \o f[2]

-------------------------------------------------------------------------------
(* The symbols of native functions.                                        *)

Replace(path, c, replacement) ==
  FlattenSeq([i \in DOMAIN path |-> IF path[i] = c THEN replacement ELSE <<path[i]>>])

\* module/name and, if it has arguments, //arguments.
FunctionPath(module, name, arguments) ==
  module \o <<"/">> \o name
    \o (IF arguments = <<>> THEN <<>>
        ELSE <<"/", "/">> \o FlattenSeq([i \in DOMAIN arguments |-> arguments[i].text]))

\* What is escaped, in this order, and the digit that says so.
Escapes == << <<"_", "1">>, <<";", "2">>, <<"[", "3">>, <<":", "4">> >>

Escaped(path) ==
  FoldLeft(LAMBDA p, e : Replace(p, e[1], <<"_", e[2]>>), path, Escapes)

\* Mutant of GetNativeFunctionName: the slashes are replaced first.
GetNativeFunctionNameSlashesFirst(module, name, arguments) ==
  Escaped(Replace(FunctionPath(module, name, arguments), "/", <<"_">>))

\* The prefix that all have is left out.
GetNativeFunctionName(module, name, arguments) ==
  Replace(Escaped(FunctionPath(module, name, arguments)), "/", <<"_">>)

\* The path that a symbol is read back as.
PathOfSymbol(symbol) ==
  LET Digit(i) == { e \in Range(Escapes) : i < Len(symbol) /\ e[2] = symbol[i + 1] }
      path[i \in 1..(Len(symbol) + 1)] ==
        IF i > Len(symbol) THEN <<>>
        ELSE IF symbol[i] # "_" THEN <<symbol[i]>> \o path[i + 1]
        ELSE IF Digit(i) = {} THEN <<"/">> \o path[i + 1]
        ELSE <<(CHOOSE e \in Digit(i) : TRUE)[1]>> \o path[i + 2]
  IN  path[1]

===============================================================================
