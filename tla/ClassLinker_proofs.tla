--------------------------- MODULE ClassLinker_proofs ---------------------------
(***************************************************************************)
(* TLAPS proofs about ClassLinker, for any threads, classes and arrays and *)
(* any superclasses that the classes declare, cycles too: who links which  *)
(* class (IInv), what the loads give (Results), and what a linked class is *)
(* laid out as (CInv), for any fields and methods.  Then, of the objects   *)
(* that have this layout and of arrays and globals, about ObjectMemory:    *)
(* what their memory holds (MemInv).                                       *)
(***************************************************************************)
EXTENDS ClassLinker, ObjectMemory, FiniteSetTheorems, SequenceTheorems,
        WellFoundedInduction, TLAPS

(* A call of LoadClass and what it may be doing, given the declarations d. *)
Placed(d, k) ==
  /\ k.pc \in {"wait", "check", "check again"} => k.name \in AllClasses
  /\ k.pc \in LinkingPcs \cup {"mark"} => k.name \in Classes
  /\ k.pc = "emplace" => k.name \in Arrays
  /\ k.pc \in {"constant", "use"} => d[k.name].super # NoClass

(* A call that has made another waits for its superclass or for the base of an array. *)
Below(d, k, above) ==
  \/ k.pc = "constant" /\ above.name = d[k.name].super
  \/ k.pc = "emplace" /\ above.name = BaseOf[k.name]

StackOK(d, q) ==
  /\ q \in Seq(Calls)
  /\ \A i \in 1..Len(q) : Placed(d, q[i])
  /\ \A i \in 1..(Len(q) - 1) : Below(d, q[i], q[i + 1])

(* The i-th call of a stack is linking class c. *)
LinksAt(q, i, c) == i \in 1..Len(q) /\ q[i].name = c /\ q[i].pc \in LinkingPcs

Stacks == \A t \in Threads : StackOK(declared, calls[t])

(* What the superclass was loaded as, when its constant is made. *)
SuperGiven ==
  \A t \in Threads :
    calls[t] # <<>> /\ Top(t).pc = "constant" => returned[t] \in AllClasses \cup {NoClass}

(* A thread is somewhere between link's first and last assignment to a class. *)
Works(q, c) == \E i \in Nat : LinksAt(q, i, c)
AtWork(t, c) == Works(calls[t], c)

(* A class that says that it is being linked is, by one thread or several; one that *)
(* a thread links has said so.                                                      *)
Marked ==
  \A c \in AllClasses :
    /\ state[c] = "LINKING" => \E t \in Threads : AtWork(t, c)
    /\ \A t \in Threads : AtWork(t, c) => state[c] # "INITIALIZED"

(* A thread that comes to link a class is not at it already. *)
Fresh ==
  \A t \in Threads :
    calls[t] # <<>> /\ Top(t).pc = "mark" => ~ AtWork(t, Top(t).name)

(* The i-th call of a stack has come past linkCommon. *)
PastLoader(q, i) == i \in 1..Len(q) /\ q[i].pc \in LinkingPcs \ {"loader"}

(* Once a call has said who links its class, that is its thread, unless another one *)
(* is at work on the class too.                                                     *)
Loaders ==
  \A t \in Threads : \A i \in 1..Len(calls[t]) :
    PastLoader(calls[t], i) /\ state[calls[t][i].name] = "LINKING" =>
      \/ loader[calls[t][i].name] = t
      \/ \E u \in Threads \ {t} : AtWork(u, calls[t][i].name)

(* A thread sleeps for what another one links. *)
Asleep ==
  \A t \in Threads :
    calls[t] # <<>> /\ Top(t).pc = "wait" /\ state[Top(t).name] = "LINKING" =>
      \E u \in Threads \ {t} : AtWork(u, Top(t).name)

ObjectLinked == state[Object] = "LINKED"

IInv ==
  TypeOK /\ Stacks /\ SuperGiven /\ Marked /\ Fresh /\ Loaders /\ Asleep /\ ObjectLinked

-------------------------------------------------------------------------------
(* How the stack of a thread changes.                                      *)

LEMMA FrontIs ==
  ASSUME NEW S, NEW q \in Seq(S), q # <<>>
  PROVE  /\ Len(q) \in Nat \ {0} /\ Last(q) = q[Len(q)] /\ Last(q) \in S
         /\ Front(q) \in Seq(S) /\ Len(Front(q)) = Len(q) - 1
         /\ \A i \in 1..(Len(q) - 1) : Front(q)[i] = q[i]
<1> DEFINE n == Len(q) - 1
<1>1. /\ Len(q) \in Nat \ {0} /\ Last(q) = q[Len(q)] /\ Last(q) \in S
      /\ n \in Nat /\ \A i \in 1..n : q[i] \in S
  BY DEF Last
<1> HIDE DEF n
<1>2. /\ SubSeq(q, 1, n) \in Seq(S)
      /\ Len(SubSeq(q, 1, n)) = IF 1 <= n THEN n - 1 + 1 ELSE 0
      /\ \A i \in 1..(n - 1 + 1) : SubSeq(q, 1, n)[i] = q[1 + i - 1]
  BY <1>1, 1 \in Int, n \in Int, SubSeqProperties
<1>3. /\ SubSeq(q, 1, n) \in Seq(S)
      /\ Len(SubSeq(q, 1, n)) = n
      /\ \A i \in 1..n : SubSeq(q, 1, n)[i] = q[i]
  BY <1>1, <1>2
<1>4. QED
  BY <1>1, <1>3 DEF Front, n

(* The innermost call goes on. *)
LEMMA MovedOn ==
  ASSUME NEW d, NEW q, StackOK(d, q), q # <<>>, NEW x \in Calls, x.name = Last(q).name,
         Placed(d, x)
  PROVE  LET s == Append(Front(q), x)
             n == Len(q)
         IN  /\ StackOK(d, s) /\ Len(s) = n /\ n \in Nat \ {0}
             /\ s[n] = x /\ Last(s) = x /\ Last(q) = q[n] /\ s # <<>>
             /\ \A i \in 1..(n - 1) : s[i] = q[i]
<1> DEFINE s == Append(Front(q), x)
           n == Len(q)
<1>1. /\ n \in Nat \ {0} /\ Last(q) = q[n]
      /\ Front(q) \in Seq(Calls) /\ Len(Front(q)) = n - 1
      /\ \A i \in 1..(n - 1) : Front(q)[i] = q[i]
  BY FrontIs DEF StackOK
<1>2. /\ s \in Seq(Calls) /\ Len(s) = n /\ s[n] = x
      /\ \A i \in 1..(n - 1) : s[i] = q[i]
  BY <1>1
<1>3. Last(s) = x /\ s # <<>>
  BY <1>1, <1>2 DEF Last
<1> HIDE DEF s, n
<1>4. \A i \in 1..n : i = n \/ i \in 1..(n - 1)
  BY <1>1
<1>5. \A i \in 1..n : Placed(d, s[i])
  BY <1>1, <1>2, <1>4 DEF StackOK, n
<1>6. ASSUME NEW i \in 1..(n - 1)
      PROVE  Below(d, s[i], s[i + 1])
  <2>1. Below(d, q[i], q[i + 1]) /\ s[i] = q[i]
    BY <1>2 DEF StackOK, n
  <2>2. s[i + 1].name = q[i + 1].name
    <3>1. i + 1 = n \/ i + 1 \in 1..(n - 1)
      BY <1>1
    <3>2. QED
      BY <1>1, <1>2, <3>1
  <2>3. QED
    BY <2>1, <2>2 DEF Below
<1>7. StackOK(d, s)
  BY <1>2, <1>5, <1>6 DEF StackOK
<1>8. QED
  BY <1>1, <1>2, <1>3, <1>7 DEF s, n

(* The innermost call returns. *)
LEMMA CallLeft ==
  ASSUME NEW d, NEW q, StackOK(d, q), q # <<>>
  PROVE  LET s == Front(q)
             n == Len(q)
         IN  /\ StackOK(d, s) /\ Len(s) = n - 1 /\ n \in Nat \ {0} /\ Last(q) = q[n]
             /\ \A i \in 1..(n - 1) : s[i] = q[i]
             /\ s # <<>> => n - 1 \in 1..(n - 1) /\ Last(s) = q[n - 1] /\ Below(d, Last(s), Last(q))
<1> DEFINE s == Front(q)
           n == Len(q)
<1>1. /\ n \in Nat \ {0} /\ Last(q) = q[n]
      /\ s \in Seq(Calls) /\ Len(s) = n - 1
      /\ \A i \in 1..(n - 1) : s[i] = q[i]
  BY FrontIs DEF StackOK
<1> HIDE DEF s, n
<1>2. \A i \in 1..(n - 1) : i \in 1..n
  BY <1>1
<1>3. \A i \in 1..(n - 2) : i \in 1..(n - 1) /\ i + 1 \in 1..(n - 1)
  BY <1>1
<1>4. StackOK(d, s)
  <2>1. \A i \in 1..(n - 1) : Placed(d, s[i])
    BY <1>1, <1>2 DEF StackOK, n
  <2>2. \A i \in 1..(n - 2) : Below(d, s[i], s[i + 1])
    BY <1>1, <1>3 DEF StackOK, n
  <2>3. Len(s) - 1 = n - 2
    BY <1>1
  <2>4. QED
    BY <1>1, <2>1, <2>2, <2>3 DEF StackOK
<1>5. ASSUME s # <<>>
      PROVE  n - 1 \in 1..(n - 1) /\ Last(s) = q[n - 1] /\ Below(d, Last(s), Last(q))
  <2>1. n - 1 \in 1..(n - 1) /\ (n - 1) + 1 = n
    BY <1>1, <1>5
  <2>2. Last(s) = q[n - 1]
    BY <1>1, <2>1 DEF Last
  <2>3. Below(d, q[n - 1], q[(n - 1) + 1])
    <3> DEFINE l == n - 1
    <3>1. l \in 1..(Len(q) - 1)
      BY <2>1 DEF n
    <3> HIDE DEF l
    <3>2. Below(d, q[l], q[l + 1])
      BY <3>1 DEF StackOK
    <3>3. QED
      BY <3>2 DEF l
  <2>4. QED
    BY <1>1, <2>1, <2>2, <2>3
<1>6. QED
  BY <1>1, <1>4, <1>5 DEF s, n

(* The innermost call makes another. *)
LEMMA CallMade ==
  ASSUME NEW d, NEW q, StackOK(d, q), q # <<>>, NEW x \in Calls, x.name = Last(q).name,
         Placed(d, x), NEW y \in Calls, Placed(d, y), Below(d, x, y)
  PROVE  LET s == Front(q) \o <<x, y>>
             n == Len(q)
         IN  /\ StackOK(d, s) /\ Len(s) = n + 1 /\ n \in Nat \ {0} /\ Last(q) = q[n]
             /\ s[n] = x /\ s[n + 1] = y /\ Last(s) = y /\ s # <<>>
             /\ \A i \in 1..(n - 1) : s[i] = q[i]
<1> DEFINE p == Append(Front(q), x)
           s == Front(q) \o <<x, y>>
           n == Len(q)
<1>1. /\ StackOK(d, p) /\ Len(p) = n /\ n \in Nat \ {0} /\ Last(q) = q[n]
      /\ p[n] = x /\ \A i \in 1..(n - 1) : p[i] = q[i]
  BY MovedOn
<1>2. s = Append(p, y)
  <2>1. Front(q) \in Seq(Calls)
    BY FrontIs DEF StackOK
  <2>2. QED
    BY <2>1
<1> HIDE DEF p, s, n
<1>3. p \in Seq(Calls)
  BY <1>1 DEF StackOK
<1>4. /\ s \in Seq(Calls) /\ Len(s) = n + 1 /\ s[n + 1] = y
      /\ \A i \in 1..n : s[i] = p[i]
  BY <1>1, <1>2, <1>3
<1>5. n \in 1..n /\ \A i \in 1..(n - 1) : i \in 1..n /\ i + 1 \in 1..n
  BY <1>1
<1>6. \A i \in 1..(n + 1) : i \in 1..n \/ i = n + 1
  BY <1>1
<1>7. \A i \in 1..n : i \in 1..(n - 1) \/ i = n
  BY <1>1
<1>8. \A i \in 1..(n + 1) : Placed(d, s[i])
  BY <1>1, <1>4, <1>6 DEF StackOK
<1>9. \A i \in 1..n : Below(d, s[i], s[i + 1])
  BY <1>1, <1>4, <1>5, <1>7 DEF StackOK
<1>10. Len(s) - 1 = n /\ Last(s) = y /\ s # <<>>
  BY <1>1, <1>4 DEF Last
<1>11. StackOK(d, s)
  BY <1>4, <1>8, <1>9, <1>10 DEF StackOK
<1>12. s[n] = x /\ \A i \in 1..(n - 1) : s[i] = q[i]
  BY <1>1, <1>4, <1>5
<1>13. QED
  BY <1>1, <1>4, <1>10, <1>11, <1>12 DEF s, n

-------------------------------------------------------------------------------
(* What a thread's step does to the invariant.                             *)

(* The part of the invariant that is about the stacks. *)
StacksPart == Stacks /\ SuperGiven /\ Marked /\ Fresh /\ Loaders /\ Asleep /\ ObjectLinked

LEMMA InCalls ==
  ASSUME IInv, NEW t \in Threads, calls[t] # <<>>
  PROVE  LET n == Len(calls[t])
         IN  /\ StackOK(declared, calls[t]) /\ n \in Nat \ {0} /\ n \in 1..n
             /\ Top(t) = Last(calls[t]) /\ Top(t) = calls[t][n] /\ Top(t) \in Calls
             /\ Placed(declared, Top(t))
<1>1. StackOK(declared, calls[t])
  BY DEF IInv, Stacks
<1>2. Len(calls[t]) \in Nat \ {0} /\ Last(calls[t]) = calls[t][Len(calls[t])] /\ Last(calls[t]) \in Calls
  BY <1>1, FrontIs DEF StackOK
<1>3. QED
  BY <1>1, <1>2 DEF Top, StackOK

(* Only the stack of t changes. *)
LEMMA StackChanged ==
  ASSUME IInv, NEW t \in Threads, NEW s, StackOK(declared, s),
         calls' = [calls EXCEPT ![t] = s], UNCHANGED declared
  PROVE  /\ calls' \in [Threads -> Seq(Calls)]
         /\ calls'[t] = s
         /\ \A u \in Threads \ {t} : calls'[u] = calls[u]
         /\ Stacks'
<1>1. /\ calls \in [Threads -> Seq(Calls)] /\ s \in Seq(Calls)
  BY DEF IInv, TypeOK, StackOK
<1>2. /\ calls' \in [Threads -> Seq(Calls)] /\ calls'[t] = s
      /\ \A u \in Threads \ {t} : calls'[u] = calls[u]
  BY <1>1
<1>3. \A u \in Threads : StackOK(declared, calls'[u])
  BY <1>2 DEF IInv, Stacks
<1>4. QED
  BY <1>2, <1>3 DEF Stacks

(* The step begins and ends no linking, and t says nothing new of itself. *)
LEMMA QuietStep ==
  ASSUME IInv, NEW t \in Threads, NEW s, StackOK(declared, s),
         calls' = [calls EXCEPT ![t] = s], UNCHANGED <<declared, state, loader>>,
         \A i \in Nat : \A c \in AllClasses : LinksAt(s, i, c) <=> LinksAt(calls[t], i, c),
         \A i \in 1..Len(s) : PastLoader(s, i) =>
           PastLoader(calls[t], i) /\ calls[t][i].name = s[i].name,
         s # <<>> /\ Last(s).pc = "wait" /\ state[Last(s).name] = "LINKING" =>
           \E u \in Threads \ {t} : AtWork(u, Last(s).name),
         s # <<>> /\ Last(s).pc = "mark" => \A i \in Nat : ~LinksAt(s, i, Last(s).name),
         s # <<>> /\ Last(s).pc = "constant" => returned'[t] \in AllClasses \cup {NoClass},
         \A u \in Threads \ {t} : returned'[u] = returned[u]
  PROVE  StacksPart'
<1>1. /\ calls' \in [Threads -> Seq(Calls)]
      /\ calls'[t] = s
      /\ \A u \in Threads \ {t} : calls'[u] = calls[u]
      /\ Stacks'
  BY StackChanged
<1>2. \A u \in Threads : \A c \in AllClasses : Works(calls'[u], c) <=> AtWork(u, c)
  BY <1>1 DEF AtWork, Works
<1>3. SuperGiven'
  BY <1>1 DEF IInv, SuperGiven, Top
<1>4. Marked'
  BY <1>2 DEF IInv, Marked, AllClasses, AtWork
<1>5. Fresh'
  <2>1. ASSUME NEW u \in Threads, calls'[u] # <<>>, Last(calls'[u]).pc = "mark"
        PROVE  ~ Works(calls'[u], Last(calls'[u]).name)
    <3>1. CASE u = t
      BY <1>1, <2>1, <3>1 DEF AtWork, Works
    <3>2. CASE u # t
      BY <1>1, <2>1, <3>2 DEF AtWork, Works, IInv, Fresh, Top
    <3>3. QED
      BY <3>1, <3>2
  <2>2. QED
    BY <2>1 DEF Fresh, Top, AtWork
<1>6. Loaders'
  <2>1. ASSUME NEW u \in Threads, NEW i \in 1..Len(calls'[u]), PastLoader(calls'[u], i),
               state[calls'[u][i].name] = "LINKING"
        PROVE  \/ loader[calls'[u][i].name] = u
               \/ \E v \in Threads \ {u} : Works(calls'[v], calls'[u][i].name)
    <3>1. PastLoader(calls[u], i) /\ calls[u][i].name = calls'[u][i].name
      BY <1>1, <2>1
    <3>2. i \in 1..Len(calls[u])
      BY <3>1 DEF PastLoader
    <3>3. calls[u][i].name \in AllClasses
      BY <3>1, <3>2 DEF PastLoader, IInv, Stacks, StackOK, Placed, AllClasses
    <3>4. \/ loader[calls[u][i].name] = u
          \/ \E v \in Threads \ {u} : AtWork(v, calls[u][i].name)
      BY <2>1, <3>1, <3>2 DEF IInv, Loaders, AtWork
    <3>5. QED
      BY <1>2, <3>1, <3>3, <3>4
  <2>2. QED
    BY <2>1 DEF Loaders, PastLoader, AtWork
<1>7. Asleep'
  <2>1. ASSUME NEW u \in Threads, calls'[u] # <<>>, Last(calls'[u]).pc = "wait",
               state[Last(calls'[u]).name] = "LINKING"
        PROVE  \E v \in Threads \ {u} : Works(calls'[v], Last(calls'[u]).name)
    <3>1. \E v \in Threads \ {u} : AtWork(v, Last(calls'[u]).name)
      <4>1. CASE u = t
        BY <1>1, <2>1, <4>1
      <4>2. CASE u # t
        BY <1>1, <2>1, <4>2 DEF IInv, Asleep, Top, AtWork
      <4>3. QED
        BY <4>1, <4>2
    <3>2. Last(calls'[u]).name \in AllClasses
      <4>1. StackOK(declared, calls'[u])
        BY <1>1 DEF Stacks
      <4>2. Placed(declared, Last(calls'[u]))
        <5>1. calls'[u] \in Seq(Calls)
          BY <4>1 DEF StackOK
        <5>2. Last(calls'[u]) = calls'[u][Len(calls'[u])] /\ Len(calls'[u]) \in 1..Len(calls'[u])
          <6> DEFINE q == calls'[u]
          <6>1. q \in Seq(Calls) /\ q # <<>>
            BY <2>1, <5>1
          <6> HIDE DEF q
          <6>2. Last(q) = q[Len(q)] /\ Len(q) \in Nat \ {0}
            BY <6>1, FrontIs
          <6>3. QED
            BY <6>2 DEF q
        <5>3. QED
          BY <4>1, <5>2 DEF StackOK
      <4>3. QED
        BY <2>1, <4>2 DEF Placed
    <3>3. QED
      BY <1>2, <3>1, <3>2
  <2>2. QED
    BY <2>1 DEF Asleep, Top, AtWork
<1>8. ObjectLinked'
  BY DEF IInv, ObjectLinked
<1>9. QED
  BY <1>1, <1>3, <1>4, <1>5, <1>6, <1>7, <1>8 DEF StacksPart

(* A step that leaves the stacks alone. *)
LEMMA SameStacks ==
  ASSUME IInv, UNCHANGED <<declared, state, loader, calls, returned>>
  PROVE  StacksPart'
<1>1. \A t : \A c : Works(calls'[t], c) <=> AtWork(t, c)
  BY DEF AtWork, Works
<1>2. QED
  BY <1>1 DEF AtWork, IInv, StacksPart, Stacks, SuperGiven, Marked, Fresh, Loaders, Asleep, ObjectLinked, Top,
              AllClasses

(* The innermost call goes on, in the same way linking or not. *)
LEMMA MovedQuietly ==
  ASSUME IInv, NEW t \in Threads, calls[t] # <<>>, NEW x \in Calls, x.name = Top(t).name,
         Placed(declared, x), calls' = [calls EXCEPT ![t] = Append(Front(calls[t]), x)],
         x.pc \in LinkingPcs <=> Top(t).pc \in LinkingPcs,
         x.pc # "loader" /\ Top(t).pc # "loader",
         x.pc = "wait" /\ state[x.name] = "LINKING" =>
           \E u \in Threads \ {t} : AtWork(u, x.name),
         x.pc = "mark" => ~ AtWork(t, x.name),
         x.pc # "constant", UNCHANGED <<declared, state, loader>>,
         \A u \in Threads \ {t} : returned'[u] = returned[u]
  PROVE  StacksPart' /\ calls' \in [Threads -> Seq(Calls)]
<1> DEFINE q == calls[t]
           s == Append(Front(q), x)
           n == Len(q)
<1>1. StackOK(declared, q) /\ Top(t) = Last(q)
  BY InCalls
<1>2. /\ StackOK(declared, s) /\ Len(s) = n /\ n \in Nat \ {0}
      /\ s[n] = x /\ Last(s) = x /\ Last(q) = q[n] /\ s # <<>>
      /\ \A i \in 1..(n - 1) : s[i] = q[i]
  BY <1>1, MovedOn
<1>3. \A i \in 1..n : i \in 1..(n - 1) \/ i = n
  BY <1>2
<1>4. calls' = [calls EXCEPT ![t] = s]
  OBVIOUS
<1> HIDE DEF s
<1>5. ASSUME NEW i \in Nat, NEW c
      PROVE  LinksAt(s, i, c) <=> LinksAt(q, i, c)
  BY <1>1, <1>2, <1>3 DEF LinksAt
<1>6. ASSUME NEW i \in 1..Len(s), PastLoader(s, i)
      PROVE  PastLoader(q, i) /\ q[i].name = s[i].name
  BY <1>1, <1>2, <1>3, <1>6 DEF PastLoader
<1>7. /\ s # <<>> /\ Last(s).pc = "wait" /\ state[Last(s).name] = "LINKING" =>
           \E u \in Threads \ {t} : AtWork(u, Last(s).name)
      /\ s # <<>> /\ Last(s).pc = "mark" => \A i \in Nat : ~LinksAt(s, i, Last(s).name)
      /\ s # <<>> /\ Last(s).pc = "constant" => returned'[t] \in AllClasses \cup {NoClass}
  BY <1>2, <1>5 DEF AtWork, Works
<1> HIDE DEF q
<1>8. StacksPart'
  <2>1. \A i \in Nat : \A c \in AllClasses : LinksAt(s, i, c) <=> LinksAt(calls[t], i, c)
    BY <1>5 DEF q
  <2>2. \A i \in 1..Len(s) : PastLoader(s, i) =>
          PastLoader(calls[t], i) /\ calls[t][i].name = s[i].name
    BY <1>6 DEF q
  <2>3. QED
    BY <1>2, <1>4, <1>7, <2>1, <2>2, QuietStep
<1>9. QED
  BY <1>2, <1>4, <1>8, StackChanged

(* The innermost call, which links nothing, returns.  If the call that made it waits   *)
(* for a superclass, it is given that or null.                                         *)
LEMMA LeftQuietly ==
  ASSUME IInv, NEW t \in Threads, calls[t] # <<>>, Top(t).pc \notin LinkingPcs,
         NEW class \in {Top(t).name, NoClass, Freed}, Return(t, class),
         class = Freed => Top(t).name \in Arrays,
         UNCHANGED <<declared, state, loader>>
  PROVE  /\ StacksPart' /\ calls' \in [Threads -> Seq(Calls)] /\ refused' \subseteq AllClasses
         /\ returned' \in [Threads -> Names \cup {NoClass, Freed}]
<1> DEFINE q == calls[t]
           s == Front(q)
           n == Len(q)
<1>1. StackOK(declared, q) /\ Top(t) = Last(q) /\ Top(t) \in Calls
  BY InCalls
<1>2. /\ StackOK(declared, s) /\ Len(s) = n - 1 /\ n \in Nat \ {0} /\ Last(q) = q[n]
      /\ \A i \in 1..(n - 1) : s[i] = q[i]
      /\ s # <<>> => n - 1 \in 1..(n - 1) /\ Last(s) = q[n - 1] /\ Below(declared, Last(s), Last(q))
  BY <1>1, CallLeft
<1>3. \A i \in Nat : i \in 1..n <=> i \in 1..(n - 1) \/ i = n
  BY <1>2
<1>4. calls' = [calls EXCEPT ![t] = s] /\ returned' = [returned EXCEPT ![t] = class]
  BY DEF Return
<1>5. /\ returned' \in [Threads -> Names \cup {NoClass, Freed}] /\ returned'[t] = class
      /\ \A u \in Threads \ {t} : returned'[u] = returned[u]
  BY <1>1, <1>4 DEF IInv, TypeOK, Calls
<1> HIDE DEF s
<1>6. ASSUME NEW i \in Nat, NEW c
      PROVE  LinksAt(s, i, c) <=> LinksAt(q, i, c)
  BY <1>1, <1>2, <1>3 DEF LinksAt
<1>7. ASSUME NEW i \in 1..Len(s), PastLoader(s, i)
      PROVE  PastLoader(q, i) /\ q[i].name = s[i].name
  <2>1. s[i] = q[i] /\ i \in 1..Len(q)
    BY <1>2, <1>3
  <2>2. QED
    BY <1>7, <2>1 DEF PastLoader
<1>8. s # <<>> => Last(s).pc # "wait" /\ Last(s).pc # "mark"
  BY <1>2 DEF Below
<1>9. ASSUME s # <<>>, Last(s).pc = "constant"
      PROVE  returned'[t] \in AllClasses \cup {NoClass}
  <2>1. Last(q).name = declared[Last(s).name].super
    BY <1>2, <1>9 DEF Below
  <2>2. Last(s).name \in Classes
    <3>1. n - 1 \in 1..Len(s) /\ Last(s) = s[n - 1]
      BY <1>2, <1>9
    <3>2. Placed(declared, Last(s))
      BY <1>2, <3>1 DEF StackOK
    <3>3. QED
      BY <1>9, <3>2 DEF Placed, LinkingPcs
  <2>3. declared[Last(s).name].super \in AllClasses \cup {NoClass}
    BY <2>2 DEF IInv, TypeOK
  <2>4. class # Freed
    BY <1>1, <2>1, <2>3, ClassesAssumption DEF AllClasses
  <2>5. QED
    BY <1>1, <1>5, <2>1, <2>3, <2>4
<1>10. StacksPart'
  BY <1>2, <1>4, <1>5, <1>6, <1>7, <1>8, <1>9, QuietStep
<1>11. refused' \subseteq AllClasses
  BY DEF Return, IInv, TypeOK
<1>12. QED
  BY <1>2, <1>4, <1>5, <1>10, <1>11, StackChanged

(* The innermost call makes another, in the same way linking or not. *)
LEMMA MadeQuietly ==
  ASSUME IInv, NEW t \in Threads, calls[t] # <<>>, NEW pc \in {"constant", "emplace"},
         NEW name \in Names, Recurse(t, pc, name),
         pc = "constant" =>
           /\ Top(t).pc = "super" /\ name # NoClass
           /\ Top(t).name \in Classes /\ name = declared[Top(t).name].super,
         pc = "emplace" => Top(t).pc = "find" /\ Top(t).name \in Arrays /\ name = BaseOf[Top(t).name],
         UNCHANGED <<declared, state, loader, returned>>
  PROVE  StacksPart' /\ calls' \in [Threads -> Seq(Calls)]
<1> DEFINE q == calls[t]
           x == [Last(q) EXCEPT !.pc = pc]
           y == Call(name)
           s == Front(q) \o <<x, y>>
           n == Len(q)
<1>1. StackOK(declared, q) /\ Top(t) = Last(q) /\ Top(t) \in Calls
  BY InCalls
<1>2. x \in Calls /\ x.name = Last(q).name /\ x.pc = pc
  BY <1>1 DEF Calls, Pcs
<1>3. y \in Calls /\ y.name = name /\ y.pc = "find"
  BY DEF Call, Calls, Pcs, NoConstant, Constants
<1>4. calls' = [calls EXCEPT ![t] = s]
  BY DEF Recurse
<1> HIDE DEF x, y
<1>5. Placed(declared, x) /\ Placed(declared, y) /\ Below(declared, x, y)
  BY <1>1, <1>2, <1>3 DEF Placed, Below, LinkingPcs
<1>6. /\ StackOK(declared, s) /\ Len(s) = n + 1 /\ n \in Nat \ {0} /\ Last(q) = q[n]
      /\ s[n] = x /\ s[n + 1] = y /\ Last(s) = y /\ s # <<>>
      /\ \A i \in 1..(n - 1) : s[i] = q[i]
  <2>1. StackOK(declared, q) /\ q # <<>> /\ x.name = Last(q).name
    BY <1>1, <1>2
  <2> HIDE DEF q
  <2>2. QED
    BY <1>2, <1>3, <1>5, <2>1, CallMade
<1> HIDE DEF s
<1>7. \A i \in Nat : i \in 1..n <=> i \in 1..(n - 1) \/ i = n
  BY <1>6
<1>8. \A i \in Nat : i \in 1..(n + 1) <=> i \in 1..(n - 1) \/ i = n \/ i = n + 1
  BY <1>6
<1>9. n + 1 \notin 1..n
  BY <1>6
<1>10. (x.pc \in LinkingPcs <=> Last(q).pc \in LinkingPcs) /\ y.pc \notin LinkingPcs
  BY <1>1, <1>2, <1>3 DEF LinkingPcs
<1>11. ASSUME NEW i \in Nat, NEW c
       PROVE  LinksAt(s, i, c) <=> LinksAt(q, i, c)
  BY <1>2, <1>6, <1>7, <1>8, <1>9, <1>10 DEF LinksAt
<1>12. ASSUME NEW i \in 1..Len(s), PastLoader(s, i)
       PROVE  PastLoader(q, i) /\ q[i].name = s[i].name
  <2>1. i \in 1..(n - 1) \/ i = n
    BY <1>6, <1>8, <1>10, <1>12 DEF PastLoader
  <2>2. q[i].name = s[i].name /\ i \in 1..Len(q) /\ q[i].pc \in LinkingPcs \ {"loader"}
    <3>1. CASE i \in 1..(n - 1)
      BY <1>6, <1>7, <1>12, <3>1 DEF PastLoader
    <3>2. CASE i = n
      BY <1>1, <1>2, <1>6, <1>7, <1>10, <1>12, <3>2 DEF LinkingPcs, PastLoader
    <3>3. QED
      BY <2>1, <3>1, <3>2
  <2>3. QED
    BY <2>2 DEF PastLoader
<1>13. StacksPart'
  BY <1>3, <1>4, <1>6, <1>11, <1>12, QuietStep
<1>14. QED
  BY <1>4, <1>6, <1>13, StackChanged

-------------------------------------------------------------------------------
(* The steps.                                                              *)

LEMMA GoesTo ==
  ASSUME IInv, NEW t \in Threads, calls[t] # <<>>, NEW pc \in Pcs, Goto(t, pc)
  PROVE  \E x \in Calls :
           /\ x.name = Top(t).name /\ x.pc = pc
           /\ calls' = [calls EXCEPT ![t] = Append(Front(calls[t]), x)]
<1> DEFINE x == [Top(t) EXCEPT !.pc = pc]
<1>1. Top(t) \in Calls /\ Top(t) = Last(calls[t])
  BY InCalls
<1>2. x \in Calls /\ x.name = Top(t).name /\ x.pc = pc
  BY <1>1 DEF Calls
<1>3. calls' = [calls EXCEPT ![t] = Append(Front(calls[t]), x)]
  BY <1>1 DEF Goto
<1>4. QED
  BY <1>2, <1>3

LEMMA HoldsOn ==
  ASSUME IInv, NEW t \in Threads, calls[t] # <<>>, NEW held \in Constants, Hold(t, "use", held)
  PROVE  \E x \in Calls :
           /\ x.name = Top(t).name /\ x.pc = "use"
           /\ calls' = [calls EXCEPT ![t] = Append(Front(calls[t]), x)]
<1> DEFINE x == [Top(t) EXCEPT !.pc = "use", !.held = held]
<1>1. Top(t) \in Calls /\ Top(t) = Last(calls[t])
  BY InCalls
<1>2. x \in Calls /\ x.name = Top(t).name /\ x.pc = "use"
  BY <1>1 DEF Calls, Pcs
<1>3. calls' = [calls EXCEPT ![t] = Append(Front(calls[t]), x)]
  BY <1>1 DEF Hold
<1>4. QED
  BY <1>2, <1>3

(* A call that links nothing goes on to another place where it links nothing. *)
LEMMA GotoBeside ==
  ASSUME IInv, NEW t \in Threads, calls[t] # <<>>, Top(t).pc \notin LinkingPcs,
         Top(t).name \in AllClasses, NEW pc \in {"wait", "check", "check again", "mark"}, Goto(t, pc),
         pc = "wait" /\ state[Top(t).name] = "LINKING" =>
           \E u \in Threads \ {t} : AtWork(u, Top(t).name),
         pc = "mark" => Top(t).name \in Classes /\ ~ AtWork(t, Top(t).name),
         UNCHANGED <<declared, state, loader, returned>>
  PROVE  StacksPart' /\ calls' \in [Threads -> Seq(Calls)]
<1>1. pc \in Pcs
  BY DEF Pcs
<1>2. PICK x \in Calls : /\ x.name = Top(t).name /\ x.pc = pc
                         /\ calls' = [calls EXCEPT ![t] = Append(Front(calls[t]), x)]
  BY <1>1, GoesTo
<1>3. Placed(declared, x)
  BY <1>2 DEF Placed, LinkingPcs
<1>4. /\ x.pc \in LinkingPcs <=> Top(t).pc \in LinkingPcs
      /\ x.pc # "loader" /\ Top(t).pc # "loader" /\ x.pc # "constant"
  BY <1>2 DEF LinkingPcs
<1>5. QED
  BY <1>2, <1>3, <1>4, MovedQuietly

(* A call that links goes on to another place where it does. *)
LEMMA GotoLinking ==
  ASSUME IInv, NEW t \in Threads, calls[t] # <<>>, Top(t).pc \in LinkingPcs \ {"loader"},
         NEW pc \in {"lay out", "linked"}, Goto(t, pc),
         UNCHANGED <<declared, state, loader, returned>>
  PROVE  StacksPart' /\ calls' \in [Threads -> Seq(Calls)]
<1>1. pc \in Pcs
  BY DEF Pcs
<1>2. PICK x \in Calls : /\ x.name = Top(t).name /\ x.pc = pc
                         /\ calls' = [calls EXCEPT ![t] = Append(Front(calls[t]), x)]
  BY <1>1, GoesTo
<1>3. Placed(declared, x)
  <2>1. Placed(declared, Top(t))
    BY InCalls
  <2>2. QED
    BY <1>2, <2>1 DEF Placed
<1>4. /\ x.pc \in LinkingPcs <=> Top(t).pc \in LinkingPcs
      /\ x.pc # "loader" /\ Top(t).pc # "loader" /\ x.pc # "constant" /\ x.pc # "wait"
      /\ x.pc # "mark"
  BY <1>2 DEF LinkingPcs
<1>5. QED
  BY <1>2, <1>3, <1>4, MovedQuietly

LEMMA HoldLinking ==
  ASSUME IInv, NEW t \in Threads, calls[t] # <<>>, Top(t).pc \in {"super", "constant"},
         declared[Top(t).name].super # NoClass,
         NEW held \in Constants, Hold(t, "use", held),
         UNCHANGED <<declared, state, loader, returned>>
  PROVE  StacksPart' /\ calls' \in [Threads -> Seq(Calls)]
<1>1. PICK x \in Calls : /\ x.name = Top(t).name /\ x.pc = "use"
                         /\ calls' = [calls EXCEPT ![t] = Append(Front(calls[t]), x)]
  BY HoldsOn
<1>2. Placed(declared, x)
  <2>1. Placed(declared, Top(t))
    BY InCalls
  <2>2. QED
    BY <1>1, <2>1 DEF Placed, LinkingPcs
<1>3. /\ x.pc \in LinkingPcs <=> Top(t).pc \in LinkingPcs
      /\ x.pc # "loader" /\ Top(t).pc # "loader" /\ x.pc # "constant" /\ x.pc # "wait"
      /\ x.pc # "mark"
  BY <1>1 DEF LinkingPcs
<1>4. QED
  BY <1>1, <1>2, <1>3, MovedQuietly

(* A thread that is told to sleep has another one to sleep for: its own calls below *)
(* the one that asks have said who links theirs, or somebody else did after them.   *)
LEMMA SleepsForOthers ==
  ASSUME IInv, NEW t \in Threads, calls[t] # <<>>, Top(t).pc = "find",
         Top(t).name \in AllClasses, state[Top(t).name] = "LINKING", SeesOther(t, Top(t).name)
  PROVE  \E u \in Threads \ {t} : AtWork(u, Top(t).name)
<1> DEFINE q == calls[t]
           n == Len(q)
<1>1. PICK u \in Threads : AtWork(u, Top(t).name)
  BY DEF IInv, Marked, AtWork
<1>2. CASE u # t
  BY <1>1, <1>2
<1>3. CASE u = t
  <2>1. PICK i \in Nat : LinksAt(q, i, Top(t).name)
    BY <1>1, <1>3 DEF AtWork, Works
  <2>2. StackOK(declared, q) /\ n \in Nat \ {0} /\ Top(t) = q[n]
    BY InCalls
  <2>3. i \in 1..n /\ q[i].pc \in LinkingPcs /\ q[i].name = Top(t).name
    BY <2>1 DEF LinksAt
  <2>4. i \in 1..(n - 1)
    <3>1. i # n
      BY <2>2, <2>3 DEF LinkingPcs
    <3>2. QED
      BY <2>2, <2>3, <3>1
  <2>5. q[i].pc \in {"constant", "emplace"}
    BY <2>2, <2>4 DEF StackOK, Below
  <2>6. PastLoader(q, i)
    BY <2>3, <2>5 DEF PastLoader
  <2>7. \/ loader[Top(t).name] = t
        \/ \E v \in Threads \ {t} : AtWork(v, Top(t).name)
    BY <2>3, <2>6 DEF IInv, Loaders, AtWork
  <2>8. QED
    BY <2>7 DEF SeesOther
<1>4. QED
  BY <1>2, <1>3

LEMMA AskStep ==
  ASSUME IInv, NEW t \in Threads, NEW name \in Names, Ask(t, name)
  PROVE  StacksPart' /\ TypeOK'
<1> DEFINE s == <<Call(name)>>
<1>1. /\ calls[t] = <<>> /\ calls' = [calls EXCEPT ![t] = s]
      /\ UNCHANGED <<declared, state, loader, returned>>
  BY DEF Ask, results
<1>2. Call(name) \in Calls /\ Call(name).pc = "find"
  BY DEF Call, Calls, Pcs, NoConstant, Constants
<1>3. s \in Seq(Calls) /\ Len(s) = 1 /\ s[1] = Call(name) /\ Last(s) = Call(name)
  BY <1>2 DEF Last
<1> HIDE DEF s
<1>4. \A i \in 1..Len(s) : s[i].pc = "find"
  BY <1>2, <1>3
<1>5. StackOK(declared, s)
  <2>1. 1..(Len(s) - 1) = {}
    BY <1>3
  <2>2. \A i \in 1..Len(s) : Placed(declared, s[i])
    BY <1>4 DEF Placed, LinkingPcs
  <2>3. QED
    BY <1>3, <2>1, <2>2 DEF StackOK
<1>6. \A i \in Nat : \A c \in AllClasses : LinksAt(s, i, c) <=> LinksAt(calls[t], i, c)
  <2>1. 1..Len(calls[t]) = {}
    BY <1>1
  <2>2. QED
    BY <1>4, <2>1 DEF LinksAt, LinkingPcs
<1>7. /\ \A i \in 1..Len(s) : ~ PastLoader(s, i)
      /\ Last(s).pc # "wait" /\ Last(s).pc # "constant" /\ Last(s).pc # "mark"
  BY <1>2, <1>3, <1>4 DEF LinkingPcs, PastLoader
<1>8. StacksPart' /\ calls' \in [Threads -> Seq(Calls)]
  BY <1>1, <1>5, <1>6, <1>7, QuietStep, StackChanged
<1>9. loads' \in [Threads -> 0 .. MaxLoads]
  BY ClassesAssumption DEF Ask, IInv, TypeOK
<1>10. TypeOK'
  BY <1>8, <1>9 DEF Ask, IInv, TypeOK, linked, results
<1>11. QED
  BY <1>8, <1>10

LEMMA NotFreed == \A name \in Names \cup {NoClass} : name # Freed
BY ClassesAssumption DEF Names, AllClasses

LEMMA FindDeclaredStep ==
  ASSUME IInv, NEW t \in Threads, FindDeclared(t)
  PROVE  StacksPart' /\ TypeOK'
<1>1. /\ calls[t] # <<>> /\ Top(t).pc = "find" /\ Top(t).name \in AllClasses
      /\ UNCHANGED <<declared, state, loader, linked, constant, arrays, notified, loads, process>>
  BY DEF FindDeclared, At
<1>2. Top(t).pc \notin LinkingPcs
  BY <1>1 DEF LinkingPcs
<1>3. CASE Return(t, NoClass)
  BY <1>1, <1>2, <1>3, LeftQuietly, NotFreed DEF IInv, TypeOK, linked, results
<1>4. CASE /\ state[Top(t).name] = "LINKING" /\ SeesOther(t, Top(t).name)
           /\ Goto(t, "wait") /\ UNCHANGED results
  <2>1. StacksPart' /\ calls' \in [Threads -> Seq(Calls)]
    BY <1>1, <1>2, <1>4, SleepsForOthers, GotoBeside DEF results
  <2>2. QED
    BY <1>1, <1>4, <2>1 DEF IInv, TypeOK, linked, results
<1>5. CASE Goto(t, "check") /\ UNCHANGED results
  <2>1. StacksPart' /\ calls' \in [Threads -> Seq(Calls)]
    BY <1>1, <1>2, <1>5, GotoBeside DEF results
  <2>2. QED
    BY <1>1, <1>5, <2>1 DEF IInv, TypeOK, linked, results
<1>6. QED
  BY <1>3, <1>4, <1>5 DEF FindDeclared

LEMMA LeavesWaitStep ==
  ASSUME IInv, NEW t \in Threads, LeavesWait(t)
  PROVE  StacksPart' /\ TypeOK'
<1>1. /\ calls[t] # <<>> /\ Top(t).pc = "wait"
      /\ notified' = [notified EXCEPT ![t] = FALSE]
      /\ UNCHANGED <<declared, state, loader, linked, constant, arrays, results, loads, process>>
  BY DEF LeavesWait, At
<1>2. Top(t).pc \notin LinkingPcs /\ Top(t).name \in AllClasses
  BY <1>1, InCalls DEF LinkingPcs, Placed
<1>3. StacksPart' /\ calls' \in [Threads -> Seq(Calls)]
  <2>1. CASE Goto(t, "check")
    BY <1>1, <1>2, <2>1, GotoBeside DEF results
  <2>2. CASE UNCHANGED calls
    BY <1>1, <2>2, SameStacks DEF IInv, TypeOK, results
  <2>3. QED
    BY <2>1, <2>2 DEF LeavesWait
<1>4. QED
  BY <1>1, <1>3 DEF IInv, TypeOK, linked, results

LEMMA ModuleLoadedStep ==
  ASSUME IInv, ModuleLoaded
  PROVE  StacksPart' /\ TypeOK'
<1>1. notified' \in [Threads -> BOOLEAN]
  BY DEF ModuleLoaded
<1>2. QED
  BY <1>1, SameStacks DEF ModuleLoaded, IInv, TypeOK, linked, results

LEMMA CheckStep ==
  ASSUME IInv, NEW t \in Threads, Check(t) \/ CheckAgain(t)
  PROVE  StacksPart' /\ TypeOK'
<1>1. /\ calls[t] # <<>> /\ Top(t).pc \in {"check", "check again"}
      /\ UNCHANGED <<declared, state, loader, linked, constant, arrays, notified, loads, process>>
  BY DEF Check, CheckAgain, At
<1>2. Top(t).pc \notin LinkingPcs /\ Top(t).name \in AllClasses
  BY <1>1, InCalls DEF LinkingPcs, Placed
<1>3. CASE \E class \in {Top(t).name, NoClass} : Return(t, class)
  <2>1. PICK class \in {Top(t).name, NoClass} : Return(t, class)
    BY <1>3
  <2>2. class # Freed
    BY <1>2, NotFreed DEF Names
  <2>3. /\ StacksPart' /\ calls' \in [Threads -> Seq(Calls)] /\ refused' \subseteq AllClasses
        /\ returned' \in [Threads -> Names \cup {NoClass, Freed}]
    BY <1>1, <1>2, <2>1, <2>2, LeftQuietly
  <2>4. QED
    BY <1>1, <2>3 DEF IInv, TypeOK, linked
<1>4. CASE Goto(t, "check again") /\ UNCHANGED results
  <2>1. StacksPart' /\ calls' \in [Threads -> Seq(Calls)]
    BY <1>1, <1>2, <1>4, GotoBeside DEF results
  <2>2. QED
    BY <1>1, <1>4, <2>1 DEF IInv, TypeOK, linked, results
<1>5. CASE state[Top(t).name] = "INITIALIZED" /\ Goto(t, "mark") /\ UNCHANGED results
  <2>1. Top(t).name \in Classes
    BY <1>2, <1>5 DEF IInv, ObjectLinked, AllClasses
  <2>2. ~ AtWork(t, Top(t).name)
    BY <1>2, <1>5 DEF IInv, Marked, AtWork
  <2>3. StacksPart' /\ calls' \in [Threads -> Seq(Calls)]
    BY <1>1, <1>2, <1>5, <2>1, <2>2, GotoBeside DEF results
  <2>4. QED
    BY <1>1, <1>5, <2>3 DEF IInv, TypeOK, linked, results
<1>6. QED
  BY <1>3, <1>4, <1>5 DEF Check, CheckAgain

(* What a step that begins or ends a linking does to the stack of t. *)
LEMMA StackMoved ==
  ASSUME IInv, NEW t \in Threads, calls[t] # <<>>, NEW pc \in {"loader", "super", "check"},
         Goto(t, pc), Placed(declared, Top(t)),
         pc # "check" => Top(t).name \in Classes,
         pc = "check" => Top(t).name \in AllClasses,
         UNCHANGED declared
  PROVE  LET n == Len(calls[t])
             s == calls'[t]
         IN  /\ calls' \in [Threads -> Seq(Calls)] /\ Stacks'
             /\ n \in Nat \ {0} /\ Top(t) = calls[t][n] /\ s # <<>> /\ Len(s) = n
             /\ Last(s) = s[n] /\ s[n].name = Top(t).name /\ s[n].pc = pc
             /\ \A i \in Nat : i \in 1..n <=> i \in 1..(n - 1) \/ i = n
             /\ \A i \in 1..(n - 1) : i # n
             /\ \A i \in 1..(n - 1) : s[i] = calls[t][i]
             /\ \A u \in Threads \ {t} : calls'[u] = calls[u]
<1> DEFINE q == calls[t]
           n == Len(q)
<1>1. /\ StackOK(declared, q) /\ n \in Nat \ {0} /\ Top(t) = Last(q) /\ Top(t) = q[n]
  BY InCalls
<1>2. PICK x \in Calls : /\ x.name = Top(t).name /\ x.pc = pc
                         /\ calls' = [calls EXCEPT ![t] = Append(Front(q), x)]
  <2>1. pc \in Pcs
    BY DEF Pcs
  <2>2. QED
    BY <2>1, GoesTo
<1> DEFINE s == Append(Front(q), x)
<1>3. Placed(declared, x)
  BY <1>2 DEF Placed, LinkingPcs
<1>4. /\ StackOK(declared, s) /\ Len(s) = n /\ s # <<>>
      /\ s[n] = x /\ Last(s) = x
      /\ \A i \in 1..(n - 1) : s[i] = q[i]
  <2>1. q # <<>> /\ x.name = Last(q).name
    BY <1>1, <1>2
  <2> HIDE DEF q
  <2>2. QED
    BY <1>1, <1>2, <1>3, <2>1, MovedOn
<1>5. calls' = [calls EXCEPT ![t] = s]
  BY <1>2
<1> HIDE DEF s
<1>6. /\ calls' \in [Threads -> Seq(Calls)] /\ calls'[t] = s
      /\ \A u \in Threads \ {t} : calls'[u] = calls[u]
      /\ Stacks'
  BY <1>4, <1>5, StackChanged
<1>7. /\ \A i \in Nat : i \in 1..n <=> i \in 1..(n - 1) \/ i = n
      /\ \A i \in 1..(n - 1) : i # n
  BY <1>1
<1>8. QED
  BY <1>1, <1>2, <1>4, <1>6, <1>7

(* Class::link begins, perhaps while another thread links the class or after. *)
LEMMA MarkStep ==
  ASSUME IInv, NEW t \in Threads, Mark(t)
  PROVE  StacksPart' /\ TypeOK'
<1> DEFINE class == Top(t).name
           q == calls[t]
           n == Len(q)
           s == calls'[t]
<1>1. /\ q # <<>> /\ Top(t).pc = "mark"
      /\ state' = [state EXCEPT ![class] = "LINKING"] /\ Goto(t, "loader")
      /\ UNCHANGED <<declared, loader, linked, constant, arrays, results, notified, loads, process>>
  BY DEF Mark, At
<1>2. Placed(declared, Top(t)) /\ class \in Classes /\ class \in AllClasses
  BY <1>1, InCalls DEF Placed, AllClasses
<1>3. /\ calls' \in [Threads -> Seq(Calls)] /\ Stacks'
      /\ n \in Nat \ {0} /\ Top(t) = q[n] /\ s # <<>> /\ Len(s) = n
      /\ Last(s) = s[n] /\ s[n].name = class /\ s[n].pc = "loader"
      /\ \A i \in Nat : i \in 1..n <=> i \in 1..(n - 1) \/ i = n
      /\ \A i \in 1..(n - 1) : i # n
      /\ \A i \in 1..(n - 1) : s[i] = q[i]
      /\ \A u \in Threads \ {t} : calls'[u] = calls[u]
  BY <1>1, <1>2, StackMoved
<1>4. /\ state' \in [AllClasses -> {"INITIALIZED", "LINKING", "LINKED"}]
      /\ \A c \in AllClasses : state'[c] = IF c = class THEN "LINKING" ELSE state[c]
  BY <1>1, <1>2 DEF IInv, TypeOK
<1>5. \A i \in Nat, c \in AllClasses :
        LinksAt(s, i, c) <=> LinksAt(q, i, c) \/ (i = n /\ c = class)
  <2>1. q[n].pc \notin LinkingPcs /\ s[n].pc \in LinkingPcs
    BY <1>1, <1>3 DEF LinkingPcs
  <2> HIDE DEF q, n, class, s
  <2>2. QED
    BY <1>3, <2>1 DEF LinksAt, n
<1>6. \A u \in Threads, c \in AllClasses : Works(calls'[u], c) <=> AtWork(u, c) \/ (u = t /\ c = class)
  <2>1. \A c \in AllClasses : Works(calls'[t], c) <=> AtWork(t, c) \/ c = class
    BY <1>3, <1>5 DEF AtWork, Works
  <2>2. QED
    BY <1>3, <2>1 DEF AtWork, Works
<1>7. ~ AtWork(t, class)
  BY <1>1 DEF IInv, Fresh, AtWork
<1>8. ASSUME NEW u \in Threads, NEW i \in 1..Len(calls'[u]), PastLoader(calls'[u], i)
      PROVE  /\ i \in 1..Len(calls[u]) /\ calls'[u][i] = calls[u][i] /\ PastLoader(calls[u], i)
             /\ calls[u][i].name \in AllClasses
  <2>1. i \in 1..Len(calls[u]) /\ calls'[u][i] = calls[u][i]
    <3>1. CASE u = t
      BY <1>3, <1>8, <3>1 DEF PastLoader
    <3>2. CASE u # t
      BY <1>3, <1>8, <3>2
    <3>3. QED
      BY <3>1, <3>2
  <2>2. PastLoader(calls[u], i)
    BY <1>8, <2>1 DEF PastLoader
  <2>3. QED
    BY <2>1, <2>2 DEF PastLoader, IInv, Stacks, StackOK, Placed, AllClasses
<1>9. ASSUME NEW u \in Threads, NEW i \in 1..Len(calls[u]), PastLoader(calls[u], i),
             calls[u][i].name = class
      PROVE  u # t
  <2>1. i \in Nat
    OBVIOUS
  <2>2. AtWork(u, class)
    BY <1>9, <2>1 DEF PastLoader, AtWork, Works, LinksAt
  <2>3. QED
    BY <1>7, <2>2
<1> HIDE DEF q, n, class, s
<1>10. SuperGiven'
  <2>1. returned' = returned
    BY <1>1 DEF results
  <2>2. \A u \in Threads : calls'[u] # <<>> /\ Last(calls'[u]).pc = "constant" => calls'[u] = calls[u]
    BY <1>3 DEF s
  <2>3. QED
    BY <2>1, <2>2 DEF IInv, SuperGiven, Top
<1>11. Marked'
  BY <1>2, <1>4, <1>6 DEF IInv, Marked, AllClasses, AtWork
<1>12. Fresh'
  <2>1. ASSUME NEW u \in Threads, calls'[u] # <<>>, Last(calls'[u]).pc = "mark"
        PROVE  ~ Works(calls'[u], Last(calls'[u]).name)
    <3>1. u # t
      BY <1>3, <2>1 DEF s
    <3>2. calls'[u] = calls[u]
      BY <1>3, <3>1
    <3>3. QED
      BY <2>1, <3>2 DEF IInv, Fresh, Top, AtWork, Works
  <2>2. QED
    BY <2>1 DEF Fresh, Top, AtWork
<1>13. Loaders'
  <2>1. ASSUME NEW u \in Threads, NEW i \in 1..Len(calls'[u]), PastLoader(calls'[u], i),
               state'[calls'[u][i].name] = "LINKING"
        PROVE  \/ loader'[calls'[u][i].name] = u
               \/ \E v \in Threads \ {u} : Works(calls'[v], calls'[u][i].name)
    <3> DEFINE c == calls[u][i].name
    <3>1. /\ i \in 1..Len(calls[u]) /\ calls'[u][i] = calls[u][i] /\ PastLoader(calls[u], i)
          /\ c \in AllClasses
      BY <1>8, <2>1
    <3>2. CASE c = class
      <4>1. u # t
        BY <1>9, <3>1, <3>2
      <4>2. Works(calls'[t], c)
        BY <1>2, <1>6, <3>2
      <4>3. QED
        BY <3>1, <4>1, <4>2
    <3>3. CASE c # class
      <4>1. state[c] = "LINKING"
        BY <1>4, <2>1, <3>1, <3>3
      <4>2. loader[c] = u \/ \E v \in Threads \ {u} : AtWork(v, c)
        BY <3>1, <4>1 DEF IInv, Loaders, AtWork
      <4>3. QED
        BY <1>1, <1>6, <3>1, <4>2
    <3>4. QED
      BY <3>2, <3>3
  <2>2. QED
    BY <2>1 DEF Loaders, AtWork
<1>14. Asleep'
  <2>1. ASSUME NEW u \in Threads, calls'[u] # <<>>, Last(calls'[u]).pc = "wait",
               state'[Last(calls'[u]).name] = "LINKING"
        PROVE  \E v \in Threads \ {u} : Works(calls'[v], Last(calls'[u]).name)
    <3>1. u # t
      BY <1>3, <2>1 DEF s
    <3>2. calls'[u] = calls[u] /\ Last(calls[u]) = Top(u) /\ Top(u).name \in AllClasses
      BY <1>3, <2>1, <3>1, InCalls DEF Top, Placed
    <3>3. CASE Top(u).name = class
      BY <1>2, <1>6, <3>1, <3>2, <3>3
    <3>4. CASE Top(u).name # class
      <4>1. \E v \in Threads \ {u} : AtWork(v, Top(u).name)
        BY <1>4, <2>1, <3>2, <3>4 DEF IInv, Asleep, AtWork
      <4>2. QED
        BY <1>6, <3>2, <4>1
    <3>5. QED
      BY <3>3, <3>4
  <2>2. QED
    BY <2>1 DEF Asleep, Top, AtWork
<1>15. ObjectLinked'
  <2>1. Object \in AllClasses /\ Object # class
    BY <1>2, ClassesAssumption DEF AllClasses
  <2>2. QED
    BY <1>4, <2>1 DEF IInv, ObjectLinked
<1>16. TypeOK'
  BY <1>1, <1>3, <1>4 DEF IInv, TypeOK, linked, results
<1>17. QED
  BY <1>3, <1>10, <1>11, <1>12, <1>13, <1>14, <1>15, <1>16 DEF StacksPart

(* Class::link ends for one thread; others may be at it still. *)
LEMMA LinkedStep ==
  ASSUME IInv, NEW t \in Threads, Linked(t)
  PROVE  StacksPart' /\ TypeOK'
<1> DEFINE class == Top(t).name
           q == calls[t]
           n == Len(q)
           s == calls'[t]
<1>1. /\ q # <<>> /\ Top(t).pc = "linked"
      /\ state' = [state EXCEPT ![class] = "LINKED"] /\ Goto(t, "check")
      /\ UNCHANGED <<declared, loader, linked, constant, arrays, results, notified, loads, process>>
  BY DEF Linked, At
<1>2. Placed(declared, Top(t)) /\ class \in Classes /\ class \in AllClasses
  BY <1>1, InCalls DEF Placed, AllClasses, LinkingPcs
<1>3. /\ calls' \in [Threads -> Seq(Calls)] /\ Stacks'
      /\ n \in Nat \ {0} /\ Top(t) = q[n] /\ s # <<>> /\ Len(s) = n
      /\ Last(s) = s[n] /\ s[n].name = class /\ s[n].pc = "check"
      /\ \A i \in Nat : i \in 1..n <=> i \in 1..(n - 1) \/ i = n
      /\ \A i \in 1..(n - 1) : i # n
      /\ \A i \in 1..(n - 1) : s[i] = q[i]
      /\ \A u \in Threads \ {t} : calls'[u] = calls[u]
  BY <1>1, <1>2, StackMoved
<1>4. /\ state' \in [AllClasses -> {"INITIALIZED", "LINKING", "LINKED"}]
      /\ \A c \in AllClasses : state'[c] = IF c = class THEN "LINKED" ELSE state[c]
  BY <1>1, <1>2 DEF IInv, TypeOK
<1>5. \A i \in Nat, c \in AllClasses : c # class => (LinksAt(s, i, c) <=> LinksAt(q, i, c))
  <2>1. q[n].name = class
    BY <1>3
  <2> HIDE DEF q, n, class, s
  <2>2. QED
    BY <1>3, <2>1 DEF LinksAt, n
<1>6. \A u \in Threads, c \in AllClasses : c # class => (Works(calls'[u], c) <=> AtWork(u, c))
  BY <1>3, <1>5 DEF AtWork, Works
<1>7. ASSUME NEW u \in Threads, NEW i \in 1..Len(calls'[u]), PastLoader(calls'[u], i)
      PROVE  /\ i \in 1..Len(calls[u]) /\ calls'[u][i] = calls[u][i] /\ PastLoader(calls[u], i)
             /\ calls[u][i].name \in AllClasses
  <2>1. i \in 1..Len(calls[u]) /\ calls'[u][i] = calls[u][i]
    <3>1. CASE u = t
      <4>1. i \in Nat /\ i \in 1..n /\ calls'[u] = s
        BY <1>3, <1>7, <3>1
      <4>2. i # n
        BY <1>3, <1>7, <4>1 DEF PastLoader, LinkingPcs
      <4>3. i \in 1..(n - 1)
        BY <1>3, <4>1, <4>2
      <4>4. QED
        BY <1>3, <3>1, <4>1, <4>3
    <3>2. CASE u # t
      BY <1>3, <1>7, <3>2
    <3>3. QED
      BY <3>1, <3>2
  <2>2. PastLoader(calls[u], i)
    BY <1>7, <2>1 DEF PastLoader
  <2>3. QED
    BY <2>1, <2>2 DEF PastLoader, IInv, Stacks, StackOK, Placed, AllClasses
<1> HIDE DEF q, n, class, s
<1>8. SuperGiven'
  <2>1. returned' = returned
    BY <1>1 DEF results
  <2>2. \A u \in Threads : calls'[u] # <<>> /\ Last(calls'[u]).pc = "constant" => calls'[u] = calls[u]
    BY <1>3 DEF s
  <2>3. QED
    BY <2>1, <2>2 DEF IInv, SuperGiven, Top
<1>9. Marked'
  BY <1>2, <1>4, <1>6 DEF IInv, Marked, AllClasses, AtWork
<1>10. Fresh'
  <2>1. ASSUME NEW u \in Threads, calls'[u] # <<>>, Last(calls'[u]).pc = "mark"
        PROVE  ~ Works(calls'[u], Last(calls'[u]).name)
    <3>1. u # t
      BY <1>3, <2>1 DEF s
    <3>2. calls'[u] = calls[u]
      BY <1>3, <3>1
    <3>3. QED
      BY <2>1, <3>2 DEF IInv, Fresh, Top, AtWork, Works
  <2>2. QED
    BY <2>1 DEF Fresh, Top, AtWork
<1>11. Loaders'
  <2>1. ASSUME NEW u \in Threads, NEW i \in 1..Len(calls'[u]), PastLoader(calls'[u], i),
               state'[calls'[u][i].name] = "LINKING"
        PROVE  \/ loader'[calls'[u][i].name] = u
               \/ \E v \in Threads \ {u} : Works(calls'[v], calls'[u][i].name)
    <3> DEFINE c == calls[u][i].name
    <3>1. /\ i \in 1..Len(calls[u]) /\ calls'[u][i] = calls[u][i] /\ PastLoader(calls[u], i)
          /\ c \in AllClasses
      BY <1>7, <2>1
    <3>2. c # class /\ state[c] = "LINKING"
      BY <1>4, <2>1, <3>1
    <3>3. loader[c] = u \/ \E v \in Threads \ {u} : AtWork(v, c)
      BY <3>1, <3>2 DEF IInv, Loaders, AtWork
    <3>4. QED
      BY <1>1, <1>6, <3>1, <3>2, <3>3
  <2>2. QED
    BY <2>1 DEF Loaders, AtWork
<1>12. Asleep'
  <2>1. ASSUME NEW u \in Threads, calls'[u] # <<>>, Last(calls'[u]).pc = "wait",
               state'[Last(calls'[u]).name] = "LINKING"
        PROVE  \E v \in Threads \ {u} : Works(calls'[v], Last(calls'[u]).name)
    <3>1. u # t
      BY <1>3, <2>1 DEF s
    <3>2. calls'[u] = calls[u] /\ Last(calls[u]) = Top(u) /\ Top(u).name \in AllClasses
      BY <1>3, <2>1, <3>1, InCalls DEF Top, Placed
    <3>3. Top(u).name # class /\ state[Top(u).name] = "LINKING"
      BY <1>4, <2>1, <3>2
    <3>4. \E v \in Threads \ {u} : AtWork(v, Top(u).name)
      BY <2>1, <3>2, <3>3 DEF IInv, Asleep, AtWork
    <3>5. QED
      BY <1>6, <3>2, <3>3, <3>4
  <2>2. QED
    BY <2>1 DEF Asleep, Top, AtWork
<1>13. ObjectLinked'
  <2>1. Object \in AllClasses /\ Object # class
    BY <1>2, ClassesAssumption DEF AllClasses
  <2>2. QED
    BY <1>4, <2>1 DEF IInv, ObjectLinked
<1>14. TypeOK'
  BY <1>1, <1>3, <1>4 DEF IInv, TypeOK, linked, results
<1>15. QED
  BY <1>3, <1>8, <1>9, <1>10, <1>11, <1>12, <1>13, <1>14 DEF StacksPart

(* linkCommon says who links the class, perhaps over the name of another thread that *)
(* does, which has this one to sleep for.                                            *)
LEMMA LinkCommonStep ==
  ASSUME IInv, NEW t \in Threads, LinkCommon(t)
  PROVE  StacksPart' /\ TypeOK'
<1> DEFINE class == Top(t).name
           q == calls[t]
           n == Len(q)
           s == calls'[t]
<1>1. /\ q # <<>> /\ Top(t).pc = "loader"
      /\ loader' = [loader EXCEPT ![class] = t] /\ Goto(t, "super")
      /\ UNCHANGED <<declared, state, linked, constant, arrays, results, notified, loads, process>>
  BY DEF LinkCommon, At
<1>2. Placed(declared, Top(t)) /\ class \in Classes /\ class \in AllClasses
  BY <1>1, InCalls DEF Placed, AllClasses, LinkingPcs
<1>3. /\ calls' \in [Threads -> Seq(Calls)] /\ Stacks'
      /\ n \in Nat \ {0} /\ Top(t) = q[n] /\ s # <<>> /\ Len(s) = n
      /\ Last(s) = s[n] /\ s[n].name = class /\ s[n].pc = "super"
      /\ \A i \in Nat : i \in 1..n <=> i \in 1..(n - 1) \/ i = n
      /\ \A i \in 1..(n - 1) : i # n
      /\ \A i \in 1..(n - 1) : s[i] = q[i]
      /\ \A u \in Threads \ {t} : calls'[u] = calls[u]
  BY <1>1, <1>2, StackMoved
<1>4. /\ loader' \in [AllClasses -> Threads \cup {NoThread}]
      /\ \A c \in AllClasses : loader'[c] = IF c = class THEN t ELSE loader[c]
  BY <1>1, <1>2 DEF IInv, TypeOK
<1>5. \A i \in Nat, c \in AllClasses : LinksAt(s, i, c) <=> LinksAt(q, i, c)
  <2>1. q[n].pc \in LinkingPcs /\ s[n].pc \in LinkingPcs
    BY <1>1, <1>3 DEF LinkingPcs
  <2> HIDE DEF q, n, s
  <2>2. QED
    BY <1>3, <2>1 DEF LinksAt, n
<1>6. \A u \in Threads, c \in AllClasses : Works(calls'[u], c) <=> AtWork(u, c)
  BY <1>3, <1>5 DEF AtWork, Works
<1>7. AtWork(t, class)
  <2>1. n \in Nat /\ n \in 1..n
    BY <1>3
  <2>2. LinksAt(q, n, class)
    BY <1>1, <1>3, <2>1 DEF LinksAt, LinkingPcs
  <2>3. QED
    BY <2>1, <2>2 DEF AtWork, Works
<1>8. ASSUME NEW u \in Threads, NEW i \in 1..Len(calls'[u]), PastLoader(calls'[u], i)
      PROVE  /\ i \in 1..Len(calls[u]) /\ calls'[u][i].name = calls[u][i].name
             /\ PastLoader(calls[u], i) \/ (u = t /\ calls[u][i].name = class)
             /\ calls[u][i].name \in AllClasses
  <2>1. /\ i \in 1..Len(calls[u])
        /\ \/ calls'[u][i] = calls[u][i]
           \/ calls'[u][i].name = class /\ calls[u][i].name = class /\ u = t
    <3>1. CASE u = t
      BY <1>3, <1>8, <3>1
    <3>2. CASE u # t
      BY <1>3, <1>8, <3>2
    <3>3. QED
      BY <3>1, <3>2
  <2>2. PastLoader(calls[u], i) \/ (u = t /\ calls[u][i].name = class)
    BY <1>8, <2>1 DEF PastLoader
  <2>3. QED
    BY <1>2, <2>1, <2>2 DEF PastLoader, IInv, Stacks, StackOK, Placed, AllClasses
<1> HIDE DEF q, n, class, s
<1>9. SuperGiven'
  <2>1. returned' = returned
    BY <1>1 DEF results
  <2>2. \A u \in Threads : calls'[u] # <<>> /\ Last(calls'[u]).pc = "constant" => calls'[u] = calls[u]
    BY <1>3 DEF s
  <2>3. QED
    BY <2>1, <2>2 DEF IInv, SuperGiven, Top
<1>10. Marked'
  BY <1>1, <1>6 DEF IInv, Marked, AllClasses, AtWork
<1>11. Fresh'
  <2>1. ASSUME NEW u \in Threads, calls'[u] # <<>>, Last(calls'[u]).pc = "mark"
        PROVE  ~ Works(calls'[u], Last(calls'[u]).name)
    <3>1. u # t
      BY <1>3, <2>1 DEF s
    <3>2. calls'[u] = calls[u]
      BY <1>3, <3>1
    <3>3. QED
      BY <2>1, <3>2 DEF IInv, Fresh, Top, AtWork, Works
  <2>2. QED
    BY <2>1 DEF Fresh, Top, AtWork
<1>12. Loaders'
  <2>1. ASSUME NEW u \in Threads, NEW i \in 1..Len(calls'[u]), PastLoader(calls'[u], i),
               state'[calls'[u][i].name] = "LINKING"
        PROVE  \/ loader'[calls'[u][i].name] = u
               \/ \E v \in Threads \ {u} : Works(calls'[v], calls'[u][i].name)
    <3> DEFINE c == calls[u][i].name
    <3>1. /\ i \in 1..Len(calls[u]) /\ calls'[u][i].name = c
          /\ PastLoader(calls[u], i) \/ (u = t /\ c = class)
          /\ c \in AllClasses
      BY <1>8, <2>1
    <3>2. CASE c = class /\ u = t
      BY <1>4, <3>1, <3>2
    <3>3. CASE c = class /\ u # t
      BY <1>6, <1>7, <3>1, <3>3
    <3>4. CASE c # class
      <4>1. loader[c] = u \/ \E v \in Threads \ {u} : AtWork(v, c)
        BY <1>1, <2>1, <3>1, <3>4 DEF IInv, Loaders, AtWork
      <4>2. QED
        BY <1>4, <1>6, <3>1, <3>4, <4>1
    <3>5. QED
      BY <3>2, <3>3, <3>4
  <2>2. QED
    BY <2>1 DEF Loaders, AtWork
<1>13. Asleep'
  <2>1. ASSUME NEW u \in Threads, calls'[u] # <<>>, Last(calls'[u]).pc = "wait",
               state'[Last(calls'[u]).name] = "LINKING"
        PROVE  \E v \in Threads \ {u} : Works(calls'[v], Last(calls'[u]).name)
    <3>1. u # t
      BY <1>3, <2>1 DEF s
    <3>2. calls'[u] = calls[u] /\ Last(calls[u]) = Top(u) /\ Top(u).name \in AllClasses
      BY <1>3, <2>1, <3>1, InCalls DEF Top, Placed
    <3>3. \E v \in Threads \ {u} : AtWork(v, Top(u).name)
      BY <1>1, <2>1, <3>2 DEF IInv, Asleep, AtWork
    <3>4. QED
      BY <1>6, <3>2, <3>3
  <2>2. QED
    BY <2>1 DEF Asleep, Top, AtWork
<1>14. ObjectLinked'
  BY <1>1 DEF IInv, ObjectLinked
<1>15. TypeOK'
  BY <1>1, <1>3, <1>4 DEF IInv, TypeOK, linked, results
<1>16. QED
  BY <1>3, <1>9, <1>10, <1>11, <1>12, <1>13, <1>14, <1>15 DEF StacksPart

LEMMA SuperStep ==
  ASSUME IInv, NEW t \in Threads, Super(t)
  PROVE  StacksPart' /\ TypeOK'
<1> DEFINE parent == declared[Top(t).name].super
<1>1. /\ calls[t] # <<>> /\ Top(t).pc = "super"
      /\ UNCHANGED <<declared, state, loader, linked, constant, arrays, results, notified,
                     loads, process>>
  BY DEF Super, At
<1>2. Top(t).pc \in LinkingPcs \ {"loader"} /\ Top(t).name \in Classes
  BY <1>1, InCalls DEF LinkingPcs, Placed
<1>3. parent \in AllClasses \cup {NoClass}
  BY <1>2 DEF IInv, TypeOK
<1>4. StacksPart' /\ calls' \in [Threads -> Seq(Calls)]
  <2>1. CASE Goto(t, "lay out")
    BY <1>1, <1>2, <2>1, GotoLinking DEF results
  <2>2. CASE parent # NoClass /\ Recurse(t, "constant", parent)
    <3>1. parent \in Names
      BY <1>3, <2>2 DEF Names
    <3>2. QED
      BY <1>1, <1>2, <2>2, <3>1, MadeQuietly DEF results
  <2>3. CASE parent # NoClass /\ Hold(t, "use", constant[parent])
    <3>1. constant[parent] \in Constants
      BY <1>3, <2>3 DEF IInv, TypeOK
    <3>2. QED
      BY <1>1, <2>3, <3>1, HoldLinking DEF results
  <2>4. QED
    BY <2>1, <2>2, <2>3 DEF Super
<1>5. TypeOK'
  BY <1>1, <1>4 DEF IInv, TypeOK, linked, results
<1>6. QED
  BY <1>4, <1>5

LEMMA AssignConstantStep ==
  ASSUME IInv, NEW t \in Threads, AssignConstant(t)
  PROVE  StacksPart' /\ TypeOK'
<1> DEFINE made == [class |-> returned[t], by |-> t]
           parent == declared[Top(t).name].super
<1>1. /\ calls[t] # <<>> /\ Top(t).pc = "constant" /\ Hold(t, "use", made)
      /\ constant' = [constant EXCEPT ![parent] = made]
      /\ UNCHANGED <<declared, state, loader, linked, arrays, results, notified, loads, process>>
  BY DEF AssignConstant, At
<1>2. made \in Constants
  BY <1>1 DEF IInv, SuperGiven, Constants
<1>3. parent # NoClass
  BY <1>1, InCalls DEF Placed
<1> HIDE DEF made
<1>4. StacksPart' /\ calls' \in [Threads -> Seq(Calls)]
  BY <1>1, <1>2, <1>3, HoldLinking DEF results
<1>5. constant' \in [AllClasses -> Constants]
  BY <1>1, <1>2 DEF IInv, TypeOK
<1>6. TypeOK'
  BY <1>1, <1>4, <1>5 DEF IInv, TypeOK, linked, results
<1>7. QED
  BY <1>4, <1>6

LEMMA UseConstantStep ==
  ASSUME IInv, NEW t \in Threads, UseConstant(t)
  PROVE  StacksPart' /\ TypeOK'
<1>1. /\ calls[t] # <<>> /\ Top(t).pc = "use"
      /\ UNCHANGED <<declared, state, loader, constant, arrays, results, notified, loads>>
  BY DEF UseConstant, At
<1>2. Top(t).pc \in LinkingPcs \ {"loader"} /\ Top(t).held.class \in AllClasses \cup {NoClass}
  BY <1>1, InCalls DEF LinkingPcs, Calls, Constants
<1>3. CASE /\ super' = [super EXCEPT ![Top(t).name] = Top(t).held.class]
           /\ Goto(t, "lay out") /\ UNCHANGED <<layout, vtable, slot, built, process>>
  <2>1. StacksPart' /\ calls' \in [Threads -> Seq(Calls)]
    BY <1>1, <1>2, <1>3, GotoLinking DEF results
  <2>2. super' \in [AllClasses -> AllClasses \cup {NoClass}]
    BY <1>2, <1>3 DEF IInv, TypeOK
  <2>3. QED
    BY <1>1, <1>3, <2>1, <2>2 DEF IInv, TypeOK, results
<1>4. CASE process' \in {"constant freed", "linked twice"} /\ UNCHANGED <<calls, linked>>
  BY <1>1, <1>4, SameStacks DEF IInv, TypeOK, linked, results
<1>5. QED
  BY <1>3, <1>4 DEF UseConstant, Rewrites

(* A class is laid out, for the first time, or the process is over. *)
Builds(t) == LayOutClass(t) /\ Build(t)

LEMMA BuildsIs ==
  ASSUME NEW t \in Threads, Builds(t)
  PROVE  LET c == Top(t).name
             names == declared[c].methods
             table == VTable(c, Inherited(c), names)
         IN  /\ calls[t] # <<>> /\ Top(t).pc = "lay out" /\ c \notin built
             /\ layout' = [layout EXCEPT ![c] = LayOut(BaseSize(c), declared[c].fields)]
             /\ vtable' = [vtable EXCEPT ![c] = table]
             /\ slot' = [slot EXCEPT ![c] = Slots(table, names)]
             /\ built' = built \cup {c} /\ Goto(t, "linked")
             /\ UNCHANGED <<declared, state, loader, super, constant, arrays, results, notified,
                            loads, process>>
BY DEF Builds, Build, LayOutClass, At

LEMMA LayOutIs ==
  ASSUME NEW t \in Threads, LayOutClass(t), ~ Builds(t)
  PROVE  /\ calls[t] # <<>> /\ process' = "linked twice"
         /\ UNCHANGED <<declared, state, loader, linked, constant, arrays, calls, results, notified,
                        loads>>
BY DEF Builds, LayOutClass, Rewrites, At

LEMMA LayOutStep ==
  ASSUME IInv, NEW t \in Threads, LayOutClass(t)
  PROVE  StacksPart' /\ TypeOK'
<1>1. CASE Builds(t)
  <2>1. /\ calls[t] # <<>> /\ Top(t).pc = "lay out" /\ Goto(t, "linked")
        /\ built' = built \cup {Top(t).name}
        /\ UNCHANGED <<declared, state, loader, super, constant, arrays, results, notified,
                       loads, process>>
    BY <1>1, BuildsIs
  <2>2. StacksPart' /\ calls' \in [Threads -> Seq(Calls)]
    BY <2>1, GotoLinking DEF LinkingPcs, results
  <2>3. Top(t).name \in AllClasses
    BY <2>1, InCalls DEF Placed, LinkingPcs, AllClasses
  <2>4. QED
    BY <2>1, <2>2, <2>3 DEF IInv, TypeOK, results
<1>2. CASE ~ Builds(t)
  BY <1>2, LayOutIs, SameStacks DEF IInv, TypeOK, linked, results
<1>3. QED
  BY <1>1, <1>2

LEMMA FindArrayStep ==
  ASSUME IInv, NEW t \in Threads, FindArray(t)
  PROVE  StacksPart' /\ TypeOK'
<1> DEFINE array == Top(t).name
<1>1. /\ calls[t] # <<>> /\ Top(t).pc = "find" /\ array \in Arrays
      /\ UNCHANGED <<declared, state, loader, linked, constant, arrays, notified, loads, process>>
  BY DEF FindArray, At
<1>2. CASE Return(t, array)
  BY <1>1, <1>2, LeftQuietly, NotFreed DEF LinkingPcs, IInv, TypeOK, linked
<1>3. CASE Recurse(t, "emplace", BaseOf[array]) /\ UNCHANGED results
  <2>1. BaseOf[array] \in Names
    BY <1>1, ClassesAssumption DEF Names, AllClasses
  <2>2. StacksPart' /\ calls' \in [Threads -> Seq(Calls)]
    BY <1>1, <1>3, <2>1, MadeQuietly DEF results
  <2>3. QED
    BY <1>1, <1>3, <2>2 DEF IInv, TypeOK, linked, results
<1>4. QED
  BY <1>2, <1>3 DEF FindArray

LEMMA EmplaceArrayStep ==
  ASSUME IInv, NEW t \in Threads, EmplaceArray(t)
  PROVE  StacksPart' /\ TypeOK'
<1> DEFINE array == Top(t).name
<1>1. /\ calls[t] # <<>> /\ Top(t).pc = "emplace"
      /\ UNCHANGED <<declared, state, loader, linked, constant, loads>>
  BY DEF EmplaceArray, At
<1>2. array \in Arrays /\ Top(t).pc \notin LinkingPcs
  BY <1>1, InCalls DEF Placed, LinkingPcs
<1>3. CASE /\ \E class \in {array, NoClass, Freed} : Return(t, class)
           /\ UNCHANGED process
  <2>1. /\ StacksPart' /\ calls' \in [Threads -> Seq(Calls)] /\ refused' \subseteq AllClasses
        /\ returned' \in [Threads -> Names \cup {NoClass, Freed}]
    BY <1>1, <1>2, <1>3, LeftQuietly
  <2>2. arrays' \in [Arrays -> Threads \cup {NoThread}]
    BY DEF EmplaceArray, Emplaced, IInv, TypeOK
  <2>3. notified' \in [Threads -> BOOLEAN]
    <3>1. CASE UNCHANGED notified
      BY <3>1 DEF IInv, TypeOK
    <3>2. CASE notified' = [u \in Threads |-> u \in Waiting]
      BY <3>2
    <3>3. QED
      BY <3>1, <3>2 DEF EmplaceArray
  <2>4. QED
    BY <1>1, <1>3, <2>1, <2>2, <2>3 DEF IInv, TypeOK, linked
<1>4. CASE process' = "class freed" /\ UNCHANGED <<calls, results, arrays, notified>>
  BY <1>1, <1>4, SameStacks DEF IInv, TypeOK, linked, results
<1>5. QED
  BY <1>3, <1>4 DEF EmplaceArray, Answers

-------------------------------------------------------------------------------

LEMMA InitStep == Init => IInv
<1> SUFFICES ASSUME Init PROVE IInv
  OBVIOUS
<1>1. \A t \in Threads : calls[t] = <<>>
  BY DEF Init
<1>2. \A t \in Threads : \A c : ~ AtWork(t, c)
  BY <1>1 DEF LinksAt, AtWork, Works
<1>3. TypeOK
  <2>1. \A c \in Classes : declared[c].super \in AllClasses \cup {NoClass}
    BY DEF Init
  <2>2. NoConstant \in Constants
    BY DEF NoConstant, Constants
  <2>3. 0 \in 0 .. MaxLoads
    BY ClassesAssumption
  <2>4. {Object} \subseteq AllClasses
    BY DEF AllClasses
  <2>5. QED
    BY <2>1, <2>2, <2>3, <2>4 DEF Init, TypeOK
<1>4. Stacks
  <2>1. <<>> \in Seq(Calls) /\ 1..Len(<<>>) = {} /\ 1..(Len(<<>>) - 1) = {}
    OBVIOUS
  <2>2. QED
    BY <1>1, <2>1 DEF Stacks, StackOK
<1>5. SuperGiven /\ Asleep /\ Fresh
  BY <1>1 DEF SuperGiven, Asleep, Fresh, AtWork
<1>6. Marked
  BY <1>2 DEF Init, Marked, AtWork
<1>7. Loaders
  BY <1>1 DEF Loaders, AtWork
<1>8. ObjectLinked
  BY DEF Init, ObjectLinked, AllClasses
<1>9. QED
  BY <1>3, <1>4, <1>5, <1>6, <1>7, <1>8 DEF IInv

LEMMA NextStep == IInv /\ [Next]_vars => IInv'
<1> SUFFICES ASSUME IInv, [Next]_vars PROVE StacksPart' /\ TypeOK'
  BY DEF IInv, StacksPart
<1>1. ASSUME NEW t \in Threads, NEW name \in Names, Ask(t, name)
      PROVE  StacksPart' /\ TypeOK'
  BY <1>1, AskStep
<1>2. ASSUME NEW t \in Threads, Step(t) \/ WakeSpuriously(t)
      PROVE  StacksPart' /\ TypeOK'
  BY <1>2, FindDeclaredStep, LeavesWaitStep, CheckStep, MarkStep, LinkCommonStep, SuperStep,
     AssignConstantStep, UseConstantStep, LayOutStep, LinkedStep, FindArrayStep,
     EmplaceArrayStep DEF Step, Awake, WakeSpuriously
<1>3. CASE UNCHANGED vars
  BY <1>3, SameStacks DEF vars, linked, IInv, TypeOK
<1>4. QED
  BY <1>1, <1>2, <1>3, ModuleLoadedStep DEF Next

LEMMA Invariance == Spec => []IInv
BY InitStep, NextStep, PTL DEF Spec

(* The words of the model for what links a class. *)
LEMMA LinksIs ==
  ASSUME IInv, NEW t \in Threads, NEW c
  PROVE  Links(t, c) <=> AtWork(t, c)
<1>1. calls[t] \in Seq(Calls)
  BY DEF IInv, TypeOK
<1>2. \A i : i \in LinkCalls(t, c) <=> i \in Nat /\ LinksAt(calls[t], i, c)
  BY <1>1 DEF LinkCalls, LinksAt
<1>3. QED
  BY <1>2 DEF Links, AtWork, Works

(* However many threads load and link a class, along whatever superclasses: one that *)
(* sleeps until it is linked sleeps for another thread that is at it, whichever of   *)
(* them has said last that it links the class.                                       *)
THEOREM SleepsForAnotherCorrect == Spec => []SleepsForAnother
<1>1. ASSUME IInv, NEW t \in Waiting, state[Top(t).name] = "LINKING"
      PROVE  \E u \in Threads \ {t} : Links(u, Top(t).name)
  <2>1. t \in Threads /\ calls[t] # <<>> /\ Top(t).pc = "wait"
    BY <1>1 DEF Waiting, At
  <2>2. \E u \in Threads \ {t} : AtWork(u, Top(t).name)
    BY <1>1, <2>1 DEF IInv, Asleep, AtWork
  <2>3. QED
    BY <1>1, <2>2, LinksIs
<1>2. IInv => SleepsForAnother
  BY <1>1 DEF SleepsForAnother, AtWork
<1>3. QED
  BY <1>2, Invariance, PTL

-------------------------------------------------------------------------------
(* Induction and recursion on numbers, and the buckets of the fields.      *)

LEMMA LeastNumber ==
  ASSUME NEW S, S \subseteq Nat, S # {}
  PROVE  \E x \in S : \A y \in S : x <= y
<1>1. PICK x \in S : \A y \in S : ~ (<<y, x>> \in OpToRel(<, Nat))
  BY NatLessThanWellFounded, WFMin
<1>2. \A y \in S : ~ (y < x)
  BY <1>1 DEF OpToRel
<1>3. QED
  BY <1>2

(* Induction, with a set for the property. *)
LEMMA Induction ==
  ASSUME NEW n \in Nat, NEW P, 0 \in P, \A m \in 1..n : m - 1 \in P => m \in P
  PROVE  \A m \in 0..n : m \in P
<1> DEFINE Bad == (0..n) \ P
<1>1. ASSUME Bad # {}
      PROVE  FALSE
  <2>1. Bad \subseteq Nat
    OBVIOUS
  <2> HIDE DEF Bad
  <2>2. PICK m \in Bad : \A l \in Bad : m <= l
    BY <1>1, <2>1, LeastNumber
  <2>3. m \in 0..n /\ m \notin P /\ m # 0
    BY DEF Bad
  <2>4. m \in 1..n /\ m - 1 \in 0..n /\ ~ (m <= m - 1)
    BY <2>3
  <2>5. m - 1 \in P
    BY <2>2, <2>4 DEF Bad
  <2>6. QED
    BY <2>3, <2>4, <2>5
<1>2. QED
  BY <1>1

(* A function on 0..n that starts at a and goes on by step. *)
Goes(f, S, a, n, step) ==
  f \in [0..n -> S] /\ f[0] = a /\ \A k \in 1..n : f[k] = step[k][f[k - 1]]

(* Each function of numbers up to n that is defined by steps exists. *)
LEMMA Recursion ==
  ASSUME NEW S, NEW a \in S, NEW n \in Nat, NEW step \in [1..n -> [S -> S]]
  PROVE  \E f : Goes(f, S, a, n, step)
<1> DEFINE Upto(m, f) ==
             f \in [0..m -> S] /\ f[0] = a /\ \A k \in 1..m : f[k] = step[k][f[k - 1]]
           P == {m \in 0..n : \E f : Upto(m, f)}
<1>1. 0 \in P
  <2>1. Upto(0, [k \in 0..0 |-> a])
    OBVIOUS
  <2> HIDE DEF Upto
  <2>2. 0 \in 0..n
    OBVIOUS
  <2>3. QED
    BY <2>1, <2>2
<1>2. ASSUME NEW m \in 1..n, m - 1 \in P
      PROVE  m \in P
  <2>1. PICK f : Upto(m - 1, f)
    BY <1>2
  <2> DEFINE x == step[m][f[m - 1]]
             g == [k \in 0..m |-> IF k = m THEN x ELSE f[k]]
  <2>2. m - 1 \in 0..(m - 1) /\ m \in Nat /\ 0 \in 0..m /\ 0 # m
    OBVIOUS
  <2>3. x \in S
    <3>1. f[m - 1] \in S
      BY <2>1, <2>2
    <3>2. QED
      BY <3>1
  <2> HIDE DEF x
  <2>4. \A k \in 0..m : k = m \/ k \in 0..(m - 1)
    OBVIOUS
  <2>5. g \in [0..m -> S] /\ g[0] = a
    BY <2>1, <2>2, <2>3, <2>4
  <2>6. ASSUME NEW k \in 1..m
        PROVE  g[k] = step[k][g[k - 1]]
    <3>1. k - 1 \in 0..m /\ k - 1 # m /\ k \in 0..m
      OBVIOUS
    <3>2. g[k - 1] = f[k - 1]
      BY <3>1
    <3>3. CASE k = m
      BY <3>1, <3>2, <3>3 DEF x
    <3>4. CASE k # m
      <4>1. k \in 1..(m - 1)
        BY <3>4
      <4>2. f[k] = step[k][f[k - 1]] /\ g[k] = f[k]
        BY <2>1, <3>1, <3>4, <4>1
      <4>3. QED
        BY <3>2, <4>2
    <3>5. QED
      BY <3>3, <3>4
  <2>7. Upto(m, g)
    BY <2>5, <2>6
  <2>8. m \in 0..n
    OBVIOUS
  <2>9. QED
    BY <2>7, <2>8
<1> HIDE DEF P
<1>3. n \in P
  <2>1. \A m \in 0..n : m \in P
    BY <1>1, <1>2, Induction
  <2>2. QED
    BY <2>1
<1>4. QED
  BY <1>3 DEF P, Goes

(* A function that never falls from one number to the next never falls. *)
LEMMA Rising ==
  ASSUME NEW n \in Nat, NEW f \in [0..n -> Int], \A k \in 1..n : f[k - 1] <= f[k],
         NEW j \in 0..n, NEW k \in 0..n, j <= k
  PROVE  f[j] <= f[k]
<1> DEFINE P == {m \in 0..n : j <= m => f[j] <= f[m]}
<1>1. 0 \in P
  <2>1. j <= 0 => j = 0
    OBVIOUS
  <2>2. 0 \in 0..n /\ f[0] \in Int
    OBVIOUS
  <2>3. QED
    BY <2>1, <2>2
<1>2. ASSUME NEW m \in 1..n, m - 1 \in P
      PROVE  m \in P
  <2>1. m \in 0..n /\ m - 1 \in 0..n
    OBVIOUS
  <2>2. j <= m => j = m \/ j <= m - 1
    OBVIOUS
  <2>3. f[m - 1] <= f[m] /\ f[j] \in Int /\ f[m] \in Int /\ f[m - 1] \in Int
    BY <2>1
  <2>4. QED
    BY <1>2, <2>1, <2>2, <2>3
<1> HIDE DEF P
<1>3. \A m \in 0..n : m \in P
  BY <1>1, <1>2, Induction
<1>4. QED
  BY <1>3 DEF P

-------------------------------------------------------------------------------
(* Where a class's own fields are laid out.                                *)

(* Types are what the buckets are for. *)
LEMMA BucketsAre ==
  /\ Len(BucketOrder) = 10 /\ DOMAIN BucketOrder = 1..10
  /\ BucketOrder[1] = "REFERENCE" /\ BucketOrder[2] = "HANDLE" /\ BucketOrder[3] = "DOUBLE"
  /\ BucketOrder[4] = "LONG" /\ BucketOrder[5] = "FLOAT" /\ BucketOrder[6] = "INT"
  /\ BucketOrder[7] = "SHORT" /\ BucketOrder[8] = "BYTE" /\ BucketOrder[9] = "CHAR"
  /\ BucketOrder[10] = "BOOL"
BY DEF BucketOrder

(* The sizes of types. *)
LEMMA Sizes == \A type : TypeSize(type) \in {1, 2, 4, 8}
BY DEF TypeSize

(* A bucket starts where the one before it ends, or at the next multiple of 8. *)
LEMMA Starts ==
  ASSUME NEW offset \in Nat, NEW type
  PROVE  /\ BucketStart(offset, type) \in Nat /\ offset <= BucketStart(offset, type)
         /\ type \in {"REFERENCE", "HANDLE"} => BucketStart(offset, type) % 8 = 0
<1>1. Align(offset, 8) = ((offset + 7) \div 8) * 8
  BY DEF Align
<1>2. /\ ((offset + 7) \div 8) * 8 \in Nat /\ offset <= ((offset + 7) \div 8) * 8
      /\ (((offset + 7) \div 8) * 8) % 8 = 0
  OBVIOUS
<1>3. QED
  BY <1>1, <1>2 DEF BucketStart

(* The fields of a type among the first ones, and among all. *)
LEMMA Counts ==
  ASSUME NEW S, NEW q \in Seq(S), NEW x
  PROVE  /\ Count(q, x) \in Nat
         /\ \A i \in DOMAIN q :
              /\ Count(SubSeq(q, 1, i - 1), x) \in Nat
              /\ q[i] = x => Count(SubSeq(q, 1, i - 1), x) + 1 <= Count(q, x)
              /\ \A j \in DOMAIN q : q[i] = x /\ i < j =>
                   Count(SubSeq(q, 1, i - 1), x) + 1 <= Count(SubSeq(q, 1, j - 1), x)
<1> DEFINE First(m) == {k \in 1..m : q[k] = x}
<1>1. ASSUME NEW m \in 0..Len(q)
      PROVE  /\ IsFiniteSet(First(m)) /\ Cardinality(First(m)) \in Nat
             /\ Count(SubSeq(q, 1, m), x) = Cardinality(First(m))
  <2>1. IsFiniteSet(1..m) /\ First(m) \subseteq 1..m
    BY FS_Interval
  <2>2. IsFiniteSet(First(m)) /\ Cardinality(First(m)) \in Nat
    BY <2>1, FS_Subset, FS_CardinalityType
  <2>3. /\ SubSeq(q, 1, m) \in Seq(S) /\ Len(SubSeq(q, 1, m)) = m
        /\ \A k \in 1..m : SubSeq(q, 1, m)[k] = q[k]
    <3>1. \A k \in 1..m : q[k] \in S
      OBVIOUS
    <3>2. /\ SubSeq(q, 1, m) \in Seq(S)
          /\ Len(SubSeq(q, 1, m)) = IF 1 <= m THEN m - 1 + 1 ELSE 0
          /\ \A k \in 1..(m - 1 + 1) : SubSeq(q, 1, m)[k] = q[1 + k - 1]
      BY <3>1, 1 \in Int, m \in Int, SubSeqProperties
    <3>3. QED
      BY <3>2
  <2>4. DOMAIN SubSeq(q, 1, m) = 1..m
    BY <2>3
  <2>5. {k \in DOMAIN SubSeq(q, 1, m) : SubSeq(q, 1, m)[k] = x} = First(m)
    BY <2>3, <2>4
  <2>6. QED
    BY <2>2, <2>5 DEF Count
<1>2. Count(q, x) = Cardinality(First(Len(q))) /\ Len(q) \in 0..Len(q)
  <2>1. DOMAIN q = 1..Len(q) /\ Len(q) \in Nat
    OBVIOUS
  <2>2. QED
    BY <2>1 DEF Count
<1>3. ASSUME NEW i \in DOMAIN q, q[i] = x, NEW m \in 0..Len(q), i <= m
      PROVE  Cardinality(First(i - 1)) + 1 <= Cardinality(First(m))
  <2>1. i - 1 \in 0..Len(q) /\ i \notin First(i - 1)
    BY <1>3
  <2>2. First(i - 1) \cup {i} \in SUBSET First(m)
    BY <1>3
  <2>3. IsFiniteSet(First(m)) /\ Cardinality(First(m)) \in Nat
    BY <1>1
  <2>4. IsFiniteSet(First(i - 1))
    BY <1>1, <2>1
  <2> HIDE DEF First
  <2>5. Cardinality(First(i - 1) \cup {i}) = Cardinality(First(i - 1)) + 1
    BY <2>1, <2>4, FS_AddElement
  <2>6. Cardinality(First(i - 1) \cup {i}) <= Cardinality(First(m))
    BY <2>2, <2>3, FS_Subset
  <2>7. QED
    BY <2>5, <2>6
<1> HIDE DEF First
<1>4. \A i \in DOMAIN q : i - 1 \in 0..Len(q) /\ i <= Len(q)
  OBVIOUS
<1>5. \A i, j \in DOMAIN q : i < j => i <= j - 1
  OBVIOUS
<1>6. QED
  BY <1>1, <1>2, <1>3, <1>4, <1>5

(* Where each bucket starts and ends. *)
Starting(base, types, k) == BucketStart(BucketEnd(base, types)[k - 1], BucketOrder[k])

Taken(types, k) == Count(types, BucketOrder[k]) * TypeSize(BucketOrder[k])

(* The ends of the buckets, one after the other. *)
LEMMA Ends ==
  ASSUME NEW base \in Nat, NEW types \in Seq(Types)
  PROVE  LET end == BucketEnd(base, types)
         IN  /\ end \in [0..10 -> Nat] /\ end[0] = base
             /\ \A k \in 1..10 : end[k] = Starting(base, types, k) + Taken(types, k)
<1> DEFINE Is(f) == f = [k \in 0 .. Len(BucketOrder) |->
                           IF k = 0 THEN base
                           ELSE BucketStart(f[k - 1], BucketOrder[k])
                                  + Count(types, BucketOrder[k]) * TypeSize(BucketOrder[k])]
           step == [k \in 1..10 |->
                      [offset \in Nat |-> BucketStart(offset, BucketOrder[k]) + Taken(types, k)]]
<1>1. \A k : Taken(types, k) \in Nat
  BY Counts, Sizes DEF Taken
<1>2. step \in [1..10 -> [Nat -> Nat]]
  BY <1>1, Starts
<1> HIDE DEF step
<1>3. PICK f : /\ f \in [0..10 -> Nat] /\ f[0] = base
               /\ \A k \in 1..10 : f[k] = step[k][f[k - 1]]
  <2>1. \E f : Goes(f, Nat, base, 10, step)
    BY <1>2, Recursion
  <2>2. QED
    BY <2>1 DEF Goes
<1>4. ASSUME NEW k \in 1..10
      PROVE  f[k] = BucketStart(f[k - 1], BucketOrder[k]) + Taken(types, k)
  <2>1. k - 1 \in 0..10
    OBVIOUS
  <2>2. f[k - 1] \in Nat
    BY <2>1, <1>3
  <2>3. QED
    BY <1>3, <2>2 DEF step
<1>5. Is(f)
  <2> DEFINE g == [k \in 0 .. Len(BucketOrder) |->
                     IF k = 0 THEN base
                     ELSE BucketStart(f[k - 1], BucketOrder[k])
                            + Count(types, BucketOrder[k]) * TypeSize(BucketOrder[k])]
  <2>1. \A k \in 0..10 : k = 0 \/ k \in 1..10
    OBVIOUS
  <2>2. \A k \in 0..10 : f[k] = g[k]
    BY <1>3, <1>4, <2>1, BucketsAre DEF Taken
  <2>3. g = [k \in 0..10 |-> g[k]] /\ f = [k \in 0..10 |-> f[k]]
    BY <1>3, BucketsAre
  <2> HIDE DEF g
  <2>4. f = g
    BY <2>2, <2>3
  <2>5. QED
    BY <2>4 DEF g
<1>6. Is(BucketEnd(base, types))
  <2>1. BucketEnd(base, types) = CHOOSE e : Is(e)
    BY DEF BucketEnd
  <2> HIDE DEF Is
  <2>2. QED
    BY <1>5, <2>1
<1>7. ASSUME NEW e, Is(e), NEW m \in 0..10
      PROVE  e[m] = IF m = 0 THEN base
                    ELSE BucketStart(e[m - 1], BucketOrder[m]) + Taken(types, m)
  BY <1>7, BucketsAre DEF Taken
<1> DEFINE E == BucketEnd(base, types)
<1> HIDE DEF E, Is
<1>8. ASSUME NEW m \in 0..10
      PROVE  E[m] = f[m]
  <2> DEFINE P == {l \in 0..10 : E[l] = f[l]}
  <2>1. 0 \in P
    BY <1>3, <1>6, <1>7 DEF E
  <2>2. ASSUME NEW l \in 1..10, l - 1 \in P
        PROVE  l \in P
    <3>1. l \in 0..10 /\ l # 0
      OBVIOUS
    <3>2. E[l] = BucketStart(E[l - 1], BucketOrder[l]) + Taken(types, l)
      BY <1>6, <1>7, <3>1 DEF E
    <3>3. QED
      BY <1>4, <2>2, <3>1, <3>2
  <2> HIDE DEF P
  <2>3. m \in P
    BY <2>1, <2>2, 10 \in Nat, Induction
  <2>4. QED
    BY <2>3 DEF P
<1>9. E = [k \in 0..10 |-> E[k]]
  <2>1. ASSUME NEW e, Is(e) PROVE e = [k \in 0..10 |-> e[k]]
    BY <2>1, BucketsAre DEF Is
  <2>2. QED
    BY <1>6, <2>1 DEF E
<1>10. E \in [0..10 -> Nat]
  BY <1>3, <1>8, <1>9
<1>11. E[0] = base /\ \A k \in 1..10 : E[k] = BucketStart(E[k - 1], BucketOrder[k]) + Taken(types, k)
  <2>1. \A k \in 1..10 : k \in 0..10 /\ k # 0
    OBVIOUS
  <2>2. QED
    BY <1>6, <1>7, <2>1 DEF E
<1>12. QED
  BY <1>10, <1>11 DEF E, Starting

(* The buckets follow each other, each from an offset its type may be read at. *)
LEMMA BucketsFollow ==
  ASSUME NEW base \in Nat, NEW types \in Seq(Types), NEW k \in 1..10
  PROVE  LET end == BucketEnd(base, types)
             start == Starting(base, types, k)
         IN  /\ start \in Nat /\ end[k - 1] <= start /\ start <= end[k]
             /\ start % TypeSize(BucketOrder[k]) = 0
<1> DEFINE end == BucketEnd(base, types)
           start(j) == Starting(base, types, j)
           count(j) == Count(types, BucketOrder[j])
<1>1. /\ end \in [0..10 -> Nat]
      /\ \A j \in 1..10 : end[j] = start(j) + Taken(types, j)
  BY Ends
<1>2. \A j \in 1..10 : j - 1 \in 0..10 /\ j \in 0..10
  OBVIOUS
<1>3. ASSUME NEW j \in 1..10
      PROVE  /\ end[j - 1] \in Nat /\ end[j] \in Nat
             /\ start(j) \in Nat /\ end[j - 1] <= start(j)
             /\ BucketOrder[j] \in {"REFERENCE", "HANDLE"} => start(j) % 8 = 0
             /\ BucketOrder[j] \notin {"REFERENCE", "HANDLE"} => start(j) = end[j - 1]
             /\ count(j) \in Nat
             /\ end[j] = start(j) + count(j) * TypeSize(BucketOrder[j])
  <2>1. end[j - 1] \in Nat /\ end[j] \in Nat
    BY <1>1, <1>2
  <2>2. /\ start(j) \in Nat /\ end[j - 1] <= start(j)
        /\ BucketOrder[j] \in {"REFERENCE", "HANDLE"} => start(j) % 8 = 0
    BY <2>1, Starts DEF Starting
  <2>3. BucketOrder[j] \notin {"REFERENCE", "HANDLE"} => start(j) = end[j - 1]
    BY DEF Starting, BucketStart
  <2>4. count(j) \in Nat
    BY Counts
  <2>5. QED
    BY <1>1, <2>1, <2>2, <2>3, <2>4 DEF Taken
<1> HIDE DEF end, start, count
<1>4. start(k) <= end[k]
  <2>1. \A n \in Nat : n * 8 \in Nat /\ n * 4 \in Nat /\ n * 2 \in Nat /\ n * 1 \in Nat
    OBVIOUS
  <2>2. count(k) * TypeSize(BucketOrder[k]) \in Nat
    BY <1>3, <2>1, Sizes
  <2> DEFINE taken == count(k) * TypeSize(BucketOrder[k])
  <2>3. end[k] = start(k) + taken /\ taken \in Nat /\ start(k) \in Nat
    BY <1>3, <2>2
  <2> HIDE DEF taken
  <2>4. QED
    BY <2>3
<1>5. /\ TypeSize("REFERENCE") = 8 /\ TypeSize("HANDLE") = 8 /\ TypeSize("DOUBLE") = 8
      /\ TypeSize("LONG") = 8 /\ TypeSize("FLOAT") = 4 /\ TypeSize("INT") = 4
      /\ TypeSize("SHORT") = 2 /\ TypeSize("BYTE") = 1 /\ TypeSize("CHAR") = 1
      /\ TypeSize("BOOL") = 1
  BY DEF TypeSize
<1>6. start(1) % 8 = 0 /\ start(2) % 8 = 0
  BY <1>3, BucketsAre
<1>7. end[2] % 8 = 0
  <2>1. end[2] = start(2) + count(2) * 8 /\ count(2) \in Nat /\ start(2) \in Nat
    BY <1>3, <1>5, BucketsAre
  <2>2. QED
    BY <1>6, <2>1
<1>8. start(3) = end[2] /\ end[3] = start(3) + count(3) * 8 /\ count(3) \in Nat /\ end[2] \in Nat
  <2>1. 3 \in 1..10 /\ 3 - 1 = 2
    OBVIOUS
  <2>2. QED
    BY <1>3, <1>5, <2>1, BucketsAre
<1>9. start(4) = end[3] /\ end[4] = start(4) + count(4) * 8 /\ count(4) \in Nat
  <2>1. 4 \in 1..10 /\ 4 - 1 = 3
    OBVIOUS
  <2>2. QED
    BY <1>3, <1>5, <2>1, BucketsAre
<1>10. start(5) = end[4] /\ end[5] = start(5) + count(5) * 4 /\ count(5) \in Nat
  <2>1. 5 \in 1..10 /\ 5 - 1 = 4
    OBVIOUS
  <2>2. QED
    BY <1>3, <1>5, <2>1, BucketsAre
<1>11. start(6) = end[5] /\ end[6] = start(6) + count(6) * 4 /\ count(6) \in Nat
  <2>1. 6 \in 1..10 /\ 6 - 1 = 5
    OBVIOUS
  <2>2. QED
    BY <1>3, <1>5, <2>1, BucketsAre
<1>12. start(7) = end[6] /\ start(8) \in Nat /\ start(9) \in Nat /\ start(10) \in Nat
  <2>1. 7 \in 1..10 /\ 7 - 1 = 6 /\ 8 \in 1..10 /\ 9 \in 1..10 /\ 10 \in 1..10
    OBVIOUS
  <2>2. QED
    BY <1>3, <1>5, <2>1, BucketsAre
<1>13. start(3) % 8 = 0 /\ start(4) % 8 = 0 /\ end[4] % 8 = 0 /\ end[4] \in Nat
  BY <1>7, <1>8, <1>9
<1>14. start(5) % 4 = 0 /\ start(6) % 4 = 0 /\ start(7) % 2 = 0
  <2>1. \A m, n, o \in Nat : m % 8 = 0 => /\ m % 4 = 0 /\ (m + n * 4) % 4 = 0
                                          /\ (m + n * 4 + o * 4) % 2 = 0
    OBVIOUS
  <2> DEFINE m == end[4]
             n == count(5)
             o == count(6)
  <2>2. /\ m \in Nat /\ n \in Nat /\ o \in Nat /\ m % 8 = 0
        /\ start(5) = m /\ start(6) = m + n * 4 /\ start(7) = m + n * 4 + o * 4
    BY <1>10, <1>11, <1>12, <1>13
  <2> HIDE DEF m, n, o
  <2>3. QED
    BY <2>1, <2>2
<1>15. start(k) % TypeSize(BucketOrder[k]) = 0
  <2>1. k \in {1, 2, 3, 4, 5, 6, 7, 8, 9, 10}
    OBVIOUS
  <2>2. start(8) % 1 = 0 /\ start(9) % 1 = 0 /\ start(10) % 1 = 0
    BY <1>12
  <2>3. QED
    BY <1>5, <1>6, <1>13, <1>14, <2>1, <2>2, BucketsAre
<1>16. QED
  BY <1>3, <1>4, <1>15 DEF end, start

(* A field is in the bucket of its type, after those declared before it. *)
LEMMA FieldIn ==
  ASSUME NEW base \in Nat, NEW types \in Seq(Types), NEW i \in DOMAIN types
  PROVE  \E k \in 1..10 :
           /\ BucketOrder[k] = types[i]
           /\ FieldOffset(base, types, i) =
                Starting(base, types, k)
                  + Count(SubSeq(types, 1, i - 1), types[i]) * TypeSize(types[i])
<1> DEFINE bucket == CHOOSE k \in DOMAIN BucketOrder : BucketOrder[k] = types[i]
<1>1. types[i] \in Types
  OBVIOUS
<1>2. \E k \in DOMAIN BucketOrder : BucketOrder[k] = types[i]
  BY <1>1 DEF Types, ToSet
<1>3. bucket \in DOMAIN BucketOrder /\ BucketOrder[bucket] = types[i]
  BY <1>2
<1>4. FieldOffset(base, types, i) =
        BucketStart(BucketEnd(base, types)[bucket - 1], types[i])
          + Count(SubSeq(types, 1, i - 1), types[i]) * TypeSize(types[i])
  BY DEF FieldOffset
<1> HIDE DEF bucket
<1>5. QED
  BY <1>3, <1>4, BucketsAre DEF Starting

(* Two fields of one class, and the fields of the superclass below base, do not *)
(* share a byte, and each is where its type may be read.                        *)
LEMMA OwnFields ==
  ASSUME NEW base \in Nat, NEW types \in Seq(Types)
  PROVE  LET made == LayOut(base, types)
             size(i) == TypeSize(types[i])
         IN  /\ made.size \in Nat /\ base <= made.size
             /\ made.at \in [DOMAIN types -> Nat]
             /\ \A i \in DOMAIN types :
                  /\ base <= made.at[i] /\ made.at[i] % size(i) = 0
                  /\ made.at[i] + size(i) <= made.size
                  /\ \A j \in DOMAIN types \ {i} :
                       \/ made.at[i] + size(i) <= made.at[j]
                       \/ made.at[j] + size(j) <= made.at[i]
<1> DEFINE made == LayOut(base, types)
           end == BucketEnd(base, types)
           start(k) == Starting(base, types, k)
           size(i) == TypeSize(types[i])
           before(i) == Count(SubSeq(types, 1, i - 1), types[i])
           all(i) == Count(types, types[i])
<1>1. /\ made.size = end[10] /\ made.at = [i \in DOMAIN types |-> FieldOffset(base, types, i)]
  BY BucketsAre DEF LayOut
<1>2. /\ end \in [0..10 -> Nat] /\ end[0] = base
      /\ \A k \in 1..10 : end[k] = start(k) + Taken(types, k)
  BY Ends
<1>3. \A k \in 1..10 : /\ start(k) \in Nat /\ end[k - 1] <= start(k) /\ start(k) <= end[k]
                       /\ start(k) % TypeSize(BucketOrder[k]) = 0
  BY BucketsFollow
<1>4. \A i \in DOMAIN types :
        \E k \in 1..10 : /\ BucketOrder[k] = types[i]
                         /\ FieldOffset(base, types, i) = start(k) + before(i) * size(i)
  BY FieldIn
<1>5. \A i \in DOMAIN types :
        /\ before(i) \in Nat /\ all(i) \in Nat /\ before(i) + 1 <= all(i)
        /\ \A j \in DOMAIN types : types[i] = types[j] /\ i < j => before(i) + 1 <= before(j)
  BY Counts
<1>6. \A k \in 1..10 : \A i \in DOMAIN types :
        BucketOrder[k] = types[i] => end[k] = start(k) + all(i) * size(i)
  BY <1>2 DEF Taken
<1>7. \A i : size(i) \in {1, 2, 4, 8}
  BY Sizes
<1>8. \A i, j : types[i] = types[j] => size(i) = size(j)
  OBVIOUS
<1>9. \A j, k \in 0..10 : j <= k => end[j] <= end[k]
  <2>1. \A k \in 1..10 : end[k - 1] <= end[k]
    <3> HIDE DEF end, start
    <3>1. \A k \in 1..10 : k - 1 \in 0..10 /\ k \in 0..10
      OBVIOUS
    <3>2. \A k \in 1..10 : end[k - 1] \in Nat /\ end[k] \in Nat
      BY <1>2, <3>1
    <3>3. \A k \in 1..10 : start(k) \in Nat /\ end[k - 1] <= start(k) /\ start(k) <= end[k]
      BY <1>3 DEF start, end
    <3>4. ASSUME NEW k \in 1..10
          PROVE  end[k - 1] <= end[k]
      <4> DEFINE x == end[k - 1]
                 y == end[k]
                 z == start(k)
      <4>1. x \in Nat /\ y \in Nat /\ z \in Nat /\ x <= z /\ z <= y
        BY <3>2, <3>3
      <4> HIDE DEF x, y, z
      <4>2. x <= y
        BY <4>1
      <4>3. QED
        BY <4>2 DEF x, y
    <3>5. QED
      BY <3>4
  <2> HIDE DEF end, start
  <2>2. end \in [0..10 -> Int]
    BY <1>2
  <2>3. QED
    BY <2>1, <2>2, 10 \in Nat, Rising
<1> HIDE DEF end, start, size, before, all
<1>19. \A i : size(i) \in Nat
  BY <1>7
<1>10. \A m, n \in Nat : m + 1 <= n => /\ m * 8 + 8 <= n * 8 /\ m * 4 + 4 <= n * 4
                                       /\ m * 2 + 2 <= n * 2 /\ m * 1 + 1 <= n * 1
  OBVIOUS
<1>11. \A m, n \in Nat, s \in {1, 2, 4, 8} :
         m * s \in Nat /\ n * s \in Nat /\ (m + 1 <= n => m * s + s <= n * s)
  BY <1>10
<1>12. \A m, n \in Nat, s \in {1, 2, 4, 8} : m % s = 0 => (m + n * s) % s = 0
  <2>1. \A m, n \in Nat : /\ m % 8 = 0 => (m + n * 8) % 8 = 0
                          /\ m % 4 = 0 => (m + n * 4) % 4 = 0
                          /\ m % 2 = 0 => (m + n * 2) % 2 = 0
                          /\ (m + n * 1) % 1 = 0
    OBVIOUS
  <2>2. QED
    BY <2>1
<1> DEFINE Within(i, k) ==
             /\ BucketOrder[k] = types[i] /\ made.at[i] \in Nat
             /\ made.at[i] = start(k) + before(i) * size(i)
             /\ end[k - 1] <= start(k) /\ start(k) <= made.at[i]
             /\ made.at[i] + size(i) <= end[k] /\ made.at[i] % size(i) = 0
<1>13. ASSUME NEW i \in DOMAIN types
       PROVE  \E k \in 1..10 : Within(i, k)
  <2>1. PICK k \in 1..10 : /\ BucketOrder[k] = types[i]
                           /\ FieldOffset(base, types, i) = start(k) + before(i) * size(i)
    BY <1>4
  <2>2. made.at[i] = start(k) + before(i) * size(i)
    BY <1>1, <2>1
  <2>3. /\ start(k) \in Nat /\ end[k - 1] <= start(k) /\ start(k) <= end[k]
        /\ start(k) % size(i) = 0
    BY <1>3, <2>1 DEF size
  <2>4. end[k] = start(k) + all(i) * size(i)
    BY <1>6, <2>1
  <2>5. /\ before(i) \in Nat /\ all(i) \in Nat /\ before(i) + 1 <= all(i)
        /\ size(i) \in {1, 2, 4, 8}
    BY <1>5, <1>7
  <2>6. /\ before(i) * size(i) \in Nat /\ all(i) * size(i) \in Nat
        /\ before(i) * size(i) + size(i) <= all(i) * size(i)
    BY <1>11, <2>5
  <2>7. made.at[i] % size(i) = 0
    BY <1>12, <2>2, <2>3, <2>5
  <2>8. made.at[i] \in Nat /\ start(k) <= made.at[i] /\ made.at[i] + size(i) <= end[k]
    <3> DEFINE x == before(i) * size(i)
               y == all(i) * size(i)
    <3>1. /\ made.at[i] = start(k) + x /\ end[k] = start(k) + y
          /\ x \in Nat /\ y \in Nat /\ x + size(i) <= y /\ start(k) \in Nat
      BY <2>2, <2>3, <2>4, <2>6
    <3> HIDE DEF x, y
    <3>2. size(i) \in Nat
      BY <2>5
    <3>3. QED
      BY <3>1, <3>2
  <2>9. QED
    BY <2>1, <2>2, <2>3, <2>7, <2>8
<1>14. ASSUME NEW i \in DOMAIN types, NEW j \in DOMAIN types, i # j,
              NEW k \in 1..10, Within(i, k), NEW l \in 1..10, Within(j, l), k <= l
       PROVE  \/ made.at[i] + size(i) <= made.at[j]
              \/ made.at[j] + size(j) <= made.at[i]
  <2>1. CASE k # l
    <3>1. k \in 0..10 /\ l - 1 \in 0..10 /\ k <= l - 1
      BY <1>14, <2>1
    <3>2. end[k] <= end[l - 1] /\ end[k] \in Nat /\ end[l - 1] \in Nat
      BY <1>2, <1>9, <3>1
    <3> DEFINE p == made.at[i]
               q == made.at[j]
               z == size(i)
               x == end[k]
               y == end[l - 1]
               o == start(l)
    <3>3. p \in Nat /\ q \in Nat /\ z \in Nat /\ x \in Nat /\ y \in Nat /\ o \in Nat
      BY <1>3, <1>14, <1>19, <3>2
    <3>4. p + z <= x /\ x <= y /\ y <= o /\ o <= q
      BY <1>14, <3>2
    <3> HIDE DEF p, q, z, x, y, o
    <3>5. p + z <= q
      BY <3>3, <3>4
    <3>6. QED
      BY <3>5 DEF p, q, z
  <2>2. ASSUME k = l, NEW m \in DOMAIN types, NEW n \in DOMAIN types, m < n, Within(m, k), Within(n, k)
        PROVE  made.at[m] + size(m) <= made.at[n]
    <3>1. types[m] = types[n] /\ size(m) = size(n)
      BY <1>8, <2>2 DEF size
    <3>2. /\ before(m) \in Nat /\ before(n) \in Nat /\ before(m) + 1 <= before(n)
          /\ size(m) \in {1, 2, 4, 8}
      BY <1>5, <1>7, <2>2, <3>1
    <3> DEFINE x == before(m) * size(m)
               y == before(n) * size(m)
    <3>3. x \in Nat /\ y \in Nat /\ x + size(m) <= y
      BY <1>11, <3>2
    <3>4. made.at[m] = start(k) + x /\ made.at[n] = start(k) + y /\ start(k) \in Nat
      BY <1>3, <2>2, <3>1
    <3> HIDE DEF x, y
    <3>5. size(m) \in Nat
      BY <3>2
    <3>6. QED
      BY <3>3, <3>4, <3>5
  <2>3. CASE k = l
    <3>1. i \in Nat /\ j \in Nat
      OBVIOUS
    <3>2. i < j \/ j < i
      BY <1>14, <3>1
    <3> HIDE DEF Within
    <3>3. QED
      BY <1>14, <2>2, <2>3, <3>2
  <2>4. QED
    BY <2>1, <2>3
<1>15. made.size \in Nat /\ base <= made.size /\ made.at \in [DOMAIN types -> Nat]
  <2>1. base <= end[10] /\ end[10] \in Nat
    BY <1>2, <1>9
  <2>2. \A i \in DOMAIN types : made.at[i] \in Nat
    BY <1>13
  <2>3. \A i \in DOMAIN types : FieldOffset(base, types, i) \in Nat
    BY <1>1, <2>2
  <2>4. QED
    BY <1>1, <2>1, <2>3
<1>16. ASSUME NEW i \in DOMAIN types
       PROVE  /\ base <= made.at[i] /\ made.at[i] % size(i) = 0
              /\ made.at[i] + size(i) <= made.size
  <2>1. PICK k \in 1..10 : Within(i, k)
    BY <1>13
  <2>2. /\ k - 1 \in 0..10 /\ k \in 0..10 /\ 0 \in 0..10 /\ 10 \in 0..10
        /\ 0 <= k - 1 /\ k <= 10
    OBVIOUS
  <2>3. base <= end[k - 1] /\ end[k] <= made.size
    BY <1>1, <1>2, <1>9, <2>2
  <2>4. end[k - 1] \in Nat /\ end[k] \in Nat /\ start(k) \in Nat /\ size(i) \in Nat
    BY <1>2, <1>3, <1>19, <2>2
  <2>5. QED
    BY <1>15, <2>1, <2>3, <2>4
<1>17. ASSUME NEW i \in DOMAIN types, NEW j \in DOMAIN types \ {i}
       PROVE  \/ made.at[i] + size(i) <= made.at[j]
              \/ made.at[j] + size(j) <= made.at[i]
  <2>1. PICK k \in 1..10 : Within(i, k)
    BY <1>13
  <2>2. PICK l \in 1..10 : Within(j, l)
    BY <1>13
  <2>3. k <= l \/ l <= k
    OBVIOUS
  <2> HIDE DEF Within, made
  <2>4. QED
    BY <1>14, <2>1, <2>2, <2>3
<1>18. QED
  BY <1>15, <1>16, <1>17 DEF size, made

-------------------------------------------------------------------------------
(* The table of virtual methods.                                           *)

Methods == AllClasses \X MethodNames

(* A table holds a name once. *)
Single(table) ==
  \A p, q \in DOMAIN table : table[p][2] = table[q][2] => p = q

Tables == {table \in Seq(Methods) : Single(table)}

(* What std::find_if finds in a table. *)
LEMMA Found ==
  ASSUME NEW table \in Seq(Methods), NEW name
  PROVE  LET p == Position(table, name)
         IN  /\ p \in 0..Len(table)
             /\ p # 0 => p \in DOMAIN table /\ table[p][2] = name
             /\ p = 0 => \A i \in DOMAIN table : table[i][2] # name
<1> DEFINE I == {i \in 1..Len(table) : table[i][2] = name}
<1>1. Position(table, name) = IF I # {} THEN Min(I) ELSE 0
  BY DEF Position, SelectInSeq
<1>2. I \subseteq Nat /\ I \subseteq 1..Len(table) /\ DOMAIN table = 1..Len(table)
  OBVIOUS
<1>3. \A i \in DOMAIN table : table[i][2] = name => i \in I
  BY <1>2
<1>4. \A i \in I : table[i][2] = name /\ i # 0
  OBVIOUS
<1> HIDE DEF I
<1>5. I # {} => Min(I) \in I
  <2>1. I # {} => \E x \in I : \A y \in I : x <= y
    BY <1>2, LeastNumber
  <2>2. QED
    BY <2>1 DEF Min
<1>6. CASE I = {}
  <2>1. Position(table, name) = 0 /\ 0 \in 0..Len(table)
    BY <1>1, <1>6
  <2>2. QED
    BY <1>3, <1>6, <2>1
<1>7. CASE I # {}
  <2>1. Position(table, name) \in I
    BY <1>1, <1>5, <1>7
  <2>2. \A i \in I : i \in 0..Len(table) /\ i \in DOMAIN table
    BY <1>2
  <2>3. QED
    BY <1>4, <2>1, <2>2
<1>8. QED
  BY <1>6, <1>7

(* The new table has the method, in the place of the one of its name. *)
TakesOver(table, new, class, name) ==
  /\ new \in Tables /\ Len(table) <= Len(new)
  /\ \A p \in DOMAIN table :
       new[p] = IF table[p][2] = name THEN <<class, name>> ELSE table[p]
  /\ \E p \in DOMAIN new : new[p] = <<class, name>>

(* A method takes over the entry of its name in a table, or opens a new one. *)
LEMMA Installed ==
  ASSUME NEW table \in Tables, NEW class \in AllClasses, NEW name \in MethodNames
  PROVE  TakesOver(table, Install(table, <<class, name>>), class, name)
<1> DEFINE m == <<class, name>>
           new == Install(table, m)
           old == Position(table, name)
<1>1. m \in Methods /\ m[2] = name /\ table \in Seq(Methods) /\ Single(table)
  BY DEF Methods, Tables
<1>2. new = IF old = 0 THEN Append(table, m) ELSE [table EXCEPT ![old] = m]
  BY <1>1 DEF Install
<1>3. /\ old \in 0..Len(table)
      /\ old # 0 => old \in DOMAIN table /\ table[old][2] = name
      /\ old = 0 => \A i \in DOMAIN table : table[i][2] # name
  BY <1>1, Found
<1> HIDE DEF old, m, new
<1>4. CASE old = 0
  <2>1. new = Append(table, m)
    BY <1>2, <1>4
  <2>2. /\ new \in Seq(Methods) /\ Len(new) = Len(table) + 1 /\ new[Len(table) + 1] = m
        /\ \A p \in DOMAIN table : new[p] = table[p]
        /\ \A p \in DOMAIN new : p \in DOMAIN table \/ p = Len(table) + 1
        /\ Len(table) + 1 \in DOMAIN new
    BY <1>1, <2>1
  <2>3. Single(new)
    BY <1>1, <1>3, <1>4, <2>2 DEF Single
  <2>4. new \in Tables /\ Len(table) <= Len(new)
    BY <1>1, <2>2, <2>3 DEF Tables
  <2>5. \A p \in DOMAIN table : new[p] = IF table[p][2] = name THEN m ELSE table[p]
    BY <1>3, <1>4, <2>2
  <2>6. \E p \in DOMAIN new : new[p] = m
    BY <2>2
  <2>7. QED
    BY <2>4, <2>5, <2>6 DEF m, new, TakesOver
<1>5. CASE old # 0
  <2>1. new = [table EXCEPT ![old] = m]
    BY <1>2, <1>5
  <2>2. old \in DOMAIN table /\ table[old][2] = name
    BY <1>3, <1>5
  <2>3. /\ new \in Seq(Methods) /\ Len(new) = Len(table) /\ DOMAIN new = DOMAIN table
        /\ \A p \in DOMAIN table : new[p] = IF p = old THEN m ELSE table[p]
    BY <1>1, <2>1, <2>2
  <2>4. Single(new)
    BY <1>1, <2>2, <2>3 DEF Single
  <2>5. \A p \in DOMAIN table : table[p][2] = name <=> p = old
    BY <1>1, <2>2 DEF Single
  <2>6. new \in Tables /\ Len(table) <= Len(new)
    BY <1>1, <2>3, <2>4 DEF Tables
  <2>7. \A p \in DOMAIN table : new[p] = IF table[p][2] = name THEN m ELSE table[p]
    BY <2>3, <2>5
  <2>8. \E p \in DOMAIN new : new[p] = m
    BY <2>2, <2>3
  <2>9. QED
    BY <2>6, <2>7, <2>8 DEF m, new, TakesOver
<1>6. QED
  BY <1>4, <1>5

(* The table of a class keeps the places of its superclass's: a method of the class *)
(* has the place of the one it overrides, the others stay as they are.              *)
LEMMA TableBuilt ==
  ASSUME NEW inherited \in Tables, NEW names \in Seq(MethodNames), NEW class \in AllClasses
  PROVE  LET table == VTable(class, inherited, names)
         IN  /\ table \in Tables /\ Len(inherited) <= Len(table)
             /\ \A p \in DOMAIN inherited :
                  table[p] = IF inherited[p][2] \in ToSet(names)
                             THEN <<class, inherited[p][2]>> ELSE inherited[p]
             /\ \A name \in ToSet(names) : \E p \in DOMAIN table : table[p] = <<class, name>>
<1> DEFINE n == Len(names)
           Is(f) == f = [k \in 0..Len(names) |->
                           IF k = 0 THEN inherited
                           ELSE Install(f[k - 1], <<class, names[k]>>)]
           step == [k \in 1..n |-> [table \in Tables |-> Install(table, <<class, names[k]>>)]]
<1>1. n \in Nat /\ \A k \in 1..n : names[k] \in MethodNames
  OBVIOUS
<1>2. step \in [1..n -> [Tables -> Tables]]
  <2>1. \A k \in 1..n : \A table \in Tables : Install(table, <<class, names[k]>>) \in Tables
    BY <1>1, Installed DEF TakesOver
  <2>2. QED
    BY <2>1
<1> HIDE DEF step
<1>3. PICK f : /\ f \in [0..n -> Tables] /\ f[0] = inherited
               /\ \A k \in 1..n : f[k] = step[k][f[k - 1]]
  <2>1. \E f : Goes(f, Tables, inherited, n, step)
    BY <1>1, <1>2, Recursion
  <2>2. QED
    BY <2>1 DEF Goes
<1>4. Is(f)
  <2> DEFINE g == [k \in 0..Len(names) |->
                     IF k = 0 THEN inherited
                     ELSE Install(f[k - 1], <<class, names[k]>>)]
  <2>1. ASSUME NEW k \in 0..n
        PROVE  f[k] = g[k]
    <3>1. CASE k = 0
      BY <1>3, <3>1
    <3>2. CASE k # 0
      <4>1. k \in 1..n /\ k - 1 \in 0..n
        BY <1>1, <3>2
      <4>2. f[k - 1] \in Tables
        BY <1>3, <4>1
      <4>3. f[k] = Install(f[k - 1], <<class, names[k]>>)
        BY <1>3, <4>1, <4>2 DEF step
      <4>4. QED
        BY <3>2, <4>3
    <3>3. QED
      BY <3>1, <3>2
  <2>2. g = [k \in 0..n |-> g[k]] /\ f = [k \in 0..n |-> f[k]]
    BY <1>3
  <2> HIDE DEF g
  <2>3. f = g
    BY <2>1, <2>2
  <2>4. QED
    BY <2>3 DEF g
<1>5. PICK e : Is(e) /\ VTable(class, inherited, names) = e[n]
  <2> DEFINE c == CHOOSE e : Is(e)
  <2>1. VTable(class, inherited, names) = c[n]
    BY DEF VTable
  <2> HIDE DEF Is
  <2>2. Is(c)
    BY <1>4
  <2>3. QED
    BY <2>1, <2>2
<1>6. e[0] = inherited /\ \A k \in 1..n : e[k] = Install(e[k - 1], <<class, names[k]>>)
  <2>1. \A k \in 1..n : k \in 0..n /\ k # 0
    OBVIOUS
  <2>2. 0 \in 0..n
    BY <1>1
  <2>3. QED
    BY <1>5, <2>1, <2>2
<1> HIDE DEF Is
<1> DEFINE Seen(k) == {names[j] : j \in 1..k}
           Built(table, k) ==
             /\ table \in Tables /\ Len(inherited) <= Len(table)
             /\ \A p \in DOMAIN inherited :
                  table[p] = IF inherited[p][2] \in Seen(k)
                             THEN <<class, inherited[p][2]>> ELSE inherited[p]
             /\ \A name \in Seen(k) : \E p \in DOMAIN table : table[p] = <<class, name>>
           P == {k \in 0..n : Built(e[k], k)}
<1>7. 0 \in P
  <2>1. Seen(0) = {}
    OBVIOUS
  <2>2. Built(inherited, 0)
    BY <2>1 DEF Tables
  <2>3. QED
    BY <1>1, <1>6, <2>2
<1>8. ASSUME NEW k \in 1..n, k - 1 \in P
      PROVE  k \in P
  <2> DEFINE before == e[k - 1]
             after == e[k]
             new == names[k]
  <2>1. Built(before, k - 1)
    BY <1>8
  <2>2. after = Install(before, <<class, new>>) /\ new \in MethodNames
    BY <1>1, <1>6
  <2>3. before \in Tables
    BY <2>1
  <2>4. /\ after \in Tables /\ Len(before) <= Len(after)
        /\ \A p \in DOMAIN before :
             after[p] = IF before[p][2] = new THEN <<class, new>> ELSE before[p]
        /\ \E p \in DOMAIN after : after[p] = <<class, new>>
    <3> HIDE DEF before, after, new
    <3>1. TakesOver(before, after, class, new)
      BY <2>2, <2>3, Installed
    <3>2. QED
      BY <3>1 DEF TakesOver
  <2>5. Seen(k) = Seen(k - 1) \cup {new}
    <3>1. \A j \in 1..k : j = k \/ j \in 1..(k - 1)
      OBVIOUS
    <3>2. \A j \in 1..(k - 1) : j \in 1..k
      OBVIOUS
    <3>3. k \in 1..k
      OBVIOUS
    <3>4. QED
      BY <3>1, <3>2, <3>3
  <2> HIDE DEF before, after, new, Seen
  <2>6. /\ Len(inherited) \in Nat /\ Len(before) \in Nat /\ Len(after) \in Nat
        /\ DOMAIN inherited = 1..Len(inherited) /\ DOMAIN before = 1..Len(before)
        /\ DOMAIN after = 1..Len(after)
    BY <2>3, <2>4 DEF Tables
  <2>7. DOMAIN inherited \subseteq DOMAIN before /\ DOMAIN before \subseteq DOMAIN after
        /\ Len(inherited) <= Len(after)
    BY <2>1, <2>4, <2>6
  <2>8. ASSUME NEW p \in DOMAIN inherited
        PROVE  after[p] = IF inherited[p][2] \in Seen(k)
                          THEN <<class, inherited[p][2]>> ELSE inherited[p]
    <3>1. before[p] = IF inherited[p][2] \in Seen(k - 1)
                      THEN <<class, inherited[p][2]>> ELSE inherited[p]
      BY <2>1
    <3>2. before[p][2] = inherited[p][2]
      BY <3>1
    <3>3. after[p] = IF before[p][2] = new THEN <<class, new>> ELSE before[p]
      BY <2>4, <2>7
    <3>4. QED
      BY <2>5, <3>1, <3>2, <3>3
  <2>9. ASSUME NEW name \in Seen(k)
        PROVE  \E p \in DOMAIN after : after[p] = <<class, name>>
    <3>1. CASE name = new
      BY <2>4, <3>1
    <3>2. CASE name # new
      <4>1. PICK p \in DOMAIN before : before[p] = <<class, name>>
        BY <2>1, <2>5, <3>2
      <4>2. after[p] = <<class, name>>
        BY <2>4, <3>2, <4>1
      <4>3. QED
        BY <2>7, <4>2
    <3>3. QED
      BY <3>1, <3>2
  <2>10. Built(after, k)
    BY <2>4, <2>7, <2>8, <2>9
  <2>11. k \in 0..n
    OBVIOUS
  <2>12. QED
    BY <2>10, <2>11 DEF after
<1> HIDE DEF P
<1>9. \A k \in 0..n : k \in P
  BY <1>1, <1>7, <1>8, Induction
<1>10. n \in 0..n
  BY <1>1
<1>11. Built(e[n], n)
  BY <1>9, <1>10 DEF P
<1>12. Seen(n) = ToSet(names)
  BY DEF ToSet
<1>13. QED
  BY <1>5, <1>11, <1>12

(* mVTableIndex of a method of the class: the place of its name in the table. *)
LEMMA SlotIs ==
  ASSUME NEW table \in Tables, NEW p \in DOMAIN table
  PROVE  Position(table, table[p][2]) = p
<1>1. table \in Seq(Methods) /\ Single(table)
  BY DEF Tables
<1>2. QED
  BY <1>1, Found DEF Single

-------------------------------------------------------------------------------
(* The superclasses of a class.                                            *)

Many == Cardinality(AllClasses)

(* Ancestry, for given superclasses. *)
Walk(supers, class) ==
  LET up[k \in 0..Many] ==
        IF k = 0 THEN class
        ELSE IF up[k - 1] = NoClass THEN NoClass ELSE supers[up[k - 1]]
  IN  [k \in 1..Many |-> up[k - 1]]

Line(supers, class, line) ==
  /\ line \in [1..Many -> AllClasses \cup {NoClass}] /\ line[1] = class
  /\ \A k \in 1..(Many - 1) :
       line[k + 1] = IF line[k] = NoClass THEN NoClass ELSE supers[line[k]]

(* There are finitely many classes, Object among them. *)
LEMMA Some == Many \in Nat \ {0}
<1>1. IsFiniteSet(AllClasses)
  BY ClassesAssumption, FS_AddElement DEF AllClasses
<1>2. AllClasses # {}
  BY DEF AllClasses
<1>3. QED
  BY <1>1, <1>2, FS_CardinalityType, FS_EmptySet DEF Many

(* The walk along given superclasses goes from each class to its superclass. *)
LEMMA WalkIs ==
  ASSUME NEW supers \in [AllClasses -> AllClasses \cup {NoClass}], NEW class \in AllClasses
  PROVE  Line(supers, class, Walk(supers, class))
<1> DEFINE S == AllClasses \cup {NoClass}
           next(x) == IF x = NoClass THEN NoClass ELSE supers[x]
           Is(f) == f = [k \in 0..Many |->
                           IF k = 0 THEN class
                           ELSE IF f[k - 1] = NoClass THEN NoClass ELSE supers[f[k - 1]]]
           step == [k \in 1..Many |-> [x \in S |-> next(x)]]
<1>1. Many \in Nat \ {0} /\ class \in S /\ \A x \in S : next(x) \in S
  BY Some
<1> HIDE DEF S
<1>2. step \in [1..Many -> [S -> S]]
  BY <1>1
<1> HIDE DEF step
<1>3. PICK f : /\ f \in [0..Many -> S] /\ f[0] = class
               /\ \A k \in 1..Many : f[k] = step[k][f[k - 1]]
  <2>1. \E f : Goes(f, S, class, Many, step)
    BY <1>1, <1>2, Recursion
  <2>2. QED
    BY <2>1 DEF Goes
<1>4. Is(f)
  <2> DEFINE g == [k \in 0..Many |->
                     IF k = 0 THEN class
                     ELSE IF f[k - 1] = NoClass THEN NoClass ELSE supers[f[k - 1]]]
  <2>1. ASSUME NEW k \in 0..Many
        PROVE  f[k] = g[k]
    <3>1. CASE k = 0
      BY <1>3, <3>1
    <3>2. CASE k # 0
      <4>1. k \in 1..Many /\ k - 1 \in 0..Many
        BY <1>1, <3>2
      <4>2. f[k - 1] \in S
        BY <1>3, <4>1
      <4>3. f[k] = next(f[k - 1])
        BY <1>3, <4>1, <4>2 DEF step
      <4>4. QED
        BY <3>2, <4>3
    <3>3. QED
      BY <3>1, <3>2
  <2>2. g = [k \in 0..Many |-> g[k]] /\ f = [k \in 0..Many |-> f[k]]
    BY <1>3
  <2> HIDE DEF g
  <2>3. f = g
    BY <2>1, <2>2
  <2>4. QED
    BY <2>3 DEF g
<1>5. PICK e : Is(e) /\ Walk(supers, class) = [k \in 1..Many |-> e[k - 1]]
  <2> DEFINE c == CHOOSE e : Is(e)
  <2>1. Walk(supers, class) = [k \in 1..Many |-> c[k - 1]]
    BY DEF Walk
  <2> HIDE DEF Is
  <2>2. Is(c)
    BY <1>4
  <2> HIDE DEF c
  <2>3. QED
    BY <2>1, <2>2
<1>6. e[0] = class /\ \A k \in 1..Many : e[k] = next(e[k - 1])
  <2>1. \A k \in 1..Many : k \in 0..Many /\ k # 0
    BY <1>1
  <2>2. 0 \in 0..Many
    BY <1>1
  <2>3. QED
    BY <1>5, <2>1, <2>2
<1> HIDE DEF Is
<1>7. \A k \in 0..Many : e[k] \in S
  <2> DEFINE P == {k \in 0..Many : e[k] \in S}
  <2>1. 0 \in P
    BY <1>1, <1>6
  <2>2. ASSUME NEW k \in 1..Many, k - 1 \in P
        PROVE  k \in P
    <3>1. k \in 0..Many
      OBVIOUS
    <3>2. QED
      BY <1>1, <1>6, <2>2, <3>1
  <2> HIDE DEF P
  <2>3. \A k \in 0..Many : k \in P
    BY <1>1, <2>1, <2>2, Induction
  <2>4. QED
    BY <2>3 DEF P
<1> DEFINE line == Walk(supers, class)
<1>8. line = [k \in 1..Many |-> e[k - 1]]
  BY <1>5
<1> HIDE DEF line, next
<1>9. \A k \in 1..Many : k - 1 \in 0..Many /\ line[k] = e[k - 1]
  BY <1>1, <1>8
<1>10. line \in [1..Many -> S]
  BY <1>7, <1>8, <1>9
<1>11. 1 \in 1..Many /\ line[1] = class
  BY <1>1, <1>6, <1>9
<1>12. ASSUME NEW k \in 1..(Many - 1)
       PROVE  line[k + 1] = next(line[k])
  <2>1. k \in 1..Many /\ k + 1 \in 1..Many /\ (k + 1) - 1 = k
    BY <1>1
  <2>2. line[k] = e[k - 1] /\ line[k + 1] = e[k]
    BY <1>9, <2>1
  <2>3. QED
    BY <1>6, <2>1, <2>2
<1>13. QED
  BY <1>10, <1>11, <1>12 DEF line, Line, S, next

(* Two lines of a class are the same when the superclasses on the first are. *)
LEMMA SameLine ==
  ASSUME NEW before, NEW after, NEW class, NEW u, NEW v,
         Line(before, class, u), Line(after, class, v),
         \A k \in 1..Many : u[k] # NoClass => before[u[k]] = after[u[k]]
  PROVE  u = v
<1> DEFINE P == {k \in 0..(Many - 1) : u[k + 1] = v[k + 1]}
<1>1. Many \in Nat \ {0} /\ Many - 1 \in Nat
  BY Some
<1>2. 0 \in P
  BY <1>1 DEF Line
<1>3. ASSUME NEW k \in 1..(Many - 1), k - 1 \in P
      PROVE  k \in P
  <2>1. k \in 0..(Many - 1) /\ k \in 1..Many /\ (k - 1) + 1 = k
    BY <1>1
  <2>2. u[k] = v[k]
    BY <1>3, <2>1
  <2>3. u[k + 1] = v[k + 1]
    BY <2>1, <2>2 DEF Line
  <2>4. QED
    BY <2>1, <2>3
<1> HIDE DEF P
<1>4. \A k \in 0..(Many - 1) : k \in P
  BY <1>1, <1>2, <1>3, Induction
<1>5. ASSUME NEW k \in 1..Many
      PROVE  u[k] = v[k]
  <2>1. k - 1 \in 0..(Many - 1) /\ (k - 1) + 1 = k
    BY <1>1
  <2>2. QED
    BY <1>4, <2>1 DEF P
<1>6. u = [k \in 1..Many |-> u[k]] /\ v = [k \in 1..Many |-> v[k]]
  BY DEF Line
<1>7. QED
  BY <1>5, <1>6

(* A class's line goes on with its superclass's, or is at its end. *)
LEMMA LineUp ==
  ASSUME NEW supers, NEW class, class # NoClass, NEW u, Line(supers, class, u)
  PROVE  /\ supers[class] = NoClass => \A k \in 1..(Many - 1) : u[k + 1] = NoClass
         /\ \A v : Line(supers, supers[class], v) => \A k \in 1..(Many - 1) : u[k + 1] = v[k]
<1>1. Many \in Nat \ {0} /\ Many - 1 \in Nat /\ 1 \in 1..Many
  BY Some
<1>2. 1 <= Many - 1 => u[1 + 1] = supers[class]
  BY <1>1 DEF Line
<1>3. ASSUME NEW v, v[1] = supers[class],
             \A k \in 1..(Many - 1) : v[k + 1] = IF v[k] = NoClass THEN NoClass ELSE supers[v[k]]
      PROVE  \A k \in 1..(Many - 1) : u[k + 1] = v[k]
  <2> DEFINE P == {k \in 0..(Many - 1) : k # 0 => u[k + 1] = v[k]}
  <2>1. 0 \in P
    BY <1>1
  <2>2. ASSUME NEW k \in 1..(Many - 1), k - 1 \in P
        PROVE  k \in P
    <3>1. k \in 0..(Many - 1)
      OBVIOUS
    <3>2. CASE k = 1
      BY <1>1, <1>2, <1>3, <3>1, <3>2
    <3>3. CASE k # 1
      <4>1. k - 1 \in 1..(Many - 1) /\ (k - 1) + 1 = k /\ k - 1 # 0
        BY <1>1, <3>3
      <4>2. u[k] = v[k - 1]
        BY <2>2, <4>1
      <4>3. u[k + 1] = IF u[k] = NoClass THEN NoClass ELSE supers[u[k]]
        BY DEF Line
      <4>4. v[k] = IF v[k - 1] = NoClass THEN NoClass ELSE supers[v[k - 1]]
        BY <1>3, <4>1
      <4>5. QED
        BY <3>1, <4>2, <4>3, <4>4
    <3>4. QED
      BY <3>2, <3>3
  <2> HIDE DEF P
  <2>3. \A k \in 0..(Many - 1) : k \in P
    BY <1>1, <2>1, <2>2, Induction
  <2>4. \A k \in 1..(Many - 1) : k \in 0..(Many - 1) /\ k # 0
    OBVIOUS
  <2>5. QED
    BY <2>3, <2>4 DEF P
<1>4. ASSUME supers[class] = NoClass
      PROVE  \A k \in 1..(Many - 1) : u[k + 1] = NoClass
  <2> DEFINE v == [k \in 1..Many |-> NoClass]
  <2>1. v[1] = supers[class]
    BY <1>1, <1>4
  <2>2. \A k \in 1..(Many - 1) : k \in 1..Many /\ k + 1 \in 1..Many
    BY <1>1
  <2>3. \A k \in 1..(Many - 1) : v[k + 1] = IF v[k] = NoClass THEN NoClass ELSE supers[v[k]]
    BY <2>2
  <2>4. \A k \in 1..(Many - 1) : u[k + 1] = v[k]
    <3> HIDE DEF v
    <3>1. QED
      BY <1>3, <2>1, <2>3
  <2>5. QED
    BY <2>2, <2>4
<1>5. QED
  BY <1>3, <1>4 DEF Line

(* Ancestry is the walk along the present superclasses. *)
LEMMA WalkNow ==
  \A class : Ancestry(class) = Walk(super, class) /\ Ancestry(class)' = Walk(super', class)
BY DEF Ancestry, Walk, Many

-------------------------------------------------------------------------------
(* What a class is laid out as, and what its superclasses are.             *)

Pending == UNION {{calls[t][i] : i \in 1..Len(calls[t])} : t \in Threads}

(* What may be a superclass: a class that is laid out, or none. *)
Up(class) == class = NoClass \/ class \in built

(* What says that it is linked is laid out, and so is what a load gives. *)
Upward ==
  /\ \A c \in AllClasses : state[c] = "LINKED" => c \in built
  /\ \A k \in Pending : k.pc = "linked" => k.name \in built
  /\ \A c \in AllClasses : Up(super[c]) /\ Up(constant[c].class)
  /\ \A k \in Pending : Up(k.held.class)
  /\ \A t \in Threads : returned[t] \in AllClasses => Up(returned[t])

(* Fields of these classes lie in size bytes, each apart from the others. *)
Apart(classes, layouts, size) ==
  \A c \in classes : \A i \in DOMAIN layouts[c].at :
    /\ layouts[c].at[i] % TypeSize(declared[c].fields[i]) = 0
    /\ layouts[c].at[i] + TypeSize(declared[c].fields[i]) <= size
    /\ \A e \in classes : \A j \in DOMAIN layouts[e].at :
         <<e, j>> # <<c, i>> =>
           \/ layouts[c].at[i] + TypeSize(declared[c].fields[i]) <= layouts[e].at[j]
           \/ layouts[e].at[j] + TypeSize(declared[e].fields[j]) <= layouts[c].at[i]

(* The k-th class of a line has a method of this name. *)
Has(line, slots, k, name) == line[k] # NoClass /\ name \in DOMAIN slots[line[k]]

(* The first on the line that has the method of a name is in its place in the table. *)
Dispatches(line, slots, table) ==
  \A k \in 1..Many : line[k] # NoClass => \A name \in DOMAIN slots[line[k]] :
    /\ slots[line[k]][name] \in DOMAIN table
    /\ \E j \in 1..k :
         /\ Has(line, slots, j, name) /\ \A i \in 1..(j - 1) : ~ Has(line, slots, i, name)
         /\ table[slots[line[k]][name]] = <<line[j], name>>

Layouts == [size : Nat, at : Seq(Nat)]

Tabled ==
  /\ \A c \in Classes : declared[c].fields \in Seq(Types) /\ declared[c].methods \in Seq(MethodNames)
  /\ layout \in [AllClasses -> Layouts]
  /\ vtable \in [AllClasses -> Tables]
  /\ slot = [c \in AllClasses |-> slot[c]]
  /\ \A c \in AllClasses : \A name \in DOMAIN slot[c] : slot[c][name] \in DOMAIN vtable[c]

Sound ==
  \A c \in built :
    /\ Apart(Ancestors(c), layout, layout[c].size)
    /\ Dispatches(Ancestry(c), slot, vtable[c])

CInv == IInv /\ Upward /\ Tabled /\ Sound

(* What the calls are after a step of t. *)
LEMMA PendingAfter ==
  ASSUME IInv, NEW t \in Threads, calls[t] # <<>>, NEW S, NEW s,
         calls' = [calls EXCEPT ![t] = s],
         \A i \in 1..Len(s) : s[i] \in Pending \cup S
  PROVE  Pending' \subseteq Pending \cup S
<1>1. calls \in [Threads -> Seq(Calls)]
  BY DEF IInv, TypeOK
<1>2. \A u \in Threads : \A i \in 1..Len(calls'[u]) : calls'[u][i] \in Pending \cup S
  <2>1. calls'[t] = s /\ \A u \in Threads \ {t} : calls'[u] = calls[u]
    BY <1>1
  <2>2. \A u \in Threads : \A i \in 1..Len(calls[u]) : calls[u][i] \in Pending
    BY DEF Pending
  <2>3. QED
    BY <2>1, <2>2
<1>3. ASSUME NEW p \in Pending'
      PROVE  p \in Pending \cup S
  <2>1. PICK u \in Threads : p \in {calls'[u][i] : i \in 1..Len(calls'[u])}
    BY DEF Pending
  <2>2. QED
    BY <1>2, <2>1
<1>4. QED
  BY <1>3

(* The calls on a stack are pending. *)
LEMMA TopPending ==
  ASSUME IInv, NEW t \in Threads, calls[t] # <<>>
  PROVE  Top(t) \in Pending /\ \A i \in 1..(Len(calls[t]) - 1) : calls[t][i] \in Pending
<1>1. Top(t) = calls[t][Len(calls[t])] /\ Len(calls[t]) \in Nat /\ Len(calls[t]) \in 1..Len(calls[t])
  BY InCalls
<1>2. \A i \in 1..(Len(calls[t]) - 1) : i \in 1..Len(calls[t])
  BY <1>1
<1>3. QED
  BY <1>1, <1>2 DEF Pending

(* The innermost call goes on as x. *)
LEMMA PendingAppended ==
  ASSUME IInv, NEW t \in Threads, calls[t] # <<>>, NEW x,
         calls' = [calls EXCEPT ![t] = Append(Front(calls[t]), x)]
  PROVE  Pending' \subseteq Pending \cup {x}
<1> DEFINE f == Front(calls[t])
           s == Append(f, x)
           n == Len(calls[t])
<1>1. /\ f \in Seq(Calls) /\ Len(f) = n - 1 /\ n \in Nat \ {0}
      /\ \A i \in 1..(n - 1) : f[i] = calls[t][i]
  BY InCalls, FrontIs DEF StackOK
<1>2. \A i \in 1..(n - 1) : calls[t][i] \in Pending
  BY TopPending
<1> HIDE DEF f, n
<1>3. Len(s) = n /\ s[n] = x /\ \A i \in 1..(n - 1) : s[i] = f[i]
  BY <1>1
<1>4. \A i \in 1..n : i = n \/ i \in 1..(n - 1)
  BY <1>1
<1>5. \A i \in 1..Len(s) : s[i] \in Pending \cup {x}
  BY <1>1, <1>2, <1>3, <1>4
<1> HIDE DEF s
<1>6. calls' = [calls EXCEPT ![t] = s]
  BY DEF s, f
<1>7. QED
  BY <1>5, <1>6, PendingAfter

(* The innermost call makes another. *)
LEMMA PendingMade ==
  ASSUME IInv, NEW t \in Threads, calls[t] # <<>>, NEW pc, NEW name, Recurse(t, pc, name)
  PROVE  Pending' \subseteq Pending \cup {[Top(t) EXCEPT !.pc = pc], Call(name)}
<1> DEFINE f == Front(calls[t])
           x == [Top(t) EXCEPT !.pc = pc]
           y == Call(name)
           s == f \o <<x, y>>
           n == Len(calls[t])
<1>1. /\ f \in Seq(Calls) /\ Len(f) = n - 1 /\ n \in Nat \ {0}
      /\ \A i \in 1..(n - 1) : f[i] = calls[t][i]
  BY InCalls, FrontIs DEF StackOK
<1>2. \A i \in 1..(n - 1) : calls[t][i] \in Pending
  BY TopPending
<1>3. calls' = [calls EXCEPT ![t] = s]
  BY DEF Recurse, Top
<1> HIDE DEF f, n, x, y
<1> DEFINE T == Calls \cup {x, y}
           e == <<x, y>>
<1>4. /\ f \in Seq(T) /\ e \in Seq(T)
      /\ Len(e) = 2 /\ e[1] = x /\ e[2] = y /\ s = f \o e
  BY <1>1
<1>5. /\ Len(s) = n + 1 /\ s[n + 1] = y /\ s[n] = x
      /\ \A i \in 1..(n - 1) : s[i] = f[i]
  <2> HIDE DEF s, e, T
  <2>1. /\ Len(s) = Len(f) + Len(e)
        /\ \A i \in 1..(Len(f) + Len(e)) :
             s[i] = IF i <= Len(f) THEN f[i] ELSE e[i - Len(f)]
    BY <1>4, ConcatProperties
  <2>2. /\ n + 1 \in 1..(n + 1) /\ n \in 1..(n + 1) /\ Len(f) + Len(e) = n + 1
        /\ n - Len(f) = 1 /\ (n + 1) - Len(f) = 2
    BY <1>1, <1>4
  <2>3. \A i \in 1..(n - 1) : i \in 1..(n + 1) /\ i <= Len(f)
    BY <1>1
  <2>4. ~ (n <= Len(f)) /\ ~ (n + 1 <= Len(f))
    BY <1>1
  <2>5. QED
    BY <1>4, <2>1, <2>2, <2>3, <2>4
<1>6. \A i \in 1..(n + 1) : i = n + 1 \/ i = n \/ i \in 1..(n - 1)
  BY <1>1
<1>7. \A i \in 1..Len(s) : s[i] \in Pending \cup {x, y}
  BY <1>1, <1>2, <1>5, <1>6
<1> HIDE DEF s
<1>8. Pending' \subseteq Pending \cup {x, y}
  BY <1>3, <1>7, PendingAfter
<1>9. QED
  BY <1>8 DEF x, y

(* The innermost call returns. *)
LEMMA PendingLeft ==
  ASSUME IInv, NEW t \in Threads, calls[t] # <<>>, NEW class, Return(t, class)
  PROVE  Pending' \subseteq Pending
<1> DEFINE f == Front(calls[t])
           n == Len(calls[t])
<1>1. /\ Len(f) = n - 1 /\ \A i \in 1..(n - 1) : f[i] = calls[t][i]
  BY InCalls, FrontIs DEF StackOK
<1>2. \A i \in 1..(n - 1) : calls[t][i] \in Pending
  BY TopPending
<1>3. calls' = [calls EXCEPT ![t] = f]
  BY DEF Return
<1> HIDE DEF f, n
<1>4. \A i \in 1..Len(f) : f[i] \in Pending \cup {}
  BY <1>1, <1>2
<1>5. QED
  BY <1>3, <1>4, PendingAfter

(* The calls a step makes or moves on. *)
LEMMA PendingOf ==
  ASSUME IInv, NEW t \in Threads, calls[t] # <<>>
  PROVE  /\ \A pc : Goto(t, pc) => Pending' \subseteq Pending \cup {[Top(t) EXCEPT !.pc = pc]}
         /\ \A pc, held : Hold(t, pc, held) =>
              Pending' \subseteq Pending \cup {[Top(t) EXCEPT !.pc = pc, !.held = held]}
<1>1. ASSUME NEW pc, Goto(t, pc)
      PROVE  Pending' \subseteq Pending \cup {[Top(t) EXCEPT !.pc = pc]}
  BY <1>1, PendingAppended DEF Goto, Top
<1>2. ASSUME NEW pc, NEW held, Hold(t, pc, held)
      PROVE  Pending' \subseteq Pending \cup {[Top(t) EXCEPT !.pc = pc, !.held = held]}
  BY <1>2, PendingAppended DEF Hold, Top
<1>3. QED
  BY <1>1, <1>2

(* Only Build lays out a class. *)
LEMMA LaidOutBy ==
  ASSUME [Next]_vars, ~ \E t \in Threads : Builds(t)
  PROVE  UNCHANGED <<declared, layout, vtable, slot, built>>
<1>1. ASSUME NEW t \in Threads, LayOutClass(t)
      PROVE  UNCHANGED <<declared, layout, vtable, slot, built>>
  BY <1>1, LayOutIs DEF linked
<1>2. QED
  BY <1>1 DEF Next, Step, Awake, WakeSpuriously, vars, linked, Ask, ModuleLoaded,
     FindDeclared, LeavesWait, Check, CheckAgain, Mark, LinkCommon, Super, AssignConstant,
     UseConstant, Rewrites, Linked, FindArray, EmplaceArray

(* Only UseConstant sets a superclass, of a class that is not laid out. *)
SetsSuper(t) ==
  /\ calls[t] # <<>> /\ Top(t).pc = "use" /\ Top(t).name \notin built
  /\ super' = [super EXCEPT ![Top(t).name] = Top(t).held.class]
  /\ UNCHANGED <<declared, layout, vtable, slot, built>>

LEMMA SuperBy ==
  ASSUME [Next]_vars
  PROVE  UNCHANGED super \/ \E t \in Threads : SetsSuper(t)
<1>1. ASSUME NEW t \in Threads, LayOutClass(t)
      PROVE  UNCHANGED super
  BY <1>1, LayOutIs, BuildsIs DEF linked
<1>2. ASSUME NEW t \in Threads, UseConstant(t)
      PROVE  UNCHANGED super \/ SetsSuper(t)
  BY <1>2 DEF UseConstant, Rewrites, At, SetsSuper, linked
<1>3. QED
  BY <1>1, <1>2 DEF Next, Step, Awake, WakeSpuriously, vars, linked, Ask, ModuleLoaded,
     FindDeclared, LeavesWait, Check, CheckAgain, Mark, LinkCommon, Super, AssignConstant,
     Linked, FindArray, EmplaceArray

(* A class that is laid out after a step was so before, or the step lays it out. *)
LEMMA BuiltBefore ==
  ASSUME [Next]_vars
  PROVE  /\ \A c \in built' : c \in built \/ \E t \in Threads : Builds(t) /\ c = Top(t).name
         /\ built \subseteq built'
<1>1. ASSUME NEW t \in Threads, Builds(t)
      PROVE  built' = built \cup {Top(t).name}
  BY <1>1, BuildsIs
<1>2. QED
  BY <1>1, LaidOutBy

(* What may be a superclass stays so. *)
LEMMA StaysUp ==
  ASSUME [Next]_vars, NEW c, Up(c)
  PROVE  Up(c)'
BY BuiltBefore DEF Up

(* What t has in hand as its superclass, and what it has set it to. *)
Handed(t, held) ==
  \/ /\ Top(t).pc = "super" /\ declared[Top(t).name].super # NoClass
     /\ held = constant[declared[Top(t).name].super] /\ held # NoConstant
  \/ Top(t).pc = "constant" /\ held.class = returned[t]

Inherits(t) ==
  \/ Top(t).pc = "super" /\ declared[Top(t).name].super = NoClass
  \/ Top(t).pc = "use" /\ super' = [super EXCEPT ![Top(t).name] = Top(t).held.class]

(* A call of a step that was not there has a superclass in hand or none, which it was *)
(* given, and is about to say that a class is linked only when it has laid it out.    *)
LEMMA NewCalls ==
  ASSUME IInv, Upward, [Next]_vars, NEW k \in Pending', k \notin Pending
  PROVE  /\ Up(k.held.class)
         /\ k.pc = "linked" => \E t \in Threads : Builds(t) /\ k.name = Top(t).name
         /\ k.pc = "use" => \E t \in Threads :
              calls[t] # <<>> /\ k.name = Top(t).name /\ Handed(t, k.held)
         /\ k.pc = "lay out" => \E t \in Threads :
              calls[t] # <<>> /\ k.name = Top(t).name /\ Inherits(t)
<1> DEFINE Q == /\ Up(k.held.class)
                /\ k.pc = "linked" => \E t \in Threads : Builds(t) /\ k.name = Top(t).name
                /\ k.pc = "use" => \E t \in Threads :
                     calls[t] # <<>> /\ k.name = Top(t).name /\ Handed(t, k.held)
                /\ k.pc = "lay out" => \E t \in Threads :
                     calls[t] # <<>> /\ k.name = Top(t).name /\ Inherits(t)
           plain == {"find", "wait", "check", "check again", "mark", "loader", "super",
                     "constant", "emplace"}
<1>1. ASSUME NEW t \in Threads, calls[t] # <<>>
      PROVE  /\ Top(t) \in Calls /\ Up(Top(t).held.class)
             /\ \A pc : /\ [Top(t) EXCEPT !.pc = pc].pc = pc
                        /\ [Top(t) EXCEPT !.pc = pc].name = Top(t).name
                        /\ [Top(t) EXCEPT !.pc = pc].held = Top(t).held
             /\ \A pc, held : /\ [Top(t) EXCEPT !.pc = pc, !.held = held].pc = pc
                              /\ [Top(t) EXCEPT !.pc = pc, !.held = held].name = Top(t).name
                              /\ [Top(t) EXCEPT !.pc = pc, !.held = held].held = held
             /\ \A class : ~ Return(t, class)
  <2>1. Top(t) \in Calls
    BY <1>1, InCalls
  <2>2. Up(Top(t).held.class)
    BY <1>1, TopPending DEF Upward
  <2>3. \A class : ~ Return(t, class)
    BY <1>1, PendingLeft
  <2>4. QED
    BY <2>1, <2>2, <2>3 DEF Calls
<1>2. \A name : Call(name).pc = "find" /\ Up(Call(name).held.class)
  <2>1. \A name : Call(name).pc = "find" /\ Call(name).held = NoConstant
    BY DEF Call
  <2>2. NoConstant.class = NoClass
    BY DEF NoConstant
  <2>3. Up(NoClass)
    BY DEF Up
  <2>4. QED
    BY <2>1, <2>2, <2>3
<1>3. ASSUME NEW t \in Threads, calls[t] # <<>>, NEW pc, Goto(t, pc),
             \/ pc \in plain
             \/ pc = "lay out" /\ Inherits(t)
             \/ pc = "linked" /\ Builds(t)
      PROVE  Q
  <2>1. k = [Top(t) EXCEPT !.pc = pc]
    BY <1>3, PendingOf
  <2>2. k.pc = pc /\ k.name = Top(t).name /\ Up(k.held.class)
    BY <1>1, <1>3, <2>1
  <2>3. QED
    BY <1>3, <2>2
<1>4. ASSUME NEW t \in Threads, calls[t] # <<>>, NEW held, Hold(t, "use", held),
             Handed(t, held), Up(held.class)
      PROVE  Q
  <2>1. Pending' \subseteq Pending \cup {[Top(t) EXCEPT !.pc = "use", !.held = held]}
    BY <1>4, PendingOf
  <2>2. k = [Top(t) EXCEPT !.pc = "use", !.held = held]
    BY <2>1
  <2>3. k.pc = "use" /\ k.held = held /\ k.name = Top(t).name
    BY <1>1, <1>4, <2>2
  <2>4. QED
    BY <1>4, <2>3
<1>5. ASSUME NEW t \in Threads, calls[t] # <<>>, NEW pc, NEW name, Recurse(t, pc, name),
             pc \in plain
      PROVE  Q
  <2>1. k \in {[Top(t) EXCEPT !.pc = pc], Call(name)}
    BY <1>5, PendingMade
  <2>2. CASE k = [Top(t) EXCEPT !.pc = pc]
    <3>1. k.pc = pc /\ Up(k.held.class)
      BY <1>1, <1>5, <2>2
    <3>2. QED
      BY <1>5, <3>1
  <2>3. CASE k = Call(name)
    <3>1. k.pc = "find" /\ Up(k.held.class)
      BY <1>2, <2>3
    <3>2. QED
      BY <3>1
  <2>4. QED
    BY <2>1, <2>2, <2>3
<1>6. UNCHANGED calls => FALSE
  BY DEF Pending
<1>7. ASSUME NEW t \in Threads, NEW name, Ask(t, name)
      PROVE  Q
  <2>1. calls' = [calls EXCEPT ![t] = <<Call(name)>>] /\ calls \in [Threads -> Seq(Calls)]
    BY <1>7 DEF Ask, IInv, TypeOK
  <2>2. PICK u \in Threads : \E i \in 1..Len(calls'[u]) : k = calls'[u][i]
    BY DEF Pending
  <2>3. u = t
    BY <2>1, <2>2 DEF Pending
  <2>4. k = Call(name)
    BY <2>1, <2>2, <2>3
  <2>5. QED
    BY <1>2, <2>4
<1>8. ASSUME NEW t \in Threads, FindDeclared(t) \/ LeavesWait(t) \/ Check(t) \/ CheckAgain(t)
      PROVE  Q
  <2>1. calls[t] # <<>>
    BY <1>8 DEF FindDeclared, LeavesWait, Check, CheckAgain, At
  <2>2. \E pc \in {"wait", "check", "check again", "mark"} : Goto(t, pc)
    BY <1>1, <1>6, <1>8, <2>1 DEF FindDeclared, LeavesWait, Check, CheckAgain
  <2>3. QED
    BY <1>3, <2>1, <2>2
<1>9. ASSUME NEW t \in Threads, Mark(t) \/ LinkCommon(t) \/ Linked(t)
      PROVE  Q
  <2>1. calls[t] # <<>>
    BY <1>9 DEF Mark, LinkCommon, Linked, At
  <2>2. \E pc \in {"loader", "super", "check"} : Goto(t, pc)
    BY <1>6, <1>9 DEF Mark, LinkCommon, Linked
  <2>3. QED
    BY <1>3, <2>1, <2>2
<1>10. ASSUME NEW t \in Threads, Super(t)
       PROVE  Q
  <2> DEFINE parent == declared[Top(t).name].super
  <2>1. calls[t] # <<>> /\ Top(t).pc = "super"
    BY <1>10 DEF Super, At
  <2>2. CASE parent = NoClass /\ Goto(t, "lay out")
    BY <1>3, <2>1, <2>2 DEF Inherits
  <2>3. CASE Recurse(t, "constant", parent)
    BY <1>5, <2>1, <2>3
  <2>4. CASE parent # NoClass /\ constant[parent] # NoConstant /\ Hold(t, "use", constant[parent])
    <3>1. Top(t).name \in Classes
      BY <2>1, InCalls DEF Placed, LinkingPcs
    <3>2. parent \in AllClasses
      BY <2>4, <3>1 DEF IInv, TypeOK
    <3>3. Up(constant[parent].class)
      BY <3>2 DEF Upward
    <3>4. Handed(t, constant[parent])
      BY <2>1, <2>4 DEF Handed
    <3>5. QED
      BY <1>4, <2>1, <2>4, <3>3, <3>4
  <2>5. QED
    BY <1>10, <2>2, <2>3, <2>4 DEF Super
<1>11. ASSUME NEW t \in Threads, AssignConstant(t)
       PROVE  Q
  <2> DEFINE made == [class |-> returned[t], by |-> t]
  <2>1. calls[t] # <<>> /\ Top(t).pc = "constant" /\ Hold(t, "use", made)
    BY <1>11 DEF AssignConstant, At
  <2>2. Up(made.class)
    <3>1. Up(returned[t])
      BY <2>1 DEF IInv, SuperGiven, Upward, Up
    <3>2. made.class = returned[t]
      OBVIOUS
    <3>3. QED
      BY <3>1, <3>2
  <2>3. Handed(t, made)
    BY <2>1 DEF Handed
  <2>4. QED
    BY <1>4, <2>1, <2>2, <2>3
<1>12. ASSUME NEW t \in Threads, UseConstant(t)
       PROVE  Q
  <2>1. calls[t] # <<>> /\ Goto(t, "lay out") /\ Inherits(t)
    BY <1>6, <1>12 DEF UseConstant, Rewrites, At, Inherits
  <2>2. QED
    BY <1>3, <2>1
<1>13. ASSUME NEW t \in Threads, LayOutClass(t)
       PROVE  Q
  <2>1. Builds(t)
    BY <1>6, <1>13, LayOutIs
  <2>2. calls[t] # <<>> /\ Goto(t, "linked")
    BY <2>1, BuildsIs
  <2>3. QED
    BY <1>3, <2>1, <2>2
<1>14. ASSUME NEW t \in Threads, FindArray(t) \/ EmplaceArray(t)
       PROVE  Q
  <2>1. calls[t] # <<>>
    BY <1>14 DEF FindArray, EmplaceArray, At
  <2>2. \E name : Recurse(t, "emplace", name)
    BY <1>1, <1>6, <1>14, <2>1 DEF FindArray, EmplaceArray
  <2>3. QED
    BY <1>5, <2>1, <2>2
<1>15. ASSUME UNCHANGED vars \/ ModuleLoaded
       PROVE  Q
  BY <1>6, <1>15 DEF vars, ModuleLoaded
<1> HIDE DEF Q
<1>16. ASSUME NEW t \in Threads, Step(t) \/ WakeSpuriously(t)
       PROVE  Q
  BY <1>8, <1>9, <1>10, <1>11, <1>12, <1>13, <1>14, <1>16 DEF Step, Awake, WakeSpuriously
<1>17. Q
  BY <1>7, <1>15, <1>16 DEF Next
<1>18. QED
  BY <1>17 DEF Q

(* What the innermost call of t gives, and when. *)
Gives(t, class) ==
  /\ calls[t] # <<>> /\ Return(t, class)
  /\ class \in {Top(t).name, NoClass, Freed}
  /\ class = Freed => Top(t).name \in Arrays
  /\ class = NoClass /\ Top(t).name \in AllClasses => state[Top(t).name] # "INITIALIZED"
  /\ class \in AllClasses => state[class] = "LINKED"
  /\ class \in Arrays => arrays'[class] # NoThread

(* Where t is after a step in which no load gives anything. *)
MovesOn(t) ==
  \/ calls[t] = <<>> /\ \E name : calls' = [calls EXCEPT ![t] = <<Call(name)>>]
  \/ /\ calls[t] # <<>>
     /\ \/ \E pc : pc \notin {"constant", "emplace"} /\ Goto(t, pc)
        \/ \E held : Hold(t, "use", held)
        \/ \E pc, name : Recurse(t, pc, name)

LEMMA ResultsBy ==
  ASSUME IInv, [Next]_vars
  PROVE  \/ UNCHANGED results /\ (UNCHANGED calls \/ \E t \in Threads : MovesOn(t))
         \/ \E t \in Threads : \E class : Gives(t, class)
<1> DEFINE Q == \/ UNCHANGED results /\ (UNCHANGED calls \/ \E t \in Threads : MovesOn(t))
                \/ \E t \in Threads : \E class : Gives(t, class)
<1>1. /\ Arrays \cap AllClasses = {} /\ NoClass \notin AllClasses \cup Arrays
      /\ Freed \notin AllClasses \cup Arrays \cup {NoClass}
  BY ClassesAssumption DEF AllClasses
<1>2. ASSUME NEW t \in Threads, calls[t] # <<>>, UNCHANGED results,
             \/ \E pc : pc \notin {"constant", "emplace"} /\ Goto(t, pc)
             \/ \E held : Hold(t, "use", held)
             \/ \E pc, name : Recurse(t, pc, name)
      PROVE  Q
  BY <1>2 DEF MovesOn
<1>3. ASSUME NEW t \in Threads, FindDeclared(t)
      PROVE  Q
  <2>1. calls[t] # <<>>
    BY <1>3 DEF FindDeclared, At
  <2>2. CASE state[Top(t).name] = "LINKING" /\ Return(t, NoClass)
    <3>1. Gives(t, NoClass)
      BY <1>1, <2>1, <2>2 DEF Gives
    <3>2. QED
      BY <3>1
  <2>3. CASE UNCHANGED results /\ \E pc \in {"wait", "check"} : Goto(t, pc)
    BY <1>2, <2>1, <2>3
  <2>4. QED
    BY <1>3, <2>2, <2>3 DEF FindDeclared
<1>4. ASSUME NEW t \in Threads, Check(t) \/ CheckAgain(t)
      PROVE  Q
  <2>1. calls[t] # <<>> /\ Top(t).name \in AllClasses
    <3>1. calls[t] # <<>> /\ Top(t).pc \in {"check", "check again"}
      BY <1>4 DEF Check, CheckAgain, At
    <3>2. QED
      BY <3>1, InCalls DEF Placed
  <2>2. CASE state[Top(t).name] = "LINKED" /\ Return(t, Top(t).name)
    <3>1. Gives(t, Top(t).name)
      BY <1>1, <2>1, <2>2 DEF Gives
    <3>2. QED
      BY <3>1
  <2>3. CASE state[Top(t).name] # "INITIALIZED" /\ Return(t, NoClass)
    <3>1. Gives(t, NoClass)
      BY <1>1, <2>1, <2>3 DEF Gives
    <3>2. QED
      BY <3>1
  <2>4. CASE UNCHANGED results /\ \E pc \in {"check again", "mark"} : Goto(t, pc)
    BY <1>2, <2>1, <2>4
  <2>5. QED
    BY <1>4, <2>2, <2>3, <2>4 DEF Check, CheckAgain
<1>5. ASSUME NEW t \in Threads, FindArray(t)
      PROVE  Q
  <2>1. calls[t] # <<>> /\ Top(t).name \in Arrays /\ UNCHANGED arrays
    BY <1>5 DEF FindArray, At
  <2>2. CASE arrays[Top(t).name] # NoThread /\ Return(t, Top(t).name)
    <3>1. Gives(t, Top(t).name)
      BY <1>1, <2>1, <2>2 DEF Gives
    <3>2. QED
      BY <3>1
  <2>3. CASE UNCHANGED results /\ \E name : Recurse(t, "emplace", name)
    BY <1>2, <2>1, <2>3
  <2>4. QED
    BY <1>5, <2>2, <2>3 DEF FindArray
<1>6. ASSUME NEW t \in Threads, EmplaceArray(t)
      PROVE  Q
  <2>1. calls[t] # <<>> /\ Top(t).name \in Arrays
    <3>1. calls[t] # <<>> /\ Top(t).pc = "emplace"
      BY <1>6 DEF EmplaceArray, At
    <3>2. QED
      BY <3>1, InCalls DEF Placed
  <2>2. CASE Return(t, NoClass)
    <3>1. Gives(t, NoClass)
      BY <1>1, <2>1, <2>2 DEF Gives
    <3>2. QED
      BY <3>1
  <2>3. CASE /\ arrays' = [arrays EXCEPT ![Top(t).name] = Emplaced(@, t)]
             /\ \E class \in {Top(t).name, Freed} : Return(t, class)
    <3>1. PICK class \in {Top(t).name, Freed} : Return(t, class)
      BY <2>3
    <3>2. arrays'[Top(t).name] # NoThread
      BY <2>1, <2>3, NoThreadAssumption DEF Emplaced, IInv, TypeOK
    <3>3. Gives(t, class)
      BY <1>1, <2>1, <3>1, <3>2 DEF Gives
    <3>4. QED
      BY <3>3
  <2>4. CASE UNCHANGED <<calls, results>>
    BY <2>4
  <2>5. QED
    BY <1>6, <2>2, <2>3, <2>4 DEF EmplaceArray, Answers
<1>7. ASSUME NEW t \in Threads, \/ LeavesWait(t) \/ Mark(t) \/ LinkCommon(t) \/ Super(t)
                                \/ AssignConstant(t) \/ Linked(t)
      PROVE  Q
  <2>1. calls[t] # <<>> /\ UNCHANGED results
    BY <1>7 DEF LeavesWait, Mark, LinkCommon, Super, AssignConstant, Linked, At
  <2>2. CASE UNCHANGED calls
    BY <2>1, <2>2
  <2>3. CASE \E pc \in {"check", "loader", "super", "lay out"} : Goto(t, pc)
    BY <1>2, <2>1, <2>3
  <2>4. CASE \E held : Hold(t, "use", held)
    BY <1>2, <2>1, <2>4
  <2>5. CASE \E pc, name : Recurse(t, pc, name)
    BY <1>2, <2>1, <2>5
  <2>6. QED
    BY <1>7, <2>2, <2>3, <2>4, <2>5 DEF LeavesWait, Mark, LinkCommon, Super, AssignConstant, Linked
<1>8. ASSUME NEW t \in Threads, UseConstant(t) \/ LayOutClass(t)
      PROVE  Q
  <2>1. calls[t] # <<>> /\ UNCHANGED results
    BY <1>8 DEF UseConstant, LayOutClass, At
  <2>2. CASE UNCHANGED calls
    BY <2>1, <2>2
  <2>3. CASE \E pc \in {"lay out", "linked"} : Goto(t, pc)
    BY <1>2, <2>1, <2>3
  <2>4. UseConstant(t) => UNCHANGED calls \/ Goto(t, "lay out")
    BY DEF UseConstant, Rewrites
  <2>5. LayOutClass(t) => UNCHANGED calls \/ Goto(t, "linked")
    BY LayOutIs, BuildsIs
  <2>6. QED
    BY <1>8, <2>2, <2>3, <2>4, <2>5
<1>9. ASSUME NEW t \in Threads, NEW name \in Names, Ask(t, name)
      PROVE  Q
  BY <1>9 DEF Ask, MovesOn
<1>10. ASSUME UNCHANGED vars \/ ModuleLoaded
       PROVE  Q
  BY <1>10 DEF vars, results, ModuleLoaded
<1> HIDE DEF Q
<1>11. ASSUME NEW t \in Threads, Step(t) \/ WakeSpuriously(t)
       PROVE  Q
  BY <1>3, <1>4, <1>5, <1>6, <1>7, <1>8, <1>11 DEF Step, Awake, WakeSpuriously
<1>12. Q
  BY <1>9, <1>10, <1>11 DEF Next
<1>13. QED
  BY <1>12 DEF Q

(* What a load gives, a constant keeps or a superclass becomes is laid out. *)
LEMMA UpwardStep ==
  ASSUME IInv, Upward, [Next]_vars
  PROVE  Upward'
<1>1. ASSUME NEW k \in Pending'
      PROVE  Up(k.held.class)'
  <2>1. Up(k.held.class)
    BY NewCalls DEF Upward
  <2>2. QED
    BY <2>1, StaysUp
<1>2. ASSUME NEW c \in AllClasses
      PROVE  Up(super'[c])
  <2>1. CASE \E t \in Threads : SetsSuper(t)
    <3>1. PICK t \in Threads : SetsSuper(t)
      BY <2>1
    <3>2. /\ calls[t] # <<>> /\ super' = [super EXCEPT ![Top(t).name] = Top(t).held.class]
      BY <3>1 DEF SetsSuper
    <3>3. Up(Top(t).held.class)
      BY <3>2, TopPending DEF Upward
    <3>4. super \in [AllClasses -> AllClasses \cup {NoClass}] /\ Up(super[c])
      BY DEF IInv, TypeOK, Upward
    <3>5. QED
      BY <3>2, <3>3, <3>4
  <2>2. CASE UNCHANGED super
    BY <2>2 DEF Upward
  <2>3. QED
    BY <2>1, <2>2, SuperBy
<1>3. ASSUME NEW c \in AllClasses
      PROVE  Up(constant'[c].class)
  <2>1. CASE \E t \in Threads : AssignConstant(t)
    <3>1. PICK t \in Threads : AssignConstant(t)
      BY <2>1
    <3> DEFINE made == [class |-> returned[t], by |-> t]
    <3>2. calls[t] # <<>> /\ Top(t).pc = "constant"
      BY <3>1 DEF AssignConstant, At
    <3>3. Up(made.class)
      <4>1. Up(returned[t])
        BY <3>2 DEF IInv, SuperGiven, Upward, Up
      <4>2. made.class = returned[t]
        OBVIOUS
      <4>3. QED
        BY <4>1, <4>2
    <3>4. constant' = [constant EXCEPT ![declared[Top(t).name].super] = made]
      BY <3>1 DEF AssignConstant
    <3>5. constant \in [AllClasses -> Constants] /\ Up(constant[c].class)
      BY DEF IInv, TypeOK, Upward
    <3> HIDE DEF made
    <3>6. QED
      BY <3>3, <3>4, <3>5
  <2>2. CASE ~ \E t \in Threads : AssignConstant(t)
    <3>1. UNCHANGED constant
      BY <2>2 DEF Next, Step, Awake, WakeSpuriously, vars, Ask, ModuleLoaded,
         FindDeclared, LeavesWait, Check, CheckAgain, Mark, LinkCommon, Super, UseConstant,
         LayOutClass, Linked, FindArray, EmplaceArray
    <3>2. QED
      BY <3>1 DEF Upward
  <2>3. QED
    BY <2>1, <2>2
<1>4. ASSUME NEW t \in Threads, returned'[t] \in AllClasses
      PROVE  Up(returned'[t])
  <2>1. CASE UNCHANGED results
    BY <1>4, <2>1 DEF Upward, results
  <2>2. CASE \E u \in Threads : \E class : Gives(u, class)
    <3>1. PICK u \in Threads : \E class : Gives(u, class)
      BY <2>2
    <3>2. PICK class : Gives(u, class)
      BY <3>1
    <3>3. returned' = [returned EXCEPT ![u] = class]
      BY <3>2 DEF Gives, Return
    <3>4. returned'[t] = class \/ returned'[t] = returned[t]
      BY <3>3 DEF IInv, TypeOK
    <3>5. class \in AllClasses => Up(class)
      BY <3>2 DEF Gives, Upward, Up
    <3>6. QED
      BY <1>4, <3>4, <3>5 DEF Upward
  <2>3. QED
    BY <2>1, <2>2, ResultsBy
<1>5. ASSUME NEW c \in AllClasses
      PROVE  Up(super[c])' /\ Up(constant[c].class)'
  <2>1. Up(super'[c]) /\ Up(constant'[c].class)
    BY <1>2, <1>3
  <2>2. QED
    BY <2>1, BuiltBefore DEF Up
<1>6. ASSUME NEW t \in Threads, returned'[t] \in AllClasses
      PROVE  Up(returned[t])'
  BY <1>4, <1>6, BuiltBefore DEF Up
<1>7. ASSUME NEW k \in Pending', k.pc = "linked"
      PROVE  k.name \in built'
  <2>1. CASE k \in Pending
    BY <1>7, <2>1, BuiltBefore DEF Upward
  <2>2. CASE k \notin Pending
    <3>1. PICK t \in Threads : Builds(t) /\ k.name = Top(t).name
      BY <1>7, <2>2, NewCalls
    <3>2. built' = built \cup {Top(t).name}
      BY <3>1, BuildsIs
    <3>3. QED
      BY <3>1, <3>2
  <2>3. QED
    BY <2>1, <2>2
<1>8. ASSUME NEW c \in AllClasses, state'[c] = "LINKED"
      PROVE  c \in built'
  <2>1. state \in [AllClasses -> {"INITIALIZED", "LINKING", "LINKED"}]
    BY DEF IInv, TypeOK
  <2>2. CASE \E t \in Threads : Linked(t)
    <3>1. PICK t \in Threads : Linked(t)
      BY <2>2
    <3>2. /\ calls[t] # <<>> /\ Top(t).pc = "linked"
          /\ state' = [state EXCEPT ![Top(t).name] = "LINKED"]
      BY <3>1 DEF Linked, At
    <3>3. Top(t).name \in built
      BY <3>2, TopPending DEF Upward
    <3>4. c = Top(t).name \/ state[c] = "LINKED"
      BY <1>8, <2>1, <3>2
    <3>5. QED
      BY <3>3, <3>4, BuiltBefore DEF Upward
  <2>3. CASE ~ \E t \in Threads : Linked(t)
    <3>1. UNCHANGED state \/ \E t \in Threads : state' = [state EXCEPT ![Top(t).name] = "LINKING"]
      BY <2>3 DEF Next, Step, Awake, WakeSpuriously, vars, Ask, ModuleLoaded, FindDeclared,
         LeavesWait, Check, CheckAgain, Mark, LinkCommon, Super, AssignConstant, UseConstant,
         LayOutClass, FindArray, EmplaceArray
    <3>2. state[c] = "LINKED"
      BY <1>8, <2>1, <3>1
    <3>3. QED
      BY <3>2, BuiltBefore DEF Upward
  <2>4. QED
    BY <2>2, <2>3
<1>9. QED
  BY <1>1, <1>5, <1>6, <1>7, <1>8 DEF Upward, AllClasses

(* Who sets the superclass or lays the class out does so for a class that the modules *)
(* declare.                                                                           *)
LEMMA Unbuilt ==
  ASSUME IInv, NEW t \in Threads, SetsSuper(t) \/ Builds(t)
  PROVE  Top(t).name \in Classes /\ Top(t).name \in AllClasses /\ Top(t).name \notin built
<1>1. calls[t] # <<>> /\ Top(t).pc \in {"use", "lay out"} /\ Top(t).name \notin built
  BY BuildsIs DEF SetsSuper
<1>2. QED
  BY <1>1, InCalls DEF Placed, LinkingPcs, AllClasses

(* The superclasses of a class are laid out. *)
LEMMA LineOf ==
  ASSUME IInv, Upward, NEW d \in AllClasses
  PROVE  LET u == Ancestry(d)
         IN  /\ Line(super, d, u) /\ DOMAIN u = 1..Many
             /\ \A k \in 1..Many : k = 1 \/ Up(u[k])
             /\ \A a : a \in Ancestors(d) <=> a # NoClass /\ \E k \in 1..Many : a = u[k]
<1> DEFINE u == Ancestry(d)
<1>1. Line(super, d, u)
  BY WalkIs, WalkNow DEF IInv, TypeOK
<1> HIDE DEF u
<1>2. u \in [1..Many -> AllClasses \cup {NoClass}]
  BY <1>1 DEF Line
<1>3. ASSUME NEW k \in 1..Many, k # 1
      PROVE  Up(u[k])
  <2>1. k - 1 \in 1..(Many - 1) /\ k - 1 \in 1..Many /\ (k - 1) + 1 = k
    BY <1>3, Some
  <2>2. u[k] = IF u[k - 1] = NoClass THEN NoClass ELSE super[u[k - 1]]
    BY <1>1, <2>1 DEF Line
  <2>3. u[k - 1] \in AllClasses \cup {NoClass}
    BY <1>2, <2>1
  <2>4. QED
    BY <2>2, <2>3 DEF Upward, Up
<1>4. \A a : a \in Ancestors(d) <=> a # NoClass /\ \E k \in 1..Many : a = u[k]
  BY <1>2 DEF Ancestors, ToSet, u
<1>5. QED
  BY <1>1, <1>2, <1>3, <1>4 DEF u

(* What is laid out stays as it is when only a class that is not is changed. *)
LEMMA Undisturbed ==
  ASSUME CInv, NEW c \in AllClasses, c \notin built, NEW d \in built,
         UNCHANGED declared, super' \in [AllClasses -> AllClasses \cup {NoClass}],
         \A a \in AllClasses \ {c} : /\ super'[a] = super[a] /\ layout'[a] = layout[a]
                                     /\ vtable'[a] = vtable[a] /\ slot'[a] = slot[a]
  PROVE  /\ Apart(Ancestors(d), layout, layout[d].size)'
         /\ Dispatches(Ancestry(d), slot, vtable[d])'
         /\ Ancestry(d)' = Ancestry(d)
<1> DEFINE u == Ancestry(d)
           v == Ancestry(d)'
           A == Ancestors(d)
<1>0. d \in AllClasses
  BY DEF CInv, IInv, TypeOK
<1>1. /\ Line(super, d, u) /\ DOMAIN u = 1..Many
      /\ \A k \in 1..Many : k = 1 \/ Up(u[k])
      /\ \A a : a \in A <=> a # NoClass /\ \E k \in 1..Many : a = u[k]
  BY <1>0, LineOf DEF CInv
<1>2. Line(super', d, v)
  BY <1>0, WalkIs, WalkNow
<1>3. \A k \in 1..Many : u[k] # NoClass => u[k] \in AllClasses \ {c}
  <2>1. \A k \in 1..Many : u[k] \in AllClasses \cup {NoClass}
    BY <1>1 DEF Line
  <2>2. u[1] = d /\ d # c
    BY <1>1 DEF Line
  <2>3. \A a : Up(a) => a # c \/ a = NoClass
    BY DEF Up
  <2>4. c # NoClass
    BY ClassesAssumption DEF AllClasses
  <2>5. QED
    BY <1>1, <2>1, <2>2, <2>3, <2>4
<1> HIDE DEF u, v
<1>4. u = v
  <2>1. \A k \in 1..Many : u[k] # NoClass => super[u[k]] = super'[u[k]]
    BY <1>3
  <2>2. QED
    BY <1>1, <1>2, <2>1, SameLine
<1>5. Ancestors(d)' = A
  BY <1>4 DEF Ancestors, u, v
<1>6. \A a \in A : a \in AllClasses \ {c} /\ layout'[a] = layout[a]
  BY <1>1, <1>3
<1>7. layout'[d] = layout[d] /\ vtable'[d] = vtable[d]
  BY <1>0
<1>8. Apart(A, layout, layout[d].size) /\ Dispatches(u, slot, vtable[d])
  BY DEF CInv, Sound, u
<1> HIDE DEF A
<1>9. Apart(A, layout', layout'[d].size)
  BY <1>6, <1>7, <1>8 DEF Apart
<1>10. Dispatches(u, slot', vtable'[d])
  <2>1. \A k \in 1..Many : u[k] # NoClass => slot'[u[k]] = slot[u[k]]
    BY <1>3
  <2>2. \A k \in 1..Many : \A name : Has(u, slot', k, name) <=> Has(u, slot, k, name)
    BY <2>1 DEF Has
  <2>3. \A k \in 1..Many : \A j \in 1..k : j \in 1..Many /\ \A i \in 1..(j - 1) : i \in 1..Many
    BY Some
  <2>4. ASSUME NEW k \in 1..Many, u[k] # NoClass, NEW name \in DOMAIN slot'[u[k]]
        PROVE  /\ slot'[u[k]][name] \in DOMAIN vtable'[d]
               /\ \E j \in 1..k :
                    /\ Has(u, slot', j, name) /\ \A i \in 1..(j - 1) : ~ Has(u, slot', i, name)
                    /\ vtable'[d][slot'[u[k]][name]] = <<u[j], name>>
    <3>1. slot'[u[k]] = slot[u[k]] /\ name \in DOMAIN slot[u[k]]
      BY <2>1, <2>4
    <3>2. /\ slot[u[k]][name] \in DOMAIN vtable[d]
          /\ \E j \in 1..k :
               /\ Has(u, slot, j, name) /\ \A i \in 1..(j - 1) : ~ Has(u, slot, i, name)
               /\ vtable[d][slot[u[k]][name]] = <<u[j], name>>
      BY <1>8, <2>4, <3>1 DEF Dispatches
    <3>3. PICK j \in 1..k :
               /\ Has(u, slot, j, name) /\ \A i \in 1..(j - 1) : ~ Has(u, slot, i, name)
               /\ vtable[d][slot[u[k]][name]] = <<u[j], name>>
      BY <3>2
    <3>4. Has(u, slot', j, name) /\ \A i \in 1..(j - 1) : ~ Has(u, slot', i, name)
      BY <2>2, <2>3, <3>3
    <3>5. QED
      BY <1>7, <3>1, <3>2, <3>3, <3>4
  <2>5. QED
    BY <2>4 DEF Dispatches
<1>11. Apart(Ancestors(d), layout, layout[d].size)'
  BY <1>5, <1>9 DEF Apart
<1>12. Dispatches(Ancestry(d), slot, vtable[d])'
  <2>1. Dispatches(v, slot', vtable'[d])
    BY <1>4, <1>10
  <2>2. QED
    BY <2>1 DEF v
<1>13. QED
  BY <1>4, <1>11, <1>12 DEF u, v

(* The layout of a class is kept to its type. *)
LEMMA TabledStep ==
  ASSUME CInv, [Next]_vars
  PROVE  Tabled'
<1>1. CASE \E t \in Threads : Builds(t)
  <2>1. PICK t \in Threads : Builds(t)
    BY <1>1
  <2> DEFINE c == Top(t).name
             fields == declared[c].fields
             names == declared[c].methods
             made == LayOut(BaseSize(c), fields)
             table == VTable(c, Inherited(c), names)
  <2>2. /\ calls[t] # <<>> /\ UNCHANGED declared
        /\ layout' = [layout EXCEPT ![c] = made]
        /\ vtable' = [vtable EXCEPT ![c] = table]
        /\ slot' = [slot EXCEPT ![c] = Slots(table, names)]
    BY <2>1, BuildsIs
  <2>3. c \in Classes /\ c \in AllClasses
    BY <2>1, Unbuilt DEF CInv
  <2>4. fields \in Seq(Types) /\ names \in Seq(MethodNames)
    BY <2>3 DEF CInv, Tabled
  <2>5. super[c] = NoClass \/ super[c] \in AllClasses
    BY <2>3 DEF CInv, IInv, TypeOK
  <2>6. BaseSize(c) \in Nat /\ Inherited(c) \in Tables
    <3>1. <<>> \in Tables
      BY DEF Tables, Single
    <3>2. QED
      BY <2>5, <3>1 DEF BaseSize, Inherited, CInv, Tabled, Layouts
  <2>7. made \in Layouts
    <3>1. made.size \in Nat /\ made.at \in [DOMAIN fields -> Nat]
      BY <2>4, <2>6, OwnFields
    <3>2. DOMAIN fields = 1..Len(fields) /\ Len(fields) \in Nat
      BY <2>4
    <3>3. made.at \in Seq(Nat)
      BY <3>1, <3>2
    <3>4. made = [size |-> made.size, at |-> made.at]
      BY DEF LayOut
    <3>5. QED
      BY <3>1, <3>3, <3>4 DEF Layouts
  <2>8. /\ table \in Tables
        /\ \A name \in ToSet(names) : \E p \in DOMAIN table : table[p] = <<c, name>>
    BY <2>3, <2>4, <2>6, TableBuilt
  <2>9. \A name \in ToSet(names) : Position(table, name) \in DOMAIN table
    <3>1. ASSUME NEW name \in ToSet(names)
          PROVE  Position(table, name) \in DOMAIN table
      <4>1. PICK p \in DOMAIN table : table[p] = <<c, name>>
        BY <2>8
      <4>2. Position(table, table[p][2]) = p
        BY <2>8, SlotIs
      <4>3. table[p][2] = name
        BY <4>1
      <4>4. QED
        BY <4>2, <4>3
    <3>2. QED
      BY <3>1
  <2>10. layout' \in [AllClasses -> Layouts] /\ vtable' \in [AllClasses -> Tables]
    BY <2>2, <2>7, <2>8 DEF CInv, Tabled
  <2>11. slot' = [a \in AllClasses |-> IF a = c THEN Slots(table, names) ELSE slot[a]]
    BY <2>2 DEF CInv, Tabled
  <2>12. \A a \in AllClasses : vtable'[a] = IF a = c THEN table ELSE vtable[a]
    BY <2>2 DEF CInv, Tabled
  <2> HIDE DEF made, table, c, fields, names
  <2>13. \A a \in AllClasses : \A name \in DOMAIN slot'[a] : slot'[a][name] \in DOMAIN vtable'[a]
    <3>1. \A name \in DOMAIN Slots(table, names) : Slots(table, names)[name] \in DOMAIN table
      BY <2>9 DEF Slots
    <3>2. QED
      BY <2>11, <2>12, <3>1 DEF CInv, Tabled
  <2>14. QED
    BY <2>2, <2>10, <2>11, <2>13 DEF CInv, Tabled
<1>2. CASE ~ \E t \in Threads : Builds(t)
  <2>1. UNCHANGED <<declared, layout, vtable, slot>>
    BY <1>2, LaidOutBy
  <2>2. QED
    BY <2>1 DEF CInv, Tabled
<1>3. QED
  BY <1>1, <1>2

(* The class that a step lays out: its own fields follow those of the superclass. *)
LEMMA LaidApart ==
  ASSUME CInv, NEW t \in Threads, Builds(t), NEW c, c = Top(t).name
  PROVE  Apart(Ancestors(c), layout, layout[c].size)'
<1> DEFINE s == super[c]
           fields == declared[c].fields
           base == BaseSize(c)
           made == LayOut(base, fields)
           A == Ancestors(c)
           size(a, i) == TypeSize(declared[a].fields[i])
<1>1. /\ calls[t] # <<>>
      /\ UNCHANGED <<declared, super>> /\ layout' = [layout EXCEPT ![c] = made]
  BY BuildsIs
<1>2. c \in Classes /\ c \in AllClasses /\ c \notin built /\ built \subseteq AllClasses
  BY Unbuilt DEF CInv, IInv, TypeOK
<1>3. fields \in Seq(Types) /\ Up(s) /\ super \in [AllClasses -> AllClasses \cup {NoClass}]
  BY <1>2 DEF CInv, Tabled, Upward, IInv, TypeOK
<1>4. c # NoClass /\ \A a : Up(a) => a # c
  BY <1>2, ClassesAssumption DEF Up, AllClasses
<1>5. base = IF s = NoClass THEN 0 ELSE layout[s].size
  BY DEF BaseSize
<1>6. s # NoClass => s \in AllClasses /\ s \in built /\ s # c
  BY <1>2, <1>3, <1>4 DEF Up
<1>7. base \in Nat
  BY <1>5, <1>6 DEF CInv, Tabled, Layouts
<1>8. /\ layout'[c] = made
      /\ \A a \in AllClasses \ {c} : layout'[a] = layout[a]
  BY <1>1, <1>2 DEF CInv, Tabled
<1>9. \A a \in A : a = c \/ (s # NoClass /\ a \in Ancestors(s) /\ a # c /\ a \in AllClasses)
  <2> DEFINE u == Ancestry(c)
  <2>1. /\ Line(super, c, u)
        /\ \A k \in 1..Many : k = 1 \/ Up(u[k])
        /\ \A a : a \in A <=> a # NoClass /\ \E k \in 1..Many : a = u[k]
    BY <1>2, LineOf DEF CInv
  <2> HIDE DEF u, A, s
  <2>2. ASSUME NEW a \in A, a # c
        PROVE  s # NoClass /\ a \in Ancestors(s) /\ a \in AllClasses
    <3>1. PICK k \in 1..Many : a = u[k] /\ a # NoClass
      BY <2>1, <2>2
    <3>2. k # 1 /\ Up(a)
      BY <2>1, <2>2, <3>1 DEF Line
    <3>3. k - 1 \in 1..(Many - 1) /\ (k - 1) + 1 = k /\ k - 1 \in 1..Many
      BY <3>2, Some
    <3>4. s # NoClass
      <4>1. super[c] = NoClass => \A l \in 1..(Many - 1) : u[l + 1] = NoClass
        BY <1>4, <2>1, LineUp
      <4>2. QED
        BY <3>1, <3>3, <4>1 DEF s
    <3>5. /\ Line(super, s, Ancestry(s))
          /\ \A b : b \in Ancestors(s) <=> b # NoClass /\ \E l \in 1..Many : b = Ancestry(s)[l]
      BY <1>6, <3>4, LineOf DEF CInv
    <3>6. u[(k - 1) + 1] = Ancestry(s)[k - 1]
      BY <1>4, <2>1, <3>3, <3>5, LineUp DEF s
    <3>7. a \in Ancestors(s)
      BY <3>1, <3>3, <3>5, <3>6
    <3>8. QED
      BY <1>2, <3>1, <3>2, <3>4, <3>7 DEF Up
  <2>3. QED
    BY <1>4, <2>1, <2>2 DEF Up
<1>10. /\ made.size \in Nat /\ base <= made.size /\ made.at \in [DOMAIN fields -> Nat]
       /\ \A i \in DOMAIN fields :
            /\ base <= made.at[i] /\ made.at[i] % size(c, i) = 0
            /\ made.at[i] + size(c, i) <= made.size
            /\ \A j \in DOMAIN fields \ {i} :
                 \/ made.at[i] + size(c, i) <= made.at[j]
                 \/ made.at[j] + size(c, j) <= made.at[i]
  BY <1>3, <1>7, OwnFields
<1>11. DOMAIN made.at = DOMAIN fields
  BY <1>10
<1>12. s # NoClass => Apart(Ancestors(s), layout, base)
  BY <1>5, <1>6 DEF CInv, Sound
<1>13. \A a, i : size(a, i) \in Nat
  BY Sizes
<1>14. \A a \in AllClasses : \A i \in DOMAIN layout[a].at : layout[a].at[i] \in Nat
  BY DEF CInv, Tabled, Layouts
<1> HIDE DEF s, fields, base, made, A, size
<1>15. ASSUME NEW a \in A, NEW i \in DOMAIN layout'[a].at
       PROVE  /\ layout'[a].at[i] \in Nat /\ layout'[a].at[i] % size(a, i) = 0
              /\ layout'[a].at[i] + size(a, i) <= made.size
              /\ a = c => base <= layout'[a].at[i]
              /\ a # c => layout'[a].at[i] + size(a, i) <= base
  <2>1. CASE a = c
    BY <1>8, <1>10, <1>11, <1>15, <2>1
  <2>2. CASE a # c
    <3>1. a \in Ancestors(s) /\ layout'[a] = layout[a] /\ a \in AllClasses
      BY <1>8, <1>9, <2>2
    <3>2. layout'[a].at[i] % size(a, i) = 0 /\ layout'[a].at[i] + size(a, i) <= base
      BY <1>9, <1>12, <1>15, <2>2, <3>1 DEF Apart, size
    <3>3. layout'[a].at[i] \in Nat
      BY <1>14, <1>15, <3>1
    <3>4. QED
      BY <1>7, <1>10, <1>13, <2>2, <3>2, <3>3
  <2>3. QED
    BY <2>1, <2>2
<1>16. ASSUME NEW a \in A, NEW i \in DOMAIN layout'[a].at,
              NEW b \in A, NEW j \in DOMAIN layout'[b].at, <<b, j>> # <<a, i>>
       PROVE  \/ layout'[a].at[i] + size(a, i) <= layout'[b].at[j]
              \/ layout'[b].at[j] + size(b, j) <= layout'[a].at[i]
  <2>1. CASE a = c /\ b = c
    BY <1>8, <1>10, <1>11, <1>16, <2>1
  <2>2. CASE a = c /\ b # c
    <3>1. /\ base <= layout'[a].at[i] /\ layout'[b].at[j] + size(b, j) <= base
          /\ layout'[a].at[i] \in Nat /\ layout'[b].at[j] \in Nat
      BY <1>15, <1>16, <2>2
    <3>2. QED
      BY <1>7, <1>13, <3>1
  <2>3. CASE a # c /\ b = c
    <3>1. /\ base <= layout'[b].at[j] /\ layout'[a].at[i] + size(a, i) <= base
          /\ layout'[a].at[i] \in Nat /\ layout'[b].at[j] \in Nat
      BY <1>15, <1>16, <2>3
    <3>2. QED
      BY <1>7, <1>13, <3>1
  <2>4. CASE a # c /\ b # c
    <3>1. /\ a \in Ancestors(s) /\ layout'[a] = layout[a]
          /\ b \in Ancestors(s) /\ layout'[b] = layout[b] /\ s # NoClass
      BY <1>8, <1>9, <2>4
    <3>2. QED
      BY <1>12, <1>16, <3>1 DEF Apart, size
  <2>5. QED
    BY <2>1, <2>2, <2>3, <2>4
<1>17. Apart(A, layout', layout'[c].size)
  BY <1>8, <1>15, <1>16 DEF Apart, size
<1>18. Ancestors(c)' = A
  BY <1>1, WalkNow DEF Ancestors, A
<1>19. Apart(Ancestors(c), layout, layout[c].size)'
  <2>1. UNCHANGED declared
    BY <1>1
  <2>2. QED
    BY <1>17, <1>18, <2>1 DEF Apart
<1>20. QED
  BY <1>19

(* The table of the class that a step lays out dispatches to the class itself, *)
(* or as the table of its superclass does.                                     *)
LEMMA LaidDispatches ==
  ASSUME CInv, NEW t \in Threads, Builds(t), NEW c, c = Top(t).name
  PROVE  Dispatches(Ancestry(c), slot, vtable[c])'
<1> DEFINE s == super[c]
           names == declared[c].methods
           inherited == Inherited(c)
           table == VTable(c, inherited, names)
           u == Ancestry(c)
           v == Ancestry(s)
<1>1. /\ calls[t] # <<>>
      /\ UNCHANGED super
      /\ vtable' = [vtable EXCEPT ![c] = table]
      /\ slot' = [slot EXCEPT ![c] = Slots(table, names)]
  BY BuildsIs
<1>2. c \in Classes /\ c \in AllClasses /\ c \notin built /\ built \subseteq AllClasses
  BY Unbuilt DEF CInv, IInv, TypeOK
<1>3. names \in Seq(MethodNames) /\ Up(s)
  BY <1>2 DEF CInv, Tabled, Upward
<1>4. c # NoClass /\ \A a : Up(a) => a # c
  BY <1>2, ClassesAssumption DEF Up, AllClasses
<1>5. inherited = IF s = NoClass THEN <<>> ELSE vtable[s]
  BY DEF Inherited
<1>6. s # NoClass => s \in AllClasses /\ s \in built /\ s # c
  BY <1>2, <1>3, <1>4 DEF Up
<1>7. inherited \in Tables
  <2>1. <<>> \in Tables
    BY DEF Tables, Single
  <2>2. QED
    BY <1>5, <1>6, <2>1 DEF CInv, Tabled
<1>8. /\ vtable'[c] = table /\ slot'[c] = Slots(table, names)
      /\ \A a \in AllClasses \ {c} : slot'[a] = slot[a]
  BY <1>1, <1>2 DEF CInv, Tabled
<1>9. /\ table \in Tables /\ Len(inherited) <= Len(table)
      /\ \A p \in DOMAIN inherited :
           table[p] = IF inherited[p][2] \in ToSet(names)
                      THEN <<c, inherited[p][2]>> ELSE inherited[p]
      /\ \A name \in ToSet(names) : \E p \in DOMAIN table : table[p] = <<c, name>>
  BY <1>2, <1>3, <1>7, TableBuilt
<1>10. /\ Line(super, c, u)
       /\ \A k \in 1..Many : k = 1 \/ Up(u[k])
  BY <1>2, LineOf DEF CInv
<1>11. s # NoClass => Line(super, s, v) /\ Dispatches(v, slot, vtable[s])
  BY <1>6, LineOf DEF CInv, Sound
<1>12. s = NoClass => \A l \in 1..(Many - 1) : u[l + 1] = NoClass
  <2> HIDE DEF u
  <2>1. QED
    BY <1>4, <1>10, LineUp
<1>13. s # NoClass => \A l \in 1..(Many - 1) : u[l + 1] = v[l]
  <2> HIDE DEF u, v
  <2>1. QED
    BY <1>4, <1>10, <1>11, LineUp
<1> HIDE DEF s, names, inherited, table, u, v
<1>14. \A name \in ToSet(names) :
         Position(table, name) \in DOMAIN table /\ table[Position(table, name)] = <<c, name>>
  <2>1. ASSUME NEW name \in ToSet(names)
        PROVE  Position(table, name) \in DOMAIN table /\ table[Position(table, name)] = <<c, name>>
    <3>1. PICK p \in DOMAIN table : table[p] = <<c, name>>
      BY <1>9
    <3>2. Position(table, table[p][2]) = p
      BY <1>9, SlotIs
    <3>3. table[p][2] = name
      BY <3>1
    <3>4. QED
      BY <3>1, <3>2, <3>3
  <2>2. QED
    BY <2>1
<1>15. /\ DOMAIN slot'[c] = ToSet(names)
       /\ \A name \in ToSet(names) : slot'[c][name] = Position(table, name)
  BY <1>8 DEF Slots
<1>16. ASSUME NEW l \in 1..(Many - 1)
       PROVE  l + 1 \in 1..Many /\ l + 1 # 1 /\ (u[l + 1] # NoClass =>
                /\ s # NoClass /\ u[l + 1] = v[l] /\ u[l + 1] # c /\ slot'[u[l + 1]] = slot[v[l]])
  <2>1. l + 1 \in 1..Many /\ l + 1 # 1
    BY Some
  <2>2. Up(u[l + 1])
    BY <1>10, <2>1
  <2>3. QED
    BY <1>2, <1>4, <1>8, <1>12, <1>13, <2>1, <2>2 DEF Up
<1>17. Many \in Nat \ {0} /\ u[1] = c
  BY <1>10, Some DEF Line
<1>18. \A name : Has(u, slot', 1, name) <=> name \in ToSet(names)
  BY <1>4, <1>15, <1>17 DEF Has
<1>19. s # NoClass => \A l \in 1..(Many - 1) : \A name : Has(u, slot', l + 1, name) <=> Has(v, slot, l, name)
  BY <1>13, <1>16 DEF Has
<1>20. ASSUME NEW k \in 1..Many, u[k] # NoClass, NEW name \in DOMAIN slot'[u[k]]
       PROVE  /\ slot'[u[k]][name] \in DOMAIN table
              /\ \E j \in 1..k :
                   /\ Has(u, slot', j, name) /\ \A i \in 1..(j - 1) : ~ Has(u, slot', i, name)
                   /\ table[slot'[u[k]][name]] = <<u[j], name>>
  <2>1. CASE k = 1
    <3>1. 1 \in 1..k /\ Has(u, slot', 1, name) /\ (\A i \in 1..(1 - 1) : ~ Has(u, slot', i, name))
      BY <1>15, <1>17, <1>18, <1>20, <2>1
    <3>2. /\ slot'[u[k]][name] \in DOMAIN table
          /\ table[slot'[u[k]][name]] = <<u[1], name>>
      BY <1>14, <1>15, <1>17, <1>20, <2>1
    <3>3. QED
      BY <3>1, <3>2
  <2>2. CASE k # 1
    <3> DEFINE l == k - 1
               p == slot'[u[k]][name]
    <3>1. l \in 1..(Many - 1) /\ l + 1 = k /\ l \in 1..Many /\ 1 \in 1..k
      BY <1>17, <2>2
    <3> HIDE DEF l
    <3>2. s # NoClass /\ u[k] = v[l] /\ slot'[u[k]] = slot[v[l]]
      BY <1>16, <1>20, <3>1
    <3>3. inherited = vtable[s] /\ Dispatches(v, slot, inherited)
      BY <1>5, <1>11, <3>2
    <3>4. /\ p \in DOMAIN inherited
          /\ \E j \in 1..l :
               /\ Has(v, slot, j, name) /\ \A i \in 1..(j - 1) : ~ Has(v, slot, i, name)
               /\ inherited[p] = <<v[j], name>>
      <4>1. p = slot[v[l]][name] /\ v[l] # NoClass /\ name \in DOMAIN slot[v[l]]
        BY <1>20, <3>2
      <4> HIDE DEF p
      <4>2. \A n \in DOMAIN slot[v[l]] :
              /\ slot[v[l]][n] \in DOMAIN inherited
              /\ \E j \in 1..l :
                   /\ Has(v, slot, j, n) /\ \A i \in 1..(j - 1) : ~ Has(v, slot, i, n)
                   /\ inherited[slot[v[l]][n]] = <<v[j], n>>
        BY <3>1, <3>3, <4>1 DEF Dispatches
      <4>3. QED
        BY <4>1, <4>2
    <3>5. PICK j \in 1..l :
               /\ Has(v, slot, j, name) /\ \A i \in 1..(j - 1) : ~ Has(v, slot, i, name)
               /\ inherited[p] = <<v[j], name>>
      BY <3>4
    <3>6. p \in DOMAIN table
      <4>1. /\ DOMAIN inherited = 1..Len(inherited) /\ Len(inherited) \in Nat
            /\ DOMAIN table = 1..Len(table) /\ Len(table) \in Nat
        BY <1>7, <1>9 DEF Tables
      <4>2. QED
        BY <1>9, <3>4, <4>1
    <3>7. table[p] = IF name \in ToSet(names) THEN <<c, name>> ELSE <<v[j], name>>
      BY <1>9, <3>4, <3>5
    <3>8. CASE name \in ToSet(names)
      <4>1. Has(u, slot', 1, name) /\ (\A i \in 1..(1 - 1) : ~ Has(u, slot', i, name))
        BY <1>18, <3>8
      <4>2. table[p] = <<u[1], name>>
        BY <1>17, <3>7, <3>8
      <4> HIDE DEF p
      <4>3. \E m \in 1..k :
                   /\ Has(u, slot', m, name) /\ \A i \in 1..(m - 1) : ~ Has(u, slot', i, name)
                   /\ table[p] = <<u[m], name>>
        BY <3>1, <4>1, <4>2
      <4>4. QED
        BY <3>6, <4>3 DEF p
    <3>9. CASE name \notin ToSet(names)
      <4> DEFINE m == j + 1
      <4>1. j \in 1..(Many - 1) /\ m \in 1..k /\ m - 1 = j
        BY <1>17, <3>1
      <4>2. Has(u, slot', m, name)
        BY <1>19, <3>2, <3>5, <4>1
      <4>3. ASSUME NEW i \in 1..(m - 1)
            PROVE  ~ Has(u, slot', i, name)
        <5>1. CASE i = 1
          BY <1>18, <3>9, <5>1
        <5>2. CASE i # 1
          <6>1. i - 1 \in 1..(Many - 1) /\ (i - 1) + 1 = i /\ i - 1 \in 1..(j - 1)
            BY <1>17, <4>1, <5>2
          <6>2. Has(u, slot', (i - 1) + 1, name) <=> Has(v, slot, i - 1, name)
            BY <1>19, <3>2, <6>1
          <6>3. ~ Has(v, slot, i - 1, name)
            BY <3>5, <6>1
          <6>4. QED
            BY <6>1, <6>2, <6>3
        <5>3. QED
          BY <5>1, <5>2
      <4>4. table[p] = <<u[m], name>>
        BY <1>13, <3>2, <3>7, <3>9, <4>1
      <4> HIDE DEF p, m
      <4>5. \E n \in 1..k :
                   /\ Has(u, slot', n, name) /\ \A i \in 1..(n - 1) : ~ Has(u, slot', i, name)
                   /\ table[p] = <<u[n], name>>
        BY <4>1, <4>2, <4>3, <4>4
      <4>6. QED
        BY <3>6, <4>5 DEF p
    <3>10. QED
      BY <3>8, <3>9
  <2>3. QED
    BY <2>1, <2>2
<1>21. Dispatches(u, slot', vtable'[c])
  BY <1>8, <1>20 DEF Dispatches
<1>22. Ancestry(c)' = u
  BY <1>1, WalkNow DEF u
<1>23. Dispatches(Ancestry(c)', slot', vtable'[c])
  BY <1>21, <1>22
<1>24. QED
  BY <1>23

(* Every step keeps the layouts apart and the tables exact. *)
LEMMA SoundStep ==
  ASSUME CInv, [Next]_vars
  PROVE  Sound'
<1>1. IInv /\ Upward /\ Tabled /\ Sound /\ IInv'
  BY NextStep DEF CInv
<1>2. super' \in [AllClasses -> AllClasses \cup {NoClass}]
  <2>1. TypeOK'
    BY <1>1 DEF IInv
  <2>2. QED
    BY <2>1 DEF TypeOK, AllClasses
<1>3. SUFFICES ASSUME NEW d \in built'
               PROVE  /\ Apart(Ancestors(d), layout, layout[d].size)'
                      /\ Dispatches(Ancestry(d), slot, vtable[d])'
  BY DEF Sound
<1>4. d \in built \/ \E t \in Threads : Builds(t) /\ d = Top(t).name
  BY <1>3, BuiltBefore
<1>5. CASE d \in built /\ \E t \in Threads : Builds(t)
  <2>1. PICK t \in Threads : Builds(t)
    BY <1>5
  <2>2. PICK c : c = Top(t).name
    OBVIOUS
  <2>3. c \in AllClasses /\ c \notin built
    BY <1>1, <2>1, <2>2, Unbuilt
  <2>4. /\ UNCHANGED <<declared, super>>
        /\ \E x : layout' = [layout EXCEPT ![c] = x]
        /\ \E x : vtable' = [vtable EXCEPT ![c] = x]
        /\ \E x : slot' = [slot EXCEPT ![c] = x]
    BY <2>1, <2>2, BuildsIs
  <2>5. \A a \in AllClasses \ {c} : /\ super'[a] = super[a] /\ layout'[a] = layout[a]
                                    /\ vtable'[a] = vtable[a] /\ slot'[a] = slot[a]
    BY <1>1, <2>4 DEF Tabled
  <2>6. QED
    BY <1>2, <1>5, <2>3, <2>4, <2>5, Undisturbed
<1>6. CASE d \in built /\ \E t \in Threads : SetsSuper(t)
  <2>1. PICK t \in Threads : SetsSuper(t)
    BY <1>6
  <2>2. PICK c : c = Top(t).name
    OBVIOUS
  <2>3. c \in AllClasses /\ c \notin built
    BY <1>1, <2>1, <2>2, Unbuilt
  <2>4. /\ UNCHANGED <<declared, layout, vtable, slot>>
        /\ \E x : super' = [super EXCEPT ![c] = x]
    BY <2>1, <2>2 DEF SetsSuper
  <2>5. \A a \in AllClasses \ {c} : super'[a] = super[a]
    BY <1>1, <2>4 DEF IInv, TypeOK
  <2>6. QED
    BY <1>2, <1>6, <2>3, <2>4, <2>5, Undisturbed
<1>7. CASE d \in built /\ ~ (\E t \in Threads : SetsSuper(t)) /\ ~ \E t \in Threads : Builds(t)
  <2>1. UNCHANGED <<declared, super, layout, vtable, slot>>
    BY <1>7, LaidOutBy, SuperBy
  <2>3. Ancestry(d)' = Ancestry(d)
    BY <2>1, WalkNow
  <2>4. Apart(Ancestors(d), layout, layout[d].size) /\ Dispatches(Ancestry(d), slot, vtable[d])
    BY <1>1, <1>7 DEF Sound
  <2>5. Ancestors(d)' = Ancestors(d)
    BY <2>3 DEF Ancestors
  <2>6. Apart(Ancestors(d), layout, layout[d].size)'
    BY <2>1, <2>4, <2>5 DEF Apart
  <2>7. Dispatches(Ancestry(d), slot, vtable[d])'
    <3>1. Dispatches(Ancestry(d)', slot', vtable'[d])
      BY <2>1, <2>3, <2>4
    <3>2. QED
      BY <3>1
  <2>8. QED
    BY <2>6, <2>7
<1>8. CASE d \notin built
  <2>1. PICK t \in Threads : Builds(t) /\ d = Top(t).name
    BY <1>4, <1>8
  <2>2. QED
    BY <2>1, LaidApart, LaidDispatches
<1>9. QED
  BY <1>5, <1>6, <1>7, <1>8

(* At the start only Object is laid out. *)
LEMMA LaidAtFirst ==
  ASSUME Init
  PROVE  Upward /\ Tabled /\ Sound
<1>1. Pending = {}
  BY DEF Init, Pending
<1>2. Upward
  BY <1>1, ClassesAssumption DEF Init, Upward, Up, NoConstant, AllClasses
<1>3. \A c \in Classes : declared[c].fields \in Seq(Types) /\ declared[c].methods \in Seq(MethodNames)
  BY ClassesAssumption DEF Init, Range
<1>4. Object \in AllClasses /\ \A c \in built : c = Object
  BY DEF Init, AllClasses
<1>5. <<<<Object, "equals">>>> \in Tables /\ <<>> \in Tables
  <2>1. <<Object, "equals">> \in Methods
    BY <1>4, ClassesAssumption DEF Methods
  <2>2. <<<<Object, "equals">>>> \in Seq(Methods) /\ DOMAIN <<<<Object, "equals">>>> = {1}
    BY <2>1
  <2>3. QED
    BY <2>2 DEF Tables, Single
<1>6. layout \in [AllClasses -> Layouts]
  BY DEF Init, EmptyLayout, Layouts
<1>7. vtable = [c \in AllClasses |-> IF c = Object THEN <<<<Object, "equals">>>> ELSE <<>>]
  BY DEF Init
<1>8. slot = [c \in AllClasses |-> IF c = Object THEN [name \in {"equals"} |-> 1] ELSE <<>>]
  BY DEF Init
<1>9. vtable \in [AllClasses -> Tables]
  BY <1>5, <1>7
<1>10. Tabled
  BY <1>3, <1>6, <1>7, <1>8, <1>9 DEF Tabled
<1>11. ASSUME NEW c \in built
       PROVE  /\ Apart(Ancestors(c), layout, layout[c].size)
              /\ Dispatches(Ancestry(c), slot, vtable[c])
  <2>1. c = Object /\ Object # NoClass
    BY <1>4, <1>11, ClassesAssumption
  <2> DEFINE u == Ancestry(Object)
  <2>2. super \in [AllClasses -> AllClasses \cup {NoClass}] /\ super[Object] = NoClass
    BY <1>4 DEF Init
  <2>3. Line(super, Object, u)
    BY <1>4, <2>2, WalkIs, WalkNow
  <2> HIDE DEF u
  <2>4. u[1] = Object /\ \A k \in 1..Many : k # 1 => u[k] = NoClass
    <3>1. \A k \in 1..(Many - 1) : u[k + 1] = NoClass
      BY <2>1, <2>2, <2>3, LineUp
    <3>2. \A k \in 1..Many : k # 1 => k - 1 \in 1..(Many - 1) /\ (k - 1) + 1 = k
      BY Some
    <3>3. QED
      BY <2>3, <3>1, <3>2 DEF Line
  <2>5. \A a \in AllClasses : DOMAIN layout[a].at = {}
    BY DEF Init, EmptyLayout
  <2>6. Ancestors(Object) \subseteq AllClasses
    <3>1. u \in [1..Many -> AllClasses \cup {NoClass}]
      BY <2>3 DEF Line
    <3>2. QED
      BY <3>1 DEF Ancestors, ToSet, u
  <2>7. Apart(Ancestors(Object), layout, layout[Object].size)
    BY <2>5, <2>6 DEF Apart
  <2>8. Dispatches(u, slot, vtable[Object])
    <3>1. vtable[Object] = <<<<Object, "equals">>>> /\ slot[Object] = [name \in {"equals"} |-> 1]
      BY <1>4, <1>7, <1>8
    <3>2. 1 \in 1..1 /\ \A i \in 1..(1 - 1) : FALSE
      OBVIOUS
    <3>3. Has(u, slot, 1, "equals") /\ slot[Object]["equals"] = 1
      BY <2>1, <2>4, <3>1 DEF Has
    <3>4. DOMAIN vtable[Object] = {1} /\ vtable[Object][1] = <<Object, "equals">> /\ DOMAIN slot[Object] = {"equals"}
      BY <3>1
    <3>5. QED
      BY <2>4, <3>2, <3>3, <3>4 DEF Dispatches
  <2>9. QED
    BY <2>1, <2>7, <2>8 DEF u
<1>12. QED
  BY <1>2, <1>10, <1>11 DEF Sound

(* The invariant with the layouts. *)
LEMMA LaidOutInvariance == Spec => []CInv
<1>1. Init => CInv
  BY InitStep, LaidAtFirst DEF CInv
<1>2. CInv /\ [Next]_vars => CInv'
  <2>1. SUFFICES ASSUME CInv, [Next]_vars
                 PROVE  CInv'
    OBVIOUS
  <2>2. IInv' /\ Upward' /\ Tabled' /\ Sound'
    BY <2>1, NextStep, UpwardStep, TabledStep, SoundStep DEF CInv
  <2>3. QED
    BY <2>2 DEF CInv
<1>3. QED
  BY <1>1, <1>2, PTL DEF Spec

(* An object of a linked class is as large as every field of the class and of its   *)
(* superclasses needs, each at an offset its type may be read at, and no two fields *)
(* share a byte, whichever threads link which classes in which order.               *)
THEOREM LayoutExactCorrect == Spec => []LayoutExact
<1>1. ASSUME CInv
      PROVE  LayoutExact
  <2>1. SUFFICES ASSUME NEW class \in AllClasses, state[class] = "LINKED"
                 PROVE  LET fields == UNION {{<<c, i>> : i \in DOMAIN layout[c].at} :
                                                c \in Ancestors(class)}
                            Size(f) == TypeSize(declared[f[1]].fields[f[2]])
                            Offset(f) == layout[f[1]].at[f[2]]
                        IN  \A f \in fields :
                              /\ Offset(f) % Size(f) = 0
                              /\ Offset(f) + Size(f) <= layout[class].size
                              /\ \A g \in fields \ {f} :
                                   \/ Offset(f) + Size(f) <= Offset(g)
                                   \/ Offset(g) + Size(g) <= Offset(f)
    BY DEF LayoutExact
  <2> DEFINE A == Ancestors(class)
             Width(f) == TypeSize(declared[f[1]].fields[f[2]])
             Place(f) == layout[f[1]].at[f[2]]
             all == UNION {{<<c, i>> : i \in DOMAIN layout[c].at} : c \in A}
  <2>2. Apart(A, layout, layout[class].size)
    BY <1>1, <2>1 DEF CInv, Upward, Sound
  <2> HIDE DEF A
  <2>3. ASSUME NEW f \in all
        PROVE  /\ Place(f) % Width(f) = 0
               /\ Place(f) + Width(f) <= layout[class].size
               /\ \A g \in all \ {f} :
                    \/ Place(f) + Width(f) <= Place(g)
                    \/ Place(g) + Width(g) <= Place(f)
    <3>1. PICK c \in A : \E i \in DOMAIN layout[c].at : f = <<c, i>>
      BY <2>3
    <3>2. PICK i \in DOMAIN layout[c].at : f = <<c, i>>
      BY <3>1
    <3>3. /\ layout[c].at[i] % TypeSize(declared[c].fields[i]) = 0
          /\ layout[c].at[i] + TypeSize(declared[c].fields[i]) <= layout[class].size
      BY <2>2, <3>2 DEF Apart
    <3>4. ASSUME NEW g \in all \ {f}
          PROVE  \/ Place(f) + Width(f) <= Place(g)
                 \/ Place(g) + Width(g) <= Place(f)
      <4>1. PICK e \in A : \E j \in DOMAIN layout[e].at : g = <<e, j>>
        BY <3>4
      <4>2. PICK j \in DOMAIN layout[e].at : g = <<e, j>>
        BY <4>1
      <4>3. <<e, j>> # <<c, i>>
        BY <3>2, <3>4, <4>2
      <4>4. \/ layout[c].at[i] + TypeSize(declared[c].fields[i]) <= layout[e].at[j]
            \/ layout[e].at[j] + TypeSize(declared[e].fields[j]) <= layout[c].at[i]
        BY <2>2, <3>2, <4>2, <4>3 DEF Apart
      <4>5. QED
        BY <3>2, <4>2, <4>4
    <3>5. QED
      BY <3>2, <3>3, <3>4
  <2>4. QED
    BY <2>3 DEF A
<1>2. QED
  BY <1>1, LaidOutInvariance, PTL

(* A call of a method on an object of a linked class finds the declaration nearest to *)
(* the class, through the index that any superclass's method of the name keeps.       *)
THEOREM DispatchMostDerivedCorrect == Spec => []DispatchMostDerived
<1>1. ASSUME CInv
      PROVE  TablesOK
  <2>1. ASSUME NEW c \in AllClasses
        PROVE  layout[c].size \in Nat /\ ToSet(vtable[c]) \subseteq AllClasses \X MethodNames
    <3>1. layout[c] \in Layouts /\ vtable[c] \in Seq(Methods)
      BY <1>1 DEF CInv, Tabled, Tables
    <3>2. QED
      BY <3>1 DEF Layouts, Methods, ToSet
  <2>2. QED
    BY <1>1, <2>1 DEF TablesOK, CInv, Tabled
<1>2. ASSUME CInv, NEW class \in AllClasses, state[class] = "LINKED",
             NEW c \in Ancestors(class), NEW name \in DOMAIN slot[c]
      PROVE  LET line == Ancestry(class)
                 I == {i \in 1..Len(line) : line[i] # NoClass /\ name \in DOMAIN slot[line[i]]}
             IN  /\ slot[c][name] \in DOMAIN vtable[class]
                 /\ I # {}
                 /\ vtable[class][slot[c][name]] = <<line[Min(I)], name>>
  <2> DEFINE line == Ancestry(class)
             I == {i \in 1..Len(line) : line[i] # NoClass /\ name \in DOMAIN slot[line[i]]}
  <2>1. /\ DOMAIN line = 1..Many /\ \E k \in 1..Many : c = line[k]
        /\ c # NoClass
    BY <1>2, LineOf DEF CInv
  <2>2. Dispatches(line, slot, vtable[class])
    BY <1>2 DEF CInv, Upward, Sound
  <2>3. Many \in Nat \ {0}
    BY Some
  <2> HIDE DEF line
  <2>4. PICK k \in 1..Many : c = line[k]
    BY <2>1
  <2>5. /\ slot[c][name] \in DOMAIN vtable[class]
        /\ \E j \in 1..k :
             /\ Has(line, slot, j, name) /\ \A i \in 1..(j - 1) : ~ Has(line, slot, i, name)
             /\ vtable[class][slot[c][name]] = <<line[j], name>>
    BY <1>2, <2>1, <2>2, <2>4 DEF Dispatches
  <2>6. PICK j \in 1..k :
             /\ Has(line, slot, j, name) /\ \A i \in 1..(j - 1) : ~ Has(line, slot, i, name)
             /\ vtable[class][slot[c][name]] = <<line[j], name>>
    BY <2>5
  <2>7. Len(line) = Many
    BY <2>1, <2>3
  <2>8. j \in I /\ \A i \in I : j <= i /\ i \in Nat
    BY <2>3, <2>6, <2>7 DEF Has
  <2> HIDE DEF I
  <2>9. Min(I) = j
    <3>1. \A x \in I : (\A y \in I : x <= y) => x = j
      BY <2>8
    <3>2. QED
      BY <2>8, <3>1 DEF Min
  <2>10. QED
    BY <2>5, <2>6, <2>8, <2>9 DEF line, I
<1>3. ASSUME CInv
      PROVE  DispatchMostDerived
  <2>1. ASSUME NEW class \in AllClasses, state[class] = "LINKED",
               NEW c \in Ancestors(class), NEW name \in DOMAIN slot[c]
        PROVE  LET line == Ancestry(class)
                   first == SelectInSeq(line, LAMBDA a : a # NoClass /\ name \in DOMAIN slot[a])
               IN  /\ slot[c][name] \in DOMAIN vtable[class]
                   /\ vtable[class][slot[c][name]] = <<line[first], name>>
    BY <1>2, <1>3, <2>1 DEF SelectInSeq
  <2>2. QED
    BY <1>1, <1>3, <2>1 DEF DispatchMostDerived
<1>4. QED
  BY <1>3, LaidOutInvariance, PTL

-------------------------------------------------------------------------------
(* What the loads have given: ResultsStand.                                *)

(* The load of a class has given it, or has refused it. *)
Owed(name, result) == result = name \/ (result = NoClass /\ name \in refused)

(* What was given for a declared superclass is what is held, set and laid out below, and *)
(* what was given for an array's base is the base that others find.                      *)
Results ==
  /\ \A c \in refused : state[c] # "INITIALIZED"
  /\ \A c \in Classes : super[c] \in {NoClass, declared[c].super}
  /\ \A c \in AllClasses : constant[c] # NoConstant => Owed(c, constant[c].class)
  /\ \A k \in Pending :
       /\ k.pc = "use" => Owed(declared[k.name].super, k.held.class)
       /\ k.pc = "lay out" => Owed(declared[k.name].super, super[k.name])
  /\ \A c \in built \ {Object} : Owed(declared[c].super, super[c])
  /\ \A t \in Threads : calls[t] # <<>> =>
       /\ Top(t).pc = "constant" => Owed(declared[Top(t).name].super, returned[t])
       /\ Top(t).pc = "emplace" => returned[t] \in {NoClass, Freed, BaseOf[Top(t).name]}
  /\ ArraysBased
  /\ \A t \in Threads : returned[t] \in Arrays => arrays[returned[t]] # NoThread

(* The call that is innermost after a step, where the one it made has returned. *)
LEMMA TopAfter ==
  ASSUME IInv, [Next]_vars, NEW v \in Threads, calls'[v] # <<>>,
         Last(calls'[v]).pc \in {"constant", "emplace"}
  PROVE  \/ calls'[v] = calls[v] /\ returned'[v] = returned[v]
         \/ \E class :
              /\ Gives(v, class) /\ returned'[v] = class
              /\ Below(declared, Last(calls'[v]), Top(v))
              /\ Placed(declared, Last(calls'[v])) /\ Last(calls'[v]) \in Calls
<1>1. calls \in [Threads -> Seq(Calls)] /\ returned \in [Threads -> Names \cup {NoClass, Freed}]
  BY DEF IInv, TypeOK
<1>2. ASSUME NEW t \in Threads, MovesOn(t), UNCHANGED results
      PROVE  calls'[v] = calls[v] /\ returned'[v] = returned[v]
  <2>1. returned' = returned
    BY <1>2 DEF results
  <2>2. CASE v # t
    BY <1>1, <1>2, <2>1, <2>2 DEF MovesOn, Goto, Hold, Recurse
  <2>3. CASE v = t
    <3>1. CASE calls[t] = <<>> /\ \E name : calls' = [calls EXCEPT ![t] = <<Call(name)>>]
      <4>1. PICK name : calls' = [calls EXCEPT ![t] = <<Call(name)>>]
        BY <3>1
      <4>2. calls'[v] = <<Call(name)>>
        BY <1>1, <2>3, <4>1
      <4>3. Last(calls'[v]) = Call(name)
        BY <4>2 DEF Last
      <4>4. QED
        BY <4>3 DEF Call
    <3>2. CASE calls[t] # <<>> /\ \E x : /\ x.pc \notin {"constant", "emplace"}
                                        /\ calls' = [calls EXCEPT ![t] = Append(Front(@), x)]
      <4>1. PICK x : /\ x.pc \notin {"constant", "emplace"}
                     /\ calls' = [calls EXCEPT ![t] = Append(Front(@), x)]
        BY <3>2
      <4> DEFINE f == Front(calls[t])
                 T == Calls \cup {x}
      <4>2. f \in Seq(Calls)
        BY <1>1, <3>2, FrontIs
      <4>3. calls'[v] = Append(f, x)
        BY <1>1, <2>3, <4>1
      <4>4. f \in Seq(T) /\ x \in T
        BY <4>2
      <4> HIDE DEF f, T
      <4>5. Last(Append(f, x)) = x
        BY <4>4 DEF Last
      <4>6. QED
        BY <4>1, <4>3, <4>5
    <3>3. CASE calls[t] # <<>> /\ \E pc, name : Recurse(t, pc, name)
      <4>1. PICK pc, name : Recurse(t, pc, name)
        BY <3>3
      <4> DEFINE f == Front(calls[t])
                 x == [Last(calls[t]) EXCEPT !.pc = pc]
                 y == Call(name)
                 T == Calls \cup {x, y}
      <4>2. f \in Seq(Calls)
        BY <1>1, <3>3, FrontIs
      <4>3. calls'[v] = f \o <<x, y>>
        BY <1>1, <2>3, <4>1 DEF Recurse
      <4>4. f \in Seq(T) /\ x \in T /\ y \in T
        BY <4>2
      <4>5. y.pc = "find"
        BY DEF Call
      <4> HIDE DEF f, x, y, T
      <4>6. Last(f \o <<x, y>>) = y
        BY <4>4 DEF Last
      <4>7. QED
        BY <4>3, <4>5, <4>6
    <3>4. CASE calls[t] # <<>> /\ \E pc : pc \notin {"constant", "emplace"} /\ Goto(t, pc)
      <4>1. PICK pc : pc \notin {"constant", "emplace"} /\ Goto(t, pc)
        BY <3>4
      <4>2. Last(calls[t]) \in Calls
        BY <1>1, <3>4, FrontIs
      <4>3. [Last(calls[t]) EXCEPT !.pc = pc].pc = pc
        BY <4>2 DEF Calls
      <4>4. QED
        BY <3>2, <3>4, <4>1, <4>3 DEF Goto
    <3>5. CASE calls[t] # <<>> /\ \E held : Hold(t, "use", held)
      <4>1. PICK held : Hold(t, "use", held)
        BY <3>5
      <4>2. Last(calls[t]) \in Calls
        BY <1>1, <3>5, FrontIs
      <4>3. [Last(calls[t]) EXCEPT !.pc = "use", !.held = held].pc = "use"
        BY <4>2 DEF Calls
      <4>4. QED
        BY <3>2, <3>5, <4>1, <4>3 DEF Hold
    <3>6. QED
      BY <1>2, <3>1, <3>3, <3>4, <3>5 DEF MovesOn
  <2>4. QED
    BY <2>2, <2>3
<1>3. ASSUME NEW t \in Threads, NEW class, Gives(t, class)
      PROVE  \/ calls'[v] = calls[v] /\ returned'[v] = returned[v]
             \/ /\ Gives(v, class) /\ returned'[v] = class
                /\ Below(declared, Last(calls'[v]), Top(v))
                /\ Placed(declared, Last(calls'[v])) /\ Last(calls'[v]) \in Calls
  <2>1. /\ calls' = [calls EXCEPT ![t] = Front(calls[t])] /\ calls[t] # <<>>
        /\ returned' = [returned EXCEPT ![t] = class]
    BY <1>3 DEF Gives, Return
  <2>2. CASE v # t
    BY <1>1, <2>1, <2>2
  <2>3. CASE v = t
    <3> DEFINE q == calls[t]
               s == Front(q)
               n == Len(q)
    <3>1. StackOK(declared, q) /\ Top(t) = Last(q)
      BY <2>1, InCalls
    <3>2. calls'[v] = s /\ returned'[v] = class
      BY <1>1, <2>1, <2>3
    <3>3. /\ StackOK(declared, s) /\ Len(s) = n - 1
          /\ n - 1 \in 1..(n - 1) /\ Last(s) = q[n - 1] /\ Below(declared, Last(s), Last(q))
          /\ \A i \in 1..(n - 1) : s[i] = q[i]
      <4>1. q # <<>> /\ s # <<>>
        BY <2>1, <3>2
      <4>2. QED
        BY <3>1, <4>1, CallLeft
    <3>4. Placed(declared, Last(s)) /\ Last(s) \in Calls
      <4> HIDE DEF s, q, n
      <4>1. n - 1 \in 1..Len(s) /\ Last(s) = s[n - 1]
        BY <3>3
      <4>2. QED
        BY <3>3, <4>1 DEF StackOK
    <3>5. QED
      BY <1>3, <2>3, <3>1, <3>2, <3>3, <3>4
  <2>4. QED
    BY <2>2, <2>3
<1>4. CASE UNCHANGED <<calls, results>>
  BY <1>4 DEF results
<1>5. QED
  BY <1>2, <1>3, <1>4, ResultsBy

(* No class is initialised again, and what has been refused remains so. *)
LEMMA StaysGiven ==
  ASSUME IInv, [Next]_vars
  PROVE  /\ UNCHANGED declared /\ refused \subseteq refused'
         /\ \A c \in AllClasses : state[c] # "INITIALIZED" => state'[c] # "INITIALIZED"
         /\ \A a \in Arrays : arrays[a] # NoThread => arrays'[a] # NoThread
<1>1. UNCHANGED declared
  BY DEF Next, Step, Awake, WakeSpuriously, vars, Ask, ModuleLoaded, FindDeclared, LeavesWait,
     Check, CheckAgain, Mark, LinkCommon, Super, AssignConstant, UseConstant, LayOutClass,
     Linked, FindArray, EmplaceArray
<1>2. refused \subseteq refused'
  BY ResultsBy DEF results, Gives, Return
<1>3. \/ UNCHANGED state
      \/ \E t \in Threads, now \in {"LINKING", "LINKED"} : state' = [state EXCEPT ![Top(t).name] = now]
  BY DEF Next, Step, Awake, WakeSpuriously, vars, Ask, ModuleLoaded, FindDeclared, LeavesWait,
     Check, CheckAgain, Mark, LinkCommon, Super, AssignConstant, UseConstant, LayOutClass,
     Linked, FindArray, EmplaceArray
<1>4. \A c \in AllClasses : state[c] # "INITIALIZED" => state'[c] # "INITIALIZED"
  BY <1>3 DEF IInv, TypeOK
<1>5. \/ UNCHANGED arrays
      \/ \E t \in Threads : arrays' = [arrays EXCEPT ![Top(t).name] = Emplaced(@, t)]
  BY DEF Next, Step, Awake, WakeSpuriously, vars, Ask, ModuleLoaded, FindDeclared, LeavesWait,
     Check, CheckAgain, Mark, LinkCommon, Super, AssignConstant, UseConstant, LayOutClass,
     Linked, FindArray, EmplaceArray
<1>6. \A a \in Arrays : arrays[a] # NoThread => arrays'[a] # NoThread
  BY <1>5 DEF IInv, TypeOK, Emplaced
<1>7. QED
  BY <1>1, <1>2, <1>4, <1>6

LEMMA PendingPlaced ==
  ASSUME IInv, NEW k \in Pending
  PROVE  Placed(declared, k) /\ k \in Calls
<1>1. PICK t \in Threads : \E i \in 1..Len(calls[t]) : k = calls[t][i]
  BY DEF Pending
<1>2. StackOK(declared, calls[t])
  BY DEF IInv, Stacks
<1>3. QED
  BY <1>1, <1>2 DEF StackOK

LEMMA ResultsStep ==
  ASSUME IInv, Upward, Results, [Next]_vars
  PROVE  Results'
<1>1. /\ UNCHANGED declared /\ refused \subseteq refused'
      /\ \A c \in AllClasses : state[c] # "INITIALIZED" => state'[c] # "INITIALIZED"
      /\ \A a \in Arrays : arrays[a] # NoThread => arrays'[a] # NoThread
  BY StaysGiven
<1>2. /\ super \in [AllClasses -> AllClasses \cup {NoClass}]
      /\ refused \subseteq AllClasses /\ built \subseteq AllClasses
      /\ \A c \in Classes : c \in AllClasses
  BY DEF IInv, TypeOK, AllClasses
<1>3. ASSUME NEW c \in refused'
      PROVE  state'[c] # "INITIALIZED"
  <2>1. CASE c \in refused
    BY <1>1, <1>2, <2>1 DEF Results
  <2>2. CASE c \notin refused
    <3>1. PICK t \in Threads : \E class : Gives(t, class)
      BY <1>3, <2>2, ResultsBy DEF results
    <3>2. PICK class : Gives(t, class) /\ refused' # refused
      BY <1>3, <2>2, <3>1
    <3>3. class = NoClass /\ c = Top(t).name /\ c \in AllClasses
      BY <1>3, <2>2, <3>2 DEF Gives, Return
    <3>4. QED
      BY <1>1, <3>2, <3>3 DEF Gives
  <2>3. QED
    BY <2>1, <2>2
(* A call that is to use what it holds was given it for its superclass. *)
<1>4. ASSUME NEW t \in Threads, SetsSuper(t)
      PROVE  LET c == Top(t).name
             IN  /\ c \in Classes /\ c \notin built
                 /\ super' = [super EXCEPT ![c] = Top(t).held.class]
                 /\ super'[c] = Top(t).held.class
                 /\ Owed(declared[c].super, Top(t).held.class)
  <2>1. /\ Top(t).name \in Classes /\ Top(t).name \in AllClasses /\ Top(t).name \notin built
    BY <1>4, Unbuilt
  <2>2. calls[t] # <<>> /\ Top(t).pc = "use" /\ super' = [super EXCEPT ![Top(t).name] = Top(t).held.class]
    BY <1>4 DEF SetsSuper
  <2>3. Owed(declared[Top(t).name].super, Top(t).held.class)
    BY <2>2, TopPending DEF Results
  <2>4. QED
    BY <1>2, <2>1, <2>2, <2>3
<1>5. ASSUME NEW c \in Classes
      PROVE  super'[c] \in {NoClass, declared'[c].super}
  <2>1. CASE \E t \in Threads : SetsSuper(t)
    <3>1. PICK t \in Threads : SetsSuper(t)
      BY <2>1
    <3>2. c = Top(t).name \/ super'[c] = super[c]
      BY <1>2, <1>4, <3>1
    <3>3. QED
      BY <1>1, <1>4, <3>1, <3>2 DEF Results, Owed
  <2>2. CASE UNCHANGED super
    BY <1>1, <2>2 DEF Results
  <2>3. QED
    BY <2>1, <2>2, SuperBy
<1>6. ASSUME NEW c \in AllClasses, constant'[c] # NoConstant
      PROVE  Owed(c, constant[c].class)'
  <2>1. CASE constant'[c] = constant[c]
    BY <1>1, <1>6, <2>1 DEF Results, Owed
  <2>2. CASE constant'[c] # constant[c]
    <3>1. PICK t \in Threads : AssignConstant(t)
      BY <2>2 DEF Next, Step, Awake, WakeSpuriously, vars, Ask, ModuleLoaded, FindDeclared,
         LeavesWait, Check, CheckAgain, Mark, LinkCommon, Super, UseConstant, LayOutClass,
         Linked, FindArray, EmplaceArray
    <3> DEFINE parent == declared[Top(t).name].super
               made == [class |-> returned[t], by |-> t]
    <3>2. /\ calls[t] # <<>> /\ Top(t).pc = "constant"
          /\ constant' = [constant EXCEPT ![parent] = made] /\ made.class = returned[t]
      BY <3>1 DEF AssignConstant, At
    <3>3. Owed(parent, returned[t])
      BY <3>2 DEF Results
    <3> HIDE DEF parent, made
    <3>4. c = parent /\ constant'[c] = made
      BY <2>2, <3>2 DEF IInv, TypeOK
    <3>5. QED
      BY <1>1, <3>2, <3>3, <3>4 DEF Owed
  <2>3. QED
    BY <2>1, <2>2
<1>7. ASSUME NEW k \in Pending', k.pc = "use"
      PROVE  Owed(declared[k.name].super, k.held.class)'
  <2>1. CASE k \in Pending
    BY <1>1, <1>7, <2>1 DEF Results, Owed
  <2>2. CASE k \notin Pending
    <3>1. PICK t \in Threads : calls[t] # <<>> /\ k.name = Top(t).name /\ Handed(t, k.held)
      BY <1>7, <2>2, NewCalls
    <3> DEFINE parent == declared[k.name].super
    <3>2. CASE /\ Top(t).pc = "super" /\ parent # NoClass /\ k.held = constant[parent]
               /\ k.held # NoConstant
      <4>1. Top(t).name \in Classes
        BY <3>1, <3>2, InCalls DEF Placed, LinkingPcs
      <4>2. parent \in AllClasses
        BY <3>1, <3>2, <4>1 DEF IInv, TypeOK
      <4>3. Owed(parent, k.held.class)
        BY <3>2, <4>2 DEF Results
      <4>4. QED
        BY <1>1, <4>3 DEF Owed
    <3>3. CASE Top(t).pc = "constant" /\ k.held.class = returned[t]
      <4>1. Owed(parent, k.held.class)
        BY <3>1, <3>3 DEF Results
      <4>2. QED
        BY <1>1, <4>1 DEF Owed
    <3>4. QED
      BY <3>1, <3>2, <3>3 DEF Handed
  <2>3. QED
    BY <2>1, <2>2
<1>8. ASSUME NEW k \in Pending', k.pc = "lay out"
      PROVE  Owed(declared[k.name].super, super[k.name])'
  <2>1. CASE \E t \in Threads : SetsSuper(t) /\ k.name = Top(t).name
    <3>1. PICK t \in Threads : SetsSuper(t) /\ k.name = Top(t).name
      BY <2>1
    <3>2. super'[k.name] = Top(t).held.class /\ Owed(declared[k.name].super, Top(t).held.class)
      BY <1>4, <3>1
    <3>3. QED
      BY <1>1, <3>2 DEF Owed
  <2>2. CASE k \in Pending /\ ~ \E t \in Threads : SetsSuper(t) /\ k.name = Top(t).name
    <3>1. super'[k.name] = super[k.name]
      <4>1. k.name \in AllClasses
        BY <1>2, <1>8, <2>2, PendingPlaced DEF Placed, LinkingPcs
      <4>2. ASSUME NEW t \in Threads, SetsSuper(t)
            PROVE  super'[k.name] = super[k.name]
        BY <1>2, <2>2, <4>1, <4>2 DEF SetsSuper
      <4>3. QED
        BY <4>2, SuperBy
    <3>2. QED
      BY <1>1, <1>8, <2>2, <3>1 DEF Results, Owed
  <2>3. CASE k \notin Pending
    <3>1. PICK t \in Threads : calls[t] # <<>> /\ k.name = Top(t).name /\ Inherits(t)
      BY <1>8, <2>3, NewCalls
    <3>2. Top(t).pc \in {"super", "use"}
      BY <3>1 DEF Inherits
    <3>3. k.name \in Classes
      BY <3>1, <3>2, InCalls DEF Placed, LinkingPcs
    <3>4. CASE declared[k.name].super = NoClass
      BY <1>1, <1>5, <3>3, <3>4 DEF Owed
    <3>5. CASE Top(t).pc = "use" /\ super' = [super EXCEPT ![Top(t).name] = Top(t).held.class]
      <4>1. Owed(declared[k.name].super, Top(t).held.class)
        BY <3>1, <3>5, TopPending DEF Results
      <4>2. super'[k.name] = Top(t).held.class
        BY <1>2, <3>1, <3>3, <3>5
      <4>3. QED
        BY <1>1, <4>1, <4>2 DEF Owed
    <3>6. QED
      BY <3>1, <3>4, <3>5 DEF Inherits
  <2>4. QED
    BY <2>1, <2>2, <2>3
<1>9. ASSUME NEW c \in built' \ {Object}
      PROVE  Owed(declared[c].super, super[c])'
  <2>1. CASE c \in built
    <3>1. super'[c] = super[c]
      <4>1. ASSUME NEW t \in Threads, SetsSuper(t)
            PROVE  super'[c] = super[c]
        BY <1>2, <2>1, <4>1 DEF SetsSuper
      <4>2. QED
        BY <4>1, SuperBy
    <3>2. QED
      BY <1>1, <1>9, <2>1, <3>1 DEF Results, Owed
  <2>2. CASE c \notin built
    <3>1. PICK t \in Threads : Builds(t) /\ c = Top(t).name
      BY <1>9, <2>2, BuiltBefore
    <3>2. calls[t] # <<>> /\ Top(t).pc = "lay out" /\ UNCHANGED super
      BY <3>1, BuildsIs
    <3>3. Owed(declared[c].super, super[c])
      BY <3>1, <3>2, TopPending DEF Results
    <3>4. QED
      BY <1>1, <3>2, <3>3 DEF Owed
  <2>3. QED
    BY <2>1, <2>2
<1>10. ASSUME NEW t \in Threads, calls'[t] # <<>>, Last(calls'[t]).pc = "constant"
       PROVE  Owed(declared[Top(t).name].super, returned[t])'
  <2> DEFINE k == Last(calls'[t])
  <2>1. CASE calls'[t] = calls[t] /\ returned'[t] = returned[t]
    BY <1>1, <1>10, <2>1 DEF Results, Owed, Top
  <2>2. CASE \E class :
            /\ Gives(t, class) /\ returned'[t] = class
            /\ Below(declared, k, Top(t)) /\ Placed(declared, k) /\ k \in Calls
    <3>1. PICK class :
            /\ Gives(t, class) /\ returned'[t] = class
            /\ Below(declared, k, Top(t)) /\ Placed(declared, k) /\ k \in Calls
      BY <2>2
    <3>2. k.pc = "constant"
      BY <1>10
    <3> HIDE DEF k
    <3>3. Top(t).name = declared[k.name].super /\ k.name \in Classes /\ Top(t).name # NoClass
      BY <3>1, <3>2 DEF Below, Placed, LinkingPcs
    <3>4. Top(t).name \in AllClasses /\ Top(t).name \notin Arrays
      BY <3>3, ClassesAssumption DEF IInv, TypeOK, AllClasses
    <3>5. class = Top(t).name \/ class = NoClass
      BY <3>1, <3>4 DEF Gives
    <3>6. class = NoClass => Top(t).name \in refused'
      BY <3>1, <3>4 DEF Gives, Return
    <3>7. \/ returned'[t] = declared'[k.name].super
          \/ returned'[t] = NoClass /\ declared'[k.name].super \in refused'
      BY <1>1, <3>1, <3>3, <3>5, <3>6
    <3>8. QED
      BY <3>7 DEF Owed, Top, k
  <2>3. QED
    BY <1>10, <2>1, <2>2, TopAfter
<1>11. ASSUME NEW t \in Threads, calls'[t] # <<>>, Last(calls'[t]).pc = "emplace"
       PROVE  returned'[t] \in {NoClass, Freed, BaseOf[Last(calls'[t]).name]}
  <2>1. CASE calls'[t] = calls[t] /\ returned'[t] = returned[t]
    BY <1>11, <2>1 DEF Results, Top
  <2>2. CASE \E class : Gives(t, class) /\ returned'[t] = class /\ Below(declared, Last(calls'[t]), Top(t))
    BY <1>11, <2>2 DEF Below, Gives
  <2>3. QED
    BY <1>11, <2>1, <2>2, TopAfter
<1>12. ArraysBased'
  <2>1. ASSUME NEW a \in Arrays, arrays'[a] # NoThread
        PROVE  BaseOf[a] \in built' \/ (BaseOf[a] \in Arrays /\ arrays'[BaseOf[a]] # NoThread)
    <3>1. CASE arrays[a] # NoThread
      BY <1>1, <3>1, BuiltBefore DEF Results, ArraysBased
    <3>2. CASE arrays[a] = NoThread
      <4>1. PICK t \in Threads : EmplaceArray(t)
        BY <2>1, <3>2 DEF Next, Step, Awake, WakeSpuriously, vars, Ask, ModuleLoaded, FindDeclared,
           LeavesWait, Check, CheckAgain, Mark, LinkCommon, Super, AssignConstant, UseConstant,
           LayOutClass, Linked, FindArray
      <4>2. /\ calls[t] # <<>> /\ Top(t).pc = "emplace" /\ returned[t] \notin {NoClass, Freed}
            /\ arrays' = [arrays EXCEPT ![Top(t).name] = Emplaced(@, t)]
        BY <2>1, <3>2, <4>1 DEF EmplaceArray, At
      <4>3. a = Top(t).name
        BY <2>1, <3>2, <4>2 DEF IInv, TypeOK
      <4>4. returned[t] = BaseOf[a]
        BY <4>2, <4>3 DEF Results
      <4>5. BaseOf[a] \in AllClasses \/ BaseOf[a] \in Arrays
        BY ClassesAssumption DEF AllClasses
      <4>6. CASE BaseOf[a] \in AllClasses
        <5>1. BaseOf[a] # NoClass
          BY <4>2, <4>4
        <5>2. BaseOf[a] \in built
          BY <4>4, <4>6, <5>1 DEF Upward, Up
        <5>3. QED
          BY <5>2, BuiltBefore
      <4>7. CASE BaseOf[a] \in Arrays
        BY <1>1, <4>4, <4>7 DEF Results
      <4>8. QED
        BY <4>5, <4>6, <4>7
    <3>3. QED
      BY <3>1, <3>2
  <2>2. QED
    BY <2>1 DEF ArraysBased
<1>13. ASSUME NEW t \in Threads, returned'[t] \in Arrays
       PROVE  arrays'[returned'[t]] # NoThread
  <2>1. CASE returned'[t] = returned[t]
    BY <1>1, <1>13, <2>1 DEF Results
  <2>2. CASE returned'[t] # returned[t]
    <3>1. PICK u \in Threads : \E class : Gives(u, class)
      BY <2>2, ResultsBy DEF results
    <3>2. PICK class : Gives(u, class)
      BY <3>1
    <3>3. returned'[t] = class
      BY <2>2, <3>2 DEF Gives, Return, IInv, TypeOK
    <3>4. QED
      BY <1>13, <3>2, <3>3 DEF Gives
  <2>3. QED
    BY <2>1, <2>2
<1>14. \A t \in Threads : calls'[t] # <<>> =>
         /\ Last(calls'[t]).pc = "constant" => Owed(declared[Top(t).name].super, returned[t])'
         /\ Last(calls'[t]).pc = "emplace" => returned'[t] \in {NoClass, Freed, BaseOf[Last(calls'[t]).name]}
  BY <1>10, <1>11
<1>15. QED
  BY <1>3, <1>5, <1>6, <1>7, <1>8, <1>9, <1>12, <1>13, <1>14 DEF Results, Top, AllClasses

LEMMA ResultsAtFirst == Init => Results
<1> SUFFICES ASSUME Init PROVE Results
  OBVIOUS
<1>1. Pending = {} /\ (\A t \in Threads : calls[t] = <<>> /\ returned[t] = NoClass)
  BY DEF Init, Pending
<1>2. /\ refused = {} /\ built = {Object} /\ \A a \in Arrays : arrays[a] = NoThread
      /\ \A c \in AllClasses : super[c] = NoClass /\ constant[c] = NoConstant
  BY DEF Init
<1>3. \A c \in Classes : c \in AllClasses
  BY DEF AllClasses
<1>4. NoClass \notin Arrays
  BY ClassesAssumption
<1>5. QED
  BY <1>1, <1>2, <1>3, <1>4 DEF Results, ArraysBased

(* Whatever threads race for a class and whichever of them LoadClass refuses: what a   *)
(* load gives is laid out, no class is laid out without the superclass it declares     *)
(* unless that one was refused while somebody linked it, and every array class that    *)
(* others find has its base.                                                           *)
THEOREM ResultsStandCorrect == Spec => []ResultsStand
<1>1. Init => CInv /\ Results
  BY InitStep, LaidAtFirst, ResultsAtFirst DEF CInv
<1>2. CInv /\ Results /\ [Next]_vars => (CInv /\ Results)'
  <2>1. SUFFICES ASSUME CInv, Results, [Next]_vars
                 PROVE  CInv' /\ Results'
    OBVIOUS
  <2>2. IInv' /\ Upward' /\ Tabled' /\ Sound' /\ Results'
    BY <2>1, NextStep, UpwardStep, TabledStep, SoundStep, ResultsStep DEF CInv
  <2>3. QED
    BY <2>2 DEF CInv
<1>3. ASSUME CInv, Results
      PROVE  ResultsStand
  <2>1. TypeOK
    BY <1>3 DEF CInv, IInv
  <2>2. GivenBuilt
    <3>1. NoClass \notin AllClasses
      BY ClassesAssumption DEF AllClasses
    <3>2. QED
      BY <1>3, <3>1 DEF CInv, Upward, Up, GivenBuilt
  <2>3. SuperRefused
    BY <1>3 DEF Results, Owed, SuperRefused
  <2>4. QED
    BY <1>3, <2>1, <2>2, <2>3 DEF ResultsStand, Results
<1>4. QED
  BY <1>1, <1>2, <1>3, PTL DEF Spec

-------------------------------------------------------------------------------
(* Numbers as bytes: ObjectMemory.                                         *)

(* Products that the arithmetic of the provers leaves alone. *)
LEMMA Multiplied ==
  ASSUME NEW a \in Int, NEW b \in Int, NEW c \in Int
  PROVE  /\ a * b \in Int /\ a * (b + c) = a * b + a * c /\ (a + b) * c = a * c + b * c
         /\ (a * b) * c = a * (b * c)
         /\ a >= 0 /\ b >= 0 => a * b >= 0
         /\ a >= 0 /\ b <= c => a * b <= a * c
  OBVIOUS

(* The quotient and the remainder of a number are the only such two. *)
LEMMA QuotientIs ==
  ASSUME NEW v \in Int, NEW p \in Nat \ {0}
  PROVE  /\ v \div p \in Int /\ v % p \in 0..(p - 1) /\ v = p * (v \div p) + (v % p)
         /\ \A q \in Int, r \in 0..(p - 1) : v = (p * q) + r => r = v % p /\ q = v \div p
<1>1. v \div p \in Int /\ v % p \in 0..(p - 1) /\ v = p * (v \div p) + (v % p)
  OBVIOUS
<1>2. ASSUME NEW q \in Int, NEW r \in 0..(p - 1), v = (p * q) + r
      PROVE  r = v % p /\ q = v \div p
  <2> DEFINE e == v \div p
             s == v % p
  <2>1. e \in Int /\ s \in 0..(p - 1) /\ v = p * e + s
    BY <1>1
  <2> HIDE DEF e, s
  <2>2. ASSUME q - e >= 1
        PROVE  FALSE
    <3>1. p * (q - e) = p * q - p * e /\ p * 1 = p /\ p * 1 <= p * (q - e)
      BY <2>1, <2>2
    <3>2. QED
      BY <1>2, <2>1, <3>1
  <2>3. ASSUME e - q >= 1
        PROVE  FALSE
    <3>1. p * (e - q) = p * e - p * q /\ p * 1 = p /\ p * 1 <= p * (e - q)
      BY <2>1, <2>3
    <3>2. QED
      BY <1>2, <2>1, <3>1
  <2>4. q = e
    BY <2>1, <2>2, <2>3
  <2>5. QED
    BY <1>2, <2>1, <2>4 DEF e, s
<1>3. QED
  BY <1>1, <1>2

(* The remainder alone. *)
LEMMA RemainderIs ==
  ASSUME NEW v \in Int, NEW p \in Nat \ {0}, NEW q \in Int, NEW r \in 0..(p - 1),
         v = (p * q) + r
  PROVE  r = v % p
BY QuotientIs

(* Values is the function that its definition says, of positive numbers. *)
LEMMA ValuesAre ==
  /\ Values \in [0..8 -> Nat \ {0}] /\ Values[0] = 1
  /\ \A n \in 1..8 : Values[n] = Base * Values[n - 1]
<1> DEFINE Is(f) == f = [n \in 0..8 |-> IF n = 0 THEN 1 ELSE Base * f[n - 1]]
           step == [n \in 1..8 |-> [x \in Nat \ {0} |-> Base * x]]
<1>1. Base \in Nat \ {0}
  BY MemoryAssumption
<1>2. step \in [1..8 -> [Nat \ {0} -> Nat \ {0}]]
  <2>1. \A x \in Nat \ {0} : Base * x \in Nat \ {0}
    BY <1>1
  <2>2. QED
    BY <2>1
<1>3. 1 \in Nat \ {0} /\ 8 \in Nat
  OBVIOUS
<1> HIDE DEF step
<1>4. PICK f : /\ f \in [0..8 -> Nat \ {0}] /\ f[0] = 1
               /\ \A n \in 1..8 : f[n] = step[n][f[n - 1]]
  <2>1. \E f : Goes(f, Nat \ {0}, 1, 8, step)
    BY <1>2, <1>3, Recursion
  <2>2. QED
    BY <2>1 DEF Goes
<1>5. \A n \in 0..8 : n = 0 \/ (n \in 1..8 /\ n - 1 \in 0..8)
  OBVIOUS
<1>6. \A n \in 1..8 : f[n] = Base * f[n - 1]
  BY <1>4, <1>5 DEF step
<1>7. Is(f)
  <2> DEFINE g == [n \in 0..8 |-> IF n = 0 THEN 1 ELSE Base * f[n - 1]]
  <2>1. \A n \in 0..8 : f[n] = g[n]
    BY <1>4, <1>5, <1>6
  <2>2. g = [n \in 0..8 |-> g[n]] /\ f = [n \in 0..8 |-> f[n]]
    BY <1>4
  <2> HIDE DEF g
  <2>3. f = g
    BY <2>1, <2>2
  <2>4. QED
    BY <2>3 DEF g
<1>8. Is(Values)
  <2>1. Values = CHOOSE e : Is(e)
    BY DEF Values
  <2> HIDE DEF Is
  <2>2. QED
    BY <1>7, <2>1
<1>9. Values[0] = 1 /\ DOMAIN Values = 0..8 /\ \A n \in 1..8 : Values[n] = Base * Values[n - 1]
  BY <1>5, <1>8
<1> HIDE DEF Is
<1> DEFINE P == {n \in 0..8 : Values[n] = f[n]}
<1>10. 0 \in P
  BY <1>4, <1>9
<1>11. ASSUME NEW n \in 1..8, n - 1 \in P
       PROVE  n \in P
  BY <1>5, <1>6, <1>9, <1>11
<1> HIDE DEF P
<1>12. \A n \in 0..8 : n \in P
  BY <1>10, <1>11, Induction
<1>13. \A n \in 0..8 : Values[n] = f[n]
  BY <1>12 DEF P
<1>14. Values = [n \in 0..8 |-> Values[n]]
  BY <1>8 DEF Is
<1>15. Values \in [0..8 -> Nat \ {0}]
  BY <1>4, <1>13, <1>14
<1>16. QED
  BY <1>9, <1>15

(* One byte more of a number. *)
LEMMA RemainderGrows ==
  ASSUME NEW v \in Int, NEW p \in Nat \ {0}, NEW b \in Nat \ {0}
  PROVE  v % (b * p) = (v % p) + ((v \div p) % b) * p
<1> DEFINE q == v \div p
           r == v % p
           e == q \div b
           d == q % b
<1>1. q \in Int /\ r \in 0..(p - 1) /\ v = p * q + r
  BY QuotientIs
<1> HIDE DEF q, r
<1>2. e \in Int /\ d \in 0..(b - 1) /\ q = b * e + d
  BY <1>1, QuotientIs
<1> HIDE DEF e, d
<1>3. b * p \in Nat \ {0} /\ d * p \in Nat
  BY <1>2
<1>4. d * p <= b * p - p
  <2>1. p * d <= p * (b - 1) /\ p * (b - 1) = b * p - p /\ p * d = d * p
    BY <1>2
  <2>2. QED
    BY <1>2, <1>3, <2>1
<1>5. d * p + r \in 0..((b * p) - 1)
  BY <1>1, <1>3, <1>4
<1>6. v = ((b * p) * e) + (d * p + r)
  <2>1. p * (b * e + d) = p * (b * e) + p * d /\ p * (b * e) = (b * p) * e /\ p * d = d * p
    BY <1>2
  <2>2. QED
    BY <1>1, <1>2, <1>3, <2>1
<1>7. d * p + r = v % (b * p)
  <2> DEFINE w == b * p
             u == d * p + r
  <2>1. w \in Nat \ {0} /\ u \in 0..(w - 1) /\ v = (w * e) + u
    BY <1>3, <1>5, <1>6
  <2> HIDE DEF w, u
  <2>2. u = v % w
    BY <1>2, <2>1, QuotientIs
  <2>3. QED
    BY <2>2 DEF w, u
<1>8. QED
  BY <1>1, <1>3, <1>7 DEF q, r, d

(* The bytes of a number. *)
LEMMA BytesAre ==
  ASSUME NEW v \in Int, NEW n \in 0..8
  PROVE  /\ Bytes(v, n) \in [1..n -> 0..(Base - 1)] /\ Len(Bytes(v, n)) = n
         /\ DOMAIN Bytes(v, n) = 1..n
         /\ \A k \in 1..n : Bytes(v, n)[k] = (v \div Values[k - 1]) % Base
<1>1. Base \in Nat \ {0}
  BY MemoryAssumption
<1>2. \A k \in 1..n : Values[k - 1] \in Nat \ {0}
  BY ValuesAre
<1>3. \A k \in 1..n : (v \div Values[k - 1]) % Base \in 0..(Base - 1)
  <2>1. \A k \in 1..n : v \div Values[k - 1] \in Int
    BY <1>2, QuotientIs
  <2>2. QED
    BY <1>1, <2>1, QuotientIs
<1>4. QED
  BY <1>3 DEF Bytes

(* A number that is read from n bytes is the one that they were made of, modulo the *)
(* number of their values.                                                          *)
LEMMA UnsignedBack ==
  ASSUME NEW v \in Int, NEW n \in 0..8
  PROVE  Unsigned(Bytes(v, n)) = v % Values[n]
<1> DEFINE b == Bytes(v, n)
           Is(f) == f = [k \in 0..Len(b) |->
                           IF k = 0 THEN 0 ELSE f[k - 1] + b[k] * Values[k - 1]]
           h == [k \in 0..n |-> v % Values[k]]
<1>1. /\ Len(b) = n /\ n \in Nat
      /\ \A k \in 1..n : /\ b[k] = (v \div Values[k - 1]) % Base
                         /\ b[k] \in Int /\ k - 1 \in 0..8 /\ k \in 0..8 /\ k \in 1..8
                         /\ k \in 0..n /\ k - 1 \in 0..n /\ k # 0
  <2>1. /\ Len(b) = n /\ n \in Nat /\ b \in [1..n -> 0..(Base - 1)]
        /\ \A k \in 1..n : b[k] = (v \div Values[k - 1]) % Base
    <3>1. n \in Nat
      OBVIOUS
    <3>2. QED
      BY <3>1, BytesAre, Zenon
  <2> HIDE DEF b
  <2>2. \A k \in 1..n : /\ k - 1 \in 0..8 /\ k \in 0..8 /\ k \in 1..8
                        /\ k \in 0..n /\ k - 1 \in 0..n /\ k # 0
    OBVIOUS
  <2>3. \A k \in 1..n : b[k] \in Int
    BY <2>1, MemoryAssumption
  <2>4. QED
    BY <2>1, <2>2, <2>3
<1> HIDE DEF b
<1>2. \A k \in 1..n : h[k] = h[k - 1] + b[k] * Values[k - 1]
  <2>1. ASSUME NEW k \in 1..n
        PROVE  h[k] = h[k - 1] + b[k] * Values[k - 1]
    <3> DEFINE p == Values[k - 1]
    <3>1. p \in Nat \ {0} /\ Base \in Nat \ {0} /\ Values[k] = Base * p
      <4>1. k - 1 \in 0..8 /\ k \in 1..8
        BY <1>1
      <4>2. Base \in Nat \ {0}
        BY MemoryAssumption
      <4>3. Values[k - 1] \in Nat \ {0}
        BY <4>1, ValuesAre
      <4>4. Values[k] = Base * Values[k - 1]
        BY <4>1, ValuesAre, Zenon
      <4>5. QED
        BY <4>2, <4>3, <4>4
    <3> HIDE DEF p
    <3>2. v % (Base * p) = (v % p) + ((v \div p) % Base) * p
      BY <3>1, RemainderGrows
    <3>3. h[k] = v % Values[k] /\ h[k - 1] = v % p /\ b[k] = (v \div p) % Base
      BY <1>1 DEF p
    <3>4. QED
      BY <3>1, <3>2, <3>3, Zenon DEF p
  <2>2. QED
    BY <2>1
<1>3. h[0] = 0
  <2>1. Values[0] = 1 /\ v % 1 = 0
    BY ValuesAre
  <2>2. QED
    BY <1>1, <2>1
<1>4. Is(h)
  <2> DEFINE g == [k \in 0..n |-> IF k = 0 THEN 0 ELSE h[k - 1] + b[k] * Values[k - 1]]
  <2>1. \A k \in 0..n : k = 0 \/ k \in 1..n
    OBVIOUS
  <2>2. h = [k \in 0..n |-> h[k]]
    OBVIOUS
  <2> HIDE DEF h
  <2>3. \A k \in 0..n : h[k] = g[k]
    BY <1>2, <1>3, <2>1
  <2>4. g = [k \in 0..n |-> g[k]]
    OBVIOUS
  <2> HIDE DEF g
  <2>5. h = g
    BY <2>2, <2>3, <2>4
  <2>6. QED
    BY <1>1, <2>5 DEF g
<1>5. PICK e : Is(e) /\ Unsigned(b) = e[n]
  <2>1. Unsigned(b) = (CHOOSE e : Is(e))[n]
    BY <1>1 DEF Unsigned
  <2> HIDE DEF Is
  <2>2. QED
    BY <1>4, <2>1
<1>6. e[0] = 0 /\ \A k \in 1..n : e[k] = e[k - 1] + b[k] * Values[k - 1]
  BY <1>1, <1>5
<1> HIDE DEF Is, h
<1> DEFINE P == {k \in 0..n : e[k] = h[k]}
<1>7. 0 \in P
  BY <1>1, <1>3, <1>6
<1>8. ASSUME NEW k \in 1..n, k - 1 \in P
      PROVE  k \in P
  BY <1>1, <1>2, <1>6, <1>8
<1> HIDE DEF P
<1>9. \A k \in 0..n : k \in P
  BY <1>1, <1>7, <1>8, Induction
<1>10. e[n] = h[n]
  <2>1. n \in 0..n
    BY <1>1
  <2>2. QED
    BY <1>9, <2>1 DEF P
<1>11. h[n] = v % Values[n]
  BY <1>1 DEF h
<1>12. QED
  BY <1>5, <1>10, <1>11 DEF b

(* Signed numbers come back from their complement. *)
LEMMA Complement ==
  ASSUME NEW v \in Int, NEW p \in Nat \ {0}
  PROVE  (IF 2 * (v % p) < p THEN v % p ELSE (v % p) - p)
           = ((v + (p \div 2)) % p) - (p \div 2)
<1> DEFINE r == v % p
           q == v \div p
           h == p \div 2
<1>1. q \in Int /\ r \in 0..(p - 1) /\ v = p * q + r
  BY QuotientIs
<1>2. h \in Nat /\ (p = 2 * h \/ p = 2 * h + 1)
  OBVIOUS
<1> HIDE DEF q, r, h
<1>3. CASE 2 * r < p
  <2> DEFINE w == v + h
             s == r + h
  <2>1. s \in 0..(p - 1) /\ w = (p * q) + s /\ w \in Int
    BY <1>1, <1>2, <1>3
  <2> HIDE DEF w, s
  <2>2. s = w % p
    BY <1>1, <2>1, RemainderIs
  <2>3. QED
    BY <1>1, <1>2, <1>3, <2>2 DEF r, h, w, s
<1>4. CASE ~ (2 * r < p)
  <2> DEFINE w == v + h
             s == (r + h) - p
             e == q + 1
  <2>1. s \in 0..(p - 1) /\ w = (p * e) + s /\ w \in Int /\ e \in Int
    BY <1>1, <1>2, <1>4
  <2> HIDE DEF w, s, e
  <2>2. s = w % p
    BY <2>1, RemainderIs
  <2>3. QED
    BY <1>1, <1>2, <1>4, <2>2 DEF r, h, w, s
<1>5. QED
  BY <1>3, <1>4 DEF r, h

(* What an accessor stores and what it reads back. *)
LEMMA ValueBack ==
  ASSUME NEW v \in Int, NEW type
  PROVE  /\ Value(type, Bytes(v, TypeSize(type))) = Cut(type, v)
         /\ Cut(type, v) \in Int
<1> DEFINE n == TypeSize(type)
           p == Values[n]
           b == Bytes(v, n)
<1>1. n \in 0..8
  BY Sizes
<1> HIDE DEF n
<1>2. p \in Nat \ {0}
  BY <1>1, ValuesAre
<1>3. Len(b) = n /\ Unsigned(b) = v % p
  BY <1>1, BytesAre, UnsignedBack
<1> HIDE DEF b
<1>4. Signed(b) = IF 2 * (v % p) < p THEN v % p ELSE (v % p) - p
  BY <1>3 DEF Signed
<1>5. Cut(type, v) = IF type \in {"REFERENCE", "HANDLE", "BOOL"} THEN v % p
                     ELSE ((v + (p \div 2)) % p) - (p \div 2)
  BY DEF Cut, n
<1> HIDE DEF p
<1>6. Value(type, b) = Cut(type, v)
  BY <1>2, <1>3, <1>4, <1>5, Complement, Zenon DEF Value
<1>7. v % p \in Int /\ ((v + (p \div 2)) % p) - (p \div 2) \in Int
  BY <1>2
<1>8. QED
  BY <1>5, <1>6, <1>7 DEF b, n

-------------------------------------------------------------------------------
(* What memory holds, and where: ObjectMemory.                             *)

(* From the address on, the n bytes of v. *)
Holds(bytes, at, n, v) ==
  \A k \in 1..n : (at + k) - 1 \in DOMAIN bytes /\ bytes[(at + k) - 1] = Bytes(v, n)[k]

(* n bytes at one address and m at another share none. *)
Disjoint(at, n, other, m) == at + n <= other \/ other + m <= at

(* What memory holds is what an accessor of the type reads. *)
LEMMA HeldRead ==
  ASSUME NEW at \in Nat, NEW type, NEW v \in Int, Holds(memory, at, TypeSize(type), v)
  PROVE  Inside(at, type) /\ Fetch(at, type) = Cut(type, v)
<1> DEFINE n == TypeSize(type)
           b == Bytes(v, n)
<1>1. n \in 1..8
  BY Sizes
<1>2. b = [k \in 1..n |-> b[k]]
  BY DEF Bytes
<1>3. \A k \in 1..n : (at + k) - 1 \in DOMAIN memory /\ memory[(at + k) - 1] = b[k]
  BY DEF Holds
<1>4. Fetch(at, type) = Value(type, b)
  <2> DEFINE f == [k \in 1..n |-> memory[(at + k) - 1]]
  <2>1. Fetch(at, type) = Value(type, f)
    BY DEF Fetch
  <2>2. f = [k \in 1..n |-> b[k]]
    BY <1>3
  <2> HIDE DEF f, b
  <2>3. f = b
    BY <1>2, <2>2
  <2>4. QED
    BY <2>1, <2>3
<1>5. Value(type, b) = Cut(type, v)
  BY ValueBack
<1>6. Inside(at, type)
  <2> HIDE DEF n, b
  <2>1. ASSUME NEW a \in at .. at + n - 1
        PROVE  a \in DOMAIN memory
    <3>1. (a - at) + 1 \in 1..n /\ (at + ((a - at) + 1)) - 1 = a
      BY <1>1
    <3>2. QED
      BY <1>3, <3>1
  <2>2. QED
    BY <2>1 DEF Inside, Touched, n
<1>7. QED
  BY <1>4, <1>5, <1>6

(* A store of n bytes at an address that has them. *)
LEMMA StoreHolds ==
  ASSUME NEW at \in Nat, NEW type, NEW v \in Int, Inside(at, type)
  PROVE  /\ DOMAIN Put(at, type, v) = DOMAIN memory
         /\ Holds(Put(at, type, v), at, TypeSize(type), v)
         /\ \A other \in Nat, m \in 1..8 : \A w :
              Holds(memory, other, m, w) /\ Disjoint(at, TypeSize(type), other, m) =>
                Holds(Put(at, type, v), other, m, w)
<1> DEFINE n == TypeSize(type)
           made == Put(at, type, v)
           b == Bytes(v, n)
<1>1. n \in 1..8
  BY Sizes
<1>2. made = [a \in DOMAIN memory |->
                IF a \in at .. (at + n - 1) THEN b[a - at + 1] ELSE memory[a]]
  BY DEF Put, Touched
<1>3. at .. (at + n - 1) \subseteq DOMAIN memory
  BY DEF Inside, Touched
<1> HIDE DEF n, b, made
<1>4. DOMAIN made = DOMAIN memory
  BY <1>2
<1>5. ASSUME NEW k \in 1..n
      PROVE  (at + k) - 1 \in DOMAIN made /\ made[(at + k) - 1] = b[k]
  <2>1. (at + k) - 1 \in at .. (at + n - 1) /\ ((at + k) - 1) - at + 1 = k
    BY <1>1
  <2>2. QED
    BY <1>2, <1>3, <2>1
<1>6. ASSUME NEW other \in Nat, NEW m \in 1..8, NEW w,
             Holds(memory, other, m, w), Disjoint(at, n, other, m)
      PROVE  Holds(made, other, m, w)
  <2>1. ASSUME NEW k \in 1..m
        PROVE  /\ (other + k) - 1 \in DOMAIN made
               /\ made[(other + k) - 1] = Bytes(w, m)[k]
    <3>1. (other + k) - 1 \notin at .. (at + n - 1)
      BY <1>1, <1>6 DEF Disjoint
    <3>2. /\ (other + k) - 1 \in DOMAIN memory
          /\ memory[(other + k) - 1] = Bytes(w, m)[k]
      BY <1>6 DEF Holds
    <3>3. QED
      BY <1>2, <3>1, <3>2
  <2>2. QED
    BY <2>1 DEF Holds
<1>7. Holds(made, at, n, v)
  BY <1>5 DEF Holds, b
<1>8. QED
  BY <1>4, <1>6, <1>7 DEF made, n

(* Zeroed memory holds zeros. *)
LEMMA ZerosHold ==
  ASSUME NEW at \in Nat, NEW n \in 1..8, NEW m \in Nat, at + n <= m
  PROVE  Holds(Zeros(m), at, n, 0)
<1>1. \A k \in 1..n : Bytes(0, n)[k] = 0
  <2>1. ASSUME NEW k \in 1..n
        PROVE  Bytes(0, n)[k] = 0
    <3> DEFINE p == Values[k - 1]
    <3>1. p \in Nat \ {0} /\ Base \in Nat \ {0}
      <4>1. k - 1 \in 0..8
        OBVIOUS
      <4>2. Base \in Nat \ {0}
        BY MemoryAssumption
      <4>3. Values[k - 1] \in Nat \ {0}
        BY <4>1, ValuesAre
      <4>4. QED
        BY <4>2, <4>3
    <3>2. Bytes(0, n)[k] = (0 \div p) % Base
      BY DEF Bytes
    <3> HIDE DEF p
    <3>3. 0 \div p = 0
      BY <3>1
    <3>4. 0 % Base = 0
      BY <3>1
    <3>5. QED
      BY <3>2, <3>3, <3>4
  <2>2. QED
    BY <2>1
<1>2. \A k \in 1..n : (at + k) - 1 \in 0 .. m - 1
  OBVIOUS
<1>3. QED
  BY <1>1, <1>2 DEF Holds, Zeros

-------------------------------------------------------------------------------
(* The fields of an object.                                                *)

(* LayoutOf, GetField, FieldAt and FieldsOf, for the declarations d. *)
LayoutIn(d, class) ==
  IF class = "Base" THEN LayOut(0, d["Base"])
  ELSE LayOut(LayOut(0, d["Base"]).size, d["Derived"])
PlaceIn(d, class, type) == SelectInSeq(d[class], LAMBDA t : t = type)
OffsetIn(d, f) == LayoutIn(d, f[1]).at[PlaceIn(d, f[1], f[2])]
FieldsIn(d, class) ==
  { f \in DeclaringClasses \X Types :
      IsAssignableTo(class, f[1]) /\ PlaceIn(d, f[1], f[2]) # 0 }

(* They are those of the declarations that there are. *)
LEMMA LayoutNow ==
  ASSUME NEW class \in DeclaringClasses
  PROVE  /\ LayoutOf(class) = LayoutIn(fieldTypes, class)
         /\ LayoutOf(class)' = LayoutIn(fieldTypes', class)
         /\ FieldsOf(class) = FieldsIn(fieldTypes, class)
         /\ FieldsOf(class)' = FieldsIn(fieldTypes', class)
         /\ \A type : /\ FieldAt(class, type) = OffsetIn(fieldTypes, <<class, type>>)
                      /\ (HasField(class, type) <=> PlaceIn(fieldTypes, class, type) # 0)
<1>1. /\ LayoutOf(class) = LayoutIn(fieldTypes, class)
      /\ LayoutOf(class)' = LayoutIn(fieldTypes', class)
  BY DEF LayoutOf, LayoutIn, DeclaringClasses, BaseLayout, DerivedLayout
<1>2. FieldsOf(class) = FieldsIn(fieldTypes, class)
  BY DEF FieldsOf, FieldsIn, HasField, GetField, PlaceIn
<1>3. FieldsOf(class)' = FieldsIn(fieldTypes', class)
  <2>1. \A c, t : HasField(c, t)' <=> PlaceIn(fieldTypes', c, t) # 0
    BY DEF HasField, GetField, PlaceIn, SelectInSeq
  <2>2. FieldsOf(class)' = { f \in DeclaringClasses \X Types :
                              IsAssignableTo(class, f[1]) /\ HasField(f[1], f[2])' }
    BY DEF FieldsOf
  <2>3. QED
    BY <2>1, <2>2 DEF FieldsIn
<1>4. ASSUME NEW type
      PROVE  /\ FieldAt(class, type) = OffsetIn(fieldTypes, <<class, type>>)
             /\ (HasField(class, type) <=> PlaceIn(fieldTypes, class, type) # 0)
  BY <1>1 DEF HasField, GetField, PlaceIn, FieldAt, OffsetIn
<1>5. QED
  BY <1>1, <1>2, <1>3, <1>4

(* The index that is found for a type in a declaration. *)
LEMMA FoundIn ==
  ASSUME NEW d, NEW class, d[class] \in Seq(Types), NEW type, PlaceIn(d, class, type) # 0
  PROVE  /\ PlaceIn(d, class, type) \in DOMAIN d[class]
         /\ d[class][PlaceIn(d, class, type)] = type
<1> DEFINE I == {i \in 1..Len(d[class]) : d[class][i] = type}
<1>1. PlaceIn(d, class, type) = IF I # {} THEN Min(I) ELSE 0
  BY DEF PlaceIn, SelectInSeq
<1>2. I \subseteq Nat /\ DOMAIN d[class] = 1..Len(d[class])
  OBVIOUS
<1>3. \A i \in I : d[class][i] = type /\ i \in 1..Len(d[class])
  OBVIOUS
<1> HIDE DEF I
<1>4. I # {} => Min(I) \in I
  <2>1. I # {} => \E x \in I : \A y \in I : x <= y
    BY <1>2, LeastNumber
  <2>2. QED
    BY <2>1 DEF Min
<1>5. PlaceIn(d, class, type) \in I
  BY <1>1, <1>4
<1>6. QED
  BY <1>2, <1>3, <1>5

(* The declarations of the two classes. *)
Declared == [DeclaringClasses -> Seq(Types)]

(* The fields of an object lie in its memory, one beside the other. *)
LEMMA FieldsApart ==
  ASSUME NEW d \in Declared, NEW class \in DeclaringClasses
  PROVE  /\ LayoutIn(d, class).size \in Nat
         /\ \A f \in FieldsIn(d, class) :
              /\ OffsetIn(d, f) \in Nat
              /\ OffsetIn(d, f) + TypeSize(f[2]) <= LayoutIn(d, class).size
              /\ \A g \in FieldsIn(d, class) \ {f} :
                   Disjoint(OffsetIn(d, f), TypeSize(f[2]), OffsetIn(d, g), TypeSize(g[2]))
<1> DEFINE below == LayOut(0, d["Base"])
           above == LayOut(below.size, d["Derived"])
           Beside(made, types) ==
             \A i \in DOMAIN types, j \in DOMAIN types :
               i # j => Disjoint(made.at[i], TypeSize(types[i]), made.at[j], TypeSize(types[j]))
<1>1. /\ "Base" \in DeclaringClasses /\ "Derived" \in DeclaringClasses
      /\ d["Base"] \in Seq(Types) /\ d["Derived"] \in Seq(Types)
  BY DEF DeclaringClasses, Declared
<1>2. /\ below.size \in Nat
      /\ \A i \in DOMAIN d["Base"] :
           below.at[i] \in Nat /\ below.at[i] + TypeSize(d["Base"][i]) <= below.size
      /\ Beside(below, d["Base"])
  <2>1. 0 \in Nat
    OBVIOUS
  <2>2. QED
    BY <1>1, <2>1, OwnFields DEF Disjoint
<1>3. /\ above.size \in Nat /\ below.size <= above.size
      /\ \A i \in DOMAIN d["Derived"] :
           /\ above.at[i] \in Nat /\ above.at[i] + TypeSize(d["Derived"][i]) <= above.size
           /\ below.size <= above.at[i]
      /\ Beside(above, d["Derived"])
  BY <1>1, <1>2, OwnFields DEF Disjoint
<1>4. LayoutIn(d, "Base") = below /\ LayoutIn(d, "Derived") = above
  BY DEF LayoutIn
<1> HIDE DEF below, above
<1>5. \A f \in FieldsIn(d, class) :
        /\ f[1] \in {"Base", "Derived"} /\ f = <<f[1], f[2]>>
        /\ PlaceIn(d, f[1], f[2]) \in DOMAIN d[f[1]]
        /\ d[f[1]][PlaceIn(d, f[1], f[2])] = f[2]
        /\ f[1] = "Derived" => class = "Derived"
        /\ OffsetIn(d, f) = LayoutIn(d, f[1]).at[PlaceIn(d, f[1], f[2])]
  <2>1. ASSUME NEW f \in FieldsIn(d, class)
        PROVE  /\ f[1] \in {"Base", "Derived"} /\ f = <<f[1], f[2]>>
               /\ PlaceIn(d, f[1], f[2]) \in DOMAIN d[f[1]]
               /\ d[f[1]][PlaceIn(d, f[1], f[2])] = f[2]
               /\ f[1] = "Derived" => class = "Derived"
    <3>1. /\ f \in DeclaringClasses \X Types /\ IsAssignableTo(class, f[1])
          /\ PlaceIn(d, f[1], f[2]) # 0
      BY DEF FieldsIn
    <3>2. f[1] \in {"Base", "Derived"} /\ f = <<f[1], f[2]>> /\ class \in {"Base", "Derived"}
      BY <3>1 DEF DeclaringClasses
    <3>3. f[1] = "Derived" => class = "Derived"
      BY <3>1, <3>2 DEF IsAssignableTo, SuperClass
    <3>4. d[f[1]] \in Seq(Types)
      BY <1>1, <3>2
    <3>5. QED
      BY <3>1, <3>2, <3>3, <3>4, FoundIn
  <2>2. QED
    BY <2>1 DEF OffsetIn
<1>6. ASSUME NEW f \in FieldsIn(d, class)
      PROVE  /\ OffsetIn(d, f) \in Nat
             /\ OffsetIn(d, f) + TypeSize(f[2]) <= LayoutIn(d, f[1]).size
             /\ f[1] = "Derived" => below.size <= OffsetIn(d, f)
  BY <1>2, <1>3, <1>4, <1>5
<1>7. LayoutIn(d, class).size \in Nat
  BY <1>2, <1>3, <1>4 DEF DeclaringClasses
<1>8. ASSUME NEW f \in FieldsIn(d, class)
      PROVE  OffsetIn(d, f) + TypeSize(f[2]) <= LayoutIn(d, class).size
  <2>1. LayoutIn(d, f[1]).size <= LayoutIn(d, class).size
    BY <1>2, <1>3, <1>4, <1>5 DEF DeclaringClasses
  <2>2. TypeSize(f[2]) \in Nat /\ LayoutIn(d, f[1]).size \in Nat
    BY <1>2, <1>3, <1>4, <1>5, Sizes
  <2>3. QED
    BY <1>6, <1>7, <2>1, <2>2
<1>9. ASSUME NEW f \in FieldsIn(d, class), NEW g \in FieldsIn(d, class), f # g
      PROVE  Disjoint(OffsetIn(d, f), TypeSize(f[2]), OffsetIn(d, g), TypeSize(g[2]))
  <2>1. TypeSize(f[2]) \in Nat /\ TypeSize(g[2]) \in Nat
    BY Sizes
  <2>2. CASE f[1] = g[1]
    <3>1. f[2] # g[2]
      BY <1>5, <1>9, <2>2
    <3>2. PlaceIn(d, f[1], f[2]) # PlaceIn(d, g[1], g[2])
      BY <1>5, <2>2, <3>1
    <3>3. QED
      BY <1>2, <1>3, <1>4, <1>5, <2>2, <3>2
  <2>3. CASE f[1] # g[1]
    BY <1>2, <1>4, <1>5, <1>6, <2>1, <2>3 DEF Disjoint
  <2>4. QED
    BY <2>2, <2>3
<1>10. QED
  BY <1>6, <1>7, <1>8, <1>9

(* Where what was stored to a place is, and of what type: a field of an object, an *)
(* element of an array, a global.                                                  *)
AddressOf(d, what, place) ==
  CASE what.kind = "object" -> OffsetIn(d, place)
    [] what.kind = "array" -> ElementAt(what.class, place)
    [] OTHER -> 0
TypeAt(what, place) == IF what.kind = "object" THEN place[2] ELSE what.class

SizeAt(what, place) == TypeSize(TypeAt(what, place))

(* The memory holds what was stored, each place its own. *)
Keeps(d, what, bytes, kept) ==
  \A place \in DOMAIN kept :
    /\ kept[place] \in Int
    /\ Holds(bytes, AddressOf(d, what, place), SizeAt(what, place), kept[place])

(* What an allocation makes: the places that there are. *)
HasPlaces(d, what, kept) ==
  /\ what.kind = "object" =>
       /\ d \in Declared /\ what.class \in DeclaringClasses
       /\ DOMAIN kept = FieldsIn(d, what.class)
  /\ what.kind = "array" => what.length \in Int /\ DOMAIN kept = 0 .. what.length - 1
  /\ what.kind = "global" => DOMAIN kept = {0}

Told(d, what, bytes, kept) ==
  /\ what.kind \in {"none", "object", "array", "global", "string"}
  /\ HasPlaces(d, what, kept)
  /\ /\ what.kind \in {"object", "array", "global"}
     /\ what.kind = "array" => Countable(what.class, what.length)
     => Keeps(d, what, bytes, kept)
  /\ what.kind = "string" =>
       /\ bytes = kept
       /\ bytes = [i \in 0 .. what.length - 1 |-> bytes[i]]

MemInv == Told(fieldTypes, subject, memory, stored)

(* Two places share no byte. *)
LEMMA PlacesApart ==
  ASSUME NEW d, NEW what, NEW kept, HasPlaces(d, what, kept),
         what.kind \in {"object", "array", "global"}
  PROVE  \A p \in DOMAIN kept :
           /\ AddressOf(d, what, p) \in Nat /\ SizeAt(what, p) \in 1..8
           /\ \A q \in DOMAIN kept \ {p} :
                Disjoint(AddressOf(d, what, p), SizeAt(what, p),
                         AddressOf(d, what, q), SizeAt(what, q))
<1>1. \A p : SizeAt(what, p) \in {1, 2, 4, 8}
  BY Sizes DEF SizeAt
<1>2. CASE what.kind = "object"
  <2>1. /\ d \in Declared /\ what.class \in DeclaringClasses
        /\ DOMAIN kept = FieldsIn(d, what.class)
    BY <1>2 DEF HasPlaces
  <2>2. \A p : AddressOf(d, what, p) = OffsetIn(d, p) /\ SizeAt(what, p) = TypeSize(p[2])
    BY <1>2 DEF AddressOf, SizeAt, TypeAt
  <2>3. QED
    BY <1>1, <2>1, <2>2, FieldsApart
<1>3. CASE what.kind = "array"
  <2> DEFINE n == TypeSize(what.class)
  <2>1. what.length \in Int /\ DOMAIN kept = 0 .. what.length - 1
    BY <1>3 DEF HasPlaces
  <2>2. \A p : AddressOf(d, what, p) = n * p /\ SizeAt(what, p) = n
    BY <1>3 DEF AddressOf, SizeAt, TypeAt, ElementAt
  <2>3. n \in {1, 2, 4, 8}
    BY Sizes
  <2> HIDE DEF n
  <2>4. \A p, q \in Nat : /\ n * p \in Nat
                          /\ p # q => n * p + n <= n * q \/ n * q + n <= n * p
    BY <2>3
  <2>5. QED
    BY <1>1, <2>1, <2>2, <2>4 DEF Disjoint
<1>4. CASE what.kind = "global"
  <2>1. \A p : AddressOf(d, what, p) = 0
    BY <1>4 DEF AddressOf
  <2>2. QED
    BY <1>1, <1>4, <2>1 DEF HasPlaces
<1>5. QED
  BY <1>2, <1>3, <1>4

(* The process has ended. *)
LEMMA EndsTold ==
  ASSUME NEW how, MemoryEnds(how)
  PROVE  MemInv'
<1>1. subject' = None
  BY DEF MemoryEnds
<1>2. subject'.kind = "none"
  BY <1>1 DEF None
<1>3. QED
  BY <1>2 DEF MemInv, Told, HasPlaces

(* A store to one place leaves the others as they were. *)
LEMMA StoresTold ==
  ASSUME MemInv, NEW place \in DOMAIN stored, NEW type, NEW v \in Int,
         subject.kind \in {"object", "array"}, TypeSize(type) = SizeAt(subject, place),
         Stores(place, AddressOf(fieldTypes, subject, place), type, v)
  PROVE  MemInv'
<1> DEFINE at == AddressOf(fieldTypes, subject, place)
<1>1. CASE ~ Inside(at, type)
  BY <1>1, EndsTold DEF Stores
<1>2. CASE Inside(at, type)
  <2> DEFINE made == Put(at, type, v)
             kept == [stored EXCEPT ![place] = v]
  <2>1. /\ memory' = made /\ stored' = kept /\ subject' = subject
        /\ fieldTypes' = fieldTypes
    BY <1>2 DEF Stores
  <2>2. HasPlaces(fieldTypes, subject, stored)
    BY DEF MemInv, Told
  <2>3. DOMAIN kept = DOMAIN stored /\ \A q \in DOMAIN stored :
          kept[q] = IF q = place THEN v ELSE stored[q]
    OBVIOUS
  <2>4. HasPlaces(fieldTypes, subject, kept)
    BY <2>2, <2>3 DEF HasPlaces
  <2>5. ASSUME Keeps(fieldTypes, subject, memory, stored)
        PROVE  Keeps(fieldTypes, subject, made, kept)
    <3> DEFINE Of(p) == AddressOf(fieldTypes, subject, p)
               size(p) == SizeAt(subject, p)
    <3>1. \A p \in DOMAIN stored :
            /\ Of(p) \in Nat /\ size(p) \in 1..8
            /\ \A q \in DOMAIN stored \ {p} : Disjoint(Of(p), size(p), Of(q), size(q))
      BY <2>2, PlacesApart
    <3>2. \A p \in DOMAIN stored :
            stored[p] \in Int /\ Holds(memory, Of(p), size(p), stored[p])
      BY <2>5 DEF Keeps
    <3>3. at = Of(place) /\ TypeSize(type) = size(place)
      OBVIOUS
    <3> HIDE DEF Of, size, at, made, kept
    <3>4. /\ Holds(made, at, TypeSize(type), v)
          /\ \A other \in Nat, m \in 1..8 : \A w :
               Holds(memory, other, m, w) /\ Disjoint(at, TypeSize(type), other, m) =>
                 Holds(made, other, m, w)
      BY <1>2, <3>1, <3>3, StoreHolds DEF made
    <3>5. ASSUME NEW q \in DOMAIN stored
          PROVE  kept[q] \in Int /\ Holds(made, Of(q), size(q), kept[q])
      <4>1. CASE q = place
        BY <2>3, <3>3, <3>4, <4>1
      <4>2. CASE q # place
        BY <2>3, <3>1, <3>2, <3>3, <3>4, <4>2
      <4>3. QED
        BY <4>1, <4>2
    <3>6. QED
      BY <2>3, <3>5 DEF Keeps, Of, size
  <2> HIDE DEF made, kept
  <2>6. Told(fieldTypes, subject, made, kept)
    BY <2>4, <2>5 DEF MemInv, Told
  <2>7. QED
    BY <2>1, <2>6 DEF MemInv
<1>3. QED
  BY <1>1, <1>2

(* Zeroed memory of which every place has its part. *)
LEMMA ZerosKept ==
  ASSUME NEW d, NEW what, NEW places, NEW m \in Nat,
         \A p \in places : /\ AddressOf(d, what, p) \in Nat /\ SizeAt(what, p) \in 1..8
                           /\ AddressOf(d, what, p) + SizeAt(what, p) <= m
  PROVE  Keeps(d, what, Zeros(m), Zero(places))
<1>1. DOMAIN Zero(places) = places /\ \A p \in places : Zero(places)[p] = 0
  BY DEF Zero
<1>2. \A p \in places : Holds(Zeros(m), AddressOf(d, what, p), SizeAt(what, p), 0)
  BY ZerosHold
<1>3. QED
  BY <1>1, <1>2 DEF Keeps

(* A new object has zeros for its fields. *)
LEMMA ObjectTold ==
  ASSUME NEW class \in DeclaringClasses, AllocObject(class)
  PROVE  MemInv'
<1> DEFINE d == fieldTypes'
           what == [kind |-> "object", class |-> class, length |-> 0]
           size == LayoutIn(d, class).size
           places == FieldsIn(d, class)
<1>1. d \in Declared
  BY MemoryAssumption DEF AllocObject, Declared
<1>2. subject' = what /\ memory' = Zeros(size) /\ stored' = Zero(places)
  BY LayoutNow DEF AllocObject
<1> HIDE DEF d
<1>3. \A p : AddressOf(d, what, p) = OffsetIn(d, p) /\ SizeAt(what, p) = TypeSize(p[2])
  BY DEF AddressOf, SizeAt, TypeAt
<1>4. /\ what.kind = "object" /\ what.class = class
      /\ DOMAIN Zero(places) = places
  BY DEF Zero
<1> HIDE DEF what, places, size
<1>5. HasPlaces(d, what, Zero(places))
  BY <1>1, <1>4 DEF HasPlaces, places
<1>6. \A p : SizeAt(what, p) \in 1..8
  BY Sizes DEF SizeAt
<1>7. size \in Nat /\ \A p \in places : /\ OffsetIn(d, p) \in Nat
                                        /\ OffsetIn(d, p) + TypeSize(p[2]) <= size
  BY <1>1, FieldsApart DEF size, places
<1>8. Keeps(d, what, Zeros(size), Zero(places))
  BY <1>3, <1>6, <1>7, ZerosKept
<1>9. Told(d, what, Zeros(size), Zero(places))
  BY <1>4, <1>5, <1>8 DEF Told
<1>10. QED
  BY <1>2, <1>9 DEF MemInv, d

(* A new array has zeros for its elements, if their number of bytes does not wrap. *)
LEMMA ArrayTold ==
  ASSUME NEW type, NEW length \in Int, AllocArray(type, length)
  PROVE  MemInv'
<1> DEFINE what == Array(type, length)
           n == TypeSize(type)
           bytes == ArrayBytes(type, length)
           places == 0 .. length - 1
           m == bytes - ArrayHeader
<1>1. CASE bytes < ArrayHeader
  BY <1>1, EndsTold DEF AllocArray
<1>2. CASE ~ (bytes < ArrayHeader)
  <2>1. /\ subject' = what /\ memory' = Zeros(m) /\ stored' = Zero(places)
        /\ fieldTypes' = fieldTypes
    BY <1>2 DEF AllocArray, Start
  <2>2. /\ what.kind = "array" /\ what.class = type /\ what.length = length
        /\ DOMAIN Zero(places) = places
    BY DEF Array, Zero
  <2>3. HasPlaces(fieldTypes, what, Zero(places))
    BY <2>2 DEF HasPlaces
  <2>4. \A p : AddressOf(fieldTypes, what, p) = n * p /\ SizeAt(what, p) = n
    BY <2>2 DEF AddressOf, SizeAt, TypeAt, ElementAt
  <2>5. n \in {1, 2, 4, 8}
    BY Sizes
  <2> HIDE DEF what
  <2>6. ASSUME Countable(type, length)
        PROVE  Keeps(fieldTypes, what, Zeros(m), Zero(places))
    <3>1. CASE length <= 0
      BY <3>1 DEF Keeps, Zero
    <3>2. CASE length > 0
      <4> DEFINE size == Values[8]
      <4>1. 24 + n * length < size /\ bytes = (24 + n * length) % size
        BY <2>6 DEF Countable, ArrayBytes, ArrayHeader
      <4>2. size \in Nat \ {0}
        <5>1. 8 \in 0..8
          OBVIOUS
        <5>2. QED
          BY <5>1, ValuesAre
      <4> HIDE DEF n, size, bytes
      <4>3. n * length \in Nat
        BY <2>5, <3>2
      <4>4. bytes = 24 + n * length
        <5> DEFINE w == 24 + n * length
        <5>1. w \in 0..(size - 1) /\ w = (size * 0) + w
          BY <4>1, <4>2, <4>3
        <5> HIDE DEF w
        <5>2. w = w % size
          BY <4>2, <5>1, RemainderIs
        <5>3. QED
          BY <4>1, <5>2 DEF w
      <4>5. m = n * length /\ m \in Nat
        BY <4>3, <4>4 DEF ArrayHeader
      <4> HIDE DEF m
      <4>6. \A p \in places : n * p \in Nat /\ n \in 1..8 /\ n * p + n <= m
        BY <2>5, <4>5
      <4> HIDE DEF places
      <4>7. QED
        BY <2>4, <4>5, <4>6, ZerosKept
    <3>3. QED
      BY <3>1, <3>2
  <2> HIDE DEF m, places
  <2>7. Told(fieldTypes, what, Zeros(m), Zero(places))
    BY <2>2, <2>3, <2>6 DEF Told
  <2>8. QED
    BY <2>1, <2>7 DEF MemInv
<1>3. QED
  BY <1>1, <1>2

(* A new string, a new global, and a store to a global. *)
LEMMA StringTold ==
  ASSUME NEW text \in Texts, NewString(text)
  PROVE  MemInv'
<1> DEFINE b == [a \in 0 .. Len(text) - 1 |-> text[a + 1]]
<1>1. /\ subject' = [kind |-> "string", class |-> "CHAR", length |-> Len(text)]
      /\ memory' = b /\ stored' = b
  BY DEF NewString
<1>2. b = [a \in 0 .. Len(text) - 1 |-> b[a]]
  OBVIOUS
<1> HIDE DEF b
<1>3. QED
  BY <1>1, <1>2 DEF MemInv, Told, HasPlaces

LEMMA GlobalTold ==
  ASSUME NEW type, NewGlobal(type)
  PROVE  MemInv'
<1> DEFINE what == [kind |-> "global", class |-> type, length |-> 0]
<1>1. subject' = what /\ memory' = Zeros(8) /\ stored' = Zero({0})
  BY DEF NewGlobal, Start
<1>2. what.kind = "global"
  OBVIOUS
<1> HIDE DEF what
<1>3. \A p : AddressOf(fieldTypes', what, p) = 0 /\ SizeAt(what, p) \in {1, 2, 4, 8}
  BY <1>2, Sizes DEF AddressOf, SizeAt
<1>4. Keeps(fieldTypes', what, Zeros(8), Zero({0}))
  BY <1>3, ZerosKept
<1>5. DOMAIN Zero({0}) = {0}
  BY DEF Zero
<1>6. Told(fieldTypes', what, Zeros(8), Zero({0}))
  BY <1>2, <1>4, <1>5 DEF Told, HasPlaces
<1>7. QED
  BY <1>1, <1>6 DEF MemInv

LEMMA SetGlobalTold ==
  ASSUME MemInv, NEW v \in Int, NEW found, SetGlobal(v, found)
  PROVE  MemInv'
<1> DEFINE n == TypeSize(subject.class)
           made == ValueBytes(subject.class, v, found)
           kept == [stored EXCEPT ![0] = v]
<1>1. /\ subject.kind = "global" /\ subject' = subject /\ fieldTypes' = fieldTypes
      /\ memory' = made /\ stored' = kept
  BY DEF SetGlobal
<1>2. DOMAIN stored = {0}
  BY <1>1 DEF MemInv, Told, HasPlaces
<1>3. DOMAIN kept = {0} /\ kept[0] = v
  BY <1>2
<1>4. AddressOf(fieldTypes, subject, 0) = 0 /\ SizeAt(subject, 0) = n
  BY <1>1 DEF AddressOf, SizeAt, TypeAt
<1>5. n \in {1, 2, 4, 8}
  BY Sizes
<1>6. Holds(made, 0, n, v)
  <2> DEFINE b == Bytes(v, n)
  <2>1. made = [a \in 0 .. 7 |-> IF a < n THEN b[a + 1] ELSE found]
    BY DEF ValueBytes
  <2> HIDE DEF n, b, made
  <2>2. ASSUME NEW k \in 1..n
        PROVE  (0 + k) - 1 \in DOMAIN made /\ made[(0 + k) - 1] = b[k]
    <3>1. (0 + k) - 1 \in 0..7 /\ (0 + k) - 1 < n /\ ((0 + k) - 1) + 1 = k
      BY <1>5
    <3>2. QED
      BY <2>1, <3>1
  <2>3. QED
    BY <2>2 DEF Holds, b
<1> HIDE DEF n, made, kept
<1>7. Keeps(fieldTypes, subject, made, kept)
  BY <1>3, <1>4, <1>6 DEF Keeps
<1>8. Told(fieldTypes, subject, made, kept)
  BY <1>1, <1>3, <1>7 DEF Told, HasPlaces
<1>9. QED
  BY <1>1, <1>8 DEF MemInv

(* A store to a field that the object has. *)
LEMMA FieldTold ==
  ASSUME MemInv, NEW class \in DeclaringClasses, NEW type \in Types, NEW v \in Int,
         subject.kind = "object", <<class, type>> \in DOMAIN stored,
         Stores(<<class, type>>, FieldAt(class, type), type, v)
  PROVE  MemInv'
<1> DEFINE f == <<class, type>>
<1>1. FieldAt(class, type) = OffsetIn(fieldTypes, f)
  BY LayoutNow
<1>2. f[2] = type
  OBVIOUS
<1> HIDE DEF f
<1>3. FieldAt(class, type) = AddressOf(fieldTypes, subject, f) /\ SizeAt(subject, f) = TypeSize(type)
  BY <1>1, <1>2 DEF AddressOf, SizeAt, TypeAt
<1>4. f \in DOMAIN stored /\ Stores(f, AddressOf(fieldTypes, subject, f), type, v)
  BY <1>3 DEF f
<1>5. QED
  BY <1>3, <1>4, StoresTold

(* A store to an element, by an instruction of its size. *)
LEMMA ElementTold ==
  ASSUME MemInv, NEW i \in Int, NEW type, NEW v \in Int,
         subject.kind = "array", InBounds(i), Suits(type, subject.class),
         Stores(i, ElementAt(type, i), type, v)
  PROVE  MemInv'
<1>1. subject.length \in Int /\ DOMAIN stored = 0 .. subject.length - 1
  BY DEF MemInv, Told, HasPlaces
<1>2. i \in DOMAIN stored
  BY <1>1 DEF InBounds
<1>3. TypeSize(type) = TypeSize(subject.class)
  BY DEF Suits, TypeSize
<1>4. ElementAt(type, i) = AddressOf(fieldTypes, subject, i) /\ SizeAt(subject, i) = TypeSize(type)
  BY <1>3 DEF AddressOf, SizeAt, TypeAt, ElementAt
<1>5. Stores(i, AddressOf(fieldTypes, subject, i), type, v)
  BY <1>4
<1>6. QED
  BY <1>2, <1>4, <1>5, StoresTold

(* What is stored are numbers. *)
LEMMA NumbersAre ==
  /\ \A v \in Numbers \cup Lengths : v \in Int
  /\ \A v \in Numbers : \A type : Given(type, v) \in Int /\ GivenToGlobal(type, v) \in Int
<1>1. \A v \in Numbers \cup Lengths : v \in Int
  BY MemoryAssumption
<1>2. ASSUME NEW v \in Numbers, NEW type
      PROVE  Given(type, v) \in Int /\ GivenToGlobal(type, v) \in Int
  <2>1. v \in Int
    BY <1>1
  <2>2. Given(type, v) \in Int
    BY <2>1, ValueBack DEF Given
  <2>3. QED
    BY <2>2 DEF GivenToGlobal, Truth
<1>3. QED
  BY <1>1, <1>2

(* The invariant holds at first, and every step keeps it. *)
LEMMA ToldAtFirst == MemoryInit => MemInv
<1>1. MemoryInit => subject.kind = "none"
  BY DEF MemoryInit, None
<1>2. QED
  BY <1>1 DEF MemInv, Told, HasPlaces

LEMMA ToldStep == MemInv /\ [MemoryNext]_memoryVars => MemInv'
<1> SUFFICES ASSUME MemInv, [MemoryNext]_memoryVars
             PROVE  MemInv'
  OBVIOUS
<1>1. CASE UNCHANGED memoryVars
  BY <1>1 DEF memoryVars, MemInv
<1>2. ASSUME NEW class \in DeclaringClasses, AllocObject(class)
      PROVE  MemInv'
  BY <1>2, ObjectTold
<1>3. ASSUME NEW class \in DeclaringClasses, NEW type \in Types, FieldRefused(class, type)
      PROVE  MemInv'
  BY <1>3, EndsTold DEF FieldRefused
<1>4. ASSUME NEW class \in DeclaringClasses, NEW type \in Types, NEW v \in Numbers,
             SetField(class, type, v)
      PROVE  MemInv'
  <2>1. CASE ~ IsAssignableTo(subject.class, class)
    BY <1>4, <2>1, EndsTold DEF SetField
  <2>2. CASE IsAssignableTo(subject.class, class)
    <3>1. /\ subject.kind = "object" /\ HasField(class, type)
          /\ Stores(<<class, type>>, FieldAt(class, type), type, v)
      BY <1>4, <2>2 DEF SetField
    <3>2. DOMAIN stored = FieldsIn(fieldTypes, subject.class)
      BY <3>1 DEF MemInv, Told, HasPlaces
    <3>3. <<class, type>> \in DOMAIN stored
      BY <2>2, <3>1, <3>2, LayoutNow DEF FieldsIn
    <3>4. QED
      BY <3>1, <3>3, FieldTold, NumbersAre
  <2>3. QED
    BY <2>1, <2>2
<1>5. ASSUME NEW class \in DeclaringClasses, NEW type \in Types, NEW v \in Numbers,
             SetTField(class, type, Given(type, v))
      PROVE  MemInv'
  <2>1. CASE type \notin {"FLOAT", "DOUBLE"} /\ <<class, type>> \in DOMAIN stored
    <3>1. /\ subject.kind = "object"
          /\ Stores(<<class, type>>, FieldAt(class, type), type, Given(type, v))
      BY <1>5, <2>1 DEF SetTField
    <3>2. QED
      BY <2>1, <3>1, FieldTold, NumbersAre
  <2>2. CASE ~ (type \notin {"FLOAT", "DOUBLE"} /\ <<class, type>> \in DOMAIN stored)
    <3>1. \E how : MemoryEnds(how)
      BY <1>5, <2>2 DEF SetTField
    <3>2. QED
      BY <3>1, EndsTold
  <2>3. QED
    BY <2>1, <2>2
<1>6. ASSUME NullChecked
      PROVE  MemInv'
  BY <1>6, EndsTold DEF NullChecked
<1>7. ASSUME NEW type, NEW length \in Lengths, NewArray(type, length)
      PROVE  MemInv'
  <2>1. CASE AllocArray(type, length)
    BY <2>1, ArrayTold, NumbersAre
  <2>2. CASE UNCHANGED memoryVars
    BY <2>2 DEF memoryVars, MemInv
  <2>3. CASE MemoryEnds("exited")
    BY <2>3, EndsTold
  <2>4. QED
    BY <1>7, <2>1, <2>2, <2>3 DEF NewArray
<1>8. ASSUME NEW type, NEW length \in Lengths, NewTArray(type, length)
      PROVE  MemInv'
  BY <1>7, <1>8, EndsTold DEF NewTArray
<1>9. ASSUME NEW type \in AccessTypes, NEW i \in Lengths, NEW v \in Numbers,
             ArrayStore(type, i, v)
      PROVE  MemInv'
  <2>1. CASE subject.kind = "array" /\ InBounds(i) /\ Suits(type, subject.class)
    <3>1. Stores(i, ElementAt(type, i), type, v)
      BY <1>9, <2>1 DEF ArrayStore
    <3>2. QED
      BY <2>1, <3>1, ElementTold, NumbersAre
  <2>2. CASE ~ (subject.kind = "array" /\ InBounds(i) /\ Suits(type, subject.class))
    <3>1. \E how : MemoryEnds(how)
      BY <1>9, <2>2 DEF ArrayStore
    <3>2. QED
      BY <3>1, EndsTold
  <2>3. QED
    BY <2>1, <2>2
<1>10. ASSUME NEW i \in Lengths, NEW v \in Numbers, ReleaseChanged(i, v)
       PROVE  MemInv'
  <2>1. /\ subject.kind = "array" /\ InBounds(i)
        /\ Stores(i, ElementAt(subject.class, i), subject.class, v)
    BY <1>10 DEF ReleaseChanged
  <2>2. Suits(subject.class, subject.class)
    BY DEF Suits
  <2>3. QED
    BY <2>1, <2>2, ElementTold, NumbersAre
<1>11. ASSUME NEW text \in Texts, NewString(text)
       PROVE  MemInv'
  BY <1>11, StringTold
<1>12. ASSUME NEW type, NewGlobal(type)
       PROVE  MemInv'
  BY <1>12, GlobalTold
<1>13. ASSUME NEW v \in Numbers, NEW found,
              SetGlobal(v, found) \/ SetGlobal(GivenToGlobal(subject.class, v), found)
       PROVE  MemInv'
  BY <1>13, SetGlobalTold, NumbersAre
<1>14. QED
  BY <1>1, <1>2, <1>3, <1>4, <1>5, <1>6, <1>7, <1>8, <1>9, <1>10, <1>11, <1>12, <1>13
     DEF MemoryNext

(* What memory holds is what the accessors read. *)
LEMMA ToldReads == MemInv => ReadsWhatWasStored
<1> SUFFICES ASSUME MemInv
             PROVE  ReadsWhatWasStored
  OBVIOUS
<1>1. HasPlaces(fieldTypes, subject, stored)
  BY DEF MemInv, Told
<1>2. CASE subject.kind = "object"
  <2>1. Keeps(fieldTypes, subject, memory, stored)
    BY <1>2 DEF MemInv, Told
  <2>2. DOMAIN stored = FieldsIn(fieldTypes, subject.class)
    BY <1>1, <1>2 DEF HasPlaces
  <2>3. ASSUME NEW f \in DOMAIN stored
        PROVE  /\ Inside(FieldAt(f[1], f[2]), f[2])
               /\ Fetch(FieldAt(f[1], f[2]), f[2]) = Cut(f[2], stored[f])
    <3>1. f[1] \in DeclaringClasses /\ f = <<f[1], f[2]>>
      BY <2>2 DEF FieldsIn
    <3>2. FieldAt(f[1], f[2]) = AddressOf(fieldTypes, subject, f)
      BY <1>2, <3>1, LayoutNow DEF AddressOf
    <3>3. SizeAt(subject, f) = TypeSize(f[2])
      BY <1>2 DEF SizeAt, TypeAt
    <3>4. AddressOf(fieldTypes, subject, f) \in Nat
      BY <1>1, <1>2, PlacesApart
    <3>5. /\ stored[f] \in Int
          /\ Holds(memory, AddressOf(fieldTypes, subject, f), TypeSize(f[2]), stored[f])
      BY <2>1, <3>3 DEF Keeps
    <3>6. QED
      BY <3>2, <3>4, <3>5, HeldRead
  <2>4. QED
    BY <1>2, <2>3 DEF ReadsWhatWasStored, FieldRead
<1>3. CASE subject.kind = "array"
  <2>1. SUFFICES ASSUME Countable(subject.class, subject.length),
                        NEW i \in 0 .. subject.length - 1
                 PROVE  /\ Inside(ElementAt(subject.class, i), subject.class)
                        /\ ElementRead(subject.class, i) = Cut(subject.class, stored[i])
    BY <1>3 DEF ReadsWhatWasStored
  <2>2. Keeps(fieldTypes, subject, memory, stored)
    BY <1>3, <2>1 DEF MemInv, Told
  <2>3. i \in DOMAIN stored
    BY <1>1, <1>3 DEF HasPlaces
  <2>4. /\ AddressOf(fieldTypes, subject, i) = ElementAt(subject.class, i)
        /\ SizeAt(subject, i) = TypeSize(subject.class)
    BY <1>3 DEF AddressOf, SizeAt, TypeAt
  <2>5. ElementAt(subject.class, i) \in Nat
    BY <1>1, <1>3, <2>3, <2>4, PlacesApart
  <2>6. /\ stored[i] \in Int
        /\ Holds(memory, ElementAt(subject.class, i), TypeSize(subject.class), stored[i])
    BY <2>2, <2>3, <2>4 DEF Keeps
  <2>7. QED
    BY <2>5, <2>6, HeldRead DEF ElementRead
<1>4. CASE subject.kind = "global"
  <2>1. Keeps(fieldTypes, subject, memory, stored)
    BY <1>4 DEF MemInv, Told
  <2>2. 0 \in DOMAIN stored
    BY <1>1, <1>4 DEF HasPlaces
  <2>3. /\ AddressOf(fieldTypes, subject, 0) = 0
        /\ SizeAt(subject, 0) = TypeSize(subject.class)
    BY <1>4 DEF AddressOf, SizeAt, TypeAt
  <2>4. stored[0] \in Int /\ Holds(memory, 0, TypeSize(subject.class), stored[0])
    BY <2>1, <2>2, <2>3 DEF Keeps
  <2>5. 0 \in Nat
    OBVIOUS
  <2>6. Fetch(0, subject.class) = Cut(subject.class, stored[0])
    BY <2>4, <2>5, HeldRead
  <2>7. QED
    BY <1>4, <2>6 DEF ReadsWhatWasStored, GlobalRead
<1>5. CASE subject.kind = "string"
  BY <1>5 DEF MemInv, Told, ReadsWhatWasStored, GetStringChars
<1>6. CASE subject.kind = "none"
  BY <1>6 DEF ReadsWhatWasStored
<1>7. QED
  BY <1>2, <1>3, <1>4, <1>5, <1>6 DEF MemInv, Told

(* Whatever the fields that classes declare, and whatever is stored in whatever order, *)
(* the accessors of bytecode and of native code read from every field, element and     *)
(* global what was last stored there, cut to its type (Object::getInt to setObject,    *)
(* the memcpy of the array elements, the union of GlobalVar).                           *)
THEOREM ReadsWhatWasStoredCorrect == MemorySpec => []ReadsWhatWasStored
<1>1. MemorySpec => []MemInv
  BY ToldAtFirst, ToldStep, PTL DEF MemorySpec
<1>2. QED
  BY <1>1, ToldReads, PTL

===============================================================================
