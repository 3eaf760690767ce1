------------------------------ MODULE UdtCompare ------------------------------
(***************************************************************************)
(* UdtInfo: the definition of a class as two translation units have it,    *)
(* read from DIA, put in order, compared.                                  *)
(*                                                                         *)
(* A class is declared with members, of which some have an unnamed struct  *)
(* or union in their type, and with functions. The compiler lists members  *)
(* as declared, but of the functions those it has emitted, in an order     *)
(* that depends on which are used. The unnamed types are entries of udtMap *)
(* of their own, under keys made of their size and their first member; a   *)
(* class and its unnamed types are compared separately.                    *)
(***************************************************************************)
EXTENDS Naturals, Sequences, FiniteSetsExt, SequencesExt

CONSTANTS
  TUs,     \* the translation units
  Classes  \* the declarations one of them may have of the class

(* What a type adds to the one it is made of, innermost first: a pointer,  *)
(* "*()" one to the function before it; a reference; an array; a function  *)
(* that returns it. n is an array's length, a function's parameters, the   *)
(* class of a pointer to members; cv is const or volatile of what the type *)
(* points to, refers to, holds or returns.                                 *)
Wraps == [op : {"*", "*()", "&", "&&", "[]", "()"}, n : Nat, cv : STRING]

(* A member of an unnamed type has a plain type, one of the class any. The *)
(* attr is what else is compared: access, const, volatile of the member    *)
(* itself, bits; access, virtual, static, const, volatile, noexcept.       *)
(* Names are numbered as the sort orders them; that of a function is its   *)
(* signature.                                                              *)
Named == [name : Nat, attr : STRING]
Functions == [name : Nat, attr : STRING, ctor : BOOLEAN]
PlainTypes ==
  [kind : STRING \ {"struct", "union", "<unnamed"}, members : {<< >>}, wraps : Seq(Wraps)]
UnnamedTypes ==
  [kind : {"struct", "union"}, wraps : Seq(Wraps),
   members : Seq([name : Nat, attr : STRING, type : PlainTypes])]
Declarations ==
  [kind : {"struct", "union"},
   members : Seq([name : Nat, attr : STRING, type : PlainTypes \cup UnnamedTypes]),
   statics : Seq([name : Nat, access : STRING, attr : STRING, type : PlainTypes]),
   bases : Seq(Named), functions : Seq(Functions)]

ASSUME ClassesAssumption == Classes \subseteq Declarations

VARIABLES
  decl,    \* each unit's declaration
  listed,  \* each unit's functions as its .pdb lists them
  udtMap,  \* what is read: a set of [key, tu, info]
  stage,   \* "load", "done"
  report   \* the keys reported

compareVars == <<decl, listed, udtMap, stage, report>>

(* The elements of s at the indices I, in any order. *)
Arranged(s, I) == {[k \in DOMAIN o |-> s[o[k]]] : o \in Bijection(1 .. Cardinality(I), I)}

(* Any of the functions may be missing: not emitted, or behind a failure   *)
(* of DIA, which ends the list.                                            *)
Listings(functions) == UNION {Arranged(functions, I) : I \in SUBSET DOMAIN functions}

CompareInit ==
  /\ decl \in [TUs -> Classes]
  /\ listed \in [TUs -> UNION {Listings(decl[tu].functions) : tu \in TUs}]
  /\ \A tu \in TUs : listed[tu] \in Listings(decl[tu].functions)
  /\ udtMap = {}
  /\ stage = "load" /\ report = {}

-----------------------------------------------------------------------------
Unnamed(type) == type.kind \in {"struct", "union"}

(* Every plain type but an array has size 1, nothing is padded.            *)
Extent(kind, sizes) ==
  IF kind = "union" THEN Max({0} \cup Range(sizes)) ELSE FoldSeq(+, 0, sizes)
Wrapped(size, wraps) == FoldLeft(LAMBDA n, w : IF w.op = "[]" THEN w.n * n ELSE 1, size, wraps)
SizeOf(type) ==
  Wrapped(IF Unnamed(type)
          THEN Extent(type.kind, [i \in DOMAIN type.members |-> Wrapped(1, type.members[i].type.wraps)])
          ELSE 1,
          type.wraps)
Sizes(udt) == [i \in DOMAIN udt.members |-> SizeOf(udt.members[i].type)]

(* Mutation: the length of an array is left out. *)
MutantNoLength(w) == IF w.op \in {"&", "&&"} THEN <<"&">> ELSE <<w.op>>

(* A pointer to a function adds nothing to the function's name, which      *)
(* leaves out the parameters.                                              *)
Shown(wraps) == SelectSeq(wraps, LAMBDA w : w.op # "*()")
Suffix(w) ==
  CASE w.op = "[]" -> <<"[", w.n>>
    [] w.op \in {"&", "&&"} -> <<"&">>
    [] OTHER -> <<w.op>>

(* Names that begin with that of an unnamed type are all accepted as equal *)
(* (isAnonymous).                                                          *)
TypeName(type) ==
  IF Unnamed(type) THEN <<"<unnamed">>
  ELSE <<type.kind, [i \in DOMAIN Shown(type.wraps) |-> Suffix(Shown(type.wraps)[i])]>>

InstanceMember(udt, i) ==
  [name |-> udt.members[i].name, attr |-> udt.members[i].attr,
   typeName |-> TypeName(udt.members[i].type),
   offset |-> IF udt.kind = "union" THEN 0
              ELSE FoldSeq(+, 0, SubSeq(Sizes(udt), 1, i - 1))]

(* Access to a static member is not read. *)
StaticMember(m) == [name |-> m.name, attr |-> m.attr, typeName |-> TypeName(m.type)]

Methods(functions) == {i \in DOMAIN functions : ~functions[i].ctor}
Ctors(functions) == SelectSeq(functions, LAMBDA f : f.ctor)

(* Mutation: methods are taken in the order they are listed in. *)
MutantUnsorted(functions) == {SelectSeq(functions, LAMBDA f : ~f.ctor)}

(* std::sort by name leaves open in which order those of one name come.    *)
SortedCopies(functions) ==
  {s \in Arranged(functions, Methods(functions)) :
     \A i, j \in DOMAIN s : i < j => s[i].name <= s[j].name}

(* Listed as declared, the members are in the order of their offsets.      *)
GetMembers(udt) ==
  <<[i \in DOMAIN udt.members |-> InstanceMember(udt, i)],
    [i \in DOMAIN udt.statics |-> StaticMember(udt.statics[i])]>>

UdtInfo(udt, methods, ctors) ==
  [size |-> Extent(udt.kind, Sizes(udt)), udtKind |-> udt.kind, bases |-> udt.bases,
   members |-> GetMembers(udt), methodsAndCtors |-> <<methods, ctors>>]

FirstMemberName(udt) ==
  IF udt.members = << >> THEN 0 ELSE Min({m.name : m \in Range(udt.members)})

(* [kind][size=..][first=..], appended to the name of the class around it. *)
BuildUdtKey(udt) == <<udt.kind, Extent(udt.kind, Sizes(udt)), FirstMemberName(udt)>>

AsClass(t) ==
  [kind |-> t.kind, members |-> t.members, statics |-> << >>, bases |-> << >>, functions |-> << >>]
UnnamedOf(tu) == {AsClass(t) : t \in {m.type : m \in {n \in Range(decl[tu].members) : Unnamed(n.type)}}}

(* One unit's class and its unnamed types, which have only members, are    *)
(* read.                                                                   *)
Load(tu) ==
  /\ stage = "load"
  /\ \A entry \in udtMap : entry.tu # tu
  /\ \E sorted \in SortedCopies(listed[tu]) :
       udtMap' = udtMap
         \cup {[key |-> <<"class">>, tu |-> tu,
                info |-> UdtInfo(decl[tu], sorted, Ctors(listed[tu]))]}
         \cup {[key |-> BuildUdtKey(t), tu |-> tu, info |-> UdtInfo(t, << >>, << >>)] :
                 t \in UnnamedOf(tu)}
  /\ UNCHANGED <<decl, listed, stage, report>>

(* The items of one key are compared. *)
ReportMapViolations ==
  /\ stage = "load" /\ stage' = "done"
  /\ \A tu \in TUs : \E entry \in udtMap : entry.tu = tu
  /\ report' = {entry.key : entry \in
                  {e \in udtMap : \E f \in udtMap : e.key = f.key /\ e.info # f.info}}
  /\ UNCHANGED <<decl, listed, udtMap>>

Compared == stage = "done" /\ UNCHANGED compareVars

CompareNext == (\E tu \in TUs : Load(tu)) \/ ReportMapViolations \/ Compared

CompareSpec == CompareInit /\ [][CompareNext]_compareVars

-----------------------------------------------------------------------------
(* What the comparison ought to keep apart: a type without what its unnamed *)
(* types hold, without a function's parameters, the const and volatile of  *)
(* what it points to, refers to, holds or returns, the class of a pointer  *)
(* to members, the kind of a reference, pointers to functions; a member    *)
(* likewise, a static one without its access.                              *)
Known(type) ==
  IF Unnamed(type) THEN [kind |-> "<unnamed", wraps |-> << >>]
  ELSE [kind |-> type.kind,
        wraps |-> [i \in DOMAIN Shown(type.wraps) |->
          LET w == Shown(type.wraps)[i] IN
          [op |-> IF w.op = "&&" THEN "&" ELSE w.op, n |-> IF w.op = "[]" THEN w.n ELSE 0]]]
KnownMember(m) == [name |-> m.name, attr |-> m.attr, type |-> Known(m.type)]

(* A declaration of which functions are listed, methods in any order.      *)
KnownOf(udt, functions) ==
  [kind |-> udt.kind, bases |-> udt.bases,
   members |-> [i \in DOMAIN udt.members |-> KnownMember(udt.members[i])],
   statics |-> [i \in DOMAIN udt.statics |-> KnownMember(udt.statics[i])],
   methods |-> Arranged(functions, Methods(functions)), ctors |-> Ctors(functions)]

NamesTell(functions) ==
  \A i, j \in Methods(functions) :
    functions[i].name = functions[j].name => functions[i] = functions[j]

KeysTell(tu) ==
  \A t, u \in UnnamedOf(tu) : t # u => BuildUdtKey(t) # BuildUdtKey(u)

(* All units have one declaration and list the same methods. *)
OneDeclaration ==
  /\ \A tu \in TUs : KeysTell(tu) /\ NamesTell(listed[tu])
  /\ \A tu, other \in TUs :
       /\ decl[tu] = decl[other]
       /\ Arranged(listed[tu], Methods(listed[tu])) = Arranged(listed[other], Methods(listed[other]))

(* One declaration is not reported, in whatever order the units list its   *)
(* methods, if the methods listed are the same; methods whose names,       *)
(* signatures included, are alike, are alike; no two of its unnamed types  *)
(* have one key; and the constructors listed are the same in one order.    *)
(* Otherwise the class alone is reported, against the comment              *)
(* "all ctors may or may not be emitted ... Not an ODR violation"          *)
(* (UdtInfo.h:417-428, 601-614; OdrCop.h:319-335).                         *)
SameIsNotReported ==
  OneDeclaration =>
    IF \A tu, other \in TUs : Ctors(listed[tu]) = Ctors(listed[other])
    THEN report = {}
    ELSE stage = "done" => report = {<<"class">>}

(* A difference outside unnamed types is reported for the class, but for   *)
(* what the names of types leave out, the access to static members, the    *)
(* order of methods, virtual ones included, and functions not listed; one  *)
(* inside an unnamed type, with the same exceptions, for that type, if     *)
(* both have one key (UdtInfo.h:144-244, 601-616).                         *)
DifferencesAreReported ==
  stage = "done" =>
    \A tu, other \in TUs :
      /\ KnownOf(decl[tu], listed[tu]) # KnownOf(decl[other], listed[other])
           => <<"class">> \in report
      /\ \A t \in UnnamedOf(tu), u \in UnnamedOf(other) :
           KnownOf(t, << >>) # KnownOf(u, << >>) /\ BuildUdtKey(t) = BuildUdtKey(u)
             => BuildUdtKey(t) \in report
=============================================================================
