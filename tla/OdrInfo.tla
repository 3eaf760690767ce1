------------------------------- MODULE OdrInfo --------------------------------
(***************************************************************************)
(* What the program keeps about one definition (UdtInfo, EnumInfo,         *)
(* TDefInfo, FuncInfo), when two of them are equal, and the maps from key  *)
(* to the vector of definitions seen under that key.                       *)
(*                                                                         *)
(* operator== of the three type infos compares fields with fields, so it   *)
(* is equality of the compared fields: they are the info's "content".      *)
(* operator== of FuncInfo is not an equivalence and is written out.        *)
(***************************************************************************)
EXTENDS OdrNames, Bodies

CONSTANTS
  Nested,     \* form -> the anonymous-namespace UDTs that are types of its
              \* members or its bases, as <<name, form>> pairs
  Signature,  \* function id -> the types of its arguments and its result, as
              \* Undecorate spells them from the decorated name
  Relocs      \* relocation lists

ASSUME NestedAssumption == Nested \in [Forms -> SUBSET (RawName \X Forms)]

TypeKinds == {"udt", "enum", "tdef"}
Kinds == TypeKinds \cup {"func"}

(* A type as undecorated text names it: "struct X", "enum X", or a text    *)
(* that is neither.                                                        *)
TypeRef == [class : {"udt", "enum", "other"}, name : RawName]

ASSUME SignatureAssumption == Signature \in [Ids -> Seq(TypeRef)]

InfoOf(kind, Looks) ==
  [kind : {kind}, anon : BOOLEAN, tu : Pdbs, content : Looks]

TypeContent == Forms \cup (Name \X Forms) \cup (Name \X Name)
TypeInfo ==
  InfoOf("udt", Forms) \cup InfoOf("enum", Name \X Forms) \cup InfoOf("tdef", Name \X Name)

NullInfo == [kind |-> "null"]
NamedItem == [name : Name, item : TypeInfo \cup {NullInfo}]
FuncContent == [id : Ids, static : BOOLEAN, body : Body, relocs : Relocs,
                types : Seq(NamedItem)]
FuncInfo == InfoOf("func", FuncContent)
Info == TypeInfo \cup FuncInfo

-----------------------------------------------------------------------------
(* Constructors. UdtInfo::IsEqualTo does not look at the name.             *)
UdtInfo(anon, p, form) ==
  [kind |-> "udt", anon |-> anon, tu |-> p, content |-> form]

EnumInfo(anon, p, name, form) ==
  [kind |-> "enum", anon |-> anon, tu |-> p,
   content |-> <<MakeAnonymousNamespaceTuSpecific(name, PdbPath(p)), form>>]

TDefInfo(anon, p, name, underlying) ==
  [kind |-> "tdef", anon |-> anon, tu |-> p,
   content |-> <<name, MakeAnonymousNamespaceTuSpecific(underlying, PdbPath(p))>>]

-----------------------------------------------------------------------------
(* std::variant's ==: the same alternative, and equal values.              *)
SameItem(x, y) ==
  x.kind = y.kind /\ (x.kind # "null" => x.content = y.content)

SameTypes(ts, us) ==
  /\ Len(ts) = Len(us)
  /\ \A i \in DOMAIN ts : ts[i].name = us[i].name /\ SameItem(ts[i].item, us[i].item)

SameFunc(f, g) ==
  \/ f.static \/ g.static
  \/ /\ f.id = g.id
     /\ SameTypes(f.types, g.types)
     /\ f.relocs = g.relocs
     /\ NoMismatch(f.body, g.body)

Same(a, b) ==
  IF a.kind = "func" THEN SameFunc(a.content, b.content) ELSE a.content = b.content

-----------------------------------------------------------------------------
(* std::map<key, std::vector<Info>>: a function on the keys present.       *)
EmptyMap == [k \in {} |-> << >>]

Items(map, key) == IF key \in DOMAIN map THEN map[key] ELSE << >>

PushBack(map, key, info) ==
  [k \in DOMAIN map \cup {key} |->
     IF k = key THEN Append(Items(map, key), info) ELSE map[k]]

(* map.find(key), then it->second[0]; NullInfo when there is none.         *)
FindFirst(map, key) == IF key \in DOMAIN map THEN map[key][1] ELSE NullInfo

(* Mutations: the first item is compared with the last only; a vector of   *)
(* two is passed over.                                                     *)
MutantComparesLast(items) ==
  Len(items) >= 2 /\ ~items[1].anon /\ ~Same(items[Len(items)], items[1])
MutantNeedsThree(items) ==
  Len(items) > 2 /\ ~items[1].anon /\ \E i \in 2 .. Len(items) : ~Same(items[i], items[1])

(* The two early continues of ReportMapViolations that skip a key, and the *)
(* comparison of every item with the first.                                *)
IsViolation(items) ==
  /\ Len(items) >= 2
  /\ ~items[1].anon
  /\ \E i \in 2 .. Len(items) : ~Same(items[i], items[1])

Violating(map) == {k \in DOMAIN map : IsViolation(map[k])}

(* CollectSubItems, one level deep: the anonymous-namespace types of a     *)
(* UDT's bases and members, every type found for a function's signature.   *)
SubItems(info) ==
  CASE info.kind = "udt" ->
         {[kind |-> "udt",
           name |-> MakeAnonymousNamespaceTuNonSpecific(
                      MakeAnonymousNamespaceTuSpecific(n[1], PdbPath(info.tu))),
           info |-> UdtInfo(TRUE, info.tu, n[2])] : n \in Nested[info.content]}
    [] info.kind = "func" ->
         {[kind |-> t.item.kind,
           name |-> MakeAnonymousNamespaceTuNonSpecific(t.name),
           info |-> t.item] :
            t \in {u \in {info.content.types[i] : i \in DOMAIN info.content.types} :
                     u.item # NullInfo}}
    [] OTHER -> {}
=============================================================================
