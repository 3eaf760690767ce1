----------------------------- MODULE OdrCopProofs -----------------------------
(***************************************************************************)
(* Theorems about OdrCop, for every set of translation units, every        *)
(* content of their files and every bound.                                 *)
(***************************************************************************)
EXTENDS OdrCop, BodiesProofs, SequenceTheorems

-----------------------------------------------------------------------------
(* Names and keys. *)

(* The tag operations and the canonical spelling yield names.              *)
LEMMA NameTypes ==
  ASSUME NEW name \in Name, NEW path \in Path
  PROVE  /\ MakeAnonymousNamespaceTuSpecific(name, path) \in Name
         /\ MakeAnonymousNamespaceTuNonSpecific(name) \in Name
         /\ CanonicalizeAnonymousNamespace(name) \in Name
<1>1. name.tags \in Seq(Path)  BY DEF Name
<1>2. <<path>> \in Seq(Path)  OBVIOUS
<1>3. <<path>> \o name.tags \in Seq(Path)  BY <1>1, <1>2
<1>4. name.tags # << >> => Tail(name.tags) \in Seq(Path)  BY <1>1
<1>5. MakeAnonymousNamespaceTuSpecific(name, path) \in Name
  BY <1>3 DEF MakeAnonymousNamespaceTuSpecific, Name
<1>6. MakeAnonymousNamespaceTuNonSpecific(name) \in Name
  BY <1>4 DEF MakeAnonymousNamespaceTuNonSpecific, Name
<1>7. CanonicalizeAnonymousNamespace(name) \in Name
  BY DEF CanonicalizeAnonymousNamespace, Name, Spellings
<1> QED  BY <1>5, <1>6, <1>7

(* What DIA spells is a name, and stays one without tags when it is        *)
(* spelled canonically.                                                    *)
LEMMA RawNameTypes ==
  ASSUME NEW name \in RawName
  PROVE  /\ name \in Name
         /\ CanonicalizeAnonymousNamespace(name) \in RawName
<1>1. << >> \in Seq(Path)  OBVIOUS
<1>2. name \in Name  BY <1>1 DEF RawName, Name, Spellings
<1>3. CanonicalizeAnonymousNamespace(name) \in RawName
  BY DEF CanonicalizeAnonymousNamespace, RawName
<1> QED  BY <1>2, <1>3

LEMMA PathTypes ==
  ASSUME NEW p \in Pdbs
  PROVE  /\ PdbPath(p) \in Path
         /\ \A place \in ObjPlaces : CompilandToPdbPath(p, place) \in Path
BY DEF PdbPath, CompilandToPdbPath, Path, ObjPlaces

(* A key that LoadPdb builds from a symbol of DIA, and one that Extract    *)
(* builds for a function, are keys.                                        *)
LEMMA KeyTypes ==
  ASSUME NEW p \in Pdbs
  PROVE  /\ \A sym \in Symbol : SymbolKey(sym, p) \in Key
         /\ \A id \in Ids : \A b \in BOOLEAN : BuildFuncKey(id, b, PdbPath(p)) \in Key
<1>1. PdbPath(p) \in Path  BY PathTypes
<1>2. ASSUME NEW sym \in Symbol PROVE SymbolKey(sym, p) \in Key
  <2>1. sym.name \in RawName /\ sym.form \in Forms  BY <1>2 DEF Symbol
  <2>2. /\ sym.name \in Name
        /\ CanonicalizeAnonymousNamespace(sym.name) \in Name
    BY <2>1, RawNameTypes
  <2>3. /\ MakeAnonymousNamespaceTuSpecific(sym.name, PdbPath(p)) \in Name
        /\ MakeAnonymousNamespaceTuSpecific(
             CanonicalizeAnonymousNamespace(sym.name), PdbPath(p)) \in Name
    BY <1>1, <2>2, NameTypes
  <2> QED  BY <2>1, <2>2, <2>3 DEF SymbolKey, BuildUdtKey, BuildTypeKey, Key, Suffixes
<1>3. ASSUME NEW id \in Ids, NEW b \in BOOLEAN
      PROVE  BuildFuncKey(id, b, PdbPath(p)) \in Key
  <2>1. <<PdbPath(p)>> \in Seq(Path) /\ << >> \in Seq(Path)  BY <1>1
  <2> QED  BY <2>1 DEF BuildFuncKey, Key, Name, Spellings, Suffixes
<1> QED  BY <1>2, <1>3

LEMMA FuncKeyType ==
  ASSUME Current \in Pdbs, NEW f \in Function
  PROVE  FuncKey(f) \in Key
<1>1. f.decorated \in Ids /\ (f.undecorated \in AnonIds) \in BOOLEAN  BY DEF Function
<1> DEFINE b == f.undecorated \in AnonIds
<1>2. BuildFuncKey(f.decorated, b, PdbPath(Current)) \in Key  BY <1>1, KeyTypes
<1> QED  BY <1>2 DEF FuncKey

-----------------------------------------------------------------------------
(* Infos and maps. *)

(* What LoadPdb makes of a symbol that it does not ignore is a type's info *)
(* of the symbol's own kind.                                               *)
LEMMA SymbolInfoType ==
  ASSUME NEW p \in Pdbs, NEW sym \in Symbol, ~Ignored(sym)
  PROVE  /\ SymbolInfo(sym, p) \in TypeInfo
         /\ sym.tag \in TypeKinds
<1>1. sym.tag \in TypeKinds  BY DEF Ignored, Symbol
<1>2. /\ sym.form \in Forms
      /\ sym.name \in RawName /\ sym.underlying \in RawName
  BY DEF Symbol
<1>3. sym.name \in Name /\ sym.underlying \in Name  BY <1>2, RawNameTypes
<1>4. PdbPath(p) \in Path  BY PathTypes
<1>5. /\ MakeAnonymousNamespaceTuSpecific(sym.name, PdbPath(p)) \in Name
      /\ MakeAnonymousNamespaceTuSpecific(sym.underlying, PdbPath(p)) \in Name
  BY <1>3, <1>4, NameTypes
<1>6. CASE sym.tag = "udt"
  BY <1>2, <1>6 DEF SymbolInfo, UdtInfo, TypeInfo, InfoOf, TypeKinds,
                    HasAnonymousNamespace
<1>7. CASE sym.tag = "enum"
  BY <1>2, <1>5, <1>7 DEF SymbolInfo, EnumInfo, TypeInfo, InfoOf, TypeKinds,
                          HasAnonymousNamespace
<1>8. CASE sym.tag = "tdef"
  BY <1>3, <1>5, <1>8 DEF SymbolInfo, TDefInfo, TypeInfo, InfoOf, TypeKinds,
                          HasAnonymousNamespace
<1> QED  BY <1>1, <1>6, <1>7, <1>8 DEF TypeKinds

(* push_back keeps a map a map, and keeps its other vectors as they are.   *)
LEMMA PushBackType ==
  ASSUME NEW S, NEW map, IsMap(map, S), NEW key \in Key, NEW info \in S
  PROVE  IsMap(PushBack(map, key, info), S)
<1> DEFINE new == PushBack(map, key, info)
<1>1. /\ DOMAIN new = DOMAIN map \cup {key}
      /\ new = [k \in DOMAIN new |-> new[k]]
  BY DEF PushBack
<1>2. Items(map, key) \in Seq(S)  BY DEF Items, IsMap
<1>3. new[key] = Append(Items(map, key), info)  BY DEF PushBack
<1>4. new[key] \in Seq(S) /\ new[key] # << >>
  BY <1>2, <1>3, AppendProperties
<1>5. \A k \in DOMAIN map : k # key => new[k] = map[k]  BY DEF PushBack
<1> QED  BY <1>1, <1>4, <1>5 DEF IsMap

LEMMA EmptyMapType ==
  ASSUME NEW S
  PROVE  IsMap(EmptyMap, S)
BY DEF IsMap, EmptyMap

(* it->second[0] is there whenever the key is.                             *)
LEMMA FindFirstType ==
  ASSUME NEW S, NEW map, IsMap(map, S), NEW key
  PROVE  FindFirst(map, key) \in S \cup {NullInfo}
<1>1. CASE key \in DOMAIN map
  <2>1. map[key] \in Seq(S) /\ map[key] # << >>  BY <1>1 DEF IsMap
  <2>2. map[key][1] \in S  BY <2>1
  <2> QED  BY <1>1, <2>2 DEF FindFirst
<1> QED  BY <1>1 DEF FindFirst

(* The subitems of an info are types under names.                          *)
LEMMA SubItemsType ==
  ASSUME NEW info \in Info
  PROVE  SubItems(info) \subseteq SubType
<1>1. CASE info.kind = "udt"
  <2>1. info.tu \in Pdbs /\ info.content \in Forms
    BY <1>1 DEF Info, TypeInfo, FuncInfo, InfoOf
  <2>2. PdbPath(info.tu) \in Path  BY <2>1, PathTypes
  <2>3. SUFFICES ASSUME NEW n \in Nested[info.content]
        PROVE [kind |-> "udt",
               name |-> MakeAnonymousNamespaceTuNonSpecific(
                          MakeAnonymousNamespaceTuSpecific(n[1], PdbPath(info.tu))),
               info |-> UdtInfo(TRUE, info.tu, n[2])] \in SubType
    BY <1>1 DEF SubItems
  <2>4. n[1] \in RawName /\ n[2] \in Forms  BY <2>1, NestedAssumption
  <2>5. MakeAnonymousNamespaceTuSpecific(n[1], PdbPath(info.tu)) \in Name
    BY <2>2, <2>4, RawNameTypes, NameTypes
  <2>6. MakeAnonymousNamespaceTuNonSpecific(
          MakeAnonymousNamespaceTuSpecific(n[1], PdbPath(info.tu))) \in Name
    BY <2>2, <2>5, NameTypes
  <2>7. UdtInfo(TRUE, info.tu, n[2]) \in TypeInfo
    BY <2>1, <2>4 DEF UdtInfo, TypeInfo, InfoOf
  <2> QED  BY <2>6, <2>7 DEF SubType, TypeKinds
<1>2. CASE info.kind = "func"
  <2>1. info.content.types \in Seq(NamedItem) /\ info.tu \in Pdbs
    BY <1>2 DEF Info, TypeInfo, FuncInfo, InfoOf, FuncContent
  <2>2. SUFFICES ASSUME NEW i \in DOMAIN info.content.types,
                        info.content.types[i].item # NullInfo
        PROVE [kind |-> info.content.types[i].item.kind,
               name |-> MakeAnonymousNamespaceTuNonSpecific(info.content.types[i].name),
               info |-> info.content.types[i].item] \in SubType
    BY <1>2 DEF SubItems
  <2>3. info.content.types[i] \in NamedItem  BY <2>1
  <2>4. info.content.types[i].name \in Name /\ info.content.types[i].item \in TypeInfo
    BY <2>2, <2>3 DEF NamedItem
  <2>5. info.content.types[i].item.kind \in TypeKinds
    BY <2>4 DEF TypeInfo, InfoOf, TypeKinds
  <2>6. MakeAnonymousNamespaceTuNonSpecific(info.content.types[i].name) \in Name
    BY <2>1, <2>4, PathTypes, NameTypes
  <2> QED  BY <2>4, <2>5, <2>6 DEF SubType
<1>3. CASE info.kind \notin {"udt", "func"}
  BY <1>3 DEF SubItems
<1> QED  BY <1>1, <1>2, <1>3

(* What Extract makes of a function, given the types of its own .pdb.      *)
LEMMA NewFuncInfoType ==
  ASSUME RunOK, MapsOK, at \in DOMAIN pdbs, File.obj \in ObjPlaces,
         NEW f \in Function
  PROVE  NewFuncInfo(f) \in FuncInfo
<1>1. Current \in Pdbs  BY DEF RunOK, Current
<1>2. CompilandToPdbPath(Current, File.obj) \in Path  BY <1>1, PathTypes
<1>3. Signature[f.decorated] \in Seq(TypeRef) /\ f.decorated \in Ids
  BY SignatureAssumption DEF Function
<1>4. ASSUME NEW ref \in TypeRef PROVE NamedType(ref) \in NamedItem
  <2>1. CanonicalizeAnonymousNamespace(ref.name) \in Name
    BY RawNameTypes DEF TypeRef
  <2>2. MakeAnonymousNamespaceTuSpecific(CanonicalizeAnonymousNamespace(ref.name),
          CompilandToPdbPath(Current, File.obj)) \in Name
    BY <1>2, <2>1, NameTypes
  <2>3. ref.class # "other" => IsMap(perTU[ref.class], TypeInfo)
    BY DEF MapsOK, TypeRef, TypeKinds
  <2>4. \A key : ref.class # "other" =>
          FindFirst(perTU[ref.class], key) \in TypeInfo \cup {NullInfo}
    BY <2>3, FindFirstType
  <2> QED  BY <2>2, <2>4 DEF NamedType, NamedItem
<1>5. [i \in DOMAIN Signature[f.decorated] |-> NamedType(Signature[f.decorated][i])] \in Seq(NamedItem)
  BY <1>3, <1>4
<1> QED  BY <1>1, <1>3, <1>5 DEF NewFuncInfo, FuncInfo, InfoOf, FuncContent, Function

-----------------------------------------------------------------------------
(* Type correctness. It needs to know which .pdb LoadPdb is at, and that   *)
(* functions come only from an .obj that was found.                        *)
LoadInv ==
  /\ stage # "closed" => phase = "load" /\ at \in DOMAIN pdbs
  /\ stage = "functions" => File.obj # "none"

TypeInv == TypeOK /\ LoadInv

LEMMA TypeInit == Init => TypeInv
<1> SUFFICES ASSUME Init PROVE TypeInv  OBVIOUS
<1>1. MapsOK  BY EmptyMapType DEF Init, MapsOK, NoTypes, Kinds, TypeKinds
<1>2. RunOK  BY BoundsAssumption DEF Init, RunOK, Phases
<1>3. LoadOK /\ ReportOK /\ LoadInv  BY DEF Init, LoadOK, ReportOK, LoadInv, Stages
<1> QED  BY <1>1, <1>2, <1>3 DEF TypeInv, TypeOK

(* Every failure keeps the count of them within its bound.                 *)
LEMMA FaultType ==
  ASSUME RunOK, Fault
  PROVE  faults' \in 0 .. MaxFaults
BY BoundsAssumption DEF RunOK, Fault

LEMMA TypeStep == TypeInv /\ [Next]_vars => TypeInv'
<1> SUFFICES ASSUME RunOK, LoadOK, MapsOK, ReportOK, LoadInv, [Next]_vars
             PROVE  RunOK' /\ LoadOK' /\ MapsOK' /\ ReportOK' /\ LoadInv'
  BY DEF TypeInv, TypeOK
<1> USE DEF load, report
<1>a. UNCHANGED <<phase, pdbs, at, excludeStdlib, files, failed, faults>> => RunOK'
  BY DEF RunOK
<1>b. UNCHANGED <<stage, symbols, functions>> => LoadOK'
  BY DEF LoadOK
<1>c. UNCHANGED <<perTU, maps>> => MapsOK'
  BY DEF MapsOK
<1>d. UNCHANGED report => ReportOK'
  BY DEF ReportOK
<1>e. UNCHANGED <<phase, pdbs, at, files, stage>> => LoadInv'
  BY DEF LoadInv, File, Current
<1>1. ASSUME NEW p \in Pdbs, FindPdb(p) PROVE RunOK' /\ LoadInv'
  <2>1. pdbs' \in Seq(Pdbs) /\ Len(pdbs') = Len(pdbs) + 1
    BY <1>1, AppendProperties DEF FindPdb, RunOK
  <2>2. DOMAIN pdbs \subseteq DOMAIN pdbs' /\ at \in 0 .. Len(pdbs')
    BY <2>1 DEF RunOK
  <2>3. stage = "closed"  BY <1>1 DEF FindPdb, LoadInv
  <2> QED  BY <1>1, <2>1, <2>2, <2>3 DEF FindPdb, RunOK, LoadInv
<1>2. CASE \E p \in Pdbs : FindPdb(p)
  BY <1>1, <1>2, <1>b, <1>c, <1>d DEF FindPdb
<1>3. CASE EndScan
  <2>1. RunOK'  BY <1>3 DEF EndScan, RunOK, Phases
  <2>2. LoadInv'  BY <1>3 DEF EndScan, LoadInv
  <2> QED  BY <1>3, <2>1, <2>2, <1>b, <1>c, <1>d DEF EndScan
<1>4. CASE OpenPdb \/ OpenFails \/ FindChildrenFails
  <2>1. Opening  BY <1>4 DEF OpenPdb, OpenFails, FindChildrenFails
  <2>2. at' \in DOMAIN pdbs /\ pdbs' = pdbs /\ at' \in 0 .. Len(pdbs)
    BY <2>1 DEF RunOK, Opening
  <2>3. MapsOK'
    BY <2>1, EmptyMapType DEF Opening, NoTypes, MapsOK
  <2>4. symbols' \in Seq(Symbol)
    <3>1. files[pdbs[at']] \in Content
      BY <2>2, ContentsAssumption DEF RunOK
    <3> QED  BY <1>4, <3>1 DEF LoadOK, OpenPdb, OpenFails, FindChildrenFails, Content
  <2>5. /\ faults' \in 0 .. MaxFaults
        /\ failed' \subseteq DOMAIN pdbs
        /\ stage' \in Stages /\ stage' # "functions"
    BY <1>4, <2>1, <2>2, FaultType
    DEF RunOK, Opening, OpenPdb, OpenFails, FindChildrenFails, Stages
  <2>6. RunOK'  BY <2>1, <2>2, <2>5 DEF RunOK, Opening
  <2>7. LoadOK'  BY <2>1, <2>4, <2>5 DEF LoadOK, Opening
  <2>8. LoadInv'  BY <2>1, <2>2, <2>5 DEF LoadInv, Opening
  <2> QED  BY <2>1, <2>3, <2>6, <2>7, <2>8, <1>d DEF Opening
<1>5. InSymbols => RunOK' /\ LoadOK' /\ ReportOK' /\ LoadInv'
  <2> SUFFICES ASSUME InSymbols PROVE LoadOK' /\ ReportOK' /\ LoadInv' /\ RunOK'
    OBVIOUS
  <2>1. LoadOK'  BY DEF InSymbols, LoadOK
  <2> QED  BY <2>1, <1>a, <1>d, <1>e DEF InSymbols
<1>6. CASE SkipSymbol
  BY <1>5, <1>6, <1>c DEF SkipSymbol
<1>7. CASE AddType
  <2> DEFINE sym  == Head(symbols)
             key  == SymbolKey(sym, Current)
             info == SymbolInfo(sym, Current)
  <2>1. sym \in Symbol /\ Current \in Pdbs /\ ~Ignored(sym)
    BY <1>7 DEF RunOK, LoadOK, LoadInv, AddType, InSymbols, Current
  <2>2. key \in Key /\ info \in TypeInfo /\ sym.tag \in TypeKinds
    BY <2>1, KeyTypes, SymbolInfoType
  <2>3. /\ perTU' = [perTU EXCEPT ![sym.tag] = PushBack(perTU[sym.tag], key, info)]
        /\ maps' \in {maps, [maps EXCEPT ![sym.tag] = PushBack(maps[sym.tag], key, info)]}
    BY <1>7 DEF AddType
  <2> HIDE DEF sym, key, info
  <2>4. /\ IsMap(PushBack(perTU[sym.tag], key, info), TypeInfo)
        /\ IsMap(PushBack(maps[sym.tag], key, info), TypeInfo)
    BY <2>2, PushBackType DEF MapsOK
  <2>5. /\ perTU' = [kind \in TypeKinds |-> perTU'[kind]]
        /\ \A kind \in TypeKinds : IsMap(perTU'[kind], TypeInfo)
    BY <2>2, <2>3, <2>4 DEF MapsOK
  <2>6. /\ maps' = [kind \in Kinds |-> maps'[kind]]
        /\ \A kind \in TypeKinds : IsMap(maps'[kind], TypeInfo)
        /\ IsMap(maps'["func"], FuncInfo)
    BY <2>2, <2>3, <2>4 DEF MapsOK, Kinds, TypeKinds
  <2> QED  BY <1>5, <1>7, <2>5, <2>6 DEF MapsOK, AddType
<1>8. CASE EndOfSymbols \/ NextFails
  <2>1. LeaveSymbols  BY <1>8 DEF EndOfSymbols, NextFails
  <2>2. faults' \in 0 .. MaxFaults
    BY <1>8, FaultType DEF RunOK, EndOfSymbols, NextFails
  <2>3. RunOK'  BY <2>1, <2>2 DEF RunOK, LeaveSymbols
  <2>4. LoadOK' /\ LoadInv'
    BY <2>1 DEF LoadOK, LoadInv, LeaveSymbols, Stages
  <2> QED  BY <2>1, <2>3, <2>4, <1>c, <1>d DEF LeaveSymbols
<1>9. CASE NoObj
  <2>1. LoadOK' /\ LoadInv'
    BY <1>9 DEF NoObj, LocateStage, LoadOK, LoadInv, Stages
  <2> QED  BY <1>9, <2>1, <1>a, <1>c, <1>d DEF NoObj, LocateStage
<1>10. CASE ExtractFunctions
  <2>1. at \in DOMAIN pdbs  BY <1>10 DEF ExtractFunctions, LocateStage, LoadInv
  <2>2. File \in Content
    BY <2>1, ContentsAssumption DEF RunOK, File, Current
  <2>3. File.funcs \in Seq(Function)  BY <2>2 DEF Content
  <2>4. \A n \in 0 .. Len(File.funcs) - 1 : SubSeq(File.funcs, 1, n) \in Seq(Function)
    BY <2>3
  <2>5. LoadOK'
    BY <1>10, <2>3, <2>4 DEF ExtractFunctions, LocateStage, LoadOK, Stages
  <2>6. RunOK'
    BY <1>10, FaultType DEF ExtractFunctions, LocateStage, RunOK
  <2>7. LoadInv'
    BY <1>10, <2>1 DEF ExtractFunctions, LocateStage, LoadInv, File, Current
  <2> QED  BY <1>10, <2>5, <2>6, <2>7, <1>c, <1>d DEF ExtractFunctions, LocateStage
<1>11. InFunctions => RunOK' /\ LoadOK' /\ ReportOK' /\ LoadInv'
  <2> SUFFICES ASSUME InFunctions PROVE RunOK' /\ LoadOK' /\ ReportOK' /\ LoadInv'
    OBVIOUS
  <2>1. LoadOK'  BY DEF InFunctions, LoadOK
  <2> QED  BY <2>1, <1>a, <1>d, <1>e DEF InFunctions
<1>12. CASE SkipFunction
  BY <1>11, <1>12, <1>c DEF SkipFunction, InFunctions
<1>13. CASE AddFunction
  <2> DEFINE f == Head(functions)
             key == FuncKey(f)
  <2>1. f \in Function /\ Current \in Pdbs /\ at \in DOMAIN pdbs
    BY <1>13 DEF RunOK, LoadOK, LoadInv, AddFunction, InFunctions, Current
  <2>2. File.obj \in ObjPlaces
    <3>1. File \in Content
      BY <2>1, ContentsAssumption DEF RunOK, File, Current
    <3> QED  BY <1>13, <3>1 DEF LoadInv, AddFunction, InFunctions, Content
  <2>3. NewFuncInfo(f) \in FuncInfo
    BY <2>1, <2>2, NewFuncInfoType
  <2>4. key \in Key  BY <2>1, FuncKeyType
  <2>5. IsMap(PushBack(maps["func"], key, NewFuncInfo(f)), FuncInfo)
    BY <2>3, <2>4, PushBackType DEF MapsOK
  <2>6. /\ maps' = [maps EXCEPT !["func"] =
                      PushBack(maps["func"], key, NewFuncInfo(f))]
        /\ InFunctions
    BY <1>13 DEF AddFunction
  <2> HIDE DEF f, key
  <2>7. MapsOK'
    BY <2>5, <2>6 DEF MapsOK, Kinds, TypeKinds, InFunctions
  <2> QED  BY <2>6, <2>7, <1>11
<1>14. CASE EndOfFunctions
  <2>1. LoadOK' /\ LoadInv'
    BY <1>14 DEF EndOfFunctions, LoadOK, LoadInv, Stages
  <2> QED  BY <1>14, <2>1, <1>a, <1>c, <1>d DEF EndOfFunctions
<1>15. CASE EndLoad
  <2>1. RunOK' /\ LoadInv'
    BY <1>15 DEF EndLoad, RunOK, LoadInv, Phases, ReportPhases
  <2> QED  BY <1>15, <2>1, <1>b, <1>c, <1>d DEF EndLoad
<1>16. ASSUME NEW kind \in Kinds, ReportMapViolations(kind)
       PROVE  RunOK' /\ LoadInv' /\ ReportOK'
  <2>1. IsMap(maps[kind], Info)
    BY DEF MapsOK, Kinds, TypeKinds, IsMap, Info
  <2>2. Violating(maps[kind]) \subseteq Key  BY <2>1 DEF Violating, IsMap
  <2>3. \A key \in DOMAIN maps[kind] : \A i \in DOMAIN maps[kind][key] :
          SubItems(maps[kind][key][i]) \subseteq SubType
    BY <2>1, SubItemsType DEF IsMap
  <2>4. Collected(maps[kind]) \subseteq SubType
    BY <2>3 DEF Collected, Violating
  <2>5. After[kind] \in Phases /\ phase = kind /\ kind \in ReportPhases /\ kind # "load"
    BY <1>16 DEF ReportMapViolations, After, Phases, ReportPhases, Kinds, TypeKinds
  <2>6. stage = "closed"  BY <2>5 DEF LoadInv
  <2>7. ReportOK'
    BY <1>16, <2>2, <2>4, <2>5 DEF ReportMapViolations, ReportOK
  <2> QED
    BY <1>16, <2>5, <2>6, <2>7 DEF ReportMapViolations, RunOK, LoadInv
<1>17. CASE \E kind \in Kinds : ReportMapViolations(kind)
  BY <1>16, <1>17, <1>b, <1>c DEF ReportMapViolations
<1>18. ASSUME NEW step \in {"anonUdt", "anonEnum"}, NEW kind, ReportSubTypes(step, kind)
       PROVE  RunOK' /\ LoadOK' /\ MapsOK' /\ ReportOK' /\ LoadInv'
  <2>1. InvolvedAnonymous(kind) \subseteq Name
    BY DEF InvolvedAnonymous, ReportOK, SubType
  <2>2. After[step] \in Phases /\ phase = step /\ step \in ReportPhases /\ step # "load"
    BY <1>18 DEF ReportSubTypes, After, Phases, ReportPhases
  <2>3. stage = "closed"  BY <2>2 DEF LoadInv
  <2>4. ReportOK'
    BY <1>18, <2>1, <2>2 DEF ReportSubTypes, ReportOK
  <2>5. RunOK' /\ LoadInv'
    BY <1>18, <2>2, <2>3 DEF ReportSubTypes, RunOK, LoadInv
  <2> QED  BY <1>18, <2>4, <2>5, <1>b, <1>c DEF ReportSubTypes
<1>19. CASE Finished \/ UNCHANGED vars
  <2>1. UNCHANGED vars  BY <1>19 DEF Finished
  <2> QED  BY <2>1, <1>a, <1>b, <1>c, <1>d, <1>e DEF vars
<1> QED
  BY <1>2, <1>3, <1>4, <1>6, <1>7, <1>8, <1>9, <1>10, <1>12, <1>13, <1>14, <1>15,
     <1>17, <1>18, <1>19
  DEF Next

(* Every variable has its type at all times: no map ever holds a key with  *)
(* an empty vector, so items[0] and it->second[0] always exist.            *)
THEOREM TypeCorrect == Spec => []TypeOK
<1>1. TypeInv => TypeOK  BY DEF TypeInv
<1> QED  BY <1>1, TypeInit, TypeStep, PTL DEF Spec

-----------------------------------------------------------------------------
(* Internal linkage. The inductive invariant says what a key tells of the  *)
(* definitions under it: of a type, whether it is marked, and, if so and   *)
(* the key is not reset to the untagged name, whose it is; of a function,  *)
(* which name it has and, if it is marked and the name has a cookie to put *)
(* the tag behind, whose it is.                                            *)
IsReset(kind, key) == kind = "udt" /\ key.name.id \in UnnamedTypeIds

TypeKeyTells(kind, key, info) ==
  /\ info.anon <=> \/ key.name.anon = "dash"
                   \/ kind = "udt" /\ key.name.anon # "none"
  /\ info.anon /\ ~IsReset(kind, key) => key.name.tags = <<PdbPath(info.tu)>>

FuncKeyTells(key, info) ==
  /\ info.content.id = key.name.id
  /\ key.name.tags = IF info.anon /\ key.name.id \in CookieIds
                     THEN <<PdbPath(info.tu)>> ELSE << >>

KeyTells(kind, key, info) ==
  IF kind = "func" THEN FuncKeyTells(key, info) ELSE TypeKeyTells(kind, key, info)

KeysTell ==
  \A kind \in Kinds : \A key \in DOMAIN maps[kind] :
    \A i \in DOMAIN maps[kind][key] : KeyTells(kind, key, maps[kind][key][i])

(* An item of a map after push_back was there before, or is the new one.   *)
LEMMA PushBackItems ==
  ASSUME NEW S, NEW map, IsMap(map, S), NEW key \in Key, NEW info \in S,
         NEW k \in DOMAIN PushBack(map, key, info),
         NEW i \in DOMAIN PushBack(map, key, info)[k]
  PROVE  \/ /\ k \in DOMAIN map /\ i \in DOMAIN map[k]
            /\ PushBack(map, key, info)[k][i] = map[k][i]
         \/ k = key /\ PushBack(map, key, info)[k][i] = info
<1>1. CASE k # key
  BY <1>1 DEF PushBack
<1>2. CASE k = key
  <2>1. Items(map, key) \in Seq(S)  BY DEF Items, IsMap
  <2>2. PushBack(map, key, info)[k] = Append(Items(map, key), info)
    BY <1>2 DEF PushBack
  <2>3. i \in 1 .. Len(Items(map, key)) + 1
    BY <2>1, <2>2, AppendProperties
  <2>4. CASE i = Len(Items(map, key)) + 1
    BY <1>2, <2>1, <2>2, <2>4, AppendProperties
  <2>5. CASE i \in 1 .. Len(Items(map, key))
    <3>1. PushBack(map, key, info)[k][i] = Items(map, key)[i]
      BY <2>1, <2>2, <2>5, AppendProperties
    <3>2. key \in DOMAIN map /\ Items(map, key) = map[key]
      BY <2>5 DEF Items
    <3> QED  BY <1>2, <2>1, <2>5, <3>1, <3>2
  <2> QED  BY <2>1, <2>3, <2>4, <2>5
<1> QED  BY <1>1, <1>2

(* The tag of a name as DIA spells it.                                     *)
LEMMA TagOfRawName ==
  ASSUME NEW name \in RawName, NEW path \in Path
  PROVE  LET tagged == MakeAnonymousNamespaceTuSpecific(name, path)
         IN /\ tagged.anon = name.anon
            /\ name.anon = "dash" => tagged.tags = <<path>>
<1>1. name.tags = << >> /\ name \in Name  BY RawNameTypes DEF RawName
<1>2. ~Mentions(name, path)  BY <1>1 DEF Mentions
<1>3. <<path>> \o name.tags = <<path>>  BY <1>1
<1>4. CASE name.anon = "dash"
  <2>1. MakeAnonymousNamespaceTuSpecific(name, path) =
          [name EXCEPT !.tags = <<path>> \o name.tags]
    BY <1>2, <1>4 DEF MakeAnonymousNamespaceTuSpecific, HasAnonymousNamespace
  <2>2. MakeAnonymousNamespaceTuSpecific(name, path) = [name EXCEPT !.tags = <<path>>]
    BY <1>3, <2>1
  <2> QED  BY <2>2 DEF RawName
<1>5. CASE name.anon # "dash"
  BY <1>5 DEF MakeAnonymousNamespaceTuSpecific, HasAnonymousNamespace
<1> QED  BY <1>4, <1>5

LEMMA SymbolKeyTells ==
  ASSUME NEW p \in Pdbs, NEW sym \in Symbol, ~Ignored(sym)
  PROVE  KeyTells(sym.tag, SymbolKey(sym, p), SymbolInfo(sym, p))
<1>1. sym.name \in RawName /\ sym.tag \in TypeKinds  BY DEF Symbol, Ignored
<1>2. CanonicalizeAnonymousNamespace(sym.name) \in RawName  BY <1>1, RawNameTypes
<1>3. PdbPath(p) \in Path  BY PathTypes
<1>4. SymbolInfo(sym, p).tu = p
  BY DEF SymbolInfo, UdtInfo, EnumInfo, TDefInfo
<1>5. SUFFICES TypeKeyTells(sym.tag, SymbolKey(sym, p), SymbolInfo(sym, p))
  BY <1>1 DEF KeyTells, TypeKinds
<1>6. CASE sym.tag = "udt"
  <2> DEFINE n == CanonicalizeAnonymousNamespace(sym.name)
             t == MakeAnonymousNamespaceTuSpecific(n, PdbPath(p))
             key == SymbolKey(sym, p)
             info == SymbolInfo(sym, p)
  <2>1. key.name = IF sym.name.id \in UnnamedTypeIds THEN sym.name ELSE t
    BY <1>6 DEF SymbolKey, BuildUdtKey
  <2>2. info.anon <=> n.anon = "dash"
    BY <1>6 DEF SymbolInfo, UdtInfo, HasAnonymousNamespace
  <2>3. n.anon = "dash" <=> sym.name.anon # "none"
    BY <1>1 DEF CanonicalizeAnonymousNamespace, RawName
  <2>4. n.anon \in {"dash", "none"}
    BY <1>1 DEF CanonicalizeAnonymousNamespace, RawName
  <2>5. t.anon = n.anon /\ (n.anon = "dash" => t.tags = <<PdbPath(p)>>)
    BY <1>2, <1>3, TagOfRawName
  <2>6. t.id = sym.name.id
    BY <1>1 DEF CanonicalizeAnonymousNamespace, MakeAnonymousNamespaceTuSpecific, RawName
  <2> HIDE DEF n, t, key, info
  <2>7. info.anon <=> key.name.anon = "dash" \/ key.name.anon # "none"
    BY <2>1, <2>2, <2>3, <2>4, <2>5
  <2>8. info.anon /\ key.name.id \notin UnnamedTypeIds => key.name.tags = <<PdbPath(p)>>
    BY <2>1, <2>2, <2>5, <2>6
  <2> QED  BY <1>4, <1>6, <2>7, <2>8 DEF TypeKeyTells, IsReset, key, info
<1>7. CASE sym.tag # "udt"
  <2>1. SymbolKey(sym, p).name = MakeAnonymousNamespaceTuSpecific(sym.name, PdbPath(p))
    BY <1>7 DEF SymbolKey, BuildTypeKey
  <2>2. SymbolInfo(sym, p).anon <=> sym.name.anon = "dash"
    BY <1>7 DEF SymbolInfo, EnumInfo, TDefInfo, HasAnonymousNamespace
  <2> QED  BY <1>1, <1>3, <1>4, <1>7, <2>1, <2>2, TagOfRawName DEF TypeKeyTells
<1> QED  BY <1>5, <1>6, <1>7

LEMMA FunctionKeyTells ==
  ASSUME NEW f \in Function
  PROVE  KeyTells("func", FuncKey(f), NewFuncInfo(f))
BY DEF KeyTells, FuncKeyTells, FuncKey, BuildFuncKey, NewFuncInfo, Function

(* Only AddType and AddFunction touch the maps.                            *)
LEMMA MapsChange ==
  ASSUME [Next]_vars
  PROVE  AddType \/ AddFunction \/ UNCHANGED maps
BY DEF Next, vars, load, FindPdb, EndScan, Opening, OpenPdb, OpenFails,
       FindChildrenFails, SkipSymbol, EndOfSymbols, NextFails, LeaveSymbols,
       NoObj, ExtractFunctions, LocateStage, SkipFunction, EndOfFunctions, EndLoad,
       ReportMapViolations, ReportSubTypes, Finished

(* What each of the two adds: an info under a key, to the map of one kind. *)
LEMMA Added ==
  ASSUME TypeInv, AddType \/ AddFunction, maps' # maps
  PROVE  \E kind \in Kinds : \E key \in Key : \E info \in Info :
           /\ IsMap(maps[kind], Info)
           /\ maps' = [maps EXCEPT ![kind] = PushBack(maps[kind], key, info)]
           /\ KeyTells(kind, key, info)
<1>0. \A kind \in Kinds : IsMap(maps[kind], Info)
  BY DEF TypeInv, TypeOK, MapsOK, Kinds, TypeKinds, IsMap, Info
<1>1. CASE AddType
  <2> DEFINE sym == Head(symbols)
  <2>1. sym \in Symbol /\ Current \in Pdbs /\ ~Ignored(sym)
    BY <1>1 DEF TypeInv, TypeOK, RunOK, LoadOK, LoadInv, AddType, InSymbols, Current
  <2>2. /\ SymbolKey(sym, Current) \in Key
        /\ SymbolInfo(sym, Current) \in Info
        /\ sym.tag \in Kinds
        /\ KeyTells(sym.tag, SymbolKey(sym, Current), SymbolInfo(sym, Current))
    BY <2>1, KeyTypes, SymbolInfoType, SymbolKeyTells DEF Info, Kinds
  <2>3. maps' = [maps EXCEPT ![sym.tag] =
                   PushBack(maps[sym.tag], SymbolKey(sym, Current), SymbolInfo(sym, Current))]
    BY <1>1 DEF AddType
  <2> QED  BY <1>0, <2>2, <2>3
<1>2. CASE AddFunction
  <2> DEFINE f == Head(functions)
             key == FuncKey(f)
  <2>1. f \in Function /\ Current \in Pdbs /\ at \in DOMAIN pdbs
    BY <1>2 DEF TypeInv, TypeOK, RunOK, LoadOK, LoadInv, AddFunction, InFunctions, Current
  <2>2. File \in Content /\ File.obj # "none"
    BY <1>2, <2>1, ContentsAssumption
    DEF TypeInv, TypeOK, RunOK, LoadInv, AddFunction, InFunctions, File, Current
  <2>3. NewFuncInfo(f) \in FuncInfo
    BY <2>1, <2>2, NewFuncInfoType DEF TypeInv, TypeOK, Content
  <2>4. key \in Key  BY <2>1, FuncKeyType
  <2>5. KeyTells("func", key, NewFuncInfo(f))  BY <2>1, FunctionKeyTells
  <2>6. maps' = [maps EXCEPT !["func"] = PushBack(maps["func"], key, NewFuncInfo(f))]
    BY <1>2 DEF AddFunction
  <2> HIDE DEF f, key
  <2> QED  BY <1>0, <2>3, <2>4, <2>5, <2>6 DEF Info, Kinds
<1> QED  BY <1>1, <1>2

LEMMA KeysTellStep == TypeInv /\ KeysTell /\ [Next]_vars => KeysTell'
<1> SUFFICES ASSUME TypeInv, KeysTell, [Next]_vars PROVE KeysTell'  OBVIOUS
<1>1. CASE maps' = maps
  BY <1>1 DEF KeysTell, KeyTells, FuncKeyTells, TypeKeyTells, IsReset
<1>2. CASE maps' # maps
  <2>1. PICK kind \in Kinds, key \in Key, info \in Info :
          /\ IsMap(maps[kind], Info)
          /\ maps' = [maps EXCEPT ![kind] = PushBack(maps[kind], key, info)]
          /\ KeyTells(kind, key, info)
    BY <1>2, MapsChange, Added
  <2>2. SUFFICES ASSUME NEW l \in Kinds, NEW k \in DOMAIN maps'[l],
                        NEW i \in DOMAIN maps'[l][k]
                 PROVE  KeyTells(l, k, maps'[l][k][i])
    BY DEF KeysTell, KeyTells, FuncKeyTells, TypeKeyTells, IsReset
  <2>3. CASE l # kind
    <3>1. maps'[l] = maps[l]
      BY <2>1, <2>3 DEF TypeInv, TypeOK, MapsOK
    <3> QED  BY <2>2, <3>1 DEF KeysTell
  <2>4. CASE l = kind
    <3>1. maps'[l] = PushBack(maps[kind], key, info)
      BY <2>1, <2>4 DEF TypeInv, TypeOK, MapsOK
    <3>2. \/ /\ k \in DOMAIN maps[kind] /\ i \in DOMAIN maps[kind][k]
             /\ maps'[l][k][i] = maps[kind][k][i]
          \/ k = key /\ maps'[l][k][i] = info
      BY <2>1, <2>2, <3>1, PushBackItems
    <3> QED  BY <2>1, <2>4, <3>2 DEF KeysTell
  <2> QED  BY <2>3, <2>4
<1> QED  BY <1>1, <1>2

LEMMA KeysTellInvariant == Spec => [](TypeInv /\ KeysTell)
<1>1. Init => KeysTell  BY DEF Init, KeysTell, EmptyMap
<1> QED  BY <1>1, TypeInit, TypeStep, KeysTellStep, PTL DEF Spec

(* Of one kind of map, what two definitions under one key have in common.  *)
LEMMA TypesKeepApart ==
  ASSUME NEW kind \in TypeKinds, NEW k \in Key, NEW a \in TypeInfo, NEW b \in TypeInfo,
         KeyTells(kind, k, a), KeyTells(kind, k, b)
  PROVE  /\ a.anon <=> b.anon
         /\ a.anon /\ ~IsReset(kind, k) => a.tu = b.tu
<1>1. TypeKeyTells(kind, k, a) /\ TypeKeyTells(kind, k, b)
  BY DEF KeyTells, TypeKinds
<1>2. a.anon \in BOOLEAN /\ b.anon \in BOOLEAN  BY DEF TypeInfo, InfoOf
<1>3. a.anon <=> b.anon  BY <1>1, <1>2 DEF TypeKeyTells
<1>4. ASSUME a.anon, ~IsReset(kind, k) PROVE a.tu = b.tu
  <2>1. k.name.tags = <<PdbPath(a.tu)>> /\ k.name.tags = <<PdbPath(b.tu)>>
    BY <1>1, <1>3, <1>4 DEF TypeKeyTells
  <2> QED  BY <2>1 DEF PdbPath
<1> QED  BY <1>3, <1>4

LEMMA FunctionsKeepApart ==
  ASSUME NEW k \in Key, NEW a \in FuncInfo, NEW b \in FuncInfo,
         KeyTells("func", k, a), KeyTells("func", k, b), RightlyMarked("func", a)
  PROVE  /\ RightlyMarked("func", b) => (a.anon <=> b.anon)
         /\ a.anon => b.anon /\ a.tu = b.tu
<1>1. FuncKeyTells(k, a) /\ FuncKeyTells(k, b)
  BY DEF KeyTells
<1>2. a.anon \in BOOLEAN /\ b.anon \in BOOLEAN  BY DEF FuncInfo, InfoOf
<1>3. a.content.id = k.name.id /\ b.content.id = k.name.id
  BY <1>1 DEF FuncKeyTells
<1>4. a.anon <=> k.name.id \in AnonIds
  BY <1>2, <1>3 DEF RightlyMarked
<1>5. ASSUME RightlyMarked("func", b) PROVE a.anon <=> b.anon
  BY <1>2, <1>3, <1>4, <1>5 DEF RightlyMarked
<1>6. ASSUME a.anon PROVE b.anon /\ a.tu = b.tu
  <2>1. k.name.id \in CookieIds
    BY <1>4, <1>6, IdsAssumption
  <2>2. k.name.tags = <<PdbPath(a.tu)>>
    BY <1>1, <1>6, <2>1 DEF FuncKeyTells
  <2>3. k.name.tags = IF b.anon THEN <<PdbPath(b.tu)>> ELSE << >>
    BY <1>1, <2>1 DEF FuncKeyTells
  <2>4. b.anon
    <3>1. Len(k.name.tags) = 1  BY <2>2
    <3>2. ~b.anon => Len(k.name.tags) = 0  BY <2>3
    <3> QED  BY <3>1, <3>2
  <2> QED  BY <2>2, <2>3, <2>4 DEF PdbPath
<1> QED  BY <1>5, <1>6

(* Definitions under one key agree in whether they are skipped, and one of *)
(* an anonymous namespace has its key to its translation unit, as far as   *)
(* the two names a function is known by were paired right, and the key is  *)
(* not reset.                                                              *)
THEOREM InternalEntitiesKeepApartAlways == Spec => []InternalEntitiesKeepApart
<1>1. TypeInv /\ KeysTell => InternalEntitiesKeepApart
  <2> SUFFICES ASSUME TypeInv, KeysTell,
                      NEW kind \in Kinds, NEW k \in DOMAIN maps[kind],
                      NEW i \in DOMAIN maps[kind][k], NEW j \in DOMAIN maps[kind][k]
               PROVE  LET a == maps[kind][k][i]
                          b == maps[kind][k][j]
                      IN /\ RightlyMarked(kind, a) /\ RightlyMarked(kind, b)
                               => (a.anon <=> b.anon)
                         /\ RightlyMarked(kind, a) /\ a.anon /\ ~IsReset(kind, k)
                               => b.anon /\ a.tu = b.tu
    BY DEF InternalEntitiesKeepApart, IsReset
  <2> DEFINE a == maps[kind][k][i]
             b == maps[kind][k][j]
  <2>1. KeyTells(kind, k, a) /\ KeyTells(kind, k, b)
    BY DEF KeysTell
  <2>2. CASE kind = "func"
    <3>1. IsMap(maps["func"], FuncInfo)
      BY DEF TypeInv, TypeOK, MapsOK
    <3>2. k \in Key /\ a \in FuncInfo /\ b \in FuncInfo
      BY <2>2, <3>1 DEF IsMap
    <3> HIDE DEF a, b
    <3>3. RightlyMarked("func", a) =>
            /\ RightlyMarked("func", b) => (a.anon <=> b.anon)
            /\ a.anon => b.anon /\ a.tu = b.tu
      BY <2>1, <2>2, <3>2, FunctionsKeepApart
    <3> QED  BY <2>2, <3>3 DEF a, b
  <2>3. CASE kind \in TypeKinds
    <3>1. IsMap(maps[kind], TypeInfo)
      BY <2>3 DEF TypeInv, TypeOK, MapsOK
    <3>2. k \in Key /\ a \in TypeInfo /\ b \in TypeInfo
      BY <3>1 DEF IsMap
    <3> HIDE DEF a, b
    <3>3. /\ a.anon <=> b.anon
          /\ a.anon /\ ~IsReset(kind, k) => a.tu = b.tu
      BY <2>1, <2>3, <3>2, TypesKeepApart
    <3> QED  BY <3>3 DEF a, b
  <2> QED  BY <2>2, <2>3 DEF Kinds
<1> QED  BY <1>1, KeysTellInvariant, PTL

-----------------------------------------------------------------------------
(* Signatures. While a .pdb is being loaded, LoadPdb's own maps hold only  *)
(* types of that .pdb.                                                     *)
OwnTypes ==
  stage # "closed" =>
    \A kind \in TypeKinds : \A key \in DOMAIN perTU[kind] :
      \A i \in DOMAIN perTU[kind][key] : perTU[kind][key][i].tu = Current

LEMMA OwnTypesStep == TypeInv /\ OwnTypes /\ [Next]_vars => OwnTypes'
<1> SUFFICES ASSUME TypeInv, OwnTypes, [Next]_vars, stage' # "closed" PROVE OwnTypes'
  BY DEF OwnTypes
<1>1. CASE AddType
  <2> DEFINE sym  == Head(symbols)
             key  == SymbolKey(sym, Current)
             info == SymbolInfo(sym, Current)
  <2>1. sym \in Symbol /\ Current \in Pdbs /\ ~Ignored(sym)
    BY <1>1 DEF TypeInv, TypeOK, RunOK, LoadOK, LoadInv, AddType, InSymbols, Current
  <2>2. key \in Key /\ info \in TypeInfo /\ sym.tag \in TypeKinds
    BY <2>1, KeyTypes, SymbolInfoType
  <2>3. info.tu = Current  BY DEF SymbolInfo, UdtInfo, EnumInfo, TDefInfo
  <2>4. /\ perTU' = [perTU EXCEPT ![sym.tag] = PushBack(perTU[sym.tag], key, info)]
        /\ Current' = Current /\ stage = "symbols"
    BY <1>1 DEF AddType, InSymbols, Current
  <2> HIDE DEF sym, key, info
  <2>5. SUFFICES ASSUME NEW l \in TypeKinds, NEW k \in DOMAIN perTU'[l],
                        NEW i \in DOMAIN perTU'[l][k]
                 PROVE  perTU'[l][k][i].tu = Current
    BY <2>4 DEF OwnTypes
  <2>6. CASE l # sym.tag
    <3>1. perTU'[l] = perTU[l]
      BY <2>4, <2>6 DEF TypeInv, TypeOK, MapsOK
    <3> QED  BY <2>4, <2>5, <3>1 DEF OwnTypes
  <2>7. CASE l = sym.tag
    <3>1. /\ perTU'[l] = PushBack(perTU[l], key, info)
          /\ IsMap(perTU[l], TypeInfo)
      BY <2>4, <2>7 DEF TypeInv, TypeOK, MapsOK
    <3>2. \/ /\ k \in DOMAIN perTU[l] /\ i \in DOMAIN perTU[l][k]
             /\ perTU'[l][k][i] = perTU[l][k][i]
          \/ perTU'[l][k][i] = info
      BY <2>2, <2>5, <3>1, PushBackItems
    <3> QED  BY <2>3, <2>4, <2>5, <3>2 DEF OwnTypes
  <2> QED  BY <2>6, <2>7
<1>2. CASE Opening
  BY <1>2 DEF Opening, OwnTypes, NoTypes, EmptyMap
<1>3. CASE UNCHANGED <<perTU, pdbs, at>> /\ stage # "closed"
  BY <1>3 DEF OwnTypes, Current
<1>4. \/ AddType \/ Opening
      \/ UNCHANGED <<perTU, pdbs, at>> /\ stage # "closed"
  BY DEF Next, vars, load, FindPdb, EndScan, OpenPdb, OpenFails,
         FindChildrenFails, SkipSymbol, InSymbols, EndOfSymbols, NextFails, LeaveSymbols,
         NoObj, ExtractFunctions, LocateStage, SkipFunction, AddFunction, InFunctions,
         EndOfFunctions, EndLoad, ReportMapViolations, ReportSubTypes, Finished,
         TypeInv, LoadInv, Kinds, TypeKinds
<1> QED  BY <1>1, <1>2, <1>3, <1>4

(* The types a new FuncInfo finds are of the .pdb being loaded.            *)
LEMMA NewSignatureIsOwn ==
  ASSUME TypeInv, OwnTypes, stage # "closed", NEW f \in Function,
         NEW n \in DOMAIN NewFuncInfo(f).content.types,
         NewFuncInfo(f).content.types[n].item # NullInfo
  PROVE  NewFuncInfo(f).content.types[n].item.tu = Current
<1>1. Signature[f.decorated] \in Seq(TypeRef)  BY SignatureAssumption DEF Function
<1>2. PICK ref \in TypeRef : NewFuncInfo(f).content.types[n] = NamedType(ref)
  BY <1>1 DEF NewFuncInfo
<1>3. ref.class \in TypeKinds
  BY <1>2 DEF NamedType, TypeRef, TypeKinds
<1>4. PICK key : NamedType(ref).item = FindFirst(perTU[ref.class], key)
  BY <1>2, <1>3 DEF NamedType, TypeKinds
<1>5. key \in DOMAIN perTU[ref.class] /\ NamedType(ref).item = perTU[ref.class][key][1]
  BY <1>2, <1>4 DEF FindFirst
<1>6. 1 \in DOMAIN perTU[ref.class][key]
  <2>1. /\ perTU[ref.class][key] \in Seq(TypeInfo)
        /\ perTU[ref.class][key] # << >>
    BY <1>3, <1>5 DEF TypeInv, TypeOK, MapsOK, IsMap
  <2> QED  BY <2>1
<1> QED  BY <1>2, <1>3, <1>5, <1>6 DEF OwnTypes

LEMMA SignatureStep ==
  TypeInv /\ OwnTypes /\ SignatureTypesAreOwn /\ [Next]_vars => SignatureTypesAreOwn'
<1> SUFFICES ASSUME TypeInv, OwnTypes, SignatureTypesAreOwn, [Next]_vars
             PROVE  SignatureTypesAreOwn'
  OBVIOUS
<1>1. CASE maps'["func"] = maps["func"]
  BY <1>1 DEF SignatureTypesAreOwn
<1>2. CASE AddFunction
  <2> DEFINE f    == Head(functions)
             key  == FuncKey(f)
             info == NewFuncInfo(f)
  <2>1. f \in Function /\ Current \in Pdbs /\ at \in DOMAIN pdbs
    BY <1>2 DEF TypeInv, TypeOK, RunOK, LoadOK, LoadInv, AddFunction, InFunctions, Current
  <2>2. File \in Content /\ File.obj # "none"
    BY <1>2, <2>1, ContentsAssumption
    DEF TypeInv, TypeOK, RunOK, LoadInv, AddFunction, InFunctions, File, Current
  <2>3. info \in FuncInfo
    BY <2>1, <2>2, NewFuncInfoType DEF TypeInv, TypeOK, Content
  <2>4. key \in Key  BY <2>1, FuncKeyType
  <2>5. info.tu = Current  BY DEF NewFuncInfo
  <2>6. \A n \in DOMAIN info.content.types :
          info.content.types[n].item # NullInfo => info.content.types[n].item.tu = Current
    BY <1>2, <2>1, NewSignatureIsOwn DEF AddFunction, InFunctions
  <2>7. maps'["func"] = PushBack(maps["func"], key, info)
    BY <1>2 DEF AddFunction, TypeInv, TypeOK, MapsOK, Kinds
  <2>8. IsMap(maps["func"], FuncInfo)  BY DEF TypeInv, TypeOK, MapsOK
  <2> HIDE DEF f, key, info
  <2>9. SUFFICES ASSUME NEW k \in DOMAIN maps'["func"], NEW i \in DOMAIN maps'["func"][k],
                        NEW n \in DOMAIN maps'["func"][k][i].content.types,
                        maps'["func"][k][i].content.types[n].item # NullInfo
                 PROVE  maps'["func"][k][i].content.types[n].item.tu = maps'["func"][k][i].tu
    BY DEF SignatureTypesAreOwn
  <2>10. \/ /\ k \in DOMAIN maps["func"] /\ i \in DOMAIN maps["func"][k]
            /\ maps'["func"][k][i] = maps["func"][k][i]
         \/ maps'["func"][k][i] = info
    BY <2>3, <2>4, <2>7, <2>8, <2>9, PushBackItems
  <2> QED  BY <2>5, <2>6, <2>9, <2>10 DEF SignatureTypesAreOwn
<1>3. CASE AddType
  <2>0. Head(symbols) \in Symbol
    BY <1>3 DEF TypeInv, TypeOK, LoadOK, AddType, InSymbols
  <2>1. Head(symbols).tag # "func"
    BY <2>0 DEF Symbol, TypeKinds
  <2>2. maps'["func"] = maps["func"]
    BY <1>3, <2>1 DEF AddType, TypeInv, TypeOK, MapsOK, Kinds
  <2> QED  BY <1>1, <2>2
<1> QED  BY <1>1, <1>2, <1>3, MapsChange

(* A type found for a function's signature is always of the function's own *)
(* translation unit.                                                       *)
THEOREM SignatureTypesAreOwnAlways == Spec => []SignatureTypesAreOwn
<1>1. Init => OwnTypes /\ SignatureTypesAreOwn
  BY DEF Init, OwnTypes, SignatureTypesAreOwn, EmptyMap, Kinds
<1> QED  BY <1>1, TypeInit, TypeStep, OwnTypesStep, SignatureStep, PTL DEF Spec

-----------------------------------------------------------------------------
(* Failed loads. Every type in the maps was read by a load that is not     *)
(* among the failed ones, and the load that is reading types has not       *)
(* failed and cannot any more.                                             *)
HasSource(info) == \E j \in 1 .. at : j \notin failed /\ pdbs[j] = info.tu

SourcesInv ==
  /\ failed \subseteq 1 .. at
  /\ stage = "symbols" => at \notin failed
  /\ \A kind \in TypeKinds : \A key \in DOMAIN maps[kind] :
       \A i \in DOMAIN maps[kind][key] : HasSource(maps[kind][key][i])

(* A step that adds no type: what it leaves of at, failed and pdbs keeps   *)
(* every source a source.                                                  *)
LEMMA SourcesStay ==
  ASSUME TypeInv, SourcesInv, [Next]_vars
  PROVE  /\ failed' \subseteq 1 .. at'
         /\ stage' = "symbols" => at' \notin failed'
         /\ \A info : HasSource(info) => HasSource(info)'
<1> USE DEF load, report
<1>0. /\ at \in Nat /\ Len(pdbs) \in Nat /\ at <= Len(pdbs)
      /\ pdbs \in Seq(Pdbs) /\ failed \subseteq 1 .. at
  BY DEF TypeInv, TypeOK, RunOK, SourcesInv
<1>1. CASE Opening /\ (failed' = failed \/ failed' = failed \cup {at'})
           /\ (stage' = "symbols" => failed' = failed)
  <2>1. at' = at + 1 /\ pdbs' = pdbs  BY <1>1 DEF Opening
  <2>2. failed' \subseteq 1 .. at' /\ at' \notin failed
    <3>1. \A j \in failed : j \in 1 .. at  BY <1>0
    <3>2. at' \in 1 .. at' /\ 1 .. at \subseteq 1 .. at' /\ at' \notin 1 .. at
      BY <1>0, <2>1
    <3>3. failed' \subseteq failed \cup {at'}  BY <1>1
    <3> QED  BY <3>1, <3>2, <3>3
  <2>3. stage' = "symbols" => at' \notin failed'  BY <1>1, <2>2
  <2>4. ASSUME NEW info, HasSource(info) PROVE HasSource(info)'
    <3>1. PICK j \in 1 .. at : j \notin failed /\ pdbs[j] = info.tu
      BY <2>4 DEF HasSource
    <3>2. j \in 1 .. at' /\ j \notin failed' /\ pdbs'[j] = info.tu
      BY <1>0, <1>1, <2>1, <3>1
    <3> QED  BY <3>2 DEF HasSource
  <2> QED  BY <2>2, <2>3, <2>4
<1>2. CASE /\ UNCHANGED <<at, failed>> /\ (stage' = "symbols" => stage = "symbols")
           /\ \/ pdbs' = pdbs
              \/ \E p \in Pdbs : pdbs' = Append(pdbs, p)
  <2>1. \A j \in 1 .. at : pdbs'[j] = pdbs[j]  BY <1>0, <1>2, AppendProperties
  <2> QED  BY <1>0, <1>2, <2>1 DEF HasSource, SourcesInv
<1>3. CASE OpenPdb
  <2>1. Opening /\ failed' = failed  BY <1>3 DEF OpenPdb
  <2> QED  BY <1>1, <2>1
<1>4. CASE OpenFails
  <2>1. Opening /\ failed' = failed \cup {at'} /\ stage' = "closed"
    BY <1>4 DEF OpenFails, Opening
  <2> QED  BY <1>1, <2>1
<1>5. CASE FindChildrenFails
  <2>1. Opening /\ failed' = failed \cup {at'} /\ stage' = "locate"
    BY <1>5 DEF FindChildrenFails
  <2> QED  BY <1>1, <2>1
<1>6. ASSUME NEW p \in Pdbs, FindPdb(p)
      PROVE  UNCHANGED <<at, failed, stage>> /\ pdbs' = Append(pdbs, p)
  BY <1>6 DEF FindPdb
<1>7. \/ OpenPdb \/ OpenFails \/ FindChildrenFails
      \/ \E p \in Pdbs : FindPdb(p)
      \/ UNCHANGED <<at, failed, pdbs>> /\ (stage' = "symbols" => stage = "symbols")
  BY DEF Next, vars, EndScan, SkipSymbol, AddType, InSymbols, EndOfSymbols, NextFails,
         LeaveSymbols, NoObj, ExtractFunctions, LocateStage, SkipFunction, AddFunction,
         InFunctions, EndOfFunctions, EndLoad, ReportMapViolations, ReportSubTypes,
         Finished
<1> QED  BY <1>2, <1>3, <1>4, <1>5, <1>6, <1>7

LEMMA SourcesStep == TypeInv /\ SourcesInv /\ [Next]_vars => SourcesInv'
<1> SUFFICES ASSUME TypeInv, SourcesInv, [Next]_vars PROVE SourcesInv'  OBVIOUS
<1>1. SUFFICES ASSUME NEW l \in TypeKinds, NEW k \in DOMAIN maps'[l],
                      NEW i \in DOMAIN maps'[l][k],
                      NEW x, x = maps'[l][k][i]
               PROVE  HasSource(x)'
  <2>1. /\ failed' \subseteq 1 .. at'
        /\ stage' = "symbols" => at' \notin failed'
    BY SourcesStay
  <2> QED  BY <1>1, <2>1 DEF SourcesInv, HasSource
<1>2. CASE maps'[l] = maps[l]
  <2>1. HasSource(x)  BY <1>1, <1>2 DEF SourcesInv
  <2> QED  BY <2>1, SourcesStay
<1>3. CASE AddType
  <2> DEFINE sym  == Head(symbols)
             key  == SymbolKey(sym, Current)
             info == SymbolInfo(sym, Current)
  <2>1. sym \in Symbol /\ Current \in Pdbs /\ ~Ignored(sym)
    BY <1>3 DEF TypeInv, TypeOK, RunOK, LoadOK, LoadInv, AddType, InSymbols, Current
  <2>2. key \in Key /\ info \in TypeInfo /\ sym.tag \in TypeKinds
    BY <2>1, KeyTypes, SymbolInfoType
  <2>3. info.tu = Current  BY DEF SymbolInfo, UdtInfo, EnumInfo, TDefInfo
  <2>4. \/ maps' = maps
        \/ maps' = [maps EXCEPT ![sym.tag] = PushBack(maps[sym.tag], key, info)]
    BY <1>3 DEF AddType
  <2>5. at \in 1 .. at /\ at \notin failed
    BY <1>3 DEF TypeInv, TypeOK, RunOK, LoadInv, SourcesInv, AddType, InSymbols
  <2> HIDE DEF sym, key, info
  <2>6. HasSource(info)  BY <2>3, <2>5 DEF HasSource, Current
  <2>7. CASE maps'[l] = maps[l]  BY <1>2, <2>7
  <2>8. CASE maps'[l] # maps[l]
    <3>1. /\ maps'[l] = PushBack(maps[l], key, info)
          /\ IsMap(maps[l], TypeInfo)
      BY <2>2, <2>4, <2>8 DEF TypeInv, TypeOK, MapsOK, Kinds
    <3>2. \/ /\ k \in DOMAIN maps[l] /\ i \in DOMAIN maps[l][k]
             /\ x = maps[l][k][i]
          \/ x = info
      BY <1>1, <2>2, <3>1, PushBackItems
    <3>3. HasSource(x)  BY <2>6, <3>2 DEF SourcesInv
    <3> QED  BY <3>3, SourcesStay
  <2> QED  BY <2>7, <2>8
<1>4. CASE AddFunction
  <2>1. maps'[l] = maps[l]
    BY <1>4 DEF AddFunction, TypeInv, TypeOK, MapsOK, Kinds, TypeKinds
  <2> QED  BY <1>2, <2>1
<1> QED  BY <1>2, <1>3, <1>4, MapsChange

(* A load that wmain reports as failed has added no type: every type in    *)
(* the maps comes from a load that did not fail.                           *)
THEOREM FailedLoadsAddNoTypesAlways == Spec => []FailedLoadsAddNoTypes
<1>1. Init => SourcesInv  BY DEF Init, SourcesInv, EmptyMap, Kinds, TypeKinds
<1>2. SourcesInv => FailedLoadsAddNoTypes
  BY DEF SourcesInv, HasSource, FailedLoadsAddNoTypes
<1> QED  BY <1>1, <1>2, TypeInit, TypeStep, SourcesStep, PTL DEF Spec
-----------------------------------------------------------------------------
(***************************************************************************)
(* The report of ReportViolations: what is printed, and what is collected  *)
(* on the way, is what the maps hold when the last file has been loaded.   *)
(***************************************************************************)

(* The maps walked so far.                                                 *)
Walked ==
  [p \in Phases |->
     CASE p = "func" -> {"udt"}
       [] p = "enum" -> {"udt", "func"}
       [] p = "tdef" -> {"udt", "func", "enum"}
       [] p \in {"anonUdt", "anonEnum", "done"} -> Kinds
       [] OTHER -> {}]

LEMMA WalkedValues ==
  /\ \A p \in {"scan", "nothing", "load", "udt"} : Walked[p] = {}
  /\ Walked["func"] = {"udt"} /\ Walked["enum"] = {"udt", "func"}
  /\ Walked["tdef"] = {"udt", "func", "enum"}
  /\ \A p \in {"anonUdt", "anonEnum", "done"} : Walked[p] = Kinds
BY DEF Walked, Phases, ReportPhases

Flagged(tag) == {v \in violations : v[1] = tag}

(* subTypes are the types of every item of every violation printed, and    *)
(* nothing is collected after the four maps.                               *)
CollectedInv ==
  /\ \A x : x \in subTypes <=> \E kind \in Walked[phase] : x \in Collected(maps[kind])
  /\ \A kind \in Kinds :
       Flagged(kind) = IF kind \in Walked[phase] THEN {<<kind, k>> : k \in Violating(maps[kind])}
                                                 ELSE {}

AnonInv ==
  /\ Flagged("anonUdt") =
       IF phase \in {"anonEnum", "done"} THEN {<<"anonUdt", n>> : n \in InvolvedAnonymous("udt")}
                                         ELSE {}
  /\ Flagged("anonEnum") =
       IF phase = "done" THEN {<<"anonEnum", n>> : n \in InvolvedAnonymous("enum")} ELSE {}

ReportInv == CollectedInv /\ AnonInv

LEMMA ReportInit == Init => ReportInv
<1> SUFFICES ASSUME Init PROVE ReportInv  OBVIOUS
<1>1. phase = "scan" /\ subTypes = {} /\ violations = {} /\ Walked[phase] = {}
  BY WalkedValues DEF Init
<1> QED  BY <1>1 DEF ReportInv, CollectedInv, AnonInv, Flagged

(* CollectedInv of the next state, spelled out.                            *)
LEMMA CollectedNext ==
  ASSUME maps' = maps,
         \A x : x \in subTypes' <=> \E kind \in Walked[phase'] : x \in Collected(maps[kind]),
         \A kind \in Kinds :
           Flagged(kind)' = IF kind \in Walked[phase'] THEN {<<kind, k>> : k \in Violating(maps[kind])}
                                                       ELSE {}
  PROVE  CollectedInv'
<1>1. (Walked[phase])' = Walked[phase']
  BY DEF Walked
<1>2. \A kind : Collected(maps[kind])' = Collected(maps[kind])
  BY DEF Collected, Violating
<1>3. \A kind : Violating(maps[kind])' = Violating(maps[kind])
  BY DEF Violating
<1>4. (\A x : x \in subTypes <=> \E kind \in Walked[phase] : x \in Collected(maps[kind]))'
  BY <1>1, <1>2
<1>5. (\A kind \in Kinds :
         Flagged(kind) = IF kind \in Walked[phase] THEN {<<kind, k>> : k \in Violating(maps[kind])}
                                                   ELSE {})'
  BY <1>1, <1>3
<1> QED  BY <1>4, <1>5 DEF CollectedInv

(* The steps that are no report.                                           *)
LEMMA ReportStays ==
  ASSUME ReportInv, UNCHANGED report, Walked[phase] = {}, Walked[phase'] = {},
         phase \notin {"anonEnum", "done"}, phase' \notin {"anonEnum", "done"}
  PROVE  ReportInv'
<1>1. /\ \A tag : Flagged(tag)' = Flagged(tag)
      /\ subTypes' = subTypes
  BY DEF Flagged, report
<1>2. CollectedInv'
  <2>1. \A x : ~(x \in subTypes')
    BY <1>1 DEF ReportInv, CollectedInv
  <2>2. \A kind \in Kinds : Flagged(kind)' = {}
    BY <1>1 DEF ReportInv, CollectedInv
  <2>3. (Walked[phase])' = {}
    BY DEF Walked
  <2> QED  BY <2>1, <2>2, <2>3 DEF CollectedInv
<1>3. AnonInv'
  BY <1>1 DEF ReportInv, AnonInv
<1> QED  BY <1>2, <1>3 DEF ReportInv

LEMMA ReportMapStep ==
  ASSUME ReportInv, NEW k \in Kinds, ReportMapViolations(k)
  PROVE  ReportInv'
<1>1. /\ phase = k /\ phase' = After[k] /\ maps' = maps
      /\ violations' = violations \cup {<<k, x>> : x \in Violating(maps[k])}
      /\ subTypes' = subTypes \cup Collected(maps[k])
  BY DEF ReportMapViolations, load
<1>2. k \notin Walked[phase] /\ Walked[phase'] = Walked[phase] \cup {k}
      /\ phase \notin {"anonEnum", "done"} /\ phase' \notin {"anonEnum", "done"}
  BY <1>1, WalkedValues DEF After, Kinds, TypeKinds
<1>3. \A tag : tag # k => Flagged(tag)' = Flagged(tag)
  BY <1>1 DEF Flagged
<1>4. Flagged(k)' = {<<k, x>> : x \in Violating(maps[k])}
  <2>1. Flagged(k) = {}
    BY <1>2 DEF ReportInv, CollectedInv
  <2> QED  BY <1>1, <2>1 DEF Flagged
<1>5. \A kind \in Kinds :
        Flagged(kind)' = IF kind \in Walked[phase'] THEN {<<kind, x>> : x \in Violating(maps[kind])}
                                                    ELSE {}
  BY <1>2, <1>3, <1>4 DEF ReportInv, CollectedInv
<1>6. \A x : x \in subTypes' <=> \E kind \in Walked[phase'] : x \in Collected(maps[kind])
  BY <1>1, <1>2 DEF ReportInv, CollectedInv
<1>7. CollectedInv'
  BY <1>1, <1>5, <1>6, CollectedNext
<1>8. AnonInv'
  <2>1. k # "anonUdt" /\ k # "anonEnum"  BY DEF Kinds, TypeKinds
  <2> QED  BY <1>2, <1>3, <2>1 DEF ReportInv, AnonInv
<1> QED  BY <1>7, <1>8 DEF ReportInv

LEMMA ReportSubStep ==
  ASSUME ReportInv,
         ReportSubTypes("anonUdt", "udt") \/ ReportSubTypes("anonEnum", "enum")
  PROVE  ReportInv'
<1>1. /\ maps' = maps /\ subTypes' = subTypes
      /\ \/ /\ phase = "anonUdt" /\ phase' = "anonEnum"
            /\ violations' = violations \cup {<<"anonUdt", n>> : n \in InvolvedAnonymous("udt")}
         \/ /\ phase = "anonEnum" /\ phase' = "done"
            /\ violations' = violations \cup {<<"anonEnum", n>> : n \in InvolvedAnonymous("enum")}
  BY DEF ReportSubTypes, load, After
<1>2. Walked[phase'] = Walked[phase]
  BY <1>1, WalkedValues
<1>3. \A kind \in Kinds : Flagged(kind)' = Flagged(kind)
  BY <1>1 DEF Flagged, Kinds, TypeKinds
<1>4. \A kind : InvolvedAnonymous(kind)' = InvolvedAnonymous(kind)
  BY <1>1 DEF InvolvedAnonymous
<1>5. CollectedInv'
  <2>1. \A x : x \in subTypes' <=> \E kind \in Walked[phase'] : x \in Collected(maps[kind])
    BY <1>1, <1>2 DEF ReportInv, CollectedInv
  <2>2. \A kind \in Kinds :
          Flagged(kind)' = IF kind \in Walked[phase'] THEN {<<kind, x>> : x \in Violating(maps[kind])}
                                                      ELSE {}
    BY <1>2, <1>3 DEF ReportInv, CollectedInv
  <2> QED  BY <1>1, <2>1, <2>2, CollectedNext
<1>6. CASE phase = "anonUdt"
  <2>1. violations' = violations \cup {<<"anonUdt", n>> : n \in InvolvedAnonymous("udt")}
        /\ phase' = "anonEnum"
    BY <1>1, <1>6
  <2>2. Flagged("anonUdt") = {} /\ Flagged("anonEnum") = {}
    BY <1>6 DEF ReportInv, AnonInv
  <2>3. /\ Flagged("anonUdt")' = {<<"anonUdt", n>> : n \in InvolvedAnonymous("udt")}
        /\ Flagged("anonEnum")' = {}
    BY <2>1, <2>2 DEF Flagged
  <2>4. AnonInv'
    BY <1>4, <2>1, <2>3 DEF AnonInv
  <2> QED  BY <1>5, <2>4 DEF ReportInv
<1>7. CASE phase = "anonEnum"
  <2>1. violations' = violations \cup {<<"anonEnum", n>> : n \in InvolvedAnonymous("enum")}
        /\ phase' = "done"
    BY <1>1, <1>7
  <2>2. /\ Flagged("anonUdt") = {<<"anonUdt", n>> : n \in InvolvedAnonymous("udt")}
        /\ Flagged("anonEnum") = {}
    BY <1>7 DEF ReportInv, AnonInv
  <2>3. /\ Flagged("anonUdt")' = Flagged("anonUdt")
        /\ Flagged("anonEnum")' = {<<"anonEnum", n>> : n \in InvolvedAnonymous("enum")}
    BY <2>1, <2>2 DEF Flagged
  <2>4. AnonInv'
    BY <1>4, <2>1, <2>2, <2>3 DEF AnonInv
  <2> QED  BY <1>5, <2>4 DEF ReportInv
<1> QED  BY <1>1, <1>6, <1>7

LEMMA ReportStep == ReportInv /\ [Next]_vars => ReportInv'
<1> SUFFICES ASSUME ReportInv, [Next]_vars PROVE ReportInv'  OBVIOUS
<1>1. CASE UNCHANGED <<phase, report>> /\ phase \in {"scan", "load"}
  <2>1. Walked[phase] = {} /\ Walked[phase'] = {}  BY <1>1, WalkedValues
  <2> QED  BY <1>1, <2>1, ReportStays
<1>2. CASE EndScan \/ EndLoad
  <2>1. phase \in {"scan", "load"} /\ phase' \in {"nothing", "load", "udt"} /\ UNCHANGED report
    BY <1>2 DEF EndScan, EndLoad
  <2>2. Walked[phase] = {} /\ Walked[phase'] = {}  BY <2>1, WalkedValues
  <2> QED  BY <2>1, <2>2, ReportStays
<1>3. CASE UNCHANGED vars
  <2>1. phase' = phase /\ maps' = maps /\ subTypes' = subTypes /\ violations' = violations
    BY <1>3 DEF vars, load, report
  <2>2. \A tag : Flagged(tag)' = Flagged(tag)
    BY <2>1 DEF Flagged
  <2>3. \A kind : InvolvedAnonymous(kind)' = InvolvedAnonymous(kind)
    BY <2>1 DEF InvolvedAnonymous
  <2>4. CollectedInv'
    <3>1. \A x : x \in subTypes' <=> \E kind \in Walked[phase'] : x \in Collected(maps[kind])
      BY <2>1 DEF ReportInv, CollectedInv
    <3>2. \A kind \in Kinds :
            Flagged(kind)' = IF kind \in Walked[phase'] THEN {<<kind, k>> : k \in Violating(maps[kind])}
                                                        ELSE {}
      BY <2>1, <2>2 DEF ReportInv, CollectedInv
    <3> QED  BY <2>1, <3>1, <3>2, CollectedNext
  <2>5. AnonInv'
    BY <2>1, <2>2, <2>3 DEF ReportInv, AnonInv
  <2> QED  BY <2>4, <2>5 DEF ReportInv
<1>4. \/ UNCHANGED <<phase, report>> /\ phase \in {"scan", "load"}
      \/ EndScan \/ EndLoad \/ UNCHANGED vars
      \/ \E k \in Kinds : ReportMapViolations(k)
      \/ ReportSubTypes("anonUdt", "udt") \/ ReportSubTypes("anonEnum", "enum")
  BY DEF Next, FindPdb, Opening, OpenPdb, OpenFails,
         FindChildrenFails, SkipSymbol, AddType, InSymbols, EndOfSymbols, NextFails,
         LeaveSymbols, NoObj, ExtractFunctions, LocateStage, SkipFunction, AddFunction,
         InFunctions, EndOfFunctions, Finished
<1> QED  BY <1>1, <1>2, <1>3, <1>4, ReportMapStep, ReportSubStep

(* An anonymous class or enum is reported exactly when two violating       *)
(* entities, or two definitions of one, use it with different contents,    *)
(* whatever the maps hold.                                                 *)
THEOREM InvolvedAnonymousTypesReportedAlways == Spec => []InvolvedAnonymousTypesReported
<1>1. ReportInv => InvolvedAnonymousTypesReported
  <2> SUFFICES ASSUME ReportInv, phase = "done"
               PROVE  \A step \in {<<"anonUdt", "udt">>, <<"anonEnum", "enum">>} :
                        {v[2] : v \in Flagged(step[1])} =
                          {x.name : x \in {y \in Involved :
                             /\ y.kind = step[2] /\ y.info.anon
                             /\ \E z \in Involved : /\ z.kind = step[2] /\ z.name = y.name
                                                    /\ z.info.content # y.info.content}}
    BY DEF InvolvedAnonymousTypesReported, Flagged
  <2>1. Walked[phase] = Kinds  BY WalkedValues
  <2>2. \A kind \in Kinds : Flagged(kind) = {<<kind, k>> : k \in Violating(maps[kind])}
    BY <2>1 DEF ReportInv, CollectedInv
  <2>3. ASSUME NEW x PROVE x \in Involved <=> \E kind \in Kinds : x \in Collected(maps[kind])
    <3>1. x \in Involved <=>
            \E kind \in Kinds : \E v \in Flagged(kind) :
              x \in UNION {SubItems(maps[v[1]][v[2]][i]) : i \in DOMAIN maps[v[1]][v[2]]}
      BY DEF Involved, Flagged
    <3>2. ASSUME NEW kind \in Kinds
          PROVE  (\E v \in Flagged(kind) :
                    x \in UNION {SubItems(maps[v[1]][v[2]][i]) : i \in DOMAIN maps[v[1]][v[2]]})
                  <=> x \in Collected(maps[kind])
      <4>1. ASSUME NEW v \in Flagged(kind),
                   x \in UNION {SubItems(maps[v[1]][v[2]][i]) : i \in DOMAIN maps[v[1]][v[2]]}
            PROVE  x \in Collected(maps[kind])
        <5>1. PICK k \in Violating(maps[kind]) : v = <<kind, k>>
          BY <2>2
        <5>2. v[1] = kind /\ v[2] = k  BY <5>1
        <5> QED  BY <4>1, <5>2 DEF Collected
      <4>2. ASSUME x \in Collected(maps[kind])
            PROVE  \E v \in Flagged(kind) :
                     x \in UNION {SubItems(maps[v[1]][v[2]][i]) : i \in DOMAIN maps[v[1]][v[2]]}
        <5>1. PICK k \in Violating(maps[kind]) :
                x \in UNION {SubItems(maps[kind][k][i]) : i \in DOMAIN maps[kind][k]}
          BY <4>2 DEF Collected
        <5>2. PICK v : v = <<kind, k>>  OBVIOUS
        <5>3. v \in Flagged(kind) /\ v[1] = kind /\ v[2] = k
          BY <2>2, <5>2
        <5> QED  BY <5>1, <5>3
      <4> QED  BY <4>1, <4>2
    <3> QED  BY <3>1, <3>2
  <2>4. Involved = subTypes
    BY <2>1, <2>3 DEF ReportInv, CollectedInv
  <2>5. /\ Flagged("anonUdt") = {<<"anonUdt", n>> : n \in InvolvedAnonymous("udt")}
        /\ Flagged("anonEnum") = {<<"anonEnum", n>> : n \in InvolvedAnonymous("enum")}
    BY DEF ReportInv, AnonInv
  <2>6. \A tag, n : <<tag, n>>[2] = n  OBVIOUS
  <2>7. /\ {v[2] : v \in Flagged("anonUdt")} = InvolvedAnonymous("udt")
        /\ {v[2] : v \in Flagged("anonEnum")} = InvolvedAnonymous("enum")
    <3>1. {v[2] : v \in {<<"anonUdt", n>> : n \in InvolvedAnonymous("udt")}} =
            InvolvedAnonymous("udt")
      <4>1. \A n : <<"anonUdt", n>>[2] = n  BY <2>6, Zenon
      <4> QED  BY <4>1
    <3>2. {v[2] : v \in {<<"anonEnum", n>> : n \in InvolvedAnonymous("enum")}} =
            InvolvedAnonymous("enum")
      <4>1. \A n : <<"anonEnum", n>>[2] = n  BY <2>6, Zenon
      <4> QED  BY <4>1
    <3> QED  BY <2>5, <3>1, <3>2, Zenon
  <2>8. ASSUME NEW kind
        PROVE  InvolvedAnonymous(kind) =
                 {x.name : x \in {y \in Involved :
                    /\ y.kind = kind /\ y.info.anon
                    /\ \E z \in Involved : /\ z.kind = kind /\ z.name = y.name
                                           /\ z.info.content # y.info.content}}
    BY <2>4, Zenon DEF InvolvedAnonymous
  <2>9. ASSUME NEW step \in {<<"anonUdt", "udt">>, <<"anonEnum", "enum">>}
        PROVE  {v[2] : v \in Flagged(step[1])} = InvolvedAnonymous(step[2])
    <3>1. CASE step = <<"anonUdt", "udt">>
      <4>1. step[1] = "anonUdt" /\ step[2] = "udt"  BY <3>1
      <4> QED  BY <4>1, <2>7, Zenon
    <3>2. CASE step = <<"anonEnum", "enum">>
      <4>1. step[1] = "anonEnum" /\ step[2] = "enum"  BY <3>2
      <4> QED  BY <4>1, <2>7, Zenon
    <3> QED  BY <3>1, <3>2
  <2> QED  BY <2>8, <2>9, Zenon
<1> QED  BY <1>1, ReportInit, ReportStep, PTL DEF Spec

-----------------------------------------------------------------------------
(* Functions. Where none is static and the code of all has one length,     *)
(* FuncInfo's == is an equivalence.                                        *)
LEMMA SameTypesEquivalence ==
  ASSUME NEW t \in Seq(NamedItem), NEW u \in Seq(NamedItem), NEW v \in Seq(NamedItem)
  PROVE  /\ SameTypes(t, t)
         /\ SameTypes(t, u) => SameTypes(u, t)
         /\ SameTypes(t, u) /\ SameTypes(u, v) => SameTypes(t, v)
<1>1. \A x, y, z : /\ SameItem(x, x)
                   /\ SameItem(x, y) => SameItem(y, x)
                   /\ SameItem(x, y) /\ SameItem(y, z) => SameItem(x, z)
  BY DEF SameItem
<1>2. /\ DOMAIN t = 1 .. Len(t) /\ DOMAIN u = 1 .. Len(u) /\ DOMAIN v = 1 .. Len(v)
  OBVIOUS
<1> QED  BY <1>1, <1>2 DEF SameTypes

LEMMA SameFuncEquivalence ==
  ASSUME NEW f \in FuncContent, NEW g \in FuncContent, NEW h \in FuncContent,
         ~f.static, ~g.static, ~h.static,
         Len(Stripped(f.body)) = Len(Stripped(g.body)),
         Len(Stripped(g.body)) = Len(Stripped(h.body))
  PROVE  /\ SameFunc(f, f)
         /\ SameFunc(f, g) => SameFunc(g, f)
         /\ SameFunc(f, g) /\ SameFunc(g, h) => SameFunc(f, h)
<1>1. /\ f.body \in Body /\ g.body \in Body /\ h.body \in Body
      /\ f.types \in Seq(NamedItem) /\ g.types \in Seq(NamedItem) /\ h.types \in Seq(NamedItem)
  BY DEF FuncContent
<1>2. /\ NoMismatch(f.body, g.body) <=> Stripped(f.body) = Stripped(g.body)
      /\ NoMismatch(g.body, h.body) <=> Stripped(g.body) = Stripped(h.body)
      /\ NoMismatch(f.body, h.body) <=> Stripped(f.body) = Stripped(h.body)
      /\ NoMismatch(f.body, f.body)
      /\ NoMismatch(g.body, f.body) <=> NoMismatch(f.body, g.body)
  BY <1>1, SameLengthSameCode, NoMismatchSymmetric
<1>3. /\ SameTypes(f.types, f.types)
      /\ SameTypes(f.types, g.types) => SameTypes(g.types, f.types)
      /\ SameTypes(f.types, g.types) /\ SameTypes(g.types, h.types) => SameTypes(f.types, h.types)
  BY <1>1, SameTypesEquivalence
<1> QED  BY <1>2, <1>3 DEF SameFunc

LEMMA FuncItems ==
  ASSUME TypeInv, NEW k \in DOMAIN maps["func"]
  PROVE  /\ maps["func"][k] \in Seq(FuncInfo)
         /\ maps["func"][k] # << >>
<1>1. IsMap(maps["func"], FuncInfo)
  BY DEF TypeInv, TypeOK, MapsOK
<1> QED  BY <1>1 DEF IsMap

(* Where no static function is among the definitions of a function and     *)
(* their bodies have, NOPs aside, one length, comparing every definition   *)
(* with the first (OdrCop.h:185) is comparing all with all, in whatever    *)
(* order the files came.                                                   *)
THEOREM FunctionsJudgedAlways == Spec => []FunctionsJudged
<1>1. TypeInv /\ ReportInv => FunctionsJudged
  <2> SUFFICES ASSUME TypeInv, ReportInv, phase = "done", NEW k \in DOMAIN maps["func"],
                      \A i, j \in DOMAIN maps["func"][k] :
                        /\ ~maps["func"][k][i].content.static /\ ~maps["func"][k][i].anon
                        /\ Len(Stripped(maps["func"][k][i].content.body)) =
                             Len(Stripped(maps["func"][k][j].content.body))
               PROVE  <<"func", k>> \in violations <=>
                        \E i, j \in DOMAIN maps["func"][k] :
                          ~SameFunc(maps["func"][k][i].content, maps["func"][k][j].content)
    BY DEF FunctionsJudged
  <2> DEFINE items == maps["func"][k]
             Code(i) == items[i].content
  <2>1. items \in Seq(FuncInfo) /\ Len(items) \in Nat \ {0} /\ DOMAIN items = 1 .. Len(items)
    BY FuncItems
  <2>2. \A i \in DOMAIN items : items[i].kind = "func" /\ Code(i) \in FuncContent
    <3>1. \A x \in FuncInfo : x.kind = "func" /\ x.content \in FuncContent
      BY DEF FuncInfo, InfoOf
    <3> HIDE DEF items
    <3>2. \A i \in DOMAIN items : items[i] \in FuncInfo
      BY <2>1
    <3> QED  BY <3>1, <3>2
  <2>3. <<"func", k>> \in violations <=> IsViolation(items)
    <3>1. Walked[phase] = Kinds /\ "func" \in Kinds
      BY WalkedValues DEF Kinds
    <3>2. Flagged("func") = {<<"func", x>> : x \in Violating(maps["func"])}
      BY <3>1 DEF ReportInv, CollectedInv
    <3>3. <<"func", k>> \in violations <=> <<"func", k>> \in Flagged("func")
      BY DEF Flagged
    <3> QED  BY <3>2, <3>3 DEF Violating
  <2> HIDE DEF items
  <2>4. \A i, j \in DOMAIN items :
          /\ ~Code(i).static /\ ~items[i].anon
          /\ Len(Stripped(Code(i).body)) = Len(Stripped(Code(j).body))
    BY DEF items
  <2> HIDE DEF Code
  <2>5. ASSUME NEW i \in DOMAIN items, NEW j \in DOMAIN items, NEW n \in DOMAIN items
        PROVE  /\ SameFunc(Code(i), Code(i))
               /\ SameFunc(Code(i), Code(j)) => SameFunc(Code(j), Code(i))
               /\ SameFunc(Code(i), Code(j)) /\ SameFunc(Code(j), Code(n))
                   => SameFunc(Code(i), Code(n))
    BY <2>2, <2>4, SameFuncEquivalence
  <2>6. IsViolation(items) <=>
          Len(items) >= 2 /\ \E i \in 2 .. Len(items) : ~SameFunc(Code(i), Code(1))
    BY <2>1, <2>2, <2>4 DEF IsViolation, Same, Code
  <2>7. (\E i, j \in DOMAIN items : ~SameFunc(Code(i), Code(j))) =>
          Len(items) >= 2 /\ \E i \in 2 .. Len(items) : ~SameFunc(Code(i), Code(1))
    <3> SUFFICES ASSUME NEW i \in DOMAIN items, NEW j \in DOMAIN items,
                        ~SameFunc(Code(i), Code(j))
                 PROVE  \E n \in DOMAIN items : n # 1 /\ ~SameFunc(Code(n), Code(1))
      BY <2>1
    <3>1. 1 \in DOMAIN items
      BY <2>1
    <3>2. ~SameFunc(Code(i), Code(1)) \/ ~SameFunc(Code(j), Code(1))
      BY <2>5, <3>1
    <3> QED  BY <2>5, <3>1, <3>2
  <2>8. (Len(items) >= 2 /\ \E i \in 2 .. Len(items) : ~SameFunc(Code(i), Code(1))) =>
          \E i, j \in DOMAIN items : ~SameFunc(Code(i), Code(j))
    BY <2>1
  <2>9. <<"func", k>> \in violations <=> \E i, j \in DOMAIN items : ~SameFunc(Code(i), Code(j))
    BY <2>3, <2>6, <2>7, <2>8
  <2> QED  BY <2>9 DEF items, Code
<1> QED  BY <1>1, TypeInit, TypeStep, ReportInit, ReportStep, PTL DEF Spec

-----------------------------------------------------------------------------
(* OdrCop implements OdrVerdict: whatever the order of the files, however  *)
(* often a file is found and whatever fails, the verdict on types is the   *)
(* one that the set of definitions seen determines.                        *)
(* What an item under a key of a kind's map means.                         *)
Meaning(kind, key, info) ==
  [kind |-> kind, entity |-> key, internal |-> info.anon, look |-> info.content]

LEMMA KnownMembers ==
  ASSUME NEW d
  PROVE  d \in Known <=>
           \E kind \in TypeKinds : \E key \in DOMAIN maps[kind] :
             \E i \in DOMAIN maps[kind][key] : d = Meaning(kind, key, maps[kind][key][i])
BY DEF Known, Meaning

(* After push_back, the infos under the keys are those from before and the *)
(* new one.                                                                *)
LEMMA PushBackKeeps ==
  ASSUME NEW S, NEW map, IsMap(map, S), NEW key \in Key, NEW info \in S
  PROVE  LET new == PushBack(map, key, info)
         IN /\ \A k \in DOMAIN map : \A i \in DOMAIN map[k] :
                 k \in DOMAIN new /\ i \in DOMAIN new[k] /\ new[k][i] = map[k][i]
            /\ key \in DOMAIN new
            /\ \E i \in DOMAIN new[key] : new[key][i] = info
<1> DEFINE new == PushBack(map, key, info)
           old == Items(map, key)
<1>1. old \in Seq(S)  BY DEF Items, IsMap
<1>2. DOMAIN new = DOMAIN map \cup {key} /\ new[key] = Append(old, info)
  BY DEF PushBack
<1>3. /\ Len(old) + 1 \in DOMAIN new[key] /\ new[key][Len(old) + 1] = info
      /\ \A i \in DOMAIN old : i \in DOMAIN new[key] /\ new[key][i] = old[i]
  BY <1>1, <1>2, AppendProperties
<1>4. \A k \in DOMAIN map : k # key => new[k] = map[k]  BY DEF PushBack
<1>5. key \in DOMAIN map => old = map[key]  BY DEF Items
<1> QED  BY <1>2, <1>3, <1>4, <1>5

(* What AddType adds is known from then on, the standard library's types   *)
(* under /exclude-stdlib apart.                                            *)
LEMMA Learned ==
  ASSUME TypeInv, AddType, ~Excluded(Head(symbols).name.id)
  PROVE  Known' = Known \cup {Meaning(Head(symbols).tag, SymbolKey(Head(symbols), Current),
                                      SymbolInfo(Head(symbols), Current))}
<1> DEFINE sym  == Head(symbols)
           key  == SymbolKey(sym, Current)
           info == SymbolInfo(sym, Current)
           kind == sym.tag
           d    == Meaning(kind, key, info)
<1>1. sym \in Symbol /\ Current \in Pdbs /\ ~Ignored(sym)
  BY DEF TypeInv, TypeOK, RunOK, LoadOK, LoadInv, AddType, InSymbols, Current
<1>2. key \in Key /\ info \in TypeInfo /\ kind \in TypeKinds
  BY <1>1, KeyTypes, SymbolInfoType
<1>3. maps' = [maps EXCEPT ![kind] = PushBack(maps[kind], key, info)]
  BY DEF AddType
<1> HIDE DEF sym, key, info, kind
<1>4. IsMap(maps[kind], TypeInfo)  BY <1>2 DEF TypeInv, TypeOK, MapsOK
<1>5. /\ maps'[kind] = PushBack(maps[kind], key, info)
      /\ \A l \in TypeKinds : l # kind => maps'[l] = maps[l]
  BY <1>2, <1>3 DEF TypeInv, TypeOK, MapsOK, Kinds
<1>6. ASSUME NEW e \in Known PROVE e \in Known'
  <2>1. PICK l \in TypeKinds : \E k \in DOMAIN maps[l] :
               \E i \in DOMAIN maps[l][k] : e = Meaning(l, k, maps[l][k][i])
    BY KnownMembers
  <2>2. PICK k \in DOMAIN maps[l] :
               \E i \in DOMAIN maps[l][k] : e = Meaning(l, k, maps[l][k][i])
    BY <2>1
  <2>3. PICK i \in DOMAIN maps[l][k] : e = Meaning(l, k, maps[l][k][i])
    BY <2>2
  <2>4. /\ k \in DOMAIN maps'[l] /\ i \in DOMAIN maps'[l][k]
        /\ maps'[l][k][i] = maps[l][k][i]
    BY <1>2, <1>4, <1>5, <2>1, <2>2, <2>3, PushBackKeeps
  <2> QED  BY <2>1, <2>3, <2>4 DEF Known, Meaning
<1>7. d \in Known'
  <2>1. key \in DOMAIN maps'[kind] /\
        \E i \in DOMAIN maps'[kind][key] : maps'[kind][key][i] = info
    BY <1>2, <1>4, <1>5, PushBackKeeps
  <2> QED  BY <1>2, <2>1 DEF Known, Meaning
<1>8. ASSUME NEW e \in Known' PROVE e \in Known \cup {d}
  <2>1. PICK l \in TypeKinds : \E k \in DOMAIN maps'[l] :
               \E i \in DOMAIN maps'[l][k] : e = Meaning(l, k, maps'[l][k][i])
    BY <1>8 DEF Known, Meaning
  <2>2. PICK k \in DOMAIN maps'[l] :
               \E i \in DOMAIN maps'[l][k] : e = Meaning(l, k, maps'[l][k][i])
    BY <2>1
  <2>3. PICK i \in DOMAIN maps'[l][k] : e = Meaning(l, k, maps'[l][k][i])
    BY <2>2
  <2>4. CASE l # kind
    BY <1>5, <2>1, <2>2, <2>3, <2>4 DEF Known, Meaning
  <2>5. CASE l = kind
    <3>1. \/ /\ k \in DOMAIN maps[l] /\ i \in DOMAIN maps[l][k]
             /\ maps'[l][k][i] = maps[l][k][i]
          \/ k = key /\ maps'[l][k][i] = info
      BY <1>2, <1>4, <1>5, <2>2, <2>3, <2>5, PushBackItems
    <3> QED  BY <2>1, <2>3, <2>5, <3>1 DEF Known, Meaning
  <2> QED  BY <2>4, <2>5
<1>9. Known' = Known \cup {d}  BY <1>6, <1>7, <1>8
<1> QED  BY <1>9 DEF d, sym, key, info, kind

(* A step that adds a type adds one definition; any other step keeps what  *)
(* is known.                                                               *)
LEMMA KnownStep ==
  ASSUME TypeInv, [Next]_vars
  PROVE  \/ Known' = Known
         \/ /\ AddType
            /\ ~Excluded(Head(symbols).name.id)
            /\ \E d : /\ Known' = Known \cup {d}
                      /\ \E kind \in TypeKinds, key \in Key, info \in TypeInfo :
                           d = Meaning(kind, key, info)
<1>1. CASE \A kind \in TypeKinds : maps'[kind] = maps[kind]
  BY <1>1 DEF Known
<1>2. CASE AddFunction
  <2>1. \A kind \in TypeKinds : maps'[kind] = maps[kind]
    BY <1>2 DEF AddFunction, TypeInv, TypeOK, MapsOK, Kinds, TypeKinds
  <2> QED  BY <1>1, <2>1
<1>3. CASE AddType /\ ~Excluded(Head(symbols).name.id)
  <2> DEFINE sym  == Head(symbols)
             key  == SymbolKey(sym, Current)
             info == SymbolInfo(sym, Current)
  <2>1. sym \in Symbol /\ Current \in Pdbs /\ ~Ignored(sym)
    BY <1>3 DEF TypeInv, TypeOK, RunOK, LoadOK, LoadInv, AddType, InSymbols, Current
  <2>2. key \in Key /\ info \in TypeInfo /\ sym.tag \in TypeKinds
    BY <2>1, KeyTypes, SymbolInfoType
  <2>3. Known' = Known \cup {Meaning(sym.tag, key, info)}
    BY <1>3, Learned
  <2> HIDE DEF sym, key, info
  <2> QED  BY <1>3, <2>2, <2>3
<1>4. CASE AddType /\ Excluded(Head(symbols).name.id)
  <2>1. maps' = maps  BY <1>4 DEF AddType
  <2> QED  BY <1>1, <2>1
<1>5. maps' = maps \/ AddType \/ AddFunction
  BY MapsChange
<1> QED  BY <1>1, <1>2, <1>3, <1>4, <1>5

(* What is known are definitions of the abstract specification.            *)
LEMMA KnownType ==
  ASSUME NEW kind \in TypeKinds, NEW key \in Key, NEW info \in TypeInfo
  PROVE  Meaning(kind, key, info) \in Verdict!Definition
BY DEF Meaning, Verdict!Definition, TypeInfo, InfoOf, TypeContent

(* ReportMapViolations' test of a vector by its first item decides whether *)
(* two definitions of the entity differ.                                   *)
LEMMA ViolatingIsOdd ==
  ASSUME TypeInv, KeysTell, NEW kind \in TypeKinds
  PROVE  {<<kind, k>> : k \in Violating(maps[kind])} = Verdict!Odd(kind)
<1> DEFINE map == maps[kind]
<1>1. IsMap(map, TypeInfo)  BY DEF TypeInv, TypeOK, MapsOK
<1>2. ASSUME NEW k \in DOMAIN map
      PROVE  /\ 1 \in DOMAIN map[k]
             /\ DOMAIN map[k] = 1 .. Len(map[k]) /\ Len(map[k]) \in Nat
             /\ \A i \in DOMAIN map[k] :
                  /\ map[k][i].kind # "func"
                  /\ map[k][i].anon <=> map[k][1].anon
                  /\ Meaning(kind, k, map[k][i]) \in Known
  <2>1. map[k] \in Seq(TypeInfo) /\ map[k] # << >>  BY <1>1, <1>2 DEF IsMap
  <2>2. 1 \in DOMAIN map[k] /\ DOMAIN map[k] = 1 .. Len(map[k]) /\ Len(map[k]) \in Nat
    BY <2>1
  <2>3. ASSUME NEW i \in DOMAIN map[k]
        PROVE  /\ map[k][i].kind # "func"
               /\ map[k][i].anon <=> map[k][1].anon
               /\ Meaning(kind, k, map[k][i]) \in Known
    <3>1. map[k][i] \in TypeInfo /\ map[k][1] \in TypeInfo  BY <2>1, <2>2, <2>3
    <3>2. map[k][i].kind # "func"  BY <3>1 DEF TypeInfo, InfoOf
    <3>3. KeyTells(kind, k, map[k][i]) /\ KeyTells(kind, k, map[k][1])
      BY <2>2 DEF KeysTell, Kinds
    <3>0. k \in Key  BY <1>1 DEF IsMap
    <3>5. map[k][i].anon <=> map[k][1].anon
      BY <3>0, <3>1, <3>3, TypesKeepApart
    <3>6. Meaning(kind, k, map[k][i]) \in Known
      BY <1>2, <2>3, KnownMembers
    <3> QED  BY <3>2, <3>5, <3>6
  <2> QED  BY <2>2, <2>3
<1>3. ASSUME NEW k \in Violating(map)
      PROVE  <<kind, k>> \in Verdict!Odd(kind)
  <2>1. k \in DOMAIN map /\ IsViolation(map[k])  BY DEF Violating
  <2>2. PICK i \in 2 .. Len(map[k]) : ~Same(map[k][i], map[k][1])
    BY <2>1 DEF IsViolation
  <2>3. i \in DOMAIN map[k] /\ 1 \in DOMAIN map[k]  BY <1>2, <2>1, <2>2
  <2>4. map[k][i].content # map[k][1].content
    BY <1>2, <2>1, <2>2, <2>3 DEF Same
  <2>5. ~map[k][1].anon /\ ~map[k][i].anon
    BY <1>2, <2>1, <2>3 DEF IsViolation
  <2> DEFINE d == Meaning(kind, k, map[k][1])
             e == Meaning(kind, k, map[k][i])
  <2>6. d \in Known /\ e \in Known  BY <1>2, <2>1, <2>3
  <2>7. Verdict!Differ(d, e) /\ d.kind = kind /\ d.entity = k
    BY <2>4, <2>5 DEF Verdict!Differ, Meaning
  <2> HIDE DEF d, e
  <2> QED  BY <2>6, <2>7 DEF Verdict!Odd
<1>4. ASSUME NEW v \in Verdict!Odd(kind)
      PROVE  \E k \in Violating(map) : v = <<kind, k>>
  <2>1. PICK d \in Known : /\ d.kind = kind /\ v = <<kind, d.entity>>
                           /\ \E e \in Known : Verdict!Differ(d, e)
    BY DEF Verdict!Odd
  <2>2. PICK e \in Known : Verdict!Differ(d, e)  BY <2>1
  <2> DEFINE k == d.entity
  <2>3. /\ k \in DOMAIN map
        /\ \E i \in DOMAIN map[k] : d = Meaning(kind, k, map[k][i])
    BY <2>1, KnownMembers DEF Meaning
  <2>4. \E j \in DOMAIN map[k] : e = Meaning(kind, k, map[k][j])
    BY <2>1, <2>2, KnownMembers DEF Meaning, Verdict!Differ
  <2>5. PICK i \in DOMAIN map[k], j \in DOMAIN map[k] :
          d = Meaning(kind, k, map[k][i]) /\ e = Meaning(kind, k, map[k][j])
    BY <2>3, <2>4
  <2>6. /\ map[k][i].content # map[k][j].content
        /\ ~map[k][i].anon
    BY <2>2, <2>5 DEF Verdict!Differ, Meaning
  <2>7. PICK n \in {i, j} : map[k][n].content # map[k][1].content
    BY <2>6
  <2>8. n \in 2 .. Len(map[k])  BY <1>2, <2>3, <2>5, <2>7
  <2>9. ~map[k][1].anon  BY <1>2, <2>3, <2>5, <2>6
  <2>10. ~Same(map[k][n], map[k][1])
    BY <1>2, <2>3, <2>5, <2>7 DEF Same
  <2>11. IsViolation(map[k])
    BY <1>2, <2>3, <2>8, <2>9, <2>10 DEF IsViolation
  <2> QED  BY <2>1, <2>3, <2>11 DEF Violating
<1> QED
  <2>1. \A v \in Verdict!Odd(kind) : v \in {<<kind, k>> : k \in Violating(map)}
    BY <1>4
  <2> QED  BY <1>3, <2>1

-----------------------------------------------------------------------------
(* Step simulation. *)
closed  == phase \notin {"scan", "load"}
judged  == JudgedAt[phase]
flagged == {v \in violations : v[1] \in TypeKinds}

LEMMA JudgedValues ==
  /\ \A p \in {"scan", "nothing", "load", "udt"} : JudgedAt[p] = {}
  /\ JudgedAt["func"] = {"udt"} /\ JudgedAt["enum"] = {"udt"}
  /\ JudgedAt["tdef"] = {"udt", "enum"}
  /\ \A p \in {"anonUdt", "anonEnum", "done"} : JudgedAt[p] = TypeKinds
BY DEF JudgedAt, Phases, ReportPhases

(* While .pdbs are loaded, a step learns a definition or does nothing.     *)
LEMMA LoadSimulates ==
  ASSUME TypeInv, [Next]_vars, UNCHANGED <<phase, report>>
  PROVE  [Verdict!Next]_(Verdict!vars)
<1>1. closed' = closed /\ judged' = judged /\ flagged' = flagged
  BY DEF closed, judged, flagged, report
<1>2. CASE Known' = Known
  BY <1>1, <1>2 DEF Verdict!vars, closed, judged, flagged
<1>3. CASE Known' # Known
  <2>1. AddType  BY <1>3, KnownStep
  <2>2. PICK d : /\ Known' = Known \cup {d}
                 /\ \E kind \in TypeKinds, key \in Key, info \in TypeInfo :
                      d = Meaning(kind, key, info)
    BY <1>3, KnownStep
  <2>3. d \in Known' \ Known /\ d \in Verdict!Definition
    BY <1>3, <2>2, KnownType
  <2>4. ~closed  BY <2>1 DEF AddType, InSymbols, closed
  <2>5. Verdict!Learn
    BY <1>1, <2>2, <2>3, <2>4 DEF Verdict!Learn, closed, judged, flagged
  <2> QED  BY <2>5 DEF Verdict!Next
<1> QED  BY <1>2, <1>3

(* The end of the scan with nothing found, and the end of the last load,   *)
(* close the set of definitions.                                           *)
LEMMA EndSimulates ==
  ASSUME TypeInv, EndScan \/ EndLoad
  PROVE  [Verdict!Next]_(Verdict!vars)
<1>1. Known' = Known /\ flagged' = flagged
  BY DEF EndScan, EndLoad, load, report, Known, flagged
<1>2. judged = {} /\ judged' = {} /\ ~closed
  BY JudgedValues DEF EndScan, EndLoad, judged, closed
<1>3. CASE phase' = "load"
  BY <1>1, <1>2, <1>3 DEF Verdict!vars, closed, judged, flagged
<1>4. CASE phase' # "load"
  <2>1. closed'  BY <1>4 DEF EndScan, EndLoad, closed
  <2>2. Verdict!Close
    BY <1>1, <1>2, <2>1 DEF Verdict!Close, closed, judged, flagged
  <2> QED  BY <2>2 DEF Verdict!Next
<1> QED  BY <1>3, <1>4

(* The report of a map of types judges that kind.                          *)
LEMMA ReportSimulates ==
  ASSUME TypeInv, KeysTell, NEW kind \in Kinds, ReportMapViolations(kind)
  PROVE  [Verdict!Next]_(Verdict!vars)
<1>1. /\ Known' = Known
      /\ closed' = closed /\ closed
  BY DEF ReportMapViolations, load, Known, closed, After, Kinds, TypeKinds
<1>2. CASE kind \in TypeKinds
  <2>1. flagged' = flagged \cup Verdict!Odd(kind)
    <3>1. violations' = violations \cup Verdict!Odd(kind)
      BY <1>2, ViolatingIsOdd DEF ReportMapViolations
    <3>2. \A v \in Verdict!Odd(kind) : v[1] \in TypeKinds
      BY <1>2 DEF Verdict!Odd
    <3> QED  BY <3>1, <3>2 DEF flagged
  <2>2. kind \notin judged /\ judged' = judged \cup {kind}
    BY <1>2, JudgedValues DEF ReportMapViolations, After, judged, TypeKinds
  <2>3. Verdict!Judge(kind)
    BY <1>1, <2>1, <2>2 DEF Verdict!Judge, closed, judged, flagged
  <2> QED  BY <1>2, <2>3 DEF Verdict!Next
<1>3. CASE kind = "func"
  <2>1. flagged' = flagged
    BY <1>3 DEF flagged, ReportMapViolations, TypeKinds
  <2>2. judged' = judged
    BY <1>3, JudgedValues DEF ReportMapViolations, After, judged
  <2> QED  BY <1>1, <2>1, <2>2 DEF Verdict!vars, closed, judged, flagged
<1> QED  BY <1>2, <1>3 DEF Kinds

(* The report of the collected anonymous types changes no verdict.         *)
LEMMA SubTypesSimulate ==
  ASSUME TypeInv, NEW step \in {"anonUdt", "anonEnum"}, NEW kind,
         ReportSubTypes(step, kind)
  PROVE  [Verdict!Next]_(Verdict!vars)
<1>1. Known' = Known  BY DEF ReportSubTypes, load, Known
<1>2. flagged' = flagged
  BY DEF ReportSubTypes, flagged, TypeKinds
<1>3. closed' = closed /\ judged' = judged
  BY JudgedValues DEF ReportSubTypes, After, closed, judged
<1> QED  BY <1>1, <1>2, <1>3 DEF Verdict!vars, closed, judged, flagged

LEMMA StepSimulates ==
  ASSUME TypeInv, KeysTell, [Next]_vars
  PROVE  [Verdict!Next]_(Verdict!vars)
<1>1. CASE EndScan \/ EndLoad
  BY <1>1, EndSimulates
<1>2. CASE \E kind \in Kinds : ReportMapViolations(kind)
  BY <1>2, ReportSimulates
<1>3. CASE ReportSubTypes("anonUdt", "udt") \/ ReportSubTypes("anonEnum", "enum")
  BY <1>3, SubTypesSimulate
<1>4. \/ UNCHANGED <<phase, report>>
      \/ EndScan \/ EndLoad
      \/ \E kind \in Kinds : ReportMapViolations(kind)
      \/ ReportSubTypes("anonUdt", "udt") \/ ReportSubTypes("anonEnum", "enum")
  BY DEF Next, vars, load, FindPdb, Opening, OpenPdb, OpenFails,
         FindChildrenFails, SkipSymbol, AddType, InSymbols, EndOfSymbols, NextFails,
         LeaveSymbols, NoObj, ExtractFunctions, LocateStage, SkipFunction, AddFunction,
         InFunctions, EndOfFunctions, Finished
<1> QED  BY <1>1, <1>2, <1>3, <1>4, LoadSimulates

(* The verdict on classes, enums and typedefs is a function of the set of  *)
(* definitions seen, for any number of files, contents and failures.       *)
THEOREM VerdictImplemented == Spec => ImplementsVerdict
<1>1. ASSUME Init PROVE Verdict!Init
  <2>1. \A kind \in TypeKinds : DOMAIN maps[kind] = {}
    BY <1>1 DEF Init, EmptyMap, Kinds
  <2>2. Known = {}  BY <2>1 DEF Known
  <2>3. phase = "scan" /\ violations = {}  BY <1>1 DEF Init
  <2>4. JudgedAt[phase] = {}  BY <2>3, JudgedValues
  <2> QED  BY <2>2, <2>3, <2>4 DEF Verdict!Init
<1>2. TypeInv /\ KeysTell /\ [Next]_vars => [Verdict!Next]_(Verdict!vars)
  BY StepSimulates
<1> QED
  BY <1>1, <1>2, KeysTellInvariant, PTL DEF Spec, ImplementsVerdict, Verdict!Spec
-----------------------------------------------------------------------------
(***************************************************************************)
(* End to end: what OdrCop reports of classes and enums with external      *)
(* linkage is what the loaded files say, for any number of files in any    *)
(* order and any number of symbols in each.                                *)
(***************************************************************************)

JudgedKinds == {"udt", "enum"}

PlainName(name) == name.anon = "none" /\ name.id \notin UnnamedIds

(* A symbol that LoadPdb keeps for the whole run, of external linkage.     *)
Plain(sym) ==
  /\ sym.tag \in JudgedKinds /\ PlainName(sym.name)
  /\ ~Ignored(sym) /\ ~Excluded(sym.name.id)

(* The definition it stands for, whichever file it is in.                  *)
DefOf(sym) ==
  [kind |-> sym.tag, entity |-> [name |-> sym.name, suffix |-> NoSuffix],
   internal |-> FALSE,
   look |-> IF sym.tag = "udt" THEN sym.form ELSE <<sym.name, sym.form>>]

LEMMA PlainSymbol ==
  ASSUME NEW p \in Pdbs, NEW sym \in Symbol, sym.tag \in JudgedKinds
  PROVE  LET d == Meaning(sym.tag, SymbolKey(sym, p), SymbolInfo(sym, p))
         IN /\ PlainName(sym.name) => d = DefOf(sym)
            /\ PlainName(SymbolKey(sym, p).name) => PlainName(sym.name)
<1>1. sym.name \in RawName  BY DEF Symbol
<1>2. CanonicalizeAnonymousNamespace(sym.name) \in RawName  BY <1>1, RawNameTypes
<1>3. PdbPath(p) \in Path  BY PathTypes
<1>4. CASE sym.tag = "udt"
  <2> DEFINE c == CanonicalizeAnonymousNamespace(sym.name)
             t == MakeAnonymousNamespaceTuSpecific(c, PdbPath(p))
  <2>1. SymbolKey(sym, p).name = IF sym.name.id \in UnnamedTypeIds THEN sym.name ELSE t
    BY <1>4 DEF SymbolKey, BuildUdtKey
  <2>2. t.anon = c.anon  BY <1>2, <1>3, TagOfRawName
  <2>3. sym.name.anon # "none" => c.anon # "none"
    BY <1>1 DEF CanonicalizeAnonymousNamespace, RawName
  <2>4. sym.name.anon = "none" => c = sym.name /\ t = sym.name
    BY DEF CanonicalizeAnonymousNamespace, MakeAnonymousNamespaceTuSpecific,
           HasAnonymousNamespace
  <2>5. ASSUME PlainName(sym.name)
        PROVE  Meaning(sym.tag, SymbolKey(sym, p), SymbolInfo(sym, p)) = DefOf(sym)
    <3>1. SymbolKey(sym, p) = [name |-> sym.name, suffix |-> NoSuffix]
      BY <1>4, <2>4, <2>5, IdsAssumption DEF SymbolKey, BuildUdtKey, PlainName
    <3>2. SymbolInfo(sym, p).anon = FALSE /\ SymbolInfo(sym, p).content = sym.form
      BY <1>4, <2>4, <2>5 DEF SymbolInfo, UdtInfo, HasAnonymousNamespace, PlainName
    <3> QED  BY <1>4, <3>1, <3>2 DEF Meaning, DefOf
  <2>6. PlainName(SymbolKey(sym, p).name) => PlainName(sym.name)
    <3> HIDE DEF c, t
    <3>1. SymbolKey(sym, p).name.anon = "none" => sym.name.anon = "none" /\ t = sym.name
      BY <2>1, <2>2, <2>3, <2>4
    <3> QED  BY <2>1, <3>1 DEF PlainName
  <2> QED  BY <2>5, <2>6
<1>5. CASE sym.tag = "enum"
  <2> DEFINE t == MakeAnonymousNamespaceTuSpecific(sym.name, PdbPath(p))
  <2>1. SymbolKey(sym, p) = [name |-> t, suffix |-> NoSuffix]
    BY <1>5 DEF SymbolKey, BuildTypeKey
  <2>2. t.anon = sym.name.anon  BY <1>1, <1>3, TagOfRawName
  <2>3. sym.name.anon = "none" => t = sym.name
    BY DEF MakeAnonymousNamespaceTuSpecific, HasAnonymousNamespace
  <2>4. SymbolInfo(sym, p) = EnumInfo(HasAnonymousNamespace(sym.name), p, sym.name, sym.form)
    BY <1>5 DEF SymbolInfo
  <2>5. ASSUME PlainName(sym.name)
        PROVE  Meaning(sym.tag, SymbolKey(sym, p), SymbolInfo(sym, p)) = DefOf(sym)
    <3>1. t = sym.name  BY <2>3, <2>5 DEF PlainName
    <3>2. SymbolInfo(sym, p).anon = FALSE /\ SymbolInfo(sym, p).content = <<sym.name, sym.form>>
      <4>1. HasAnonymousNamespace(sym.name) = FALSE
        BY <2>5 DEF HasAnonymousNamespace, PlainName
      <4>2. SymbolInfo(sym, p).content = <<t, sym.form>>
        BY <2>4 DEF EnumInfo
      <4>3. SymbolInfo(sym, p).anon = FALSE
        BY <2>4, <4>1 DEF EnumInfo
      <4> QED  BY <3>1, <4>2, <4>3
    <3> QED  BY <1>5, <2>1, <3>1, <3>2 DEF Meaning, DefOf
  <2>6. PlainName(SymbolKey(sym, p).name) => PlainName(sym.name)
    <3> HIDE DEF t
    <3> QED  BY <2>1, <2>2, <2>3 DEF PlainName
  <2> QED  BY <2>5, <2>6
<1> QED  BY <1>4, <1>5 DEF JudgedKinds

-----------------------------------------------------------------------------
(* Which symbols have been taken, and what is known through them. Without  *)
(* a failure these are all symbols of the files loaded so far.             *)
Syms(j) == files[pdbs[j]].syms

Taken(j, m) ==
  /\ j \in 1 .. at /\ m \in DOMAIN Syms(j)
  /\ j < at \/ stage # "symbols" \/ m + Len(symbols) <= Len(Syms(j))

RestInv ==
  stage = "symbols" =>
    /\ Len(symbols) <= Len(Syms(at))
    /\ \A i \in DOMAIN symbols : symbols[i] = Syms(at)[Len(Syms(at)) - Len(symbols) + i]

OnlyFromFiles ==
  \A d \in Known : d.kind \in JudgedKinds /\ PlainName(d.entity.name) =>
    \E j \in 1 .. at : \E m \in DOMAIN Syms(j) : Plain(Syms(j)[m]) /\ d = DefOf(Syms(j)[m])

AllFromFiles ==
  faults = 0 =>
    \A j, m : Taken(j, m) /\ Plain(Syms(j)[m]) => DefOf(Syms(j)[m]) \in Known

AllLoaded == phase \in ReportPhases \cup {"done"} => at = Len(pdbs)

Reported ==
  \A kind \in JudgedKinds :
    {v \in violations : v[1] = kind} =
      IF kind \in JudgedAt[phase] THEN Verdict!Odd(kind) ELSE {}

FilesInv == RestInv /\ OnlyFromFiles /\ AllFromFiles /\ AllLoaded /\ Reported

Inv == TypeInv /\ KeysTell /\ FilesInv

(* Loaded files stay what and where they are.                              *)
LEMMA SymsStay ==
  ASSUME TypeInv, [Next]_vars
  PROVE  /\ at \in Nat /\ at' \in Nat /\ at <= at'
         /\ \A j \in 1 .. at : Syms(j)' = Syms(j)
<1> USE DEF load, report
<1>0. at \in Nat /\ Len(pdbs) \in Nat /\ at <= Len(pdbs) /\ pdbs \in Seq(Pdbs)
  BY DEF TypeInv, TypeOK, RunOK
<1>1. CASE Opening
  BY <1>0, <1>1 DEF Opening, Syms
<1>2. CASE \E p \in Pdbs : FindPdb(p)
  <2>1. PICK p \in Pdbs : pdbs' = Append(pdbs, p) /\ UNCHANGED <<at, files>>
    BY <1>2 DEF FindPdb
  <2>2. \A j \in 1 .. at : pdbs'[j] = pdbs[j]
    BY <1>0, <2>1, AppendProperties
  <2> QED  BY <1>0, <2>1, <2>2 DEF Syms
<1>3. CASE UNCHANGED <<at, files, pdbs>>
  BY <1>0, <1>3 DEF Syms
<1>4. Opening \/ (\E p \in Pdbs : FindPdb(p)) \/ UNCHANGED <<at, files, pdbs>>
  BY DEF Next, vars, EndScan, OpenPdb, OpenFails, FindChildrenFails, SkipSymbol, AddType,
         InSymbols, EndOfSymbols, NextFails, LeaveSymbols, NoObj, ExtractFunctions,
         LocateStage, SkipFunction, AddFunction, InFunctions, EndOfFunctions, EndLoad,
         ReportMapViolations, ReportSubTypes, Finished
<1> QED  BY <1>1, <1>2, <1>3, <1>4

(* The file being read: its symbols, and where the rest of them begins.    *)
LEMMA Reading ==
  ASSUME TypeInv, RestInv, stage = "symbols"
  PROVE  /\ at \in 1 .. at /\ at \in DOMAIN pdbs /\ Current \in Pdbs
         /\ Syms(at) \in Seq(Symbol) /\ symbols \in Seq(Symbol)
         /\ symbols # << >> =>
              /\ Head(symbols) = Syms(at)[Len(Syms(at)) - Len(symbols) + 1]
              /\ Len(Syms(at)) - Len(symbols) + 1 \in DOMAIN Syms(at)
<1>1. at \in DOMAIN pdbs /\ at \in 1 .. at /\ Current \in Pdbs
  BY DEF TypeInv, TypeOK, RunOK, LoadInv, Current
<1>2. files[pdbs[at]] \in Content
  BY <1>1, ContentsAssumption DEF TypeInv, TypeOK, RunOK
<1>3. Syms(at) \in Seq(Symbol) /\ symbols \in Seq(Symbol)
  BY <1>2 DEF Syms, Content, TypeInv, TypeOK, LoadOK
<1>4. Len(symbols) <= Len(Syms(at))
      /\ \A i \in DOMAIN symbols : symbols[i] = Syms(at)[Len(Syms(at)) - Len(symbols) + i]
  BY DEF RestInv
<1>5. ASSUME symbols # << >>
      PROVE  /\ Head(symbols) = Syms(at)[Len(Syms(at)) - Len(symbols) + 1]
             /\ Len(Syms(at)) - Len(symbols) + 1 \in DOMAIN Syms(at)
  <2>1. 1 \in DOMAIN symbols /\ Head(symbols) = symbols[1] /\ Len(symbols) \in Nat \ {0}
    BY <1>3, <1>5
  <2>2. Len(Syms(at)) \in Nat /\ DOMAIN Syms(at) = 1 .. Len(Syms(at))
    BY <1>3
  <2> QED  BY <1>4, <2>1, <2>2
<1> QED  BY <1>1, <1>3, <1>5

LEMMA RestStep ==
  ASSUME TypeInv, RestInv, [Next]_vars
  PROVE  RestInv'
<1> USE DEF load, report
<1>1. CASE OpenPdb
  <2>1. symbols' = Syms(at)' /\ Len(Syms(at)') \in Nat
    <3>1. at' \in DOMAIN pdbs /\ symbols' = files[pdbs[at']].syms /\ pdbs' = pdbs /\ files' = files
      BY <1>1 DEF OpenPdb, Opening, TypeInv, TypeOK, RunOK
    <3>2. files[pdbs[at']] \in Content
      BY <3>1, ContentsAssumption DEF TypeInv, TypeOK, RunOK
    <3>3. symbols' \in Seq(Symbol)
      BY <3>1, <3>2 DEF Content
    <3> QED  BY <3>1, <3>3 DEF Syms
  <2>2. \A k \in DOMAIN symbols' : symbols'[k] = (Syms(at)')[Len(Syms(at)') - Len(symbols') + k]
    <3>1. \A q \in Seq(Symbol) : \A k \in DOMAIN q : Len(q) - Len(q) + k = k
      OBVIOUS
    <3>2. symbols' \in Seq(Symbol)
      BY TypeStep DEF TypeInv, TypeOK, LoadOK
    <3> QED  BY <2>1, <3>1, <3>2
  <2> QED  BY <2>1, <2>2 DEF RestInv
<1>2. CASE InSymbols
  <2>1. /\ stage = "symbols" /\ symbols # << >> /\ symbols' = Tail(symbols)
        /\ UNCHANGED <<at, files, pdbs>>
    BY <1>2 DEF InSymbols
  <2>2. Syms(at)' = Syms(at)  BY <2>1 DEF Syms
  <2> DEFINE whole == Syms(at)
  <2>3. whole \in Seq(Symbol) /\ symbols \in Seq(Symbol)  BY <2>1, Reading
  <2>4. /\ Len(symbols) <= Len(whole)
        /\ \A i \in DOMAIN symbols : symbols[i] = whole[Len(whole) - Len(symbols) + i]
    BY <2>1 DEF RestInv
  <2> HIDE DEF whole
  <2>5. /\ Len(Tail(symbols)) = Len(symbols) - 1 /\ Len(symbols) \in Nat /\ Len(whole) \in Nat
        /\ \A i \in DOMAIN Tail(symbols) :
             i \in Nat /\ i + 1 \in DOMAIN symbols /\ Tail(symbols)[i] = symbols[i + 1]
    BY <2>1, <2>3
  <2>6. \A i \in DOMAIN Tail(symbols) :
          Tail(symbols)[i] = whole[Len(whole) - Len(Tail(symbols)) + i]
    <3> TAKE i \in DOMAIN Tail(symbols)
    <3>1. i + 1 \in DOMAIN symbols /\ Tail(symbols)[i] = symbols[i + 1]
      BY <2>5
    <3>2. Len(whole) - Len(symbols) + (i + 1) = Len(whole) - Len(Tail(symbols)) + i
      BY <2>5
    <3> QED  BY <2>4, <3>1, <3>2
  <2>7. Len(Tail(symbols)) <= Len(whole)  BY <2>4, <2>5
  <2> QED  BY <2>1, <2>2, <2>6, <2>7 DEF RestInv, whole
<1>3. CASE stage' # "symbols"
  BY <1>3 DEF RestInv
<1>4. CASE UNCHANGED <<stage, symbols, at, files, pdbs>>
  BY <1>4 DEF RestInv, Syms
<1>5. \/ OpenPdb \/ InSymbols \/ stage' # "symbols"
      \/ UNCHANGED <<stage, symbols, at, files, pdbs>>
  <2>1. CASE \E p \in Pdbs : FindPdb(p)
    <3>1. stage' = "closed"  BY <2>1 DEF FindPdb, TypeInv, LoadInv
    <3> QED  BY <3>1
  <2>2. CASE ~(\E p \in Pdbs : FindPdb(p))
    BY <2>2 DEF Next, vars, EndScan, OpenFails, FindChildrenFails, Opening,
         SkipSymbol, AddType, EndOfSymbols, NextFails, LeaveSymbols, NoObj,
         ExtractFunctions, LocateStage, SkipFunction, AddFunction, InFunctions,
         EndOfFunctions, EndLoad, ReportMapViolations, ReportSubTypes, Finished
  <2> QED  BY <2>1, <2>2
<1> QED  BY <1>1, <1>2, <1>3, <1>4, <1>5

(* As long as nothing fails, a symbol is taken by the loop over symbols    *)
(* and in no other way.                                                    *)
LEMMA TakenStep ==
  ASSUME TypeInv, RestInv, [Next]_vars, faults' = 0
  PROVE  /\ faults = 0
         /\ \A j, m : Taken(j, m)' =>
              /\ j \in 1 .. at' /\ m \in DOMAIN Syms(j)'
              /\ \/ Taken(j, m) /\ Syms(j)' = Syms(j)
                 \/ /\ SkipSymbol \/ AddType
                    /\ Syms(j)' = Syms(j) /\ Syms(j)[m] = Head(symbols)
<1> USE DEF load, report
<1>0. /\ at \in Nat /\ faults \in Nat
      /\ \A j \in 1 .. at : Syms(j)' = Syms(j)
  BY BoundsAssumption, SymsStay DEF TypeInv, TypeOK, RunOK
<1>1. faults = 0 /\ ~Fault
  <2>1. faults' = faults \/ faults' = faults + 1
    BY DEF Next, vars, Fault, FindPdb, EndScan, OpenPdb, OpenFails, FindChildrenFails,
         SkipSymbol, AddType, InSymbols, EndOfSymbols, NextFails, LeaveSymbols,
         NoObj, ExtractFunctions, LocateStage, SkipFunction, AddFunction, InFunctions,
         EndOfFunctions, EndLoad, ReportMapViolations, ReportSubTypes, Finished, Opening
  <2> QED  BY <1>0, <2>1 DEF Fault
<1>2. SUFFICES ASSUME NEW j, NEW m, Taken(j, m)'
               PROVE  /\ j \in 1 .. at' /\ m \in DOMAIN Syms(j)'
                      /\ \/ Taken(j, m) /\ Syms(j)' = Syms(j)
                         \/ /\ SkipSymbol \/ AddType
                            /\ Syms(j)' = Syms(j) /\ Syms(j)[m] = Head(symbols)
  BY <1>1
<1>3. /\ j \in 1 .. at' /\ m \in DOMAIN Syms(j)'
      /\ j < at' \/ stage' # "symbols" \/ m + Len(symbols') <= Len(Syms(j)')
  BY <1>2 DEF Taken
<1>4. CASE OpenPdb
  <2>1. at' = at + 1 /\ stage = "closed" /\ stage' = "symbols" /\ symbols' = files[pdbs[at']].syms
        /\ pdbs' = pdbs /\ files' = files
    BY <1>4 DEF OpenPdb, Opening
  <2>2. CASE j \in 1 .. at
    BY <1>0, <1>3, <2>1, <2>2 DEF Taken
  <2>3. CASE j = at'
    <3>1. Syms(j)' = symbols'
      BY <2>1, <2>3 DEF Syms
    <3>2. symbols' \in Seq(Symbol)
      BY TypeStep DEF TypeInv, TypeOK, LoadOK
    <3>3. \A q \in Seq(Symbol) : \A k \in DOMAIN q : ~(k + Len(q) <= Len(q))
      OBVIOUS
    <3>4. ~(j < at')
      BY <1>0, <2>1, <2>3
    <3>5. m \in DOMAIN symbols' /\ m + Len(symbols') <= Len(symbols')
      BY <1>3, <2>1, <3>1, <3>4
    <3> QED  BY <3>2, <3>3, <3>5
  <2> QED  BY <1>0, <1>3, <2>1, <2>2, <2>3
<1>5. CASE SkipSymbol \/ AddType
  <2>1. /\ stage = "symbols" /\ stage' = stage /\ symbols # << >> /\ symbols' = Tail(symbols)
        /\ at' = at
    BY <1>5 DEF InSymbols, SkipSymbol, AddType
  <2>2. Syms(j)' = Syms(j)  BY <1>0, <1>3, <2>1
  <2>3. CASE j < at
    BY <1>3, <2>1, <2>2, <2>3 DEF Taken
  <2>4. CASE j = at
    <3> DEFINE whole == Syms(at)
    <3>1. whole \in Seq(Symbol) /\ symbols \in Seq(Symbol)
          /\ Head(symbols) = whole[Len(whole) - Len(symbols) + 1]
      BY <2>1, Reading
    <3>2. m \in DOMAIN whole /\ m + Len(Tail(symbols)) <= Len(whole)
      BY <1>0, <1>3, <2>1, <2>2, <2>4
    <3> HIDE DEF whole
    <3>3. /\ Len(Tail(symbols)) = Len(symbols) - 1 /\ Len(symbols) \in Nat /\ Len(whole) \in Nat
          /\ m \in Nat
      BY <2>1, <3>1, <3>2
    <3>4. m + Len(symbols) <= Len(whole) \/ m = Len(whole) - Len(symbols) + 1
      BY <3>2, <3>3
    <3> QED  BY <1>3, <2>1, <2>2, <2>4, <3>1, <3>2, <3>4, <1>5 DEF Taken, whole
  <2> QED  BY <1>0, <1>3, <2>1, <2>3, <2>4
<1>6. CASE EndOfSymbols
  <2>1. stage = "symbols" /\ symbols = << >> /\ at' = at
    BY <1>6 DEF EndOfSymbols, LeaveSymbols
  <2>2. Syms(j)' = Syms(j)  BY <1>0, <1>3, <2>1
  <2>3. CASE j < at
    BY <1>3, <2>1, <2>2, <2>3 DEF Taken
  <2>4. CASE j = at
    <3>1. Syms(at) \in Seq(Symbol)  BY <2>1, Reading
    <3>2. m \in 1 .. Len(Syms(at)) /\ m \in DOMAIN Syms(j)
      BY <1>3, <2>2, <2>4, <3>1
    <3>3. m + Len(symbols) <= Len(Syms(j))
      BY <2>1, <2>4, <3>1, <3>2
    <3> QED  BY <1>3, <2>1, <2>2, <3>2, <3>3 DEF Taken
  <2> QED  BY <1>0, <1>3, <2>1, <2>3, <2>4
<1>7. CASE at' = at /\ stage # "symbols"
  BY <1>0, <1>3, <1>7 DEF Taken
<1>8. CASE UNCHANGED <<at, stage, symbols>>
  BY <1>0, <1>3, <1>8 DEF Taken
<1>9. OpenPdb \/ SkipSymbol \/ AddType \/ EndOfSymbols \/ (at' = at /\ stage # "symbols")
      \/ UNCHANGED <<at, stage, symbols>>
  BY <1>1 DEF Next, vars, FindPdb, EndScan, OpenFails, FindChildrenFails,
         NextFails, NoObj, ExtractFunctions, LocateStage, SkipFunction,
         AddFunction, InFunctions, EndOfFunctions, EndLoad, ReportMapViolations,
         ReportSubTypes, Finished
<1> QED  BY <1>4, <1>5, <1>6, <1>7, <1>8, <1>9

(* What LoadPdb learns from the symbol at hand.                            *)
LEMMA LearnedPlain ==
  ASSUME TypeInv, RestInv, AddType
  PROVE  LET sym == Head(symbols)
             d == Meaning(sym.tag, SymbolKey(sym, Current), SymbolInfo(sym, Current))
         IN /\ sym \in Symbol /\ at \in 1 .. at
            /\ \E m \in DOMAIN Syms(at) : Syms(at)[m] = sym
            /\ Known' = IF Excluded(sym.name.id) THEN Known ELSE Known \cup {d}
            /\ Plain(sym) => d = DefOf(sym)
            /\ d.kind \in JudgedKinds /\ PlainName(d.entity.name) /\ ~Excluded(sym.name.id) =>
                 Plain(sym) /\ d = DefOf(sym)
<1> DEFINE sym == Head(symbols)
           d == Meaning(sym.tag, SymbolKey(sym, Current), SymbolInfo(sym, Current))
<1>1. stage = "symbols" /\ symbols # << >> /\ ~Ignored(sym)
  BY DEF AddType, InSymbols
<1>2. /\ sym \in Symbol /\ Current \in Pdbs /\ at \in 1 .. at
      /\ \E m \in DOMAIN Syms(at) : Syms(at)[m] = sym
  BY <1>1, Reading
<1>3. Known' = IF Excluded(sym.name.id) THEN Known ELSE Known \cup {d}
  <2>1. CASE Excluded(sym.name.id)
    <3>1. maps' = maps  BY <2>1 DEF AddType
    <3> QED  BY <2>1, <3>1 DEF Known
  <2>2. CASE ~Excluded(sym.name.id)
    BY <2>2, Learned
  <2> QED  BY <2>1, <2>2
<1>4. d.kind = sym.tag /\ d.entity = SymbolKey(sym, Current)
  BY DEF Meaning
<1>5. Plain(sym) => d = DefOf(sym)
  BY <1>2, PlainSymbol DEF Plain
<1>6. d.kind \in JudgedKinds /\ PlainName(d.entity.name) /\ ~Excluded(sym.name.id) =>
        Plain(sym) /\ d = DefOf(sym)
  <2> SUFFICES ASSUME d.kind \in JudgedKinds, PlainName(d.entity.name), ~Excluded(sym.name.id)
               PROVE  Plain(sym) /\ d = DefOf(sym)
    OBVIOUS
  <2>1. sym.tag \in JudgedKinds /\ PlainName(SymbolKey(sym, Current).name)
    BY <1>4
  <2> QED  BY <1>1, <1>2, <2>1, PlainSymbol DEF Plain
<1> QED  BY <1>2, <1>3, <1>5, <1>6

LEMMA OnlyStep ==
  ASSUME TypeInv, RestInv, OnlyFromFiles, [Next]_vars
  PROVE  OnlyFromFiles'
<1>1. /\ at \in Nat /\ at' \in Nat /\ at <= at'
      /\ \A j \in 1 .. at : Syms(j)' = Syms(j)
  BY SymsStay
<1>2. excludeStdlib' = excludeStdlib
  BY DEF Next, vars, load, FindPdb, EndScan, Opening, OpenPdb, OpenFails,
         FindChildrenFails, SkipSymbol, AddType, InSymbols, EndOfSymbols, NextFails,
         LeaveSymbols, NoObj, ExtractFunctions, LocateStage, SkipFunction, AddFunction,
         InFunctions, EndOfFunctions, EndLoad, ReportMapViolations, ReportSubTypes, Finished
<1>4. ASSUME NEW d \in Known', d.kind \in JudgedKinds, PlainName(d.entity.name)
      PROVE  \E j \in 1 .. at : \E m \in DOMAIN Syms(j) : Plain(Syms(j)[m]) /\ d = DefOf(Syms(j)[m])
  <2>1. CASE d \in Known
    BY <1>4, <2>1 DEF OnlyFromFiles
  <2>2. CASE d \notin Known
    <3>1. AddType  BY <1>4, <2>2, KnownStep
    <3>2. PICK sym \in Symbol : sym = Head(symbols)
      BY <3>1, LearnedPlain
    <3>3. /\ at \in 1 .. at /\ \E m \in DOMAIN Syms(at) : Syms(at)[m] = sym
          /\ Plain(sym) /\ d = DefOf(sym)
      BY <1>4, <2>2, <3>1, <3>2, LearnedPlain
    <3> QED  BY <3>3
  <2> QED  BY <2>1, <2>2
<1>5. \A j \in 1 .. at : j \in 1 .. at'
  BY <1>1
<1>6. ASSUME NEW d \in Known', d.kind \in JudgedKinds, PlainName(d.entity.name)
      PROVE  (\E j \in 1 .. at : \E m \in DOMAIN Syms(j) :
                Plain(Syms(j)[m]) /\ d = DefOf(Syms(j)[m]))'
  <2>1. PICK j \in 1 .. at : \E m \in DOMAIN Syms(j) : Plain(Syms(j)[m]) /\ d = DefOf(Syms(j)[m])
    BY <1>4, <1>6
  <2>2. PICK m \in DOMAIN Syms(j) : Plain(Syms(j)[m]) /\ d = DefOf(Syms(j)[m])
    BY <2>1
  <2>3. Syms(j)' = Syms(j) /\ j \in 1 .. at'  BY <1>1, <1>5
  <2> QED  BY <1>2, <2>2, <2>3 DEF Plain, Excluded, Syms, DefOf
<1> QED  BY <1>6 DEF OnlyFromFiles

LEMMA AllStep ==
  ASSUME TypeInv, RestInv, AllFromFiles, [Next]_vars
  PROVE  AllFromFiles'
<1>1. excludeStdlib' = excludeStdlib
  BY DEF Next, vars, load, FindPdb, EndScan, Opening, OpenPdb, OpenFails,
         FindChildrenFails, SkipSymbol, AddType, InSymbols, EndOfSymbols, NextFails,
         LeaveSymbols, NoObj, ExtractFunctions, LocateStage, SkipFunction, AddFunction,
         InFunctions, EndOfFunctions, EndLoad, ReportMapViolations, ReportSubTypes, Finished
<1>2. SUFFICES ASSUME faults' = 0, NEW j, NEW m, Taken(j, m)', Plain(Syms(j)[m])'
               PROVE  (DefOf(Syms(j)[m]) \in Known)'
  BY DEF AllFromFiles
<1>3. /\ faults = 0
      /\ \/ Taken(j, m) /\ Syms(j)' = Syms(j)
         \/ /\ SkipSymbol \/ AddType
            /\ Syms(j)' = Syms(j) /\ Syms(j)[m] = Head(symbols)
  BY <1>2, TakenStep
<1>4. Plain(Syms(j)[m])
  BY <1>1, <1>2, <1>3 DEF Plain, Excluded, Syms
<1>5. DefOf(Syms(j)[m]) \in Known'
  <2>1. CASE Taken(j, m)
    <3>1. DefOf(Syms(j)[m]) \in Known
      BY <1>3, <1>4, <2>1 DEF AllFromFiles
    <3> QED  BY <3>1, KnownStep
  <2>2. CASE SkipSymbol /\ Syms(j)[m] = Head(symbols)
    BY <1>4, <2>2 DEF SkipSymbol, Plain
  <2>3. CASE AddType /\ Syms(j)[m] = Head(symbols)
    <3> DEFINE sym == Head(symbols)
    <3>1. Plain(sym) /\ ~Excluded(sym.name.id)  BY <1>4, <2>3 DEF Plain
    <3>2. DefOf(sym) \in Known'
      BY <2>3, <3>1, LearnedPlain
    <3> QED  BY <2>3, <3>2
  <2> QED  BY <1>3, <2>1, <2>2, <2>3
<1> QED  BY <1>3, <1>5 DEF DefOf, Syms

LEMMA AllLoadedStep ==
  ASSUME TypeInv, AllLoaded, [Next]_vars
  PROVE  AllLoaded'
<1>1. CASE UNCHANGED <<phase, at, pdbs>>
  BY <1>1 DEF AllLoaded
<1>2. CASE phase' \in {"scan", "nothing", "load"}
  BY <1>2 DEF AllLoaded, ReportPhases
<1>3. CASE EndLoad
  BY <1>3 DEF AllLoaded, EndLoad
<1>4. CASE phase \in ReportPhases /\ at' = at /\ pdbs' = pdbs
  BY <1>4 DEF AllLoaded
<1>5. ASSUME NEW k \in Kinds, ReportMapViolations(k)
      PROVE  phase \in ReportPhases /\ at' = at /\ pdbs' = pdbs
  BY <1>5 DEF ReportMapViolations, Kinds, TypeKinds, ReportPhases
<1>6. ASSUME ReportSubTypes("anonUdt", "udt") \/ ReportSubTypes("anonEnum", "enum")
      PROVE  phase \in ReportPhases /\ at' = at /\ pdbs' = pdbs
  BY <1>6 DEF ReportSubTypes, ReportPhases
<1>7. CASE \E p \in Pdbs : FindPdb(p)
  <2>1. phase' = "scan"  BY <1>7 DEF FindPdb
  <2> QED  BY <1>2, <2>1
<1>8. CASE EndScan \/ Opening
  <2>1. phase' \in {"nothing", "load"}  BY <1>8 DEF EndScan, Opening
  <2> QED  BY <1>2, <2>1
<1>9. \/ UNCHANGED <<phase, at, pdbs>> \/ EndScan \/ Opening \/ EndLoad
      \/ \E p \in Pdbs : FindPdb(p)
      \/ \E k \in Kinds : ReportMapViolations(k)
      \/ ReportSubTypes("anonUdt", "udt") \/ ReportSubTypes("anonEnum", "enum")
  BY DEF Next, vars, load, OpenPdb, OpenFails, FindChildrenFails, SkipSymbol, AddType,
         InSymbols, EndOfSymbols, NextFails, LeaveSymbols, NoObj, ExtractFunctions,
         LocateStage, SkipFunction, AddFunction, InFunctions, EndOfFunctions, Finished
<1> QED  BY <1>1, <1>3, <1>4, <1>5, <1>6, <1>7, <1>8, <1>9

LEMMA SameOdd ==
  ASSUME Known' = Known, NEW kind
  PROVE  Verdict!Odd(kind)' = Verdict!Odd(kind)
BY DEF Verdict!Odd, Verdict!Differ

LEMMA ReportedStep ==
  ASSUME TypeInv, KeysTell, Reported, [Next]_vars
  PROVE  Reported'
<1> SUFFICES ASSUME NEW kind \in JudgedKinds
             PROVE  {v \in violations' : v[1] = kind} =
                      IF kind \in JudgedAt[phase'] THEN Verdict!Odd(kind)' ELSE {}
  BY DEF Reported, JudgedAt
<1>0. {v \in violations : v[1] = kind} = IF kind \in JudgedAt[phase] THEN Verdict!Odd(kind) ELSE {}
  BY DEF Reported
<1>1. CASE UNCHANGED <<phase, report>>
  <2>1. Known' # Known => phase = "load"
    BY KnownStep DEF AddType, InSymbols
  <2>2. CASE Known' = Known
    BY <1>0, <1>1, <2>2, SameOdd DEF report
  <2>3. CASE phase = "load"
    BY <1>0, <1>1, <2>3, JudgedValues DEF report
  <2> QED  BY <2>1, <2>2, <2>3
<1>2. CASE EndScan \/ EndLoad
  <2>1. violations' = violations /\ JudgedAt[phase] = {} /\ JudgedAt[phase'] = {}
    BY <1>2, JudgedValues DEF EndScan, EndLoad, report
  <2> QED  BY <1>0, <2>1
<1>3. ASSUME NEW k \in Kinds, ReportMapViolations(k)
      PROVE  {v \in violations' : v[1] = kind} =
               IF kind \in JudgedAt[phase'] THEN Verdict!Odd(kind)' ELSE {}
  <2>1. Known' = Known
    BY <1>3 DEF ReportMapViolations, load, Known
  <2>2. phase = k /\ phase' = After[k]
        /\ violations' = violations \cup {<<k, x>> : x \in Violating(maps[k])}
    BY <1>3 DEF ReportMapViolations
  <2>3. CASE k = kind
    <3>1. JudgedAt[phase] \cap {kind} = {} /\ kind \in JudgedAt[phase']
      BY <2>2, <2>3, JudgedValues DEF After, JudgedKinds
    <3>2. violations' = violations \cup Verdict!Odd(kind)
      BY <2>2, <2>3, ViolatingIsOdd DEF JudgedKinds, TypeKinds
    <3>3. \A v \in Verdict!Odd(kind) : v[1] = kind
      BY DEF Verdict!Odd
    <3>4. {v \in violations : v[1] = kind} = {}
      BY <1>0, <3>1
    <3>5. {v \in violations' : v[1] = kind} = Verdict!Odd(kind)
      BY <3>2, <3>3, <3>4
    <3> QED  BY <2>1, <3>1, <3>5, SameOdd
  <2>4. CASE k # kind
    <3>1. kind \in JudgedAt[phase'] <=> kind \in JudgedAt[phase]
      BY <2>2, <2>4, JudgedValues DEF After, JudgedKinds, Kinds, TypeKinds
    <3>2. {v \in violations' : v[1] = kind} = {v \in violations : v[1] = kind}
      BY <2>2, <2>4
    <3> QED  BY <1>0, <2>1, <3>1, <3>2, SameOdd
  <2> QED  BY <2>3, <2>4
<1>4. ASSUME NEW step \in {"anonUdt", "anonEnum"}, NEW k, ReportSubTypes(step, k)
      PROVE  {v \in violations' : v[1] = kind} =
               IF kind \in JudgedAt[phase'] THEN Verdict!Odd(kind)' ELSE {}
  <2>1. Known' = Known
    BY <1>4 DEF ReportSubTypes, load, Known
  <2>2. phase = step /\ phase' = After[step]
        /\ violations' = violations \cup {<<step, x>> : x \in InvolvedAnonymous(k)}
    BY <1>4 DEF ReportSubTypes
  <2>3. kind \in JudgedAt[phase'] <=> kind \in JudgedAt[phase]
    BY <2>2, JudgedValues DEF After
  <2>4. {v \in violations' : v[1] = kind} = {v \in violations : v[1] = kind}
    BY <2>2 DEF JudgedKinds
  <2> QED  BY <1>0, <2>1, <2>3, <2>4, SameOdd
<1>5. \/ UNCHANGED <<phase, report>>
      \/ EndScan \/ EndLoad
      \/ \E k \in Kinds : ReportMapViolations(k)
      \/ ReportSubTypes("anonUdt", "udt") \/ ReportSubTypes("anonEnum", "enum")
  BY DEF Next, vars, load, FindPdb, Opening, OpenPdb, OpenFails,
         FindChildrenFails, SkipSymbol, AddType, InSymbols, EndOfSymbols, NextFails,
         LeaveSymbols, NoObj, ExtractFunctions, LocateStage, SkipFunction, AddFunction,
         InFunctions, EndOfFunctions, Finished
<1> QED  BY <1>1, <1>2, <1>3, <1>4, <1>5

LEMMA InvInit == Init => Inv
<1> SUFFICES ASSUME Init PROVE Inv  OBVIOUS
<1>1. TypeInv /\ KeysTell  BY TypeInit DEF Init, KeysTell, EmptyMap
<1>2. Known = {}
  <2>1. \A kind \in TypeKinds : DOMAIN maps[kind] = {}
    BY DEF Init, EmptyMap, Kinds
  <2> QED  BY <2>1 DEF Known
<1>3. /\ stage = "closed" /\ at = 0 /\ phase = "scan" /\ violations = {}
  BY DEF Init
<1>4. RestInv /\ OnlyFromFiles /\ AllLoaded
  BY <1>2, <1>3 DEF RestInv, OnlyFromFiles, AllLoaded, ReportPhases
<1>5. AllFromFiles
  BY <1>3 DEF AllFromFiles, Taken
<1>6. Reported
  BY <1>3, JudgedValues DEF Reported
<1> QED  BY <1>1, <1>4, <1>5, <1>6 DEF Inv, FilesInv

LEMMA InvStep == Inv /\ [Next]_vars => Inv'
<1> SUFFICES ASSUME Inv, [Next]_vars PROVE Inv'  OBVIOUS
<1>1. TypeInv /\ KeysTell /\ RestInv /\ OnlyFromFiles /\ AllFromFiles /\ AllLoaded /\ Reported
  BY DEF Inv, FilesInv
<1>2. TypeInv' /\ KeysTell'  BY <1>1, TypeStep, KeysTellStep
<1>3. RestInv' /\ OnlyFromFiles'  BY <1>1, RestStep, OnlyStep
<1>4. AllFromFiles' /\ AllLoaded'  BY <1>1, AllStep, AllLoadedStep
<1>5. Reported'  BY <1>1, ReportedStep
<1> QED  BY <1>2, <1>3, <1>4, <1>5 DEF Inv, FilesInv

-----------------------------------------------------------------------------
(* The definitions of one name that are known at the end, and what the     *)
(* files say of it.                                                        *)
LEMMA KnownForms ==
  ASSUME Inv, phase = "done", faults = 0, NEW kind \in JudgedKinds,
         NEW n \in ExternalNames, NEW form
  PROVE  form \in FormsIn(kind, n) <=>
           \E d \in Known : /\ d.kind = kind /\ d.entity = [name |-> n, suffix |-> NoSuffix]
                            /\ d.look = IF kind = "udt" THEN form ELSE <<n, form>>
<1>0. TypeInv /\ OnlyFromFiles /\ AllFromFiles /\ AllLoaded
  BY DEF Inv, FilesInv
<1>1. /\ at = Len(pdbs) /\ stage = "closed" /\ pdbs \in Seq(Pdbs) /\ DOMAIN pdbs = 1 .. at
  BY <1>0 DEF AllLoaded, TypeInv, TypeOK, LoadInv, RunOK
<1>2. PlainName(n)
  BY DEF ExternalNames, PlainName
<1>3. ASSUME form \in FormsIn(kind, n)
      PROVE  \E d \in Known : /\ d.kind = kind /\ d.entity = [name |-> n, suffix |-> NoSuffix]
                              /\ d.look = IF kind = "udt" THEN form ELSE <<n, form>>
  <2>1. PICK p \in Loaded : \E m \in DOMAIN files[p].syms :
               LET sym == files[p].syms[m]
               IN /\ sym.tag = kind /\ sym.name = n /\ sym.form = form
                  /\ ~Ignored(sym) /\ ~Excluded(n.id)
    BY <1>3 DEF FormsIn
  <2>2. PICK j \in 1 .. at : p = pdbs[j]
    BY <1>1 DEF Loaded
  <2>3. PICK m \in DOMAIN Syms(j) :
           LET sym == Syms(j)[m]
           IN /\ sym.tag = kind /\ sym.name = n /\ sym.form = form
              /\ ~Ignored(sym) /\ ~Excluded(n.id)
    BY <2>1, <2>2 DEF Syms
  <2>4. Taken(j, m) /\ Plain(Syms(j)[m])
    BY <1>1, <1>2, <2>3 DEF Taken, Plain
  <2>5. DefOf(Syms(j)[m]) \in Known
    BY <1>0, <2>4 DEF AllFromFiles
  <2> QED  BY <2>3, <2>5 DEF DefOf
<1>4. ASSUME NEW d \in Known, d.kind = kind, d.entity = [name |-> n, suffix |-> NoSuffix],
             d.look = IF kind = "udt" THEN form ELSE <<n, form>>
      PROVE  form \in FormsIn(kind, n)
  <2>1. d.entity.name = n  BY <1>4
  <2>2. PICK j \in 1 .. at : \E m \in DOMAIN Syms(j) : Plain(Syms(j)[m]) /\ d = DefOf(Syms(j)[m])
    BY <1>0, <1>2, <1>4, <2>1 DEF OnlyFromFiles
  <2>3. PICK m \in DOMAIN Syms(j) : Plain(Syms(j)[m]) /\ d = DefOf(Syms(j)[m])
    BY <2>2
  <2> DEFINE sym == Syms(j)[m]
  <2>4. sym.tag = kind /\ sym.name = n
    BY <1>4, <2>1, <2>3 DEF DefOf
  <2>5. sym.form = form
    BY <1>4, <2>3, <2>4 DEF DefOf
  <2>6. ~Ignored(sym) /\ ~Excluded(n.id)
    BY <2>3, <2>4 DEF Plain
  <2>7. pdbs[j] \in Loaded
    BY <1>1 DEF Loaded
  <2> QED  BY <2>4, <2>5, <2>6, <2>7 DEF FormsIn, Syms
<1> QED  BY <1>3, <1>4

(* End to end, for any number of files found in any order, when nothing    *)
(* failed: a class or an enum with external linkage is reported exactly    *)
(* when two of the loaded files define it differently.                     *)
THEOREM TypesJudgedByTheFilesAlways == Spec => []TypesJudgedByTheFiles
<1>1. Inv => TypesJudgedByTheFiles
  <2> SUFFICES ASSUME Inv, phase = "done", faults = 0,
                      NEW kind \in JudgedKinds, NEW n \in ExternalNames
               PROVE  <<kind, [name |-> n, suffix |-> NoSuffix]>> \in violations <=>
                        \E f, g \in FormsIn(kind, n) : f # g
    BY DEF TypesJudgedByTheFiles, JudgedKinds
  <2> DEFINE key == [name |-> n, suffix |-> NoSuffix]
             Look(f) == IF kind = "udt" THEN f ELSE <<n, f>>
  <2>0. PlainName(n) /\ OnlyFromFiles
    BY DEF ExternalNames, PlainName, Inv, FilesInv
  <2>1. <<kind, key>> \in violations <=> <<kind, key>> \in Verdict!Odd(kind)
    <3>1. kind \in JudgedAt[phase]  BY JudgedValues DEF JudgedKinds, TypeKinds
    <3>2. {v \in violations : v[1] = kind} = Verdict!Odd(kind)
      BY <3>1 DEF Inv, FilesInv, Reported
    <3> QED  BY <3>2
  <2>2. <<kind, key>> \in Verdict!Odd(kind) <=>
          \E d, e \in Known : d.kind = kind /\ d.entity = key /\ Verdict!Differ(d, e)
    BY DEF Verdict!Odd
  <2>3. ASSUME NEW d \in Known, d.kind = kind, d.entity = key
        PROVE  d.internal = FALSE /\ \E f : d.look = Look(f)
    <3>1. d.entity.name = n  BY <2>3
    <3>2. PICK j \in 1 .. at : \E m \in DOMAIN Syms(j) : Plain(Syms(j)[m]) /\ d = DefOf(Syms(j)[m])
      BY <2>0, <2>3, <3>1 DEF OnlyFromFiles
    <3>3. PICK m \in DOMAIN Syms(j) : d = DefOf(Syms(j)[m])
      BY <3>2
    <3>4. d.look = Look(Syms(j)[m].form) /\ d.internal = FALSE
      BY <2>3, <3>1, <3>3 DEF DefOf
    <3> QED  BY <3>4
  <2>4. \A f, g : f # g <=> Look(f) # Look(g)
    OBVIOUS
  <2>5. ASSUME NEW d \in Known, NEW e \in Known, d.kind = kind, d.entity = key,
               Verdict!Differ(d, e)
        PROVE  \E f, g \in FormsIn(kind, n) : f # g
    <3>1. e.kind = kind /\ e.entity = key /\ d.look # e.look
      BY <2>5 DEF Verdict!Differ
    <3>2. PICK f : d.look = Look(f)  BY <2>3, <2>5
    <3>3. PICK g : e.look = Look(g)  BY <2>3, <3>1
    <3>4. f \in FormsIn(kind, n) /\ g \in FormsIn(kind, n)
      BY <2>5, <3>1, <3>2, <3>3, KnownForms
    <3> QED  BY <3>1, <3>2, <3>3, <3>4
  <2>6. ASSUME NEW f \in FormsIn(kind, n), NEW g \in FormsIn(kind, n), f # g
        PROVE  \E d, e \in Known : d.kind = kind /\ d.entity = key /\ Verdict!Differ(d, e)
    <3>1. PICK d \in Known : d.kind = kind /\ d.entity = key /\ d.look = Look(f)
      BY KnownForms
    <3>2. PICK e \in Known : e.kind = kind /\ e.entity = key /\ e.look = Look(g)
      BY KnownForms
    <3>3. d.internal = FALSE /\ e.internal = FALSE
      BY <2>3, <3>1, <3>2
    <3>4. d.look # e.look  BY <2>4, <2>6, <3>1, <3>2
    <3> QED  BY <3>1, <3>2, <3>3, <3>4 DEF Verdict!Differ
  <2> QED  BY <2>1, <2>2, <2>5, <2>6
<1> QED  BY <1>1, InvInit, InvStep, PTL DEF Spec
=============================================================================
