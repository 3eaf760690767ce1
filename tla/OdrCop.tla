-------------------------------- MODULE OdrCop --------------------------------
(***************************************************************************)
(* The program: wmain (src.cpp), Cop::LoadPdb, Cop::ReportViolations       *)
(* (OdrCop.h) and FunctionExtractor::Extract (FunctionExtractor.h).        *)
(*                                                                         *)
(* One run scans the roots for .pdb files, in whatever order the directory *)
(* iterator yields them and possibly the same file twice; loads each one,  *)
(* symbol by symbol and then function by function, into four maps; and     *)
(* walks the maps for entities whose definitions differ. Reading a .pdb    *)
(* can fail at every step; a failure is at most a message.                 *)
(***************************************************************************)
EXTENDS OdrInfo, FiniteSets

CONSTANTS
  Contents,    \* what the .pdb and .obj of a translation unit may hold
  MaxPdbs,     \* bound: files found under the roots
  MaxFaults    \* bound: failures of DIA, or of the .obj reader, in one run

(* A global symbol. "drop" is why LoadPdb may pass over it: a forwarder,   *)
(* an empty name, a <lambda_ in the name, or a local (scoped) type. Of     *)
(* form and underlying, a UDT and an enum have the first and a typedef the *)
(* second.                                                                 *)
Symbol == [tag : TypeKinds \cup {"other"},
           drop : {"no", "forwarder", "nameless", "lambda", "scoped"},
           name : RawName, form : Forms, underlying : RawName]

(* A function of the .obj, as ExtractFunctions returns it: the name the    *)
(* symbol table has, the name the S_PROC record has, each by the function  *)
(* it is of, and what IsStaticFreeFunction says of the source line. The    *)
(* two names are of one function where ExtractFunctions paired them right. *)
Function == [decorated : Ids, undecorated : Ids, static : BOOLEAN,
             body : Body, relocs : Relocs]

Content == [syms : Seq(Symbol), funcs : Seq(Function), obj : ObjPlaces \cup {"none"}]

ASSUME ContentsAssumption == Contents \subseteq Content
ASSUME BoundsAssumption == MaxPdbs \in Nat /\ MaxFaults \in Nat

VARIABLES
  phase,         \* what wmain and ReportViolations are doing
  pdbs,          \* the .pdb files found, in order
  at,            \* index in pdbs of the one being loaded, 0 before the first
  excludeStdlib, \* the /exclude-stdlib switch
  files,         \* what each .pdb and its .obj hold
  stage,         \* where LoadPdb is
  symbols,       \* what IDiaEnumSymbols has still to yield
  functions,     \* what ExtractFunctions returned and Extract has not taken
  perTU,         \* LoadPdb's own maps of the types of this .pdb
  maps,          \* udtMap, enumMap, tdefMap and funcMap
  failed,        \* indices in pdbs of the loads reported as failed
  subTypes,      \* the types involved in violations (subTypeMaps)
  violations,    \* the violations printed
  faults         \* failures so far

load == <<stage, symbols, functions, perTU, maps, failed>>
report == <<subTypes, violations>>
vars == <<phase, pdbs, at, excludeStdlib, files, load, report, faults>>

ReportPhases == {"udt", "func", "enum", "tdef", "anonUdt", "anonEnum"}
Phases == {"scan", "nothing", "load", "done"} \cup ReportPhases
Stages == {"closed", "symbols", "locate", "functions"}

Current == pdbs[at]
File == files[Current]
NoTypes == [kind \in TypeKinds |-> EmptyMap]

Fault == faults < MaxFaults /\ faults' = faults + 1

Init ==
  /\ phase = "scan"
  /\ pdbs = << >> /\ at = 0
  /\ excludeStdlib \in BOOLEAN
  /\ files \in [Pdbs -> Contents]
  /\ stage = "closed" /\ symbols = << >> /\ functions = << >>
  /\ perTU = NoTypes
  /\ maps = [kind \in Kinds |-> EmptyMap]
  /\ failed = {}
  /\ subTypes = {} /\ violations = {}
  /\ faults = 0

-----------------------------------------------------------------------------
(* wmain: the roots. *)
FindPdb(p) ==
  /\ phase = "scan"
  /\ Len(pdbs) < MaxPdbs
  /\ pdbs' = Append(pdbs, p)
  /\ UNCHANGED <<phase, at, excludeStdlib, files, load, report, faults>>

EndScan ==
  /\ phase = "scan"
  /\ phase' = IF pdbs = << >> THEN "nothing" ELSE "load"
  /\ UNCHANGED <<pdbs, at, excludeStdlib, files, load, report, faults>>

-----------------------------------------------------------------------------
(* Mutation: PerTuTypes outlives its .pdb. *)
MutantKeepsPerTU ==
  /\ phase = "load" /\ stage = "closed"
  /\ at < Len(pdbs)
  /\ at' = at + 1
  /\ UNCHANGED <<phase, pdbs, excludeStdlib, files, functions, perTU, maps, report>>

(* wmain's loop over pdbs, and LoadPdb up to findChildren. *)
Opening ==
  /\ phase = "load" /\ stage = "closed"
  /\ at < Len(pdbs)
  /\ at' = at + 1
  /\ perTU' = NoTypes
  /\ UNCHANGED <<phase, pdbs, excludeStdlib, files, functions, maps, report>>

OpenPdb ==
  /\ Opening
  /\ stage' = "symbols"
  /\ symbols' = files[pdbs[at']].syms
  /\ UNCHANGED <<failed, faults>>

(* CoCreateInstance, loadDataFromPdb, openSession or get_globalScope fails: *)
(* nothing is loaded and wmain says so.                                    *)
OpenFails ==
  /\ Opening
  /\ Fault
  /\ failed' = failed \cup {at'}
  /\ UNCHANGED <<stage, symbols>>

(* findChildren fails: no symbols, but Extract runs all the same, and      *)
(* LoadPdb returns findChildren's failure.                                 *)
FindChildrenFails ==
  /\ Opening
  /\ Fault
  /\ failed' = failed \cup {at'}
  /\ stage' = "locate"
  /\ UNCHANGED symbols

-----------------------------------------------------------------------------
(* LoadPdb's loop over the global symbols. *)
Ignored(sym) ==
  \/ sym.tag = "other"
  \/ sym.drop \in {"forwarder", "nameless"}
  \/ sym.tag = "udt" /\ sym.drop \in {"lambda", "scoped"}

SymbolKey(sym, p) ==
  IF sym.tag = "udt" THEN BuildUdtKey(sym.name, PdbPath(p), sym.form)
                     ELSE BuildTypeKey(sym.name, PdbPath(p))

SymbolInfo(sym, p) ==
  CASE sym.tag = "udt" ->
         UdtInfo(HasAnonymousNamespace(CanonicalizeAnonymousNamespace(sym.name)),
                 p, sym.form)
    [] sym.tag = "enum" ->
         EnumInfo(HasAnonymousNamespace(sym.name), p, sym.name, sym.form)
    [] OTHER ->
         TDefInfo(HasAnonymousNamespace(sym.name), p, sym.name, sym.underlying)

(* std::wstring(key).starts_with(L"std::") under /exclude-stdlib *)
Excluded(id) == excludeStdlib /\ id \in StdIds

InSymbols ==
  /\ phase = "load" /\ stage = "symbols" /\ symbols # << >>
  /\ symbols' = Tail(symbols)
  /\ UNCHANGED <<phase, pdbs, at, excludeStdlib, files, stage, functions, failed,
                 report, faults>>

SkipSymbol ==
  /\ InSymbols
  /\ Ignored(Head(symbols))
  /\ UNCHANGED <<perTU, maps>>

(* Mutation: operator[] makes the key's vector before the std:: test. *)
MutantTouchesVector ==
  /\ InSymbols
  /\ LET sym  == Head(symbols)
         key  == SymbolKey(sym, Current)
         info == SymbolInfo(sym, Current)
     IN /\ ~Ignored(sym)
        /\ perTU' = [perTU EXCEPT ![sym.tag] = PushBack(@, key, info)]
        /\ maps' = [maps EXCEPT ![sym.tag] =
                      IF Excluded(sym.name.id)
                      THEN [k \in DOMAIN @ \cup {key} |-> Items(@, k)]
                      ELSE PushBack(@, key, info)]

(* A type goes into this .pdb's own map always, and into the map of all    *)
(* .pdbs unless it is the standard library's and excluded.                 *)
AddType ==
  /\ InSymbols
  /\ LET sym  == Head(symbols)
         key  == SymbolKey(sym, Current)
         info == SymbolInfo(sym, Current)
     IN /\ ~Ignored(sym)
        /\ perTU' = [perTU EXCEPT ![sym.tag] = PushBack(@, key, info)]
        /\ maps' = IF Excluded(sym.name.id) THEN maps
                   ELSE [maps EXCEPT ![sym.tag] = PushBack(@, key, info)]

LeaveSymbols ==
  /\ phase = "load" /\ stage = "symbols"
  /\ stage' = "locate"
  /\ symbols' = << >>
  /\ UNCHANGED <<phase, pdbs, at, excludeStdlib, files, functions, perTU, maps,
                 failed, report>>

EndOfSymbols == LeaveSymbols /\ symbols = << >> /\ UNCHANGED faults

(* Mutation: LoadPdb returns Next's failure. *)
MutantReportsNext ==
  /\ phase = "load" /\ stage = "symbols" /\ symbols # << >>
  /\ Fault
  /\ stage' = "locate" /\ symbols' = << >>
  /\ failed' = failed \cup {at}
  /\ UNCHANGED <<phase, pdbs, at, excludeStdlib, files, functions, perTU, maps, report>>

(* IDiaEnumSymbols::Next fails: the loop ends as if there were no more     *)
(* symbols, and the load counts as a success.                              *)
NextFails == LeaveSymbols /\ symbols # << >> /\ Fault

-----------------------------------------------------------------------------
(* FunctionExtractor::Extract. *)
LocateStage ==
  /\ phase = "load" /\ stage = "locate"
  /\ UNCHANGED <<phase, pdbs, at, excludeStdlib, files, symbols, perTU, maps,
                 failed, report>>

(* No .obj, or the std module's under /exclude-stdlib: no functions.       *)
NoObj ==
  /\ LocateStage
  /\ File.obj = "none" \/ (File.obj = "stl" /\ excludeStdlib)
  /\ stage' = "closed"
  /\ UNCHANGED <<functions, faults>>

(* ExtractFunctions catches every exception and returns what it has.       *)
ExtractFunctions ==
  /\ LocateStage
  /\ File.obj # "none" /\ ~(File.obj = "stl" /\ excludeStdlib)
  /\ stage' = "functions"
  /\ \/ functions' = File.funcs /\ UNCHANGED faults
     \/ /\ Fault
        /\ \E n \in 0 .. Len(File.funcs) - 1 : functions' = SubSeq(File.funcs, 1, n)

(* FuncInfo's constructor looks an argument's or a return type up by the   *)
(* text of the undecorated name, in this .pdb's own types.                 *)
NamedType(ref) ==
  LET name == MakeAnonymousNamespaceTuSpecific(
                CanonicalizeAnonymousNamespace(ref.name),
                CompilandToPdbPath(Current, File.obj))
  IN [name |-> name,
      item |-> IF ref.class = "other" THEN NullInfo
               ELSE FindFirst(perTU[ref.class], [name |-> name, suffix |-> NoSuffix])]

NewFuncInfo(f) ==
  [kind |-> "func", anon |-> f.undecorated \in AnonIds, tu |-> Current,
   content |-> [id |-> f.decorated, static |-> f.static, body |-> f.body,
                relocs |-> f.relocs,
                types |-> [i \in DOMAIN Signature[f.decorated] |->
                             NamedType(Signature[f.decorated][i])]]]

(* The tests on the undecorated name.                                      *)
PassedOver(f) == Excluded(f.undecorated) \/ f.undecorated \in LambdaIds

FuncKey(f) == BuildFuncKey(f.decorated, f.undecorated \in AnonIds, PdbPath(Current))

InFunctions ==
  /\ phase = "load" /\ stage = "functions" /\ functions # << >>
  /\ functions' = Tail(functions)
  /\ UNCHANGED <<phase, pdbs, at, excludeStdlib, files, stage, symbols, perTU,
                 failed, report, faults>>

(* Mutation: "continue" without going on to the next function. *)
MutantLooksAgain ==
  /\ phase = "load" /\ stage = "functions" /\ functions # << >>
  /\ PassedOver(Head(functions))
  /\ UNCHANGED vars

SkipFunction ==
  /\ InFunctions
  /\ PassedOver(Head(functions))
  /\ UNCHANGED maps

AddFunction ==
  /\ InFunctions
  /\ LET f == Head(functions)
     IN /\ ~PassedOver(f)
        /\ maps' = [maps EXCEPT !["func"] = PushBack(@, FuncKey(f), NewFuncInfo(f))]

EndOfFunctions ==
  /\ phase = "load" /\ stage = "functions" /\ functions = << >>
  /\ stage' = "closed"
  /\ UNCHANGED <<phase, pdbs, at, excludeStdlib, files, symbols, functions, perTU,
                 maps, failed, report, faults>>

EndLoad ==
  /\ phase = "load" /\ stage = "closed" /\ at = Len(pdbs)
  /\ phase' = "udt"
  /\ UNCHANGED <<pdbs, at, excludeStdlib, files, load, report, faults>>

-----------------------------------------------------------------------------
(* ReportViolations: the four maps, in this order, and then the anonymous  *)
(* types collected on the way.                                             *)
After == [udt |-> "func", func |-> "enum", enum |-> "tdef", tdef |-> "anonUdt",
          anonUdt |-> "anonEnum", anonEnum |-> "done"]

(* Mutation: only the first item's types are collected. *)
MutantCollectsFirst(map) == UNION {SubItems(map[k][1]) : k \in Violating(map)}

Collected(map) ==
  UNION {UNION {SubItems(map[k][i]) : i \in DOMAIN map[k]} : k \in Violating(map)}

ReportMapViolations(kind) ==
  /\ phase = kind
  /\ phase' = After[kind]
  /\ violations' = violations \cup {<<kind, k>> : k \in Violating(maps[kind])}
  /\ subTypes' = subTypes \cup Collected(maps[kind])
  /\ UNCHANGED <<pdbs, at, excludeStdlib, files, load, faults>>

(* The same function over subTypeMaps, skipping what is not anonymous. A   *)
(* name fixes whether its items are, and their contents are compared with  *)
(* =, so that the order in which they were collected does not matter.      *)
InvolvedAnonymous(kind) ==
  {x.name : x \in {y \in subTypes :
                     /\ y.kind = kind /\ y.info.anon
                     /\ \E z \in subTypes : /\ z.kind = kind /\ z.name = y.name
                                            /\ z.info.content # y.info.content}}

ReportSubTypes(step, kind) ==
  /\ phase = step
  /\ phase' = After[step]
  /\ violations' = violations \cup {<<step, n>> : n \in InvolvedAnonymous(kind)}
  /\ UNCHANGED <<pdbs, at, excludeStdlib, files, load, subTypes, faults>>

violationCount == Cardinality(violations)

Finished == phase \in {"done", "nothing"} /\ UNCHANGED vars

Next ==
  \/ \E p \in Pdbs : FindPdb(p)
  \/ EndScan
  \/ OpenPdb \/ OpenFails \/ FindChildrenFails
  \/ SkipSymbol \/ AddType \/ EndOfSymbols \/ NextFails
  \/ NoObj \/ ExtractFunctions
  \/ SkipFunction \/ AddFunction \/ EndOfFunctions
  \/ EndLoad
  \/ \E kind \in Kinds : ReportMapViolations(kind)
  \/ ReportSubTypes("anonUdt", "udt")
  \/ ReportSubTypes("anonEnum", "enum")
  \/ Finished

Spec == Init /\ [][Next]_vars

(* One thread; nothing it calls waits for anything else.                   *)
FairSpec == Spec /\ WF_vars(Next)

-----------------------------------------------------------------------------
(* Properties. *)

IsMap(map, Infos) ==
  /\ DOMAIN map \subseteq Key
  /\ map = [k \in DOMAIN map |-> map[k]]
  /\ \A k \in DOMAIN map : map[k] \in Seq(Infos) /\ map[k] # << >>

SubType == [kind : TypeKinds, name : Name, info : TypeInfo]

RunOK ==
  /\ phase \in Phases
  /\ pdbs \in Seq(Pdbs) /\ at \in 0 .. Len(pdbs)
  /\ excludeStdlib \in BOOLEAN
  /\ files \in [Pdbs -> Contents]
  /\ failed \subseteq DOMAIN pdbs
  /\ faults \in 0 .. MaxFaults

LoadOK == stage \in Stages /\ symbols \in Seq(Symbol) /\ functions \in Seq(Function)

MapsOK ==
  /\ perTU = [kind \in TypeKinds |-> perTU[kind]]
  /\ \A kind \in TypeKinds : IsMap(perTU[kind], TypeInfo)
  /\ maps = [kind \in Kinds |-> maps[kind]]
  /\ \A kind \in TypeKinds : IsMap(maps[kind], TypeInfo)
  /\ IsMap(maps["func"], FuncInfo)

ReportOK ==
  /\ subTypes \subseteq SubType
  /\ violations \subseteq ReportPhases \X (Key \cup Name)

(* Every variable has its type; in particular a key is never present with  *)
(* an empty vector, which is what makes items[0] and it->second[0] safe    *)
(* (OdrCop.h:182, FunctionExtractor.h:143).                                *)
TypeOK == RunOK /\ LoadOK /\ MapsOK /\ ReportOK

(* A function's mark (excludeFromComparison) comes from the S_PROC         *)
(* record's name and its key from the symbol table's                       *)
(* (FunctionExtractor.h:710-713). It is right when both say the same.      *)
RightlyMarked(kind, info) ==
  kind = "func" => (info.anon <=> info.content.id \in AnonIds)

(* Definitions under one key are all marked as anonymous, or none, so that *)
(* skipping by items[0] alone (OdrCop.h:182) skips all or nothing; and one *)
(* that is marked shares its key with definitions of its own translation   *)
(* unit only, the path in the key sees to that (AnonInfo.h:13-31,          *)
(* FunctionExtractor.h:1138-1153). Of functions the first holds among      *)
(* those rightly marked, and the second of one rightly marked whatever is  *)
(* under the key with it. The second leaves out the keys that are reset to *)
(* the untagged name (OdrCop.h:321-322). An enum or a typedef DIA spells   *)
(* with `anonymous namespace' is not marked, and is under one key for all  *)
(* translation units (OdrCop.h:106-112, 124-129).                          *)
InternalEntitiesKeepApart ==
  \A kind \in Kinds : \A k \in DOMAIN maps[kind] :
    \A i, j \in DOMAIN maps[kind][k] :
      LET a == maps[kind][k][i]
          b == maps[kind][k][j]
          reset == kind = "udt" /\ k.name.id \in UnnamedTypeIds
      IN /\ RightlyMarked(kind, a) /\ RightlyMarked(kind, b) => (a.anon <=> b.anon)
         /\ RightlyMarked(kind, a) /\ a.anon /\ ~reset => b.anon /\ a.tu = b.tu

(* A type attached to a function's argument or result is the one of the    *)
(* function's own translation unit, never one left from a .pdb loaded      *)
(* before (PerTuTypes is LoadPdb's local, OdrCop.h:36).                    *)
SignatureTypesAreOwn ==
  \A k \in DOMAIN maps["func"] : \A i \in DOMAIN maps["func"][k] :
    LET info == maps["func"][k][i]
    IN \A n \in DOMAIN info.content.types :
         LET item == info.content.types[n].item
         IN item # NullInfo => item.tu = info.tu

Loaded == {pdbs[i] : i \in DOMAIN pdbs}

(* What the loaded files say of the external type name of a kind, forwards *)
(* and ignored symbols aside.                                              *)
FormsIn(kind, name) ==
  UNION {{files[p].syms[i].form :
            i \in {j \in DOMAIN files[p].syms :
                     LET sym == files[p].syms[j]
                     IN /\ sym.tag = kind /\ sym.name = name
                        /\ ~Ignored(sym) /\ ~Excluded(name.id)}} : p \in Loaded}

ExternalNames ==
  {n \in UNION {{files[p].syms[i].name : i \in DOMAIN files[p].syms} : p \in Loaded} :
     n.anon = "none" /\ n.id \notin UnnamedIds}

(* End to end, when nothing failed: a class or an enum with external       *)
(* linkage is reported exactly when two of the loaded files define it      *)
(* differently. The order of the files, and a file found twice, do not     *)
(* matter. From LoadPdb's loop (OdrCop.h:53-142) to ReportMapViolations.   *)
TypesJudgedByTheFiles ==
  phase = "done" /\ faults = 0 =>
    \A kind \in {"udt", "enum"} : \A n \in ExternalNames :
      <<kind, [name |-> n, suffix |-> NoSuffix]>> \in violations <=>
        \E f, g \in FormsIn(kind, n) : f # g

(* Where no static function is among them and the bodies have, NOPs aside, *)
(* one length, the comparison with the first item alone (OdrCop.h:185) is  *)
(* the comparison of all with all.                                         *)
FunctionsJudged ==
  phase = "done" =>
    \A k \in DOMAIN maps["func"] :
      LET items == maps["func"][k]
          Code(i) == items[i].content
      IN (\A i, j \in DOMAIN items :
            /\ ~Code(i).static /\ ~items[i].anon
            /\ Len(Stripped(Code(i).body)) = Len(Stripped(Code(j).body)))
         => (<<"func", k>> \in violations <=>
               \E i, j \in DOMAIN items : ~SameFunc(Code(i), Code(j)))

(* The definitions collected from every item of every violating entity.    *)
Involved ==
  UNION {UNION {UNION {SubItems(maps[v[1]][v[2]][i]) : i \in DOMAIN maps[v[1]][v[2]]} :
                  v \in {w \in violations : w[1] = kind}} : kind \in Kinds}

(* "dump anonymous types, if and only if they were involved in ODR         *)
(* violations" (OdrCop.h:164), for the types a violating entity uses       *)
(* directly: such a type is reported exactly when two violating entities,  *)
(* or two definitions of one, use it with different contents.              *)
InvolvedAnonymousTypesReported ==
  phase = "done" =>
    \A step \in {<<"anonUdt", "udt">>, <<"anonEnum", "enum">>} :
      {v[2] : v \in {w \in violations : w[1] = step[1]}} =
        {x.name : x \in {y \in Involved :
           /\ y.kind = step[2] /\ y.info.anon
           /\ \E z \in Involved : /\ z.kind = step[2] /\ z.name = y.name
                                  /\ z.info.content # y.info.content}}

(* A load wmain reports as failed (src.cpp:55) has added no type, unless   *)
(* the same file was found twice and the other load succeeded.             *)
FailedLoadsAddNoTypes ==
  \A i \in failed :
    \/ \E j \in 1 .. at : pdbs[j] = pdbs[i] /\ j \notin failed
    \/ \A kind \in TypeKinds : \A k \in DOMAIN maps[kind] :
         \A n \in DOMAIN maps[kind][k] : maps[kind][k][n].tu # pdbs[i]

(* The abstract specification: what the types' maps and the violations     *)
(* printed so far mean.                                                    *)
Known ==
  UNION {UNION {{[kind |-> kind, entity |-> k,
                  internal |-> maps[kind][k][i].anon,
                  look |-> maps[kind][k][i].content] : i \in DOMAIN maps[kind][k]} :
           k \in DOMAIN maps[kind]} : kind \in TypeKinds}

JudgedAt ==
  [p \in Phases |->
     CASE p \in {"func", "enum"} -> {"udt"}
       [] p = "tdef" -> {"udt", "enum"}
       [] p \in {"anonUdt", "anonEnum", "done"} -> TypeKinds
       [] OTHER -> {}]

Verdict == INSTANCE OdrVerdict WITH
  Entity <- Key,
  Look <- TypeContent,
  known <- Known,
  closed <- phase \notin {"scan", "load"},
  judged <- JudgedAt[phase],
  flagged <- {v \in violations : v[1] \in TypeKinds}

(* The program implements the abstract verdict on types.                   *)
ImplementsVerdict == Verdict!Spec

(* wmain comes to its end, whatever fails.                                 *)
Termination == <>(phase \in {"done", "nothing"})

-----------------------------------------------------------------------------
(* What the repository says of the program, and the code does not do.      *)

(* "never compare static free functions because they're internal-linkage,  *)
(* TU-specific" (FunctionExtractor.h:530): a static function is no         *)
(* definition of the entity, so two others that differ are reported        *)
(* whether or not a static one is in the vector with them. When the static *)
(* one is items[0], which depends on the order of the files, all equal it. *)
StaticFunctionsDoNotCount ==
  phase = "done" =>
    \A key \in DOMAIN maps["func"] :
      LET items == maps["func"][key]
      IN (\E i, j \in DOMAIN items :
            /\ ~items[i].anon
            /\ ~items[i].content.static /\ ~items[j].content.static
            /\ ~SameFunc(items[i].content, items[j].content))
         => <<"func", key>> \in violations
=============================================================================
