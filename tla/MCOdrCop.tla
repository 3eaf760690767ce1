------------------------------- MODULE MCOdrCop -------------------------------
(***************************************************************************)
(* Instances of OdrCop for TLC: a small library of translation units.      *)
(***************************************************************************)
EXTENDS OdrCop, TLC

CONSTANTS
  p1, p2, p3,
  Foo, Color, Word, Hid, Holder, Mode, Vec, Tag, Num,
  fFoo, gHid, hColor, kVoid, kAnon, vStd, lambda,
  foo1, foo2, hid1, hid2, holder1, holder2, red, blue, mode1,
  tag1, tag2,
  suffix, none,
  x, y, nop,
  r1, r2

MCIds == {Foo, Color, Word, Hid, Holder, Mode, Vec, Tag, Num,
          fFoo, gHid, hColor, kVoid, kAnon, vStd, lambda}
MCStdIds == {Vec, vStd}
MCUnnamedIds == {Tag}
MCUnnamedTypeIds == {Tag}
MCCookieIds == {gHid, kAnon}
MCAnonIds == {kAnon}
MCLambdaIds == {lambda}
MCForms == {foo1, foo2, hid1, hid2, holder1, holder2, red, blue, mode1,
            tag1, tag2}
MCBytes == {x, y, nop}
MCRelocs == {r1, r2}

Plain(id) == [id |-> id, anon |-> "none",  tags |-> << >>]
Dash(id)  == [id |-> id, anon |-> "dash",  tags |-> << >>]
Space(id) == [id |-> id, anon |-> "space", tags |-> << >>]

MCDiscriminator == [form \in MCForms |-> suffix]

(* Holder has a member of the anonymous namespace's Hid.                   *)
MCNested ==
  [form \in MCForms |->
     CASE form = holder1 -> {<<Dash(Hid), hid1>>}
       [] form = holder2 -> {<<Dash(Hid), hid2>>}
       [] OTHER -> {}]

Ref(class, name) == [class |-> class, name |-> name]

(* int fFoo(Foo); int gHid(Hid), with Hid spelled as in undecorated names; *)
(* Mode hColor(Color), with Mode an anonymous enum; int kVoid(); int       *)
(* kAnon(), of the anonymous namespace; int std::vStd(Vec).                *)
MCSignature ==
  [id \in MCIds |->
     CASE id = fFoo -> <<Ref("udt", Plain(Foo)), Ref("other", Plain(Num))>>
       [] id = gHid -> <<Ref("udt", Space(Hid)), Ref("other", Plain(Num))>>
       [] id = hColor -> <<Ref("enum", Plain(Color)), Ref("enum", Space(Mode))>>
       [] id = vStd -> <<Ref("udt", Plain(Vec)), Ref("other", Plain(Num))>>
       [] OTHER  -> <<Ref("other", Plain(Num))>>]

Sym(tag, name, form) ==
  [tag |-> tag, drop |-> "no", name |-> name, form |-> form, underlying |-> Plain(Num)]
Dropped(sym, why) == [sym EXCEPT !.drop = why]
Alias(name, underlying) ==
  [tag |-> "tdef", drop |-> "no", name |-> name, form |-> foo1, underlying |-> underlying]

Fun(id, body) ==
  [decorated |-> id, undecorated |-> id, static |-> FALSE,
   body |-> body, relocs |-> r1]
(* Paired with the record of another function, as after an extern "C" one. *)
Paired(fun, other) == [fun EXCEPT !.undecorated = other]
Static(fun) == [fun EXCEPT !.static = TRUE]

Unit(syms, funcs, obj) == [syms |-> syms, funcs |-> funcs, obj |-> obj]

-----------------------------------------------------------------------------
(* Foo, and a class with an anonymous member, differ between A and B; so   *)
(* does the anonymous type, which gHid takes by value. fFoo is the same code. *)
UnitA == Unit(<<Sym("udt", Plain(Foo), foo1), Sym("udt", Dash(Hid), hid1),
                Sym("udt", Plain(Holder), holder1)>>,
              <<Fun(fFoo, <<x, nop>>), Fun(gHid, <<x>>)>>, "obj")
UnitB == Unit(<<Sym("udt", Plain(Foo), foo2), Sym("udt", Dash(Hid), hid2),
                Sym("udt", Plain(Holder), holder2)>>,
              <<Fun(fFoo, <<x>>), Fun(gHid, <<y>>)>>, "obj")

(* A module: Color and the std type differ from D's, its .obj is           *)
(* x.ixx.obj, a lambda and a forwarder are dropped. D holds an extern "C"  *)
(* function, so that the names behind it have the record of the one before.*)
UnitC == Unit(<<Dropped(Sym("udt", Plain(Foo), foo2), "forwarder"),
                Sym("enum", Plain(Color), red), Sym("enum", Dash(Mode), mode1),
                Sym("udt", Plain(Vec), foo1), Alias(Plain(Word), Plain(Num))>>,
              <<Fun(hColor, <<x>>), Fun(lambda, <<x>>), Fun(vStd, <<x>>),
                Fun(kAnon, <<x>>)>>, "ixx")
UnitD == Unit(<<Sym("enum", Plain(Color), blue), Sym("enum", Dash(Mode), mode1),
                Sym("udt", Plain(Vec), foo2), Alias(Plain(Word), Dash(Hid)),
                Dropped(Sym("udt", Plain(Foo), foo2), "scoped")>>,
              <<Fun(hColor, <<x>>), Paired(Fun(kAnon, <<x>>), kVoid),
                Paired(Fun(gHid, <<x>>), kAnon), Paired(Fun(fFoo, <<y>>), gHid)>>, "obj")

(* The std module: excluded altogether, or found in microsoft\STL. Tag is   *)
(* in a class of no name, and has an anonymous type among its arguments.   *)
UnitS == Unit(<<Sym("udt", Plain(Vec), foo1), Sym("udt", Space(Hid), hid1),
                Sym("enum", Space(Mode), mode1), Sym("udt", Dash(Tag), tag1)>>,
              <<Fun(vStd, <<y>>), Fun(kAnon, <<y>>)>>, "stl")
UnitN == Unit(<<Sym("udt", Plain(Foo), foo1)>>, << >>, "none")

MCUnits == {UnitA, UnitB, UnitC, UnitD, UnitS, UnitN}

(* Three-way differences: F is like A but for fFoo's body and Hid.         *)
UnitF == Unit(<<Sym("udt", Plain(Foo), foo1), Sym("udt", Dash(Hid), hid2),
                Sym("udt", Plain(Holder), holder2)>>,
              <<Fun(fFoo, <<y>>), Fun(gHid, <<x>>)>>, "obj")
MCThreeUnits == {UnitA, UnitB, UnitF}

MCContents == MCUnits \cup MCThreeUnits

(* Any two of five units and a third without an .obj; or three that differ *)
(* in one thing or another.                                                *)
MCInit ==
  /\ Init
  /\ \/ files[p3] = UnitN /\ {files[p1], files[p2]} \subseteq MCUnits \ {UnitN}
     \/ \A p \in Pdbs : files[p] \in MCThreeUnits

MCSpec == MCInit /\ [][Next]_vars /\ WF_vars(Next)

-----------------------------------------------------------------------------
(* A static kVoid in one unit, two other definitions of it that differ.    *)
MCStaticUnits ==
  {Unit(<< >>, <<Static(Fun(kVoid, <<x>>))>>, "obj"),
   Unit(<< >>, <<Fun(kVoid, <<x>>)>>, "obj"), Unit(<< >>, <<Fun(kVoid, <<y>>)>>, "obj")}
=============================================================================
