----------------------------- MODULE MCUdtCompare -----------------------------
(***************************************************************************)
(* Declarations for UdtCompare: members m1 and m2 of types made from an    *)
(* int, a float or an unnamed type, methods m1 to m3, of which one may be  *)
(* overloaded, and constructors.                                           *)
(***************************************************************************)
EXTENDS UdtCompare

CONSTANTS m1, m2, m3

Type(kind, wraps) == [kind |-> kind, members |-> << >>, wraps |-> wraps]
Member(name, type) == [name |-> name, attr |-> "public", type |-> type]
Const(m) == [m EXCEPT !.attr = "const"]
Method(name) == [name |-> name, attr |-> "public", ctor |-> FALSE]
Ctor(name) == [name |-> name, attr |-> "public", ctor |-> TRUE]
Base(name) == [name |-> name, attr |-> "public"]
Static(access, type) == [name |-> m1, access |-> access, attr |-> "", type |-> type]

Wrap(op, n) == [op |-> op, n |-> n, cv |-> ""]
int == Type("int", << >>)
float == Type("float", << >>)

(* An int; pointers to it, const and not; references of both kinds; arrays *)
(* of one or two, pointers to them, an array of two arrays; pointers to    *)
(* functions without and with a parameter, a reference to a function and   *)
(* one to a pointer to it; a pointer to a member of a class.               *)
PlainOnes ==
  {Type("int", wraps) : wraps \in
     {<< >>, <<Wrap("*", 0)>>, <<[Wrap("*", 0) EXCEPT !.cv = "const"]>>,
      <<Wrap("&", 0)>>, <<Wrap("&&", 0)>>, <<Wrap("[]", 1)>>, <<Wrap("[]", 2)>>,
      <<Wrap("[]", 1), Wrap("*", 0)>>, <<Wrap("[]", 2), Wrap("*", 0)>>,
      <<Wrap("[]", 1), Wrap("[]", 2)>>, <<Wrap("()", 0), Wrap("*()", 0)>>,
      <<Wrap("()", 1), Wrap("*()", 0)>>, <<Wrap("()", 0), Wrap("&", 0)>>,
      <<Wrap("()", 0), Wrap("*()", 0), Wrap("&", 0)>>, <<Wrap("*", 1)>>}}

MCUnnamed ==
  [kind : {"struct", "union"}, wraps : {<< >>},
   members : {<<Member(m1, int)>>, <<Member(m2, int)>>,
              <<Member(m1, int), Member(m2, float)>>,
              <<Member(m2, float), Member(m1, int)>>,
              <<Member(m1, Type("int", <<Wrap("[]", 2)>>))>>,
              <<Member(m1, Type("int", <<Wrap("&", 0)>>))>>}]

Members ==
  {<< >>, <<Member(m2, float), Member(m1, int)>>,
   <<Const(Member(m1, int)), Member(m2, float)>>, <<Member(m1, float), Member(m2, float)>>}
  \cup {<<Member(m1, t), Member(m2, float)>> : t \in PlainOnes}
  \cup {<<Member(m1, t), Member(m2, int)>> : t \in MCUnnamed}
  \cup {<<Member(m1, t), Member(m2, u)>> :
          t, u \in {type \in MCUnnamed : type.kind = "struct" /\ Len(type.members) = 1}}
  \cup {<<Member(m1, [t EXCEPT !.wraps = <<w>>])>> :
          t \in {type \in MCUnnamed : type.kind = "union"}, w \in {Wrap("*", 0), Wrap("[]", 2)}}

FunctionLists ==
  {<< >>, <<Method(m1)>>, <<Method(m1), Method(m2)>>, <<Method(m2), Method(m1)>>,
   <<Method(m1), Method(m2), Method(m3)>>, <<Method(m1), Const(Method(m2))>>,
   <<Method(m1), Const(Method(m1))>>, <<Method(m1), Method(m1), Method(m2)>>,
   <<Ctor(m1), Ctor(m2)>>, <<Ctor(m2), Ctor(m1), Method(m2)>>, <<Method(m2), Ctor(m2)>>}

Class(kind, members, statics, bases, functions) ==
  [kind |-> kind, members |-> members, statics |-> statics, bases |-> bases,
   functions |-> functions]
Statics == {<<Static(access, t)>> : access \in {"public", "private"},
              t \in {int, float, Type("int", <<Wrap("[]", 2)>>)}}
              \cup {<<Const(Static("public", int))>>}
Bases == {<<Base(m1), Base(m2)>>, <<Base(m2), Base(m1)>>}

(* One thing is varied at a time. *)
One == <<Member(m1, int)>>
MCClasses ==
  {Class("struct", members, << >>, << >>, << >>) : members \in Members}
    \cup {Class("union", <<Member(m1, t), Member(m2, int)>>, << >>, << >>, << >>) : t \in PlainOnes}
    \cup {Class("struct", One, << >>, << >>, functions) : functions \in FunctionLists}
    \cup {Class("struct", One, statics, << >>, << >>) : statics \in Statics}
    \cup {Class("struct", One, << >>, bases, << >>) : bases \in Bases}
=============================================================================
