------------------------------- MODULE OdrNames -------------------------------
(***************************************************************************)
(* Names and map keys (AnonInfo.h, and the key builders of OdrCop.h and    *)
(* FunctionExtractor.h).                                                   *)
(*                                                                         *)
(* A qualified name is abstracted to what the code looks for in it:        *)
(*   id    the entity's name, its anonymous namespaces aside               *)
(*   anon  which spelling of the anonymous namespace it holds, if any:     *)
(*         `anonymous-namespace' ("dash"), `anonymous namespace'           *)
(*         ("space"), or the ?A0x........ cookie of a decorated name       *)
(*   tags  the [pdb path] tags behind the first anonymous namespace        *)
(***************************************************************************)
EXTENDS Naturals, Sequences

CONSTANTS
  Pdbs,        \* the translation units, one .pdb (and .obj) each
  Ids,         \* identifiers of types, typedefs and functions
  StdIds,      \* those that start with "std::"
  UnnamedIds,  \* those that contain "<unnamed"
  UnnamedTypeIds, \* those that start with "<unnamed-type"
  CookieIds,   \* the functions whose decorated name holds a ?A0x cookie
  AnonIds,     \* those whose undecorated name, which has no arguments and no
               \* return type, holds `anonymous namespace'
  LambdaIds,   \* those whose undecorated name starts with <lambda_
  Forms,       \* what a definition looks like, up to its operator==
  Discriminator, \* a form's "[kind][size=..][first=..]" suffix
  NoSuffix     \* the empty suffix

ASSUME IdsAssumption ==
  /\ StdIds \subseteq Ids /\ LambdaIds \subseteq Ids
  /\ UnnamedTypeIds \subseteq UnnamedIds /\ UnnamedIds \subseteq Ids
  /\ AnonIds \subseteq CookieIds /\ CookieIds \subseteq Ids
ASSUME DiscriminatorAssumption == Forms \subseteq DOMAIN Discriminator

(* Where Extract finds the .obj of a .pdb: x.obj, x.ixx.obj, or            *)
(* microsoft/STL/x.ixx.obj.                                                *)
ObjPlaces == {"obj", "ixx", "stl"}

(* The paths the program ever computes from a pdb: the pdb itself, and the *)
(* "pdb" CompilandToPdbPath derives from each place an .obj may be.        *)
Path == Pdbs \X ({"pdb"} \cup ObjPlaces)

PdbPath(p) == <<p, "pdb">>

(* x.obj gives x.pdb; x.ixx.obj gives x.ixx.pdb, which is no pdb at all.   *)
CompilandToPdbPath(p, place) ==
  IF place = "obj" THEN PdbPath(p) ELSE <<p, place>>

Spellings == {"none", "dash", "space", "cookie"}
Name == [id : Ids, anon : Spellings, tags : Seq(Path)]

(* As DIA or the undecorator spells it: it knows nothing of tags.          *)
RawName == [id : Ids, anon : {"none", "dash", "space"}, tags : {<< >>}]

(* name.find("`anonymous-namespace'") != npos *)
HasAnonymousNamespace(name) == name.anon = "dash"

(* name.find(path) != npos *)
Mentions(name, path) == \E i \in DOMAIN name.tags : name.tags[i] = path

(* Mutation: the tag is forgotten. *)
MutantUntagged(name, path) == name

MakeAnonymousNamespaceTuSpecific(name, path) ==
  IF HasAnonymousNamespace(name) /\ ~Mentions(name, path)
  THEN [name EXCEPT !.tags = <<path>> \o @]
  ELSE name

MakeAnonymousNamespaceTuNonSpecific(name) ==
  IF HasAnonymousNamespace(name) /\ name.tags # << >>
  THEN [name EXCEPT !.tags = Tail(@)]
  ELSE name

CanonicalizeAnonymousNamespace(name) ==
  IF name.anon = "space" THEN [name EXCEPT !.anon = "dash"] ELSE name

-----------------------------------------------------------------------------
(* Keys of the four maps. Only a UDT's key may carry a suffix.             *)
Suffixes == {Discriminator[f] : f \in Forms} \cup {NoSuffix}
Key == [name : Name, suffix : Suffixes]

(* Mutation: every key has the suffix, not only those with "<unnamed". *)
MutantSuffixAlways(name, path, form) ==
  [name |-> MakeAnonymousNamespaceTuSpecific(CanonicalizeAnonymousNamespace(name), path),
   suffix |-> Discriminator[form]]

(* A key that starts with "<unnamed-type" is reset to the name as DIA      *)
(* spells it, without a tag.                                               *)
BuildUdtKey(name, path, form) ==
  [name   |-> IF name.id \in UnnamedTypeIds THEN name
              ELSE MakeAnonymousNamespaceTuSpecific(
                     CanonicalizeAnonymousNamespace(name), path),
   suffix |-> IF name.id \in UnnamedIds THEN Discriminator[form] ELSE NoSuffix]

(* Enums and typedefs: the qualified name as DIA spells it. *)
BuildTypeKey(name, path) ==
  [name |-> MakeAnonymousNamespaceTuSpecific(name, path), suffix |-> NoSuffix]

(* Mutation: the types' tag, which looks for `anonymous-namespace'.        *)
MutantTypesTag(decorated, inAnonymousNamespace, path) ==
  [name   |-> [id   |-> decorated,
               anon |-> IF decorated \in CookieIds THEN "cookie" ELSE "none",
               tags |-> << >>],
   suffix |-> NoSuffix]

(* The decorated name with its cookies masked (NormalizeAnonNsCookies). It *)
(* is tagged when the undecorated name, another text, says so and there is *)
(* a masked cookie to put the tag behind.                                  *)
BuildFuncKey(decorated, inAnonymousNamespace, path) ==
  [name   |-> [id   |-> decorated,
               anon |-> IF decorated \in CookieIds THEN "cookie" ELSE "none",
               tags |-> IF inAnonymousNamespace /\ decorated \in CookieIds
                        THEN <<path>> ELSE << >>],
   suffix |-> NoSuffix]
=============================================================================
