----------------------------- MODULE MCSignature ------------------------------
(***************************************************************************)
(* Texts for Signature: a plain type, a pointer to a function of two       *)
(* arguments, a type local to a function, a template, a template of a      *)
(* function type; a class, a nested one, one local to a function or a      *)
(* destructor, a template, a template of a qualified type or of a function *)
(* type.                                                                   *)
(***************************************************************************)
EXTENDS Signature

MCWords == {"A", "B", "L", "N", "T", "U", "V", "class", "g", "struct"}
FunctionPointer == <<"T", "(", "cc", "*", ")", "(", "T", ",", "U", ")">>
LocalType ==
  <<"struct", "backtick", "T", "cc", "g", "(", "T", ",", "U", ")", "quote", "::", "L">>
Template == <<"class", "V", "<", "T", ",", "U", ">">>
TemplateOfFunction == <<"class", "V", "<", "T", "cc", "(", "U", ")", ">">>
MCTypes == {<<"T">>, FunctionPointer, LocalType, Template, TemplateOfFunction}

LocalClass == <<"backtick", "T", "cc", "B", "::", "g", "(", "T", ")", "quote", "::", "A">>
LocalToDestructor == <<"backtick", "junk", "cc", "B", "::", "~", "B", "(", ")", "quote", "::", "A">>
MCClasses == {<<"A">>, <<"B", "::", "A">>, <<"A", "::", "A", "::", "B">>,
              LocalClass, LocalToDestructor,
              <<"N", "::", "V", "<", "T", ",", "U", ">">>, <<"A", "<", "N", "::", "T", ">">>,
              <<"A", "<", "T", "cc", "(", "U", ")", ">">>}
=============================================================================
