------------------------------- MODULE Signature ------------------------------
(***************************************************************************)
(* FuncInfo::FuncInfo: how a function's arguments and its return type are  *)
(* read from its undecorated name.                                         *)
(*                                                                         *)
(* The name is text. The arguments are what the last parentheses hold, cut *)
(* at commas; the return type is what stands before the calling            *)
(* convention; and whether an empty one means a constructor, a destructor  *)
(* or a deduced type is told by the last components of the name. Each scan *)
(* counts parentheses and the quotes `...' of local scopes. Here functions *)
(* are written out as UnDecorateSymbolName does, and read back.            *)
(***************************************************************************)
EXTENDS Integers, Sequences, SequencesExt

CONSTANTS
  Words,    \* the words of names
  Types,    \* texts of types
  Classes,  \* texts of class names, qualified or not
  MaxArgs   \* bound: arguments of a function

(* The tokens: "cc" is a calling convention, "junk" any of the words for   *)
(* access, virtual, const, __ptr64 and the like, "f" the function's name.  *)
Lexemes ==
  Words \cup {"(", ")", ",", "<", ">", "::", "~", "*", "backtick", "quote",
             "cc", "junk", "f", "operator"}
Text == Seq(Lexemes)
Kinds == {"Regular", "Constructor", "Destructor", "Deduced", "ReturnsFunction"}

(* How many of a pair of tokens are open after so many tokens of a text.   *)
Opens(text, open, close) ==
  LET opens[n \in 0 .. Len(text)] ==
        IF n = 0 THEN 0
        ELSE opens[n - 1] + (IF text[n] = open THEN 1 ELSE IF text[n] = close THEN -1 ELSE 0)
  IN opens
Parens(text) == Opens(text, "(", ")")
Quotes(text) == Opens(text, "backtick", "quote")
Angles(text) == Opens(text, "<", ">")

(* What is opened in a text is closed in it, and nothing else is.          *)
Nested(text) ==
  /\ \A n \in 0 .. Len(text) : Parens(text)[n] >= 0 /\ Quotes(text)[n] >= 0
  /\ Parens(text)[Len(text)] = 0 /\ Quotes(text)[Len(text)] = 0
(* The places of a token that are in no parentheses and no quotes.         *)
Outside(text, token) ==
  {i \in DOMAIN text : /\ text[i] = token
                       /\ Parens(text)[i - 1] = 0 /\ Quotes(text)[i - 1] = 0}

(* The last of some places, 0 (npos) if there are none.                    *)
LastIn(places) ==
  IF places = {} THEN 0 ELSE CHOOSE i \in places : \A j \in places : j <= i

LastSep(class) == LastIn({i \in Outside(class, "::") : Angles(class)[i] = 0})
LastName(class) == SubSeq(class, LastSep(class) + 1, Len(class))

(* Texts as UnDecorateSymbolName writes them. A type has a comma or a      *)
(* calling convention only within brackets of some kind; the code sees     *)
(* parentheses and quotes, not the angle brackets of                       *)
(* std::function<int __cdecl(int)>.                                        *)
ASSUME TextsAssumption ==
  /\ MaxArgs \in Nat \ {0}
  /\ \A text \in Types \cup Classes : text \in Text /\ text # << >> /\ Nested(text)
  /\ \A type \in Types :
       /\ type[1] \notin {"junk", "cc"}
       /\ \A i \in Outside(type, ",") \cup Outside(type, "cc") : Angles(type)[i] # 0
  /\ \A class \in Classes :
       LastName(class) # << >> /\ LastName(class)[1] \notin {"operator", "~"}

VARIABLES
  func,             \* the function as declared
  stage,            \* "args", "split", "return", "done"
  argsAsOneString,  \* what is left to be split
  theArgs,
  returnType,
  kind

signatureVars == <<func, stage, argsAsOneString, theArgs, returnType, kind>>

Joined(texts) ==
  LET joined[n \in 0 .. Len(texts)] ==
        IF n = 0 THEN << >> ELSE IF n = 1 THEN texts[1] ELSE joined[n - 1] \o <<",">> \o texts[n]
  IN joined
Join(texts) == Joined(texts)[Len(texts)]

InParens(text) == <<"(">> \o text \o <<")">>

(* UnDecorateSymbolName: T (cc* cc f(args))(T) is a function that returns  *)
(* a pointer to one.                                                       *)
Name(f) ==
  CASE f.kind = "Constructor" -> LastName(f.class)
    [] f.kind = "Destructor" -> <<"~">> \o LastName(f.class)
    [] f.kind = "Deduced" -> <<"operator">> \o InParens(<< >>)
    [] OTHER -> <<"f">>
Call(f) == f.class \o <<"::">> \o Name(f) \o InParens(Join(f.args)) \o f.suffix
Returned(f) == IF f.kind = "Regular" THEN f.type ELSE << >>
Undecorated(f) ==
  IF f.kind = "ReturnsFunction"
  THEN <<"junk">> \o f.type \o InParens(<<"cc", "*", "cc">> \o Call(f)) \o InParens(f.type)
  ELSE <<"junk">> \o Returned(f) \o <<"cc">> \o Call(f)

unmangled == Undecorated(func)

Functions ==
  UNION {[kind : Kinds, class : Classes, type : Types, args : [1 .. n -> Types],
          suffix : {<< >>, <<"junk">>}] : n \in 1 .. MaxArgs}

SignatureInit ==
  /\ func \in Functions
  /\ stage = "args"
  /\ argsAsOneString = << >> /\ theArgs = << >>
  /\ returnType = << >> /\ kind = "none"

-----------------------------------------------------------------------------
(* Mutation: a quote that closes is taken for one that opens. *)
MutantCountsQuotes(d, c) ==
  CASE c \in {"backtick", "quote"} -> [d EXCEPT !.backtick = @ + 1]
    [] c = "(" -> [d EXCEPT !.paren = @ + 1]
    [] c = ")" -> [d EXCEPT !.paren = @ - 1]
    [] OTHER -> d

Counted(d, c) ==
  CASE c = "backtick" -> [d EXCEPT !.backtick = @ + 1]
    [] c = "quote" /\ d.backtick > 0 -> [d EXCEPT !.backtick = @ - 1]
    [] c = "(" -> [d EXCEPT !.paren = @ + 1]
    [] c = ")" -> [d EXCEPT !.paren = @ - 1]
    [] OTHER -> d

Depths(text) ==
  LET depths[n \in 0 .. Len(text)] ==
        IF n = 0 THEN [paren |-> 0, backtick |-> 0] ELSE Counted(depths[n - 1], text[n])
  IN depths

Tops(text, token) ==
  {i \in DOMAIN text :
     text[i] = token /\ Depths(text)[i - 1] = [paren |-> 0, backtick |-> 0]}
(* The first of them, 0 for npos. *)
FirstTop(text, token) ==
  LET tops == Tops(text, token)
  IN IF tops = {} THEN 0 ELSE CHOOSE i \in tops : \A j \in tops : i <= j

LastOf(text, token) == LastIn({i \in DOMAIN text : text[i] = token})

(* Mutation: the first "(" is taken, counting forwards. *)
MutantFirstParenthesis(text) ==
  LET open == CHOOSE i \in DOMAIN text :
                text[i] = "(" /\ \A j \in DOMAIN text : text[j] = "(" => i <= j
  IN SubSeq(text, open + 1, LastOf(text, ")") - 1)

(* From the last ")" back to the "(" where as many are open as behind it.  *)
LastParentheses(text) ==
  LET close == LastOf(text, ")")
      matches == {i \in 2 .. close - 1 : Parens(text)[i - 1] = Parens(text)[close]}
  IN IF matches = {} THEN << >> ELSE SubSeq(text, LastIn(matches) + 1, close - 1)

FindArgs ==
  /\ stage = "args" /\ stage' = "split"
  /\ argsAsOneString' = LastParentheses(unmangled)
  /\ UNCHANGED <<func, theArgs, returnType, kind>>

Comma == FirstTop(argsAsOneString, ",")

(* do ... while (pos != npos) *)
SplitOff ==
  /\ stage = "split" /\ Comma # 0
  /\ theArgs' = Append(theArgs, SubSeq(argsAsOneString, 1, Comma - 1))
  /\ argsAsOneString' = SubSeq(argsAsOneString, Comma + 1, Len(argsAsOneString))
  /\ UNCHANGED <<func, stage, returnType, kind>>

LastArg ==
  /\ stage = "split" /\ Comma = 0
  /\ theArgs' = Append(theArgs, argsAsOneString)
  /\ stage' = "return"
  /\ UNCHANGED <<func, argsAsOneString, returnType, kind>>

-----------------------------------------------------------------------------
(* " __cdecl" is junk, too, which "(__cdecl" is not. *)
IsJunk(text, n) == text[n] = "junk" \/ (text[n] = "cc" /\ n > 1 /\ text[n - 1] # "(")
Cleared(text) ==
  LET cleared[n \in 0 .. Len(text)] ==
        IF n = 0 THEN << >>
        ELSE IF IsJunk(text, n) THEN cleared[n - 1] ELSE Append(cleared[n - 1], text[n])
  IN cleared
WithoutJunk(text) == Cleared(text)[Len(text)]

BareReturnType(text) == WithoutJunk(SubSeq(text, 1, FirstTop(text, "cc") - 1))

(* fn from the end of the calling convention on: any "::~", or the name    *)
(* before the "(" repeats the component before it. Mutation: the first two *)
(* components are compared.                                                *)
NamesDestructor(text) == \E i \in 2 .. Len(text) : text[i - 1] = "::" /\ text[i] = "~"

MutantFirstComponents(fn) ==
  IF NamesDestructor(fn) THEN "Destructor"
  ELSE LET sep == FirstTop(fn, "::")
       IN IF IsPrefix(SubSeq(fn, 1, sep - 1) \o <<"(">>, SubSeq(fn, sep + 1, Len(fn)))
          THEN "Constructor" ELSE "Deduced"

KindOfUntyped(fn) ==
  LET seps == Tops(fn, "::")
      last == LastIn(seps)
      before == LastIn(seps \ {last})
  IN IF NamesDestructor(fn) THEN "Destructor"
     ELSE IF /\ seps # {}
             /\ IsPrefix(SubSeq(fn, before + 1, last - 1) \o <<"(">>,
                         SubSeq(fn, last + 1, Len(fn)))
          THEN "Constructor" ELSE "Deduced"

ClassifyFunctionKind(text, ret) ==
  IF ret # << >> \/ FirstTop(text, "cc") = 0 THEN "Regular"
  ELSE KindOfUntyped(SubSeq(text, FirstTop(text, "cc") + 1, Len(text)))

ExtractReturnTypeAndKind ==
  /\ stage = "return" /\ stage' = "done"
  /\ returnType' = BareReturnType(unmangled)
  /\ kind' = ClassifyFunctionKind(unmangled, BareReturnType(unmangled))
  /\ UNCHANGED <<func, argsAsOneString, theArgs>>

Read == stage = "done" /\ UNCHANGED signatureVars

SignatureNext == FindArgs \/ SplitOff \/ LastArg \/ ExtractReturnTypeAndKind \/ Read

SignatureSpec == SignatureInit /\ [][SignatureNext]_signatureVars

-----------------------------------------------------------------------------
(* Does a text hold a token between angle brackets?                        *)
InAngles(text, token) == \E i \in DOMAIN text : text[i] = token /\ Angles(text)[i] # 0

(* The arguments read back are those declared, pointers to functions and   *)
(* types of a local scope among them, each whole if it has no comma        *)
(* between angle brackets; one that has is cut there, and nothing is lost. *)
(* Only a function that returns a pointer to a function has the arguments  *)
(* of that pointer instead (FunctionExtractor.h:72-130).                   *)
ArgsAreFound ==
  stage \in {"return", "done"} =>
    /\ Join(theArgs) = IF func.kind = "ReturnsFunction" THEN func.type ELSE Join(func.args)
    /\ func.kind # "ReturnsFunction" /\ (\A i \in DOMAIN func.args : ~InAngles(func.args[i], ","))
         => theArgs = func.args

(* What stands in a type before its first calling convention that is in no *)
(* parentheses and no quotes, but between angle brackets.                  *)
BeforeConvention(type) ==
  LET ccs == Outside(type, "cc")
  IN SubSeq(type, 1, (CHOOSE i \in ccs : \A j \in ccs : i <= j) - 1)

(* The return type read back is the one declared, whatever parentheses,    *)
(* quotes and calling conventions within them there are in it and behind   *)
(* it, but for the junk, of which a type local to a function has some; and *)
(* nothing for a function without one. Only a type that has a function     *)
(* type as a template argument is cut in it, which the scan takes for the  *)
(* function's own calling convention: of a class                           *)
(* std::function<int __cdecl(int)> only "class std::function<int" is found *)
(* (FunctionExtractor.h:192-279).                                          *)
ReturnTypeIsFound ==
  stage = "done" =>
    /\ Outside(func.type, "cc") = {} => returnType = WithoutJunk(Returned(func))
    /\ Outside(func.type, "cc") # {} =>
         returnType = IF func.kind \in {"Regular", "ReturnsFunction"}
                      THEN WithoutJunk(BeforeConvention(func.type)) ELSE << >>

(* Constructors are told from destructors and these from the rest, in      *)
(* nested classes and local ones, unless the class or an argument is local *)
(* to a destructor (FunctionExtractor.h:281-371).                          *)
KindIsFound ==
  stage = "done" /\ func.kind # "ReturnsFunction" /\ ~InAngles(func.class, "::")
    => kind = IF /\ func.kind \in {"Constructor", "Deduced"}
                 /\ \/ NamesDestructor(func.class)
                    \/ \E i \in DOMAIN func.args : NamesDestructor(func.args[i])
              THEN "Destructor" ELSE func.kind
=============================================================================
