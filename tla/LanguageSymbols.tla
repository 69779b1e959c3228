-------------------------- MODULE LanguageSymbols --------------------------
(***************************************************************************)
(* Which symbols the language adapters (parse/adapters/) find in a syntax  *)
(* tree.                                                                   *)
(*                                                                         *)
(* A node is [type, name, mods, of, start, end, members]: type is that of  *)
(* the grammar; name the parts of its name, <<>> without one; mods its     *)
(* keywords and what the spelling of the name says ("_", "Upper"); of the  *)
(* type a member is written for; members the nodes its fields or body hold. *)
(* A qualified name is the sequence of its parts, and a parent of <<>>     *)
(* none.  Signatures and docstrings are left out.                          *)
(***************************************************************************)
EXTENDS DependencyGraph

Symbol(node, name, kind, parent, visibility) ==
    IF name = <<>> THEN <<>>
    ELSE <<[name |-> Last(name), qualified |-> parent \o name, kind |-> kind, parent |-> parent,
            visibility |-> visibility, start |-> node.start, end |-> node.end]>>

Declares(node, kind, parent, visibility) == Symbol(node, node.name, kind, parent, visibility)

OfEach(nodes, Found(_)) == FlattenSeq([i \in DOMAIN nodes |-> Found(nodes[i])])
OfType(nodes, types) == SelectSeq(nodes, LAMBDA n : n.type \in types)

\* Declarators of one declaration; they may be given its lines.
Declarators(node, type, kind, parent, visibility) ==
    OfEach(OfType(node.members, {type}), LAMBDA d : Symbol(node, d.name, kind, parent, visibility))

AccessOf == [public |-> "public", protected |-> "internal", private |-> "private", internal |-> "internal"]

\* The visibility an access modifier gives, or else the default.
Access(node, default) ==
    LET written == node.mods \cap DOMAIN AccessOf
    IN  IF written = {} THEN default ELSE AccessOf[CHOOSE m \in written : TRUE]

---------------------------------------------------------------------------
(* Python: classes with their direct methods, then functions; only what    *)
(* stands at the top of the file, decorated or not.                        *)

PyVisibility(node) == IF "_" \in node.mods THEN "private" ELSE "public"

Undecorated(nodes) == [i \in DOMAIN nodes |-> IF nodes[i].type = "decorated_definition" THEN nodes[i].members[1] ELSE nodes[i]]

PyClass(node) ==
    IF node.name = <<>> THEN <<>>
    ELSE Declares(node, "class", <<>>, PyVisibility(node))
         \o OfEach(OfType(Undecorated(node.members), {"function_definition"}),
                   LAMBDA m : Declares(m, "method", node.name, PyVisibility(m)))

PythonSymbols(root) ==
    LET nodes == Undecorated(root)
    IN  OfEach(OfType(nodes, {"class_definition"}), PyClass)
        \o OfEach(OfType(nodes, {"function_definition"}),
                  LAMBDA f : Declares(f, "function", <<>>, PyVisibility(f)))

---------------------------------------------------------------------------
(* Go: by kind of declaration; a method belongs to the type of its         *)
(* receiver, wherever that is declared.                                    *)

GoVisibility(node) == IF "Upper" \in node.mods THEN "public" ELSE "private"

GoTypes(root) ==
    OfEach(OfType(root, {"type_declaration"}), LAMBDA decl :
        OfEach(OfType(decl.members, {"type_spec", "type_alias"}), LAMBDA spec :
            Declares(spec, IF "interface" \in spec.mods THEN "interface" ELSE "type", <<>>, GoVisibility(spec))))

GoFunctions(root) ==
    OfEach(OfType(root, {"function_declaration"}), LAMBDA f : Declares(f, "function", <<>>, GoVisibility(f)))

GoMethods(root) ==
    OfEach(OfType(root, {"method_declaration"}), LAMBDA m : Declares(m, "method", m.of, GoVisibility(m)))

\* Grouped specifications lie one list deeper.
GoSpecs(decl) ==
    OfEach(decl.members, LAMBDA s : IF s.type = "spec_list" THEN OfType(s.members, {"spec"})
                                    ELSE IF s.type = "spec" THEN <<s>> ELSE <<>>)

GoValues(root) ==
    OfEach(OfType(root, {"const_declaration", "var_declaration"}), LAMBDA decl :
        OfEach(GoSpecs(decl), LAMBDA s :
            Declares(s, IF decl.type = "const_declaration" THEN "constant" ELSE "variable", <<>>, GoVisibility(s))))

GoSymbols(root) == GoTypes(root) \o GoFunctions(root) \o GoMethods(root) \o GoValues(root)

---------------------------------------------------------------------------
(* TypeScript and JavaScript: what is exported is public.                  *)

TsKinds == [function_declaration |-> "function", class_declaration |-> "class", interface_declaration |-> "interface",
            type_alias_declaration |-> "type", enum_declaration |-> "enum"]

TsMembers(class) ==
    OfEach(OfType(class.members, {"method_definition", "public_field_definition"}),
           LAMBDA m : Declares(m, "method", class.name, "public"))

TsDeclaration(node, visibility) ==
    IF node.type \in DOMAIN TsKinds
    THEN Declares(node, TsKinds[node.type], <<>>, visibility)
         \o (IF node.type = "class_declaration" /\ node.name # <<>> THEN TsMembers(node) ELSE <<>>)
    ELSE IF node.type \in {"lexical_declaration", "variable_declaration"}
    THEN OfEach(OfType(node.members, {"variable_declarator"}), LAMBDA d :
            Declares(d, IF "const" \in node.mods THEN "constant" ELSE "variable", <<>>, visibility))
    ELSE <<>>

TypeScriptSymbols(root) ==
    OfEach(root, LAMBDA node :
        IF node.type = "export_statement"
        THEN OfEach(node.members, LAMBDA n : TsDeclaration(n, "public"))
        ELSE TsDeclaration(node, "private"))

---------------------------------------------------------------------------
(* Java: types nest, members of an interface are public by default, those  *)
(* of a class belong to the package; an annotation type only as a member.  *)

JavaKinds == [class_declaration |-> "class", record_declaration |-> "class", interface_declaration |-> "interface",
              enum_declaration |-> "enum"]

RECURSIVE JavaType(_, _)

JavaFields(node, parent) ==
    Declarators(node, "variable_declarator", IF {"static", "final"} \subseteq node.mods THEN "constant" ELSE "variable",
                parent, Access(node, "internal"))

JavaMembers(nodes, parent, default) ==
    OfEach(nodes, LAMBDA n :
        CASE n.type \in {"method_declaration", "constructor_declaration"} -> Declares(n, "method", parent, Access(n, default))
          [] n.type = "field_declaration" -> JavaFields(n, parent)
          [] n.type = "annotation_type_declaration" -> Declares(n, "type", parent, Access(n, "internal"))
          [] n.type \in DOMAIN JavaKinds -> JavaType(n, parent)
          [] OTHER -> <<>>)

JavaEnumMembers(enum, parent) ==
    OfEach(enum.members, LAMBDA n :
        CASE n.type = "enum_constant" -> Declares(n, "constant", parent, Access(enum, "internal"))
          [] n.type = "enum_body_declarations" -> JavaMembers(n.members, parent, "internal")
          [] OTHER -> <<>>)

JavaType(node, parent) ==
    LET qualified == parent \o node.name
        kind == JavaKinds[node.type]
    IN  IF node.name = <<>> THEN <<>>
        ELSE Declares(node, kind, parent, Access(node, "internal"))
             \o (IF kind = "enum" THEN JavaEnumMembers(node, qualified)
                 ELSE JavaMembers(node.members, qualified, IF kind = "interface" THEN "public" ELSE "internal"))

JavaSymbols(root) == OfEach(OfType(root, DOMAIN JavaKinds), LAMBDA n : JavaType(n, <<>>))

---------------------------------------------------------------------------
(* Kotlin: public by default; an extension function belongs to its         *)
(* receiver; properties count as members only, aliases at the top only.    *)

KotlinFunction(node, parent) ==
    IF node.of # <<>> THEN Declares(node, "method", node.of, Access(node, "public"))
    ELSE Declares(node, IF parent = <<>> THEN "function" ELSE "method", parent, Access(node, "public"))

KotlinKind(node) == IF "interface" \in node.mods THEN "interface" ELSE "class"

RECURSIVE KotlinMembers(_, _)

KotlinType(node, parent) ==
    IF node.name = <<>> THEN <<>>
    ELSE Declares(node, KotlinKind(node), parent, Access(node, "public")) \o KotlinMembers(node.members, parent \o node.name)

KotlinCompanion(node, parent) ==
    Symbol(node, <<"Companion">>, "class", parent, "public")
    \o KotlinMembers(node.members, Append(parent, "Companion"))

KotlinMembers(nodes, parent) ==
    OfEach(nodes, LAMBDA n :
        CASE n.type = "function_declaration" -> KotlinFunction(n, parent)
          [] n.type = "property_declaration" -> Declares(n, "variable", parent, Access(n, "public"))
          [] n.type \in {"class_declaration", "object_declaration"} -> KotlinType(n, parent)
          [] n.type = "companion_object" -> KotlinCompanion(n, parent)
          [] OTHER -> <<>>)

KotlinSymbols(root) ==
    OfEach(root, LAMBDA n :
        CASE n.type \in {"class_declaration", "object_declaration"} -> KotlinType(n, <<>>)
          [] n.type = "function_declaration" -> KotlinFunction(n, <<>>)
          [] n.type = "type_alias" -> Declares(n, "type", <<>>, Access(n, "public"))
          [] OTHER -> <<>>)

---------------------------------------------------------------------------
(* Scala: a package without a body holds for what follows it, one with a   *)
(* body for what it holds.                                                 *)

ScalaKinds == [class_definition |-> "class", object_definition |-> "class", trait_definition |-> "interface"]
ScalaFunctions == {"function_definition", "function_declaration"}

RECURSIVE ScalaType(_, _)

ScalaMembers(nodes, parent) ==
    OfEach(nodes, LAMBDA n :
        CASE n.type \in ScalaFunctions -> Declares(n, "method", parent, Access(n, "public"))
          [] n.type = "val_definition" -> Declares(n, "constant", parent, Access(n, "public"))
          [] n.type = "var_definition" -> Declares(n, "variable", parent, Access(n, "public"))
          [] n.type \in DOMAIN ScalaKinds -> ScalaType(n, parent)
          [] OTHER -> <<>>)

ScalaType(node, parent) ==
    IF node.name = <<>> THEN <<>>
    ELSE Declares(node, ScalaKinds[node.type], parent, Access(node, "public"))
         \o ScalaMembers(node.members, parent \o node.name)

\* A function of a package has no parent, but a qualified name.
InPackage(node, package) ==
    LET found == Declares(node, "function", package, Access(node, "public"))
    IN  [i \in DOMAIN found |-> [found[i] EXCEPT !.parent = <<>>]]

RECURSIVE ScalaTopLevel(_, _)

ScalaTopLevel(nodes, package) ==
    LET step(acc, n) ==
            IF n.type = "package_clause" /\ "body" \notin n.mods THEN [acc EXCEPT !.package = @ \o n.name]
            ELSE [acc EXCEPT !.found = @ \o
                    (CASE n.type = "package_clause" -> ScalaTopLevel(n.members, acc.package \o n.name)
                       [] n.type \in DOMAIN ScalaKinds -> ScalaType(n, acc.package)
                       [] n.type \in ScalaFunctions -> InPackage(n, acc.package)
                       [] OTHER -> <<>>)]
    IN  FoldLeft(step, [package |-> package, found |-> <<>>], nodes).found

ScalaSymbols(root) == ScalaTopLevel(root, <<>>)

---------------------------------------------------------------------------
(* Ruby: a marker without arguments changes the visibility of the methods  *)
(* that follow, one with names that of methods found so far, one with a    *)
(* definition that of the method it holds.                                 *)

RubyQualified(parent, name) == IF parent # <<>> /\ IsStrictPrefix(parent, name) THEN name ELSE parent \o name

RubySymbol(node, kind, parent, visibility) ==
    LET found == Symbol(node, node.name, kind, <<>>, visibility)
    IN  [i \in DOMAIN found |-> [found[i] EXCEPT !.parent = parent, !.qualified = RubyQualified(parent, node.name)]]

\* A singleton method of another object belongs to that.
RubyMethod(node, parent, visibility) ==
    RubySymbol(node, "method", IF node.of # <<>> THEN node.of ELSE parent, visibility)

\* Mutant of Retroactive: names are looked up in every class of the body.
RetroactiveAnywhere(found, parent, names, visibility) ==
    [i \in DOMAIN found |->
        IF found[i].kind = "method" /\ found[i].name \in names THEN [found[i] EXCEPT !.visibility = visibility]
        ELSE found[i]]

Retroactive(found, parent, names, visibility) ==
    [i \in DOMAIN found |->
        IF found[i].kind = "method" /\ found[i].parent = parent /\ found[i].name \in names
        THEN [found[i] EXCEPT !.visibility = visibility] ELSE found[i]]

\* What stands in the arguments of a call: symbols and the text of strings, at any
\* depth, also in the body of a definition among them; and the definitions.
RECURSIVE SymbolArguments(_)
SymbolArguments(nodes) ==
    {n.name[1] : n \in ToSet(OfType(nodes, {"symbol"}))} \cup UNION {SymbolArguments(n.members) : n \in ToSet(nodes)}

RECURSIVE MethodArguments(_)
MethodArguments(nodes) ==
    OfEach(nodes, LAMBDA n : IF n.type \in {"method", "singleton_method"} THEN <<n>> ELSE MethodArguments(n.members))

RECURSIVE RubyBody(_, _)

RubyType(node, parent) ==
    IF node.name = <<>> THEN <<>>
    ELSE RubySymbol(node, IF node.type = "module" THEN "module" ELSE "class", parent, "public")
         \o RubyBody(node.members, RubyQualified(parent, node.name))

\* A marker's arguments: names of methods, or definitions.
RubyMarker(acc, n, parent) ==
    LET visibility == AccessOf[n.name[1]]
        defined == OfEach(MethodArguments(n.members), LAMBDA m : RubyMethod(m, parent, visibility))
        named == SymbolArguments(n.members)
        found == acc.found \o defined
    IN  IF named # {} THEN [acc EXCEPT !.found = Retroactive(found, parent, named, visibility)]
        ELSE IF defined # <<>> THEN [acc EXCEPT !.found = found]
        ELSE [acc EXCEPT !.visibility = visibility]

RubyBody(nodes, parent) ==
    LET step(acc, n) ==
            IF n.type = "marker" THEN RubyMarker(acc, n, parent)
            ELSE [acc EXCEPT !.found = @ \o
                    (CASE n.type \in {"module", "class"} -> RubyType(n, parent)
                       [] n.type \in {"method", "singleton_method"} -> RubyMethod(n, parent, acc.visibility)
                       [] n.type = "singleton_class" -> RubyBody(n.members, IF n.of # <<>> THEN n.of ELSE parent)
                       [] n.type = "assignment" /\ parent # <<>> -> RubySymbol(n, "constant", parent, "public")
                       [] OTHER -> <<>>)]
    IN  FoldLeft(step, [visibility |-> "public", found |-> <<>>], nodes).found

RubySymbols(root) == RubyBody(root, <<>>)

---------------------------------------------------------------------------
(* PHP: types and functions of a namespace; a promoted parameter of a      *)
(* constructor is a property with the lines of the constructor.            *)

PhpKinds == [class_declaration |-> "class", interface_declaration |-> "interface", trait_declaration |-> "class",
             enum_declaration |-> "enum"]

PhpMethod(node, parent) == Declares(node, "method", parent, Access(node, "public"))

Promoted(method, parent) ==
    OfEach(OfType(method.members, {"property_promotion_parameter"}), LAMBDA p :
        Symbol(method, p.name, "variable", parent, Access(p, "public")))

PhpMembers(nodes, parent) ==
    OfEach(nodes, LAMBDA n :
        CASE n.type = "method_declaration" ->
                IF n.name = <<>> THEN <<>> ELSE PhpMethod(n, parent) \o Promoted(n, parent)
          [] n.type = "property_declaration" ->
                Declarators(n, "property_element", "variable", parent, Access(n, "public"))
          [] n.type = "const_declaration" -> Declarators(n, "const_element", "constant", parent, Access(n, "public"))
          [] OTHER -> <<>>)

PhpEnumMembers(nodes, parent) ==
    OfEach(nodes, LAMBDA n :
        CASE n.type = "enum_case" -> Declares(n, "constant", parent, "public")
          [] n.type = "method_declaration" -> PhpMethod(n, parent)
          [] OTHER -> <<>>)

PhpType(node, namespace) ==
    LET qualified == namespace \o node.name
        own == InPackage([node EXCEPT !.type = "type"], namespace)
    IN  IF node.name = <<>> THEN <<>>
        ELSE <<[own[1] EXCEPT !.kind = PhpKinds[node.type]]>>
             \o (IF node.type = "enum_declaration" THEN PhpEnumMembers(node.members, qualified)
                 ELSE PhpMembers(node.members, qualified))

PhpTopLevel(nodes, namespace) ==
    OfEach(nodes, LAMBDA n :
        CASE n.type \in DOMAIN PhpKinds -> PhpType(n, namespace)
          [] n.type = "function_definition" -> InPackage(n, namespace)
          [] OTHER -> <<>>)

\* A namespace is written in full: the next one replaces it.
PhpSymbols(root) ==
    LET step(acc, n) ==
            IF n.type # "namespace_definition" THEN [acc EXCEPT !.found = @ \o PhpTopLevel(<<n>>, acc.namespace)]
            ELSE IF "body" \in n.mods THEN [acc EXCEPT !.found = @ \o PhpTopLevel(n.members, n.name)]
            ELSE [acc EXCEPT !.namespace = n.name]
    IN  FoldLeft(step, [namespace |-> <<>>, found |-> <<>>], root).found

---------------------------------------------------------------------------
(* C: what preprocessor branches and linkage blocks hold stands at the top *)
(* of the file; structures first, then functions and prototypes.  A node   *)
(* that is written with a structure has that as its first member.          *)

Conditionals == {"preproc_ifdef", "preproc_if", "preproc_elif", "preproc_else"}

RECURSIVE CFlattened(_)

\* The body of a linkage block is entered, also when it is a declaration.
CFlattened(nodes) ==
    OfEach(nodes, LAMBDA n :
        CASE n.type \in Conditionals -> CFlattened(n.members)
          [] n.type = "linkage_specification" -> CFlattened(n.members[1].members)
          [] OTHER -> <<n>>)

Linkage(node) == IF "static" \in node.mods THEN "private" ELSE "public"

CFunctions(nodes) ==
    OfEach(OfType(nodes, {"function_definition", "declaration"}), LAMBDA n :
        IF "function" \in n.mods THEN Declares(n, "function", <<>>, Linkage(n)) ELSE <<>>)

WithSpecifier(node, types) == node.members # <<>> /\ node.members[1].type \in types

\* A structure without a body is a forward declaration.
CStruct(spec, node, name) == IF "body" \in spec.mods THEN Symbol(node, name, "type", <<>>, "public") ELSE <<>>

CStructs(nodes) ==
    OfEach(nodes, LAMBDA n :
        CASE n.type = "struct_specifier" -> CStruct(n, n, n.name)
          [] n.type = "declaration" /\ WithSpecifier(n, {"struct_specifier"}) -> CStruct(n.members[1], n, n.members[1].name)
          [] n.type = "type_definition" /\ WithSpecifier(n, {"struct_specifier"}) -> CStruct(n.members[1], n, n.name)
          [] OTHER -> <<>>)

CSymbols(root) == CStructs(CFlattened(root)) \o CFunctions(CFlattened(root))

---------------------------------------------------------------------------
(* C++: as C, with templates unwrapped once, scopes and access specifiers. *)

RECURSIVE CppFlattened(_)

CppFlattened(nodes) ==
    OfEach(nodes, LAMBDA n :
        CASE n.type \in Conditionals -> CppFlattened(n.members)
          [] n.type = "linkage_specification" ->
                IF n.members[1].type = "declaration_list" THEN CppFlattened(n.members[1].members) ELSE n.members
          [] n.type = "template_declaration" -> n.members
          [] OTHER -> <<n>>)

CppTypes == [class_specifier |-> "class", struct_specifier |-> "type"]

\* What the declarator is: A::f belongs to A; a member name stands in a class only.
CppFunction(node, scope, inClass, visibility) ==
    IF "function" \notin node.mods THEN <<>>
    ELSE IF node.of # <<>> THEN Declares(node, "method", scope \o node.of, visibility)
    ELSE IF inClass THEN Declares(node, "method", scope, visibility)
    ELSE IF "member" \in node.mods THEN <<>>
    ELSE Declares(node, "function", scope, IF "static" \in node.mods THEN "private" ELSE visibility)

CppFields(node, scope, visibility) ==
    Declarators(node, "field_identifier",
                IF "static" \in node.mods /\ node.mods \cap {"const", "constexpr"} # {} THEN "constant" ELSE "variable",
                scope, visibility)

RECURSIVE CppMembers(_, _, _, _)

CppType(node, scope, visibility) ==
    IF "body" \notin node.mods \/ node.name = <<>> THEN <<>>
    ELSE Declares(node, CppTypes[node.type], scope, visibility)
         \o CppMembers(CppFlattened(node.members), scope \o node.name, TRUE,
                       IF node.type = "struct_specifier" THEN "public" ELSE "private")

\* What an anonymous namespace holds is private, but its types' members are not.
CppNamespace(node, scope) ==
    Declares(node, "module", scope, "public")
    \o CppMembers(CppFlattened(node.members), scope \o node.name, FALSE, IF node.name = <<>> THEN "private" ELSE "public")

\* A declaration written with a type declares that type, or else a function, or else data.
CppDeclaration(node, scope, inClass, visibility) ==
    LET function == CppFunction(node, scope, inClass, visibility)
    IN  IF WithSpecifier(node, DOMAIN CppTypes) THEN CppType(node.members[1], scope, visibility)
        ELSE IF function # <<>> THEN function
        ELSE IF node.type = "field_declaration" /\ inClass THEN CppFields(node, scope, visibility)
        ELSE <<>>

CppMember(n, scope, inClass, visibility) ==
    CASE n.type = "namespace_definition" -> IF inClass THEN <<>> ELSE CppNamespace(n, scope)
      [] n.type \in DOMAIN CppTypes -> CppType(n, scope, visibility)
      [] n.type = "function_definition" -> CppFunction(n, scope, inClass, visibility)
      [] n.type \in {"declaration", "field_declaration"} -> CppDeclaration(n, scope, inClass, visibility)
      [] OTHER -> <<>>

\* An access specifier holds up to the next one of the same body.
CppMembers(nodes, scope, inClass, default) ==
    LET step(acc, n) ==
            IF n.type = "access_specifier" THEN [acc EXCEPT !.visibility = AccessOf[n.name[1]]]
            ELSE [acc EXCEPT !.found = @ \o CppMember(n, scope, inClass, acc.visibility)]
    IN  FoldLeft(step, [visibility |-> default, found |-> <<>>], nodes).found

CppSymbols(root) == CppMembers(CppFlattened(root), <<>>, FALSE, "public")

---------------------------------------------------------------------------
(* Rust: items of the file; what an inline module holds is not entered.    *)

RustKinds == [struct_item |-> "type", enum_item |-> "enum", const_item |-> "constant", static_item |-> "constant",
              type_item |-> "type", function_item |-> "function"]

RustVisibility(node) ==
    IF "pub" \notin node.mods THEN "private" ELSE IF node.mods \cap {"crate", "self", "super"} # {} THEN "internal" ELSE "public"

RustMethods(nodes, parent) ==
    OfEach(OfType(nodes, {"function_item"}), LAMBDA f :
        LET found == Declares(f, "method", parent, RustVisibility(f))
        IN  [i \in DOMAIN found |-> [found[i] EXCEPT !.qualified = <<"impl">> \o @]])

\* In the order of the body: signatures are public, defaults as they are written.
RustTrait(node) ==
    IF node.name = <<>> THEN <<>>
    ELSE Declares(node, "interface", <<>>, RustVisibility(node))
         \o OfEach(node.members, LAMBDA n :
                IF n.type = "function_signature_item" THEN Declares(n, "method", node.name, "public")
                ELSE RustMethods(<<n>>, node.name))

RustSymbols(root) ==
    OfEach(root, LAMBDA n :
        CASE n.type \in DOMAIN RustKinds -> Declares(n, RustKinds[n.type], <<>>, RustVisibility(n))
          [] n.type = "trait_item" -> RustTrait(n)
          [] n.type = "impl_item" -> RustMethods(n.members, n.of)
          [] n.type = "macro_definition" -> Declares(n, "function", <<>>, "public")
          [] OTHER -> <<>>)

---------------------------------------------------------------------------
(* C#: the first namespace of a file qualifies every type of it; members   *)
(* of an interface are public by default, those of other types private.    *)

CsKinds == [class_declaration |-> "class", record_declaration |-> "class", interface_declaration |-> "interface",
            struct_declaration |-> "type", delegate_declaration |-> "type", enum_declaration |-> "enum"]
CsNamespaces == {"namespace_declaration", "file_scoped_namespace_declaration"}

CsAccess(node, default) ==
    IF "public" \in node.mods THEN "public"
    ELSE IF {"private", "protected"} \subseteq node.mods THEN "private"
    ELSE IF node.mods \cap {"internal", "protected"} # {} THEN "internal"
    ELSE IF "private" \in node.mods THEN "private" ELSE default

CsNamespace(root) ==
    LET named == SelectSeq(OfType(root, CsNamespaces), LAMBDA n : n.name # <<>>)
    IN  IF named = <<>> THEN <<>> ELSE Head(named).name

CsConstant(field) == "const" \in field.mods \/ {"static", "readonly"} \subseteq field.mods

CsFields(node, parent) ==
    Declarators(node, "variable_declarator",
                IF node.type = "field_declaration" /\ CsConstant(node) THEN "constant" ELSE "variable",
                parent, CsAccess(node, "private"))

RECURSIVE CsType(_, _, _)

CsMembers(nodes, parent, default) ==
    OfEach(nodes, LAMBDA n :
        CASE n.type \in {"method_declaration", "constructor_declaration"} -> Declares(n, "method", parent, CsAccess(n, default))
          [] n.type \in {"field_declaration", "event_field_declaration"} -> CsFields(n, parent)
          [] n.type = "property_declaration" -> Declares(n, "variable", parent, CsAccess(n, default))
          [] n.type = "delegate_declaration" -> Declares(n, "type", parent, CsAccess(n, "private"))
          [] n.type \in DOMAIN CsKinds \ {"delegate_declaration"} -> CsType(n, parent, parent)
          [] OTHER -> <<>>)

\* The members of an enumeration are as visible as it is.
CsBody(node, kind, qualified) ==
    CASE kind = "enum" -> OfEach(OfType(node.members, {"enum_member_declaration"}), LAMBDA m :
                                    Declares(m, "constant", qualified, CsAccess(node, "internal")))
      [] node.type = "delegate_declaration" -> <<>>
      [] OTHER -> CsMembers(node.members, qualified, IF kind = "interface" THEN "public" ELSE "private")

\* within: the namespace or the type around it; a namespace is no parent.
CsType(node, within, parent) ==
    LET kind == CsKinds[node.type]
        own == [Declares(node, kind, within, CsAccess(node, "internal"))[1] EXCEPT !.parent = parent]
    IN  IF node.name = <<>> THEN <<>> ELSE <<own>> \o CsBody(node, kind, within \o node.name)

CsTopLevel(nodes, namespace) == OfEach(OfType(nodes, DOMAIN CsKinds), LAMBDA n : CsType(n, namespace, <<>>))

CsSymbols(root) ==
    OfEach(root, LAMBDA n : CsTopLevel(IF n.type \in CsNamespaces THEN n.members ELSE <<n>>, CsNamespace(root)))

---------------------------------------------------------------------------
(* Swift: internal by default; an extension only lends its members.        *)

SwiftKeywords == [class |-> "class", actor |-> "class", struct |-> "type", enum |-> "enum", protocol |-> "interface"]

SwiftVisibility(node) ==
    IF node.mods \cap {"open", "public"} # {} THEN "public"
    ELSE IF node.mods \cap {"fileprivate", "private"} # {} THEN "private" ELSE "internal"

\* A structure that is marked as the entry point counts as a class.
SwiftKind(node) ==
    LET written == node.mods \cap DOMAIN SwiftKeywords
        keyword == IF written = {} THEN "class" ELSE CHOOSE k \in written : TRUE
    IN  IF keyword = "struct" /\ "@main" \in node.mods THEN "class" ELSE SwiftKeywords[keyword]

SwiftFunction(node, parent) ==
    Declares(node, IF parent = <<>> THEN "function" ELSE "method", parent, SwiftVisibility(node))

SwiftCases(enum, parent) ==
    OfEach(enum.members, LAMBDA n :
        CASE n.type = "enum_entry" -> Declares(n, "constant", parent, SwiftVisibility(enum))
          [] n.type = "function_declaration" -> SwiftFunction(n, parent)
          [] OTHER -> <<>>)

SwiftRequirements(nodes, parent) ==
    OfEach(nodes, LAMBDA n :
        CASE n.type = "protocol_function_declaration" -> Declares(n, "method", parent, "public")
          [] n.type = "protocol_property_declaration" -> Declares(n, "variable", parent, "public")
          [] OTHER -> <<>>)

RECURSIVE SwiftMembers(_, _)

SwiftType(node, parent) ==
    LET kind == SwiftKind(node)
        qualified == parent \o node.name
    IN  IF "extension" \in node.mods THEN SwiftMembers(node.members, node.of)
        ELSE IF node.name = <<>> THEN <<>>
        ELSE Declares(node, kind, parent, SwiftVisibility(node))
             \o (CASE kind = "enum" -> SwiftCases(node, qualified)
                   [] kind = "interface" -> SwiftRequirements(node.members, qualified)
                   [] OTHER -> SwiftMembers(node.members, qualified))

SwiftMembers(nodes, parent) ==
    OfEach(nodes, LAMBDA n :
        CASE n.type = "function_declaration" -> SwiftFunction(n, parent)
          [] n.type = "property_declaration" -> Declares(n, "variable", parent, SwiftVisibility(n))
          [] n.type = "subscript_declaration" -> Symbol(n, <<"subscript">>, "method", parent, SwiftVisibility(n))
          [] n.type \in {"class_declaration", "protocol_declaration"} -> SwiftType(n, parent)
          [] n.type = "typealias_declaration" -> Declares(n, "type", parent, SwiftVisibility(n))
          [] OTHER -> <<>>)

\* Properties and subscripts at the top are no symbols.
SwiftSymbols(root) ==
    SwiftMembers(OfType(root, {"class_declaration", "protocol_declaration", "function_declaration",
                               "typealias_declaration"}), <<>>)

---------------------------------------------------------------------------

\* The adapter that is registered for a language; the others find no symbols.
AdapterSymbols(language, root) ==
    CASE language = "python" -> PythonSymbols(root)
      [] language = "go" -> GoSymbols(root)
      [] language \in {"typescript", "javascript"} -> TypeScriptSymbols(root)
      [] language = "java" -> JavaSymbols(root)
      [] language = "kotlin" -> KotlinSymbols(root)
      [] language = "scala" -> ScalaSymbols(root)
      [] language = "ruby" -> RubySymbols(root)
      [] language = "php" -> PhpSymbols(root)
      [] language = "c" -> CSymbols(root)
      [] language = "cpp" -> CppSymbols(root)
      [] language = "rust" -> RustSymbols(root)
      [] language = "csharp" -> CsSymbols(root)
      [] language = "swift" -> SwiftSymbols(root)
      [] OTHER -> <<>>

=============================================================================
