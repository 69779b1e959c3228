------------------------------ MODULE MCIngest ------------------------------
EXTENDS SourceIngest
Node(type, name, start, end, members) ==
    [type |-> type, name |-> name, mods |-> {}, of |-> <<>>, start |-> start, end |-> end, members |-> members]
With(mods, node) == [node EXCEPT !.mods = mods]
Of(owner, node) == [node EXCEPT !.of = owner]
Mark(type, name, line) == Node(type, <<name>>, line, line, <<>>)

CppFn(name, a, b) == With({"function"}, Node("function_definition", <<name>>, a, b, <<>>))
CppClass(name, a, b, members) == With({"body"}, Node("class_specifier", <<name>>, a, b, members))

\* A class with methods, functions that share its last line, nested classes.
CppTrees == {
    <<CppClass("C", 2, 5, <<CppFn("run", 3, 4)>>), CppFn("f", 5, 6)>>,
    <<CppClass("C", 1, 6, <<CppFn("h", 2, 3), Mark("access_specifier", "public", 4), CppFn("g", 5, 5)>>)>>,
    <<CppFn("f", 2, 2), CppFn("g", 4, 5), CppFn("f", 6, 6)>>,
    <<CppClass("g", 3, 6, <<CppClass("f", 3, 5, <<CppFn("h", 3, 4)>>)>>)>>,
    <<CppFn("a", 2, 4), CppFn("b", 4, 6)>>}

\* A private method defined in the argument of its marker calls an earlier one by name.
RubyTree == <<"ruby", <<Node("class", <<"A">>, 1, 6, <<
    Mark("method", "f", 1), Mark("method", "g", 2),
    Node("marker", <<"private">>, 3, 5, <<
        Node("method", <<"k">>, 3, 5, <<Node("call", <<"send">>, 4, 4, <<Mark("symbol", "f", 4)>>)>>)>>),
    Mark("method", "h", 6)>>)>>>>

\* Constructs that carry something from one member to the next, and one tree
\* for each of the other languages.
OtherTrees == {
    <<"cpp", <<Node("namespace_definition", <<"n">>, 1, 6, <<
        Node("template_declaration", <<>>, 1, 3, <<CppClass("A", 1, 3, <<
            CppFn("f", 1, 1), Mark("access_specifier", "public", 1), CppFn("g", 2, 2),
            Node("preproc_if", <<>>, 2, 3, <<Mark("access_specifier", "protected", 2), CppFn("h", 3, 3)>>)>>)>>),
        With({"body"}, Node("struct_specifier", <<"S">>, 4, 6, <<
            Node("field_declaration", <<>>, 4, 5, <<CppClass("B", 4, 5, <<CppFn("k", 4, 4)>>)>>),
            With({"static", "const"}, Node("field_declaration", <<>>, 5, 5, <<Mark("field_identifier", "x", 5)>>)),
            Mark("access_specifier", "private", 5), CppFn("m", 6, 6)>>))>>),
        Of(<<"n", "A">>, CppFn("f", 6, 6))>>>>,
    <<"ruby", <<Node("class", <<"A">>, 1, 4, <<
        Mark("method", "f", 1), Node("class", <<"B">>, 2, 2, <<Mark("method", "f", 2), Mark("method", "g", 2)>>),
        Mark("marker", "private", 3), Mark("method", "g", 3),
        Node("marker", <<"protected">>, 4, 4, <<Mark("symbol", "f", 4)>>)>>),
        Node("class", <<"A">>, 5, 6, <<Mark("method", "h", 5),
            Node("marker", <<"private">>, 6, 6, <<Mark("method", "k", 6)>>), Mark("method", "l", 6)>>)>>>>,
    RubyTree,
    <<"python", <<Node("decorated_definition", <<>>, 1, 2, <<Mark("function_definition", "f", 2)>>),
        Node("class_definition", <<"C">>, 3, 6, <<With({"_"}, Node("function_definition", <<"_g">>, 4, 5, <<>>))>>)>>>>,
    <<"go", <<Node("type_declaration", <<>>, 1, 2, <<With({"Upper"}, Mark("type_spec", "T", 1))>>),
        Of(<<"T">>, Node("method_declaration", <<"m">>, 3, 4, <<>>)), Mark("function_declaration", "f", 5),
        Node("const_declaration", <<>>, 6, 6, <<Node("spec_list", <<>>, 6, 6, <<Mark("spec", "c", 6)>>)>>)>>>>,
    <<"typescript", <<Node("export_statement", <<>>, 1, 3, <<Node("class_declaration", <<"C">>, 1, 3,
            <<Mark("method_definition", "m", 2)>>)>>),
        With({"const"}, Node("lexical_declaration", <<>>, 4, 6, <<Mark("variable_declarator", "x", 5)>>))>>>>,
    <<"java", <<With({"public"}, Node("enum_declaration", <<"E">>, 1, 6, <<Mark("enum_constant", "K", 1),
        Node("enum_body_declarations", <<>>, 2, 5, <<
            With({"static", "final"}, Node("field_declaration", <<>>, 2, 2, <<Mark("variable_declarator", "x", 2)>>)),
            Node("interface_declaration", <<"I">>, 3, 5, <<Mark("method_declaration", "m", 4)>>)>>)>>))>>>>,
    <<"kotlin", <<Node("class_declaration", <<"C">>, 1, 4, <<Node("companion_object", <<>>, 2, 3,
            <<Mark("function_declaration", "of", 2), Mark("property_declaration", "p", 3)>>)>>),
        Of(<<"C">>, Mark("function_declaration", "ext", 5)), Mark("type_alias", "T", 6)>>>>,
    <<"scala", <<Node("package_clause", <<"p">>, 1, 1, <<>>), Mark("function_definition", "f", 2),
        With({"body"}, Node("package_clause", <<"q">>, 3, 5, <<Node("trait_definition", <<"T">>, 3, 4,
            <<Mark("val_definition", "v", 3), Mark("function_declaration", "m", 4)>>)>>)),
        Node("object_definition", <<"O">>, 6, 6, <<>>)>>>>,
    <<"php", <<Node("namespace_definition", <<"N">>, 1, 1, <<>>), Node("class_declaration", <<"C">>, 2, 4, <<
            Node("method_declaration", <<"make">>, 2, 3, <<With({"private"}, Mark("property_promotion_parameter", "p", 2))>>),
            Node("const_declaration", <<>>, 4, 4, <<Mark("const_element", "K", 4)>>)>>),
        Node("enum_declaration", <<"E">>, 5, 5, <<Mark("enum_case", "A", 5)>>), Mark("function_definition", "f", 6)>>>>,
    <<"c", <<Node("preproc_ifdef", <<>>, 1, 5, <<
            Node("linkage_specification", <<>>, 1, 3, <<Node("declaration_list", <<>>, 1, 3, <<
                With({"function", "static"}, Mark("declaration", "f", 2))>>)>>),
            Node("type_definition", <<"T">>, 4, 5, <<With({"body"}, Node("struct_specifier", <<>>, 4, 5, <<>>))>>)>>),
        With({"function"}, Node("declaration", <<"g">>, 6, 6, <<With({"body"}, Mark("struct_specifier", "S", 6))>>))>>>>,
    <<"rust", <<With({"pub"}, Node("trait_item", <<"T">>, 1, 2, <<Mark("function_signature_item", "m", 1),
            Mark("function_item", "n", 2)>>)),
        Of(<<"S">>, Node("impl_item", <<>>, 3, 5, <<With({"pub", "crate"}, Mark("function_item", "m", 4))>>)),
        Mark("macro_definition", "mac", 6), Mark("struct_item", "S", 6)>>>>,
    <<"csharp", <<Node("namespace_declaration", <<"N">>, 1, 4, <<Node("class_declaration", <<"C">>, 1, 4, <<
            With({"protected"}, Mark("property_declaration", "p", 2)),
            Node("event_field_declaration", <<>>, 3, 3, <<Mark("variable_declarator", "e", 3)>>),
            Node("enum_declaration", <<"E">>, 4, 4, <<Mark("enum_member_declaration", "a", 4)>>)>>)>>),
        Mark("delegate_declaration", "D", 5), Node("interface_declaration", <<"I">>, 6, 6, <<Mark("method_declaration", "m", 6)>>)>>>>,
    <<"swift", <<With({"struct", "@main"}, Node("class_declaration", <<"App">>, 1, 3, <<Mark("subscript_declaration", "s", 1),
            With({"enum", "public"}, Node("class_declaration", <<"E">>, 2, 3, <<Mark("enum_entry", "a", 2),
                Mark("function_declaration", "f", 3)>>))>>)),
        Of(<<"App">>, With({"extension"}, Node("class_declaration", <<>>, 4, 5, <<Mark("property_declaration", "x", 4)>>))),
        With({"protocol"}, Node("protocol_declaration", <<"P">>, 6, 6, <<Mark("protocol_function_declaration", "r", 6)>>))>>>>}

\* A Java class whose constructor has its name.
JavaTree == <<Node("class_declaration", <<"C">>, 2, 6, <<Node("constructor_declaration", <<"C">>, 4, 5, <<>>)>>)>>

RangeSets == {<<>>, <<[start |-> 4, end |-> 5], [start |-> 2, end |-> 2]>>}

Weights == {w \in [1..6 -> {0, 1, 3}] : w[1] # 0 /\ w[2] # 3 /\ w[6] = 1}

Module(stem, parses, w, language, tree, r) ==
    [path |-> Path(<<>>, stem, "." \o language), parses |-> parses, lines |-> w, language |-> language, tree |-> tree,
     ranges |-> r, symbols |-> <<>>, imports |-> <<>>]

\* A file at a path, and one with an import.
FileAt(path) == [Module("a", "no adapter", <<1>>, "text", <<>>, <<>>) EXCEPT !.path = path]
Importing(path, language, imp) == [FileAt(path) EXCEPT !.parses = "yes", !.language = language, !.imports = <<imp>>]
Imp(relative, up, anchor, parts, ext) ==
    [relative |-> relative, up |-> up, anchor |-> anchor, parts |-> parts, ext |-> ext, target |-> NONE]
Absolute(parts) == Imp(FALSE, 0, NONE, parts, NONE)

\* The same names in several directories and of several kinds.
Py(dir, stem) == Path(dir, stem, ".py")
PySource == <<FileAt(Py(<<>>, "b")), FileAt(Py(<<"app">>, "b")), FileAt(Py(<<"app", "b">>, "c")), FileAt(Py(<<"src", "app">>, "__init__")),
              FileAt(Py(<<"src", "app", "sub">>, "b"))>>
ClassFiles(ext) == <<FileAt(Path(<<"x", "util">>, "Foo", ext)), FileAt(Path(<<"org", "util">>, "Foo", ext)),
                     FileAt(Path(<<"org">>, "Foo", ext)), FileAt(Path(<<"org", "lib">>, "Bar", ".java"))>>
NamedFiles(ext) == <<FileAt(Path(<<>>, "README", ".md")), FileAt(Path(<<"pkg">>, "README", ".md")), FileAt(Path(<<"pkg">>, "a", ext)),
                  FileAt(Path(<<"x", "pkg">>, "a", ext)), FileAt(Path(<<"x">>, "a", ext))>>

\* A module and a file of settings of the same name, listed by name.
SharedKeys == {Append(<<FileAt(Py(<<>>, "b")), FileAt(Path(<<>>, "b", ".yaml")), FileAt(Py(<<>>, "d"))>>,
                      Importing(Py(<<>>, "m"), "python", Absolute(parts))) : parts \in {<<"b">>, <<"d">>}}

ImportCheckouts ==
    SharedKeys \cup {Append(PySource, Importing(Py(d, s), "python", imp)) :
        d \in {<<"app">>, <<"src", "app", "sub">>}, s \in {"m"},
        imp \in {Imp(TRUE, n, NONE, parts, NONE) : n \in 1..3, parts \in {<<"b">>, <<"app", "b">>, <<>>}}
               \cup {Absolute(parts) : parts \in {<<"b">>, <<"app", "b">>, <<"app", "b", "c", "d">>, <<"app", "sub", "b">>, <<"os">>}}}
    \cup {Append(ClassFiles(t[2]), Importing(Path(<<"org">>, "Main", t[2]), t[1], imp)) :
        t \in {<<"java", ".java">>, <<"kotlin", ".kt">>, <<"scala", ".scala">>, <<"php", ".php">>, <<"csharp", ".cs">>},
        imp \in {Absolute(parts) : parts \in {<<"org", "util", "Foo">>, <<"org", "lib", "Bar">>, <<"Foo">>, <<"java", "net", "Foo">>,
                                             <<"org", "util">>, <<"org", "*">>, <<"System", "IO">>}}}
    \cup {Append(NamedFiles(t[2]), Importing(Path(<<"x">>, "m", t[2]), t[1], imp)) :
        t \in {<<"typescript", ".ts">>, <<"ruby", ".rb">>},
        imp \in {Imp(rel, n, NONE, parts, NONE) :
                    rel \in BOOLEAN, n \in 0..1, parts \in {<<"a">>, <<"pkg", "a">>, <<"README">>}}}
    \cup {Append(NamedFiles(".h"), Importing(Path(<<"x">>, "m", ".c"), "c", Imp(rel, n, NONE, parts, ".h"))) :
        rel \in BOOLEAN, n \in 0..1, parts \in {<<"a">>, <<"pkg", "a">>, <<"b", "a">>}}
    \cup {Append(NamedFiles(".rs"), Importing(Path(<<"x">>, "m", ".rs"), "rust", Imp(FALSE, 0, anchor, parts, NONE))) :
        anchor \in {"crate", "super", "self", NONE}, parts \in {<<"a">>, <<"pkg", "a", "f">>, <<"data">>}}
    \cup {Append(files, Importing(Path(<<"x">>, "m", t[2]), t[1], Absolute(parts))) :
        files \in {NamedFiles(".go"), SubSeq(NamedFiles(".swift"), 3, 5)}, t \in {<<"go", ".go">>, <<"swift", ".swift">>},
        parts \in {<<"pkg">>, <<"x", "pkg">>, <<"Foundation">>}}

MCNameEndings == {<<"data", "a">>}

\* One file of every shape, and several that parse, fail or are taken from a pool.
MCCheckouts ==
    {<<Module("a", "yes", w, "cpp", t, <<>>)>> : w \in Weights, t \in CppTrees}
    \cup {<<Module("a", "yes", w, t[1], t[2], <<>>)>> : w \in {<<1, 1, 3, 0, 1, 1>>, <<3, 1, 1, 1, 1, 1>>}, t \in OtherTrees}
    \cup {<<Module("a", "yes", w, "yaml", <<>>, r)>> : w \in Weights, r \in RangeSets}
    \cup ImportCheckouts
    \cup {<<Module("a", "yes", <<1, 1>>, "c", <<>>, <<>>), Module("b", b, <<1>>, "c", <<>>, <<>>), Module("c", c, <<1>>, "c", <<>>, <<>>)>> :
            b \in {"yes", "parse error", "fault"}, c \in {"plugin", "parse error", "no adapter"}}

RubyCheckouts == {<<Module("a", "yes", w, "ruby", RubyTree[2], <<>>)>> : w \in Weights}

JavaCheckouts == {<<Module("a", "yes", w, "java", JavaTree, <<>>)>> : w \in Weights}

MCIngestOptions == [parallel : {TRUE}, strict : BOOLEAN, chunker : {"cast"}]
    \cup [parallel : {FALSE}, strict : {TRUE}, chunker : {"default"}]

=============================================================================
