---------------------------- MODULE MCContextFlow ----------------------------
(***************************************************************************)
(* Programs of a few nodes each that read what the others write, with      *)
(* templates that cannot be rendered, tools that fail or are not there,    *)
(* and a resource whose key the program also uses itself.                  *)
(***************************************************************************)
EXTENDS ContextFlow

LOCAL INSTANCE TLC

Jump == Str("Jumping to: swap")

\* The application's own tool answers with a number, with null, or with an
\* object that has one of the keys a node asks for, a jump, and one it does not.
MCResults == [query |-> {Num("0"), Null, Object([a |-> Jump, z |-> Str("more")])}]
MCModelErrors == {Str("overloaded"), Jump}
MCJumping == Jump :> "swap"

Text(t) == [text |-> t]
Ref(k) == [ref |-> k]
Field(k, t) == [key |-> k, template |-> t]

Plain(path, type, templates, keys) ==
  [path |-> path, type |-> type, templates |-> templates, output_keys |-> keys,
   tool |-> "none", permissions |-> {}, on_failure |-> NoPath, info |-> [uri |-> Str(path)]]
Tool(path, tool, templates, keys) == [Plain(path, "TOOL_CALL", templates, keys) EXCEPT !.tool = tool]
Model(path, tool, templates, keys) == [Plain(path, "DSL_CALL", templates, keys) EXCEPT !.tool = tool]

\* a and b exchanged; a chain of fields; a field that may not render.
Swap == Plain("swap", "ASSIGN", <<Field("a", Ref("b")), Field("b", Ref("a"))>>, << >>)
Fill == Plain("fill", "ASSIGN", <<Field("a", Text("true")), Field("b", Text("0"))>>, << >>)
Chain == Plain("chain", "ASSIGN", <<Field("a", Ref("r")), Field("c", Ref("a"))>>, << >>)

Calculate == Tool("calc", "calculate", <<Field("x", Ref("a"))>>, <<"a">>)
Query == [Tool("query", "query", << >>, <<"a", "r">>) EXCEPT !.permissions = {"query"}]
Missing == Tool("missing", "llama", << >>, <<"a", "error">>)
Ask == Model("ask", "llama", <<Field("prompt", Ref("a"))>>, <<"r", "b">>)
AskForNothing == Model("ask0", "llama", <<Field("prompt", Text("t"))>>, << >>)
Generate == Plain("gen", "GENERATE_SUBGRAPH", <<Field("prompt", Ref("available_subgraphs"))>>, <<"r">>)
Check == [Plain("check", "ASSERT", <<Field("condition", Ref("b"))>>, << >>) EXCEPT !.on_failure = "fill"]
Strict == Plain("strict", "ASSERT", <<Field("condition", Ref("resources"))>>, << >>)
Hear == Plain("hear", "ASSERT", <<Field("condition", Ref("a"))>>, << >>)
Fork == Plain("fork", "FORK", << >>, << >>)
Weather == Plain("weather", "RESOURCE", << >>, << >>)
Other == [Weather EXCEPT !.info = [uri |-> Str("again")]]
Maps == Plain("maps", "RESOURCE", << >>, << >>)
Own == Plain("own", "ASSIGN", <<Field("resources", Text("mine"))>>, << >>)

MCPrograms == {<<Swap, Fill, Chain, Calculate, Check>>,
               <<Query, Chain, Missing, Swap, Hear, Fork>>,
               <<Ask, Generate, Fill, AskForNothing, Swap>>,
               <<Weather, Own, Maps, Other, Generate, Strict, Query>>,
               <<Own, Strict, Generate>>}

MCInitialContexts == {[k \in {} |-> Null], [a |-> Num("3"), b |-> Null]}

MCNumeral == {"3", "3.0", "22"}
MCGeneratedPaths == {<< >>, <<"/dynamic/x">>, <<"/dynamic/x", "/dynamic/y">>}
==============================================================================
