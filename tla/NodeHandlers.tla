----------------------------- MODULE NodeHandlers -----------------------------
(***************************************************************************)
(* The handlers of NodeExecutor with the values they read and write.  A    *)
(* node holds the templates it renders (its fields, arguments, prompt or   *)
(* condition, each with its key), in the order its map is iterated.  A     *)
(* handler answers with a set of results: those its tools allow.           *)
(***************************************************************************)
EXTENDS ToolRegistry

CONSTANTS NoPath,
          Jumping,         \* the path that a text names after "Jumping to: "
          Numeral,         \* the texts std::stod reads a number other than 0 from
          GeneratedPaths   \* the sequences of dynamic graphs a model may generate

ASSUME JumpAssumption == \A text \in DOMAIN Jumping : Jumping[text] # NoPath

NodeType == {"START", "END", "ASSIGN", "DSL_CALL", "TOOL_CALL", "RESOURCE", "FORK", "JOIN",
             "GENERATE_SUBGRAPH", "ASSERT"}

\* A template is a text, or shows the value of one key.
Template == [text : STRING] \cup [ref : STRING]
TemplateField == [key : STRING, template : Template]

\* What a handler counts on: one prompt or condition where it renders one, and
\* the keys of an assign node from a map.
IsNode(n) ==
  /\ DOMAIN n = {"path", "type", "templates", "output_keys", "tool", "permissions",
                 "on_failure", "info"}
  /\ n.type \in NodeType /\ n.templates \in Seq(TemplateField) /\ n.output_keys \in Seq(STRING)
  /\ n.type \in {"DSL_CALL", "GENERATE_SUBGRAPH", "ASSERT"} => Len(n.templates) = 1
  /\ n.type = "ASSIGN" =>
       \A i, j \in DOMAIN n.templates : n.templates[i].key = n.templates[j].key => i = j

Shows(template) == "ref" \in DOMAIN template
Renders(template, ctx) == Shows(template) => template.ref \in DOMAIN ctx
Rendered(template, ctx) ==
  IF Shows(template) THEN Rendering(ctx[template.ref]) ELSE Str(template.text)

AllRender(n, ctx) == \A i \in DOMAIN n.templates : Renders(n.templates[i].template, ctx)

Returns(ctx) == [out |-> "ok", context |-> ctx]
Throws == [out |-> "throw", context |-> NoFields]
Jumps == [out |-> "jump", context |-> NoFields]

\* A handler throws a message that quotes text, which the scheduler searches.
Quoting(text) == IF text \in DOMAIN Jumping THEN Jumps ELSE Throws

\* check_permissions: a "tool:" permission needs a tool of either kind.
Permitted(n) == \A name \in n.permissions : HasTool(name)

BugAssigned(fields, ctx) ==
  LET after[i \in 0..Len(fields)] ==
        IF i = 0 THEN ctx
        ELSE Put(after[i-1], fields[i].key, Rendered(fields[i].template, after[i-1]))
  IN after[Len(fields)]

\* One field after the other, each rendered from the context given.
Assigned(fields, ctx) ==
  LET after[i \in 0..Len(fields)] ==
        IF i = 0 THEN ctx
        ELSE Put(after[i-1], fields[i].key, Rendered(fields[i].template, ctx))
  IN after[Len(fields)]

ExecuteAssign(n, ctx) ==
  IF AllRender(n, ctx) THEN Returns(Assigned(n.templates, ctx)) ELSE Throws

BugStoreOutputs(ctx, keys, result) ==
  IF Len(keys) = 1 THEN Put(ctx, keys[1], result)
  ELSE IF IsObject(result) THEN PutAll(ctx, result.fields)
  ELSE IF keys # << >> THEN Put(ctx, keys[1], result)
  ELSE ctx

\* The output keys of a tool call: a single key takes the whole answer,
\* several take the fields they name, if the answer has them.
StoreOutputs(ctx, keys, result) ==
  IF Len(keys) = 1 THEN Put(ctx, keys[1], result)
  ELSE IF IsObject(result) THEN
    PutAll(ctx, [k \in Lists!ToSet(keys) \cap DOMAIN result.fields |-> result.fields[k]])
  ELSE IF keys # << >> THEN Put(ctx, keys[1], result)
  ELSE ctx

ExecuteToolCall(n, ctx) ==
  IF AllRender(n, ctx) /\ HasTool(n.tool)
  THEN {Returns(StoreOutputs(ctx, n.output_keys, result)) : result \in CallTool(n.tool)}
  ELSE {Throws}

\* A model that is asked and has no key to answer to throws all the same.
ExecuteDslNode(n, ctx) ==
  IF AllRender(n, ctx)
  THEN {IF "success" \notin DOMAIN answer.fields THEN Quoting(answer.fields.error)
        ELSE IF n.output_keys = << >> THEN Throws
        ELSE Returns(Put(ctx, n.output_keys[1], answer.fields.text)) : answer \in CallLlmTool(n.tool)}
  ELSE {Throws}

\* inject_subgraphs_into_prompt: the prompt, and only it, sees the libraries.
WithSubgraphs(ctx) == Put(ctx, "available_subgraphs", Array(<< >>))

\* The session leaves the prompt in the context it hands over.
InjectPrompt(n, ctx) ==
  Put(ctx, "__rendered_prompt__", Rendered(n.templates[1].template, WithSubgraphs(ctx)))

\* What the parser throws of a document may quote a path or a type of it.
\* One generated path is stored as a string, none or several as an array.
PathsValue(paths) == IF Len(paths) = 1 THEN Str(paths[1])
                     ELSE Array([i \in DOMAIN paths |-> Str(paths[i])])

ExecuteGenerateSubgraph(n, ctx) ==
  {Throws} \cup
  IF ~Renders(n.templates[1].template, WithSubgraphs(ctx)) THEN {}
  ELSE LET given == InjectPrompt(n, ctx)
       IN {Quoting(text) : text \in DOMAIN Jumping} \cup
          {Returns(IF n.output_keys = << >> THEN given
                   ELSE Put(given, n.output_keys[1], PathsValue(paths))) : paths \in GeneratedPaths}

Holds(text) == text \in {Str("true")} \cup {Str(x) : x \in Numeral}
Fails(text) == text \in {Str("false"), Str("0")}

\* A condition that is neither a truth value nor a number throws, and quotes it.
ExecuteAssert(n, ctx) ==
  IF ~AllRender(n, ctx) THEN {Throws}
  ELSE LET text == Rendered(n.templates[1].template, ctx)
       IN IF Holds(text) THEN {Returns(ctx)}
          ELSE IF ~Fails(text) THEN {Quoting(text)}
          ELSE IF n.on_failure # NoPath THEN {Jumps} ELSE {Throws}

BugExecuteFork(n, ctx) == {Returns(ctx)}

\* execute_fork, execute_join
ExecuteFork(n, ctx) == {Throws}

ExecuteNode(n, ctx) ==
  IF ~Permitted(n) THEN {Throws}
  ELSE CASE n.type = "ASSIGN" -> {ExecuteAssign(n, ctx)}
         [] n.type = "TOOL_CALL" -> ExecuteToolCall(n, ctx)
         [] n.type = "DSL_CALL" -> ExecuteDslNode(n, ctx)
         [] n.type = "GENERATE_SUBGRAPH" -> ExecuteGenerateSubgraph(n, ctx)
         [] n.type = "ASSERT" -> ExecuteAssert(n, ctx)
         [] n.type \in {"FORK", "JOIN"} -> ExecuteFork(n, ctx)
         [] n.type \in {"START", "END", "RESOURCE"} -> {Returns(ctx)}
==============================================================================
