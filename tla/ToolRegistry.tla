----------------------------- MODULE ToolRegistry -----------------------------
(***************************************************************************)
(* The tools a node may call and what a call may answer.  Tools answer     *)
(* with any JSON value and never throw: what goes wrong becomes an object  *)
(* with a field "error".  LLM tools are kept in a table of their own.      *)
(***************************************************************************)
EXTENDS Json

CONSTANTS Results,     \* what the functions registered by the application return
          ModelErrors  \* the errors an LLM tool may report

\* The values are JSON, and so are the fields of the objects among them.
ASSUME ToolAssumption ==
  \A name \in DOMAIN Results : \A v \in Results[name] :
     /\ v.kind \in JsonKind
     /\ IsObject(v) => \A k \in DOMAIN v.fields : v.fields[k].kind \in JsonKind

VARIABLES tools,      \* the names in tools_
          llm_tools   \* the names in llm_tools_

Answer(key, v) == Object(Put(NoFields, key, v))
Error == Answer("error", Str("failure"))

\* register_default_tools: fixed answers, and a calculator that may refuse.
DefaultResults ==
  [web_search |-> {Answer("results", Str("found"))},
   get_weather |-> {Object([location |-> Str("here"), condition |-> Str("Sunny"),
                            temperature_c |-> Num("22")])},
   calculate |-> {Answer("result", Num("3.0")), Error}]

DefaultTools == DOMAIN DefaultResults

HasTool(name) == name \in tools \cup llm_tools

\* A function that throws answers like one that was not found.
CallTool(name) ==
  IF name \notin tools THEN {Error}
  ELSE IF name \in DOMAIN Results THEN Results[name] \cup {Error}
  ELSE DefaultResults[name]

\* A model that fails, or throws, answers with an error.
CallLlmTool(name) ==
  {Error} \cup IF name \in llm_tools
               THEN {Object([success |-> Str("true"), text |-> Str("answer")])}
                      \cup {Answer("error", text) : text \in ModelErrors} ELSE {}
==============================================================================
