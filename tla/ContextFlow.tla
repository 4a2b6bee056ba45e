------------------------------ MODULE ContextFlow ------------------------------
(***************************************************************************)
(* The context on its way through a run: every node is given the context   *)
(* of the last one that succeeded, with the resources, and leaves its own  *)
(* and a trace of what it changed.  Which node comes next is the           *)
(* scheduler's matter (TopoScheduler); here it may be any.                 *)
(***************************************************************************)
EXTENDS NodeHandlers, ResourceManager

CONSTANTS Programs,          \* the nodes of the workflows that may be run
          InitialContexts,   \* the contexts run() may be given
          MaxSteps           \* how many nodes are executed

IsProgram(p) == p \in Seq(Lists!ToSet(p)) /\ \A n \in Lists!ToSet(p) : IsNode(n)

IsContext(ctx) == /\ ctx = [k \in DOMAIN ctx |-> ctx[k]]
                  /\ \A k \in DOMAIN ctx : ctx[k].kind \in JsonKind

ASSUME FlowAssumption == /\ \A p \in Programs : IsProgram(p)
                         /\ \A ctx \in InitialContexts : IsContext(ctx)
                         /\ MaxSteps \in Nat

VARIABLES program, initial_context,
          resources,         \* resource_manager_
          context,
          traces             \* the records of on_node_end, with their deltas

vars == <<program, initial_context, resources, context, traces, tools, llm_tools>>

TD == INSTANCE TraceDelta
NX == INSTANCE NodeExecutor WITH UserPath <- {}, Workflows <- {}

Init == /\ program \in Programs
        /\ context \in InitialContexts
        /\ initial_context = context
        /\ resources = RegisterResources(program)
        /\ tools \in {DefaultTools, DefaultTools \cup DOMAIN Results}
        /\ llm_tools \in {{}, {"llama"}}
        /\ traces = << >>

Record(n, r, given) ==
  [node_path |-> n.path, status |-> IF r.out = "ok" THEN "success" ELSE "failed",
   context_delta |-> TD!Delta(given, r.context)]

\* execute_node of the session, and the scheduler taking the context over.
\* The context of a node that fails is null, and its delta is from there.
Execute(n) ==
  /\ Len(traces) < MaxSteps
  /\ LET given == InjectResources(context, resources) IN
       \E r \in ExecuteNode(n, given) :
          /\ context' = IF r.out = "ok" THEN r.context ELSE context
          /\ traces' = Append(traces, Record(n, r, given))
  /\ UNCHANGED <<program, initial_context, resources, tools, llm_tools>>

\* The run may be over after any node.
Next == \E n \in Lists!ToSet(program) : Execute(n)

Spec == Init /\ [][Next]_vars

-----------------------------------------------------------------------------

\* Every variable keeps its type, and a resource is what the last RESOURCE node
\* of its path declares, whichever nodes have run.
Declares(i, path) == Resource(program[i]) /\ program[i].path = path

TypeOK ==
  /\ DOMAIN resources = {program[i].path : i \in {j \in DOMAIN program : Resource(program[j])}}
  /\ \A path \in DOMAIN resources : \E i \in DOMAIN program :
       /\ Declares(i, path) /\ resources[path] = Object(program[i].info)
       /\ \A j \in DOMAIN program : Declares(j, path) => j <= i
  /\ IsContext(context)
  /\ \A i \in DOMAIN traces :
       traces[i].status \in {"success", "failed"} /\ IsContext(traces[i].context_delta)

\* What a reader of the traces knows of a context: no null, and no resources
\* where they are injected.
Injected == IF DOMAIN resources = {} THEN {} ELSE {"resources"}
Visible(ctx) == TD!WithoutNulls([k \in DOMAIN ctx \ Injected |-> ctx[k]])

Succeeded(record) == record.status = "success"

\* What a reader makes of a context by applying the deltas of the nodes that
\* succeeded.
Replay(records, ctx) ==
  LET after[i \in 0..Len(records)] ==
        IF i = 0 THEN ctx
        ELSE IF Succeeded(records[i]) THEN TD!Patch(after[i-1], records[i].context_delta)
        ELSE after[i-1]
  IN after[Len(records)]

\* The traces suffice to replay a run: the deltas of the nodes that succeeded,
\* applied to the context the run was given, make the present context, however
\* many nodes failed in between.
TracesReplay ==
  Visible(Replay(traces, Visible(initial_context))) = Visible(context)

Outputs(n) ==
  Lists!ToSet(n.output_keys)
    \cup (IF n.type = "ASSIGN" THEN {n.templates[i].key : i \in DOMAIN n.templates} ELSE {})
    \cup (IF n.type = "GENERATE_SUBGRAPH" THEN {"__rendered_prompt__"} ELSE {})
    \cup Injected

\* A node changes what it declares as its output and nothing else, whatever a
\* tool answers, and deletes nothing.
OnlyOutputsChange ==
  [][\A n \in Lists!ToSet(program) :
       Execute(n) =>
         /\ DOMAIN context \subseteq DOMAIN context'
         /\ \A k \in DOMAIN context' \ Outputs(n) :
              k \in DOMAIN context /\ context'[k] = context[k]]_vars

\* The fields of an assign node are iterated in the order of an unordered map:
\* whether it succeeds and what it assigns does not depend on that order.
Orders(fields) == {order \in [DOMAIN fields -> Lists!ToSet(fields)] :
                     Lists!ToSet(order) = Lists!ToSet(fields)}

AssignOrderIsMoot ==
  \A n \in Lists!ToSet(program) :
     n.type = "ASSIGN" =>
       \A order \in Orders(n.templates) :
          ExecuteAssign([n EXCEPT !.templates = order], context) = ExecuteAssign(n, context)

Abstract(n) == [type |-> n.type, guarded |-> n.permissions # {}, on_failure |-> n.on_failure,
                said |-> IF NX!Quotes(n) THEN {Jumping[text] : text \in DOMAIN Jumping} ELSE {}]

\* The scheduler's view of the handlers covers what they do to any context of
\* a run: no outcome it does not expect, no jump by a text that came through
\* the context except where it expects one, no write by a node it takes for a
\* reader.
AbstractsHandlers ==
  \A n \in Lists!ToSet(program) : \A r \in ExecuteNode(n, context) :
     /\ r.out \in NX!Outcomes(Abstract(n))
     /\ r.out = "ok" /\ ~NX!Writes(Abstract(n)) => r.context = context
==============================================================================
