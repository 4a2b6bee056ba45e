--------------------------- MODULE ResourceManager ---------------------------
(***************************************************************************)
(* The resources of a run: registered from its RESOURCE nodes before the   *)
(* DAG is built, the last one of a path replacing the others, and shown to *)
(* every node under the key "resources" of its context.                    *)
(***************************************************************************)
EXTENDS Json

Resource(n) == n.type = "RESOURCE"

BugRegisterResource(resources, n) ==
  IF n.path \in DOMAIN resources THEN resources ELSE Put(resources, n.path, Object(n.info))

RegisterResource(resources, n) == Put(resources, n.path, Object(n.info))

\* register_resources
RegisterResources(nodes) ==
  LET after[i \in 0..Len(nodes)] ==
        IF i = 0 THEN NoFields
        ELSE IF Resource(nodes[i]) THEN RegisterResource(after[i-1], nodes[i])
        ELSE after[i-1]
  IN after[Len(nodes)]

\* get_resources_context: the metadata of a resource is not shown.
ResourcesContext(resources) == Object(resources)

\* execute_node: a context of its own for the node, unless there are none.
InjectResources(context, resources) ==
  IF DOMAIN resources = {} THEN context
  ELSE Put(context, "resources", ResourcesContext(resources))
==============================================================================
