-------------------------- MODULE MCUnexecutedCheck --------------------------
(* Every order of every set of up to four paths. *)
EXTENDS UnexecutedCheck

MCPaths == 1..4

MCListings == UNION {{s \in [1..n -> MCPaths] : \A k, l \in 1..n : s[k] = s[l] => k = l} : n \in 0..4}
==============================================================================
