---------------------------- MODULE McpEndpoint -----------------------------
(***************************************************************************)
(* What the desktop promises about its MCP endpoint, whatever the order of *)
(* start, stop and restart calls: at most one server listens, and the one  *)
(* that listens must be gone before another one comes up.                  *)
(***************************************************************************)
CONSTANTS Workspaces, Ports

VARIABLE up   \* the pairs <<port, workspace>> that listen

Init == up = {}

Serve(p, w) == up = {} /\ up' = {<<p, w>>}

Release == up # {} /\ up' = {}

Next == Release \/ \E p \in Ports, w \in Workspaces : Serve(p, w)

Spec == Init /\ [][Next]_up
=============================================================================
