-------------------------- MODULE MCSemanticEvents --------------------------
(***************************************************************************)
(* Three nodes, at most five records.  A node may depend on a node that      *)
(* comes later or never, and name a diagnostic that comes or does not.       *)
(***************************************************************************)
EXTENDS SemanticEvents

ANode(id, status, dependencies, diagnostics) ==
    [kind |-> "node", id |-> id, status |-> status,
     dependencies |-> dependencies, diagnostics |-> diagnostics]

Nodes ==
    {ANode("n1", "validated", {}, {}),
     ANode("n1", "validated", {"n2"}, {}),
     ANode("n1", "provisional", {"n2"}, {}),
     ANode("n2", "validated", {}, {}),
     ANode("n2", "validated", {"n1"}, {}),
     ANode("n2", "provisional", {"n1", "n3"}, {}),
     ANode("n2", "error", {}, {"d"}),
     ANode("n3", "unavailable", {}, {})}

Identities ==
    {[kind |-> "identity", id |-> "v", sub |-> "binding", owner |-> owner,
      status |-> status] :
        owner \in {"n1", "n2"}, status \in {"validated", "provisional"}}

AReference(status, visible, reason, diagnostics) ==
    [kind |-> "reference", id |-> "r", owner |-> "n1", status |-> status,
     space |-> "value", visible |-> visible, reason |-> reason,
     target |-> IF visible THEN [sub |-> "binding", id |-> "v"]
                ELSE [sub |-> "none", id |-> "v"],
     dependencies |-> {}, diagnostics |-> diagnostics]

References ==
    {AReference("validated", TRUE, FALSE, {}),
     AReference("unavailable", TRUE, FALSE, {}),
     AReference("unavailable", FALSE, TRUE, {}),
     AReference("error", FALSE, TRUE, {"d"})}

AFact(kind, status, dependencies) ==
    [kind |-> "fact", sub |-> kind, owner |-> "n1", status |-> status,
     dependencies |-> dependencies, diagnostics |-> {},
     display |-> status # "unavailable", reason |-> status = "unavailable"]

Facts ==
    {AFact(1, "validated", {"n2"}), AFact(1, "provisional", {"n2"}),
     AFact(2, "unavailable", {})}

Diagnostics ==
    {[kind |-> "diagnostic", id |-> "d", severity |-> severity,
      affected |-> {"n2"}] : severity \in {"error", "note"}}
=============================================================================
