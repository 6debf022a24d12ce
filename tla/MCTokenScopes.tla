--------------------------- MODULE MCTokenScopes ---------------------------
(***************************************************************************)
(* Two repositories, the caller's own and another, and two permissions,    *)
(* one of them excluded for writing.  The configurations: one rule with    *)
(* one cap of every shape, sound or not; one rule with two sound caps; a   *)
(* rule for the whole repository beside one for a workflow of it, each     *)
(* with or without a cap; and rules that the start must refuse.            *)
(***************************************************************************)
EXTENDS TokenScopes

CONSTANTS Own, Other

MCRepos == {Own, Other}
MCPerms == {"workflows", "statuses"}

CapPerms == {[p \in {} |-> 0], [p \in {"statuses"} |-> 1], [p \in {"workflows"} |-> 2],
             [p \in MCPerms |-> IF p = "statuses" THEN 2 ELSE 1]}

RawCaps ==
    {[repositories |-> rs, exclude |-> ex, permissions |-> ps] :
        rs \in {Nil, {}, {Own}, {Other}, MCRepos}, ex \in {Nil, {}, {Own}, {Other}},
        ps \in CapPerms \cup {Nil, [p \in {"statuses"} |-> 0]}}

Rule(workflow, tools, caps) ==
    [repository |-> Own, workflow |-> workflow, tools |-> tools, caps |-> caps]

SoundCaps == {c \in RawCaps : parseRule(Rule(NoWorkflow, {TokenTool}, <<c>>))}

MCConfigs ==
    {<<Rule(NoWorkflow, {TokenTool}, <<c>>)>> : c \in RawCaps}
    \cup {<<Rule(NoWorkflow, {TokenTool}, <<c, d>>)>> : c, d \in SoundCaps}
    \cup {<<Rule(NoWorkflow, ToolNames, cs), Rule("w", {TokenTool}, ds)>> :
            cs, ds \in {<<>>} \cup {<<c>> : c \in SoundCaps}}
    \cup {<<>>, <<Rule(NoWorkflow, {}, <<>>)>>, <<Rule(NoWorkflow, {"gone"}, <<>>)>>}
    \cup {<<Rule(NoWorkflow, {StatusTool}, cs), Rule(w, {TokenTool}, <<>>)>> :
            w \in {NoWorkflow, "w"}, cs \in {<<>>} \cup {<<c>> : c \in SoundCaps}}

MCCallers ==
    {Nil, [repository |-> Other, workflow |-> "w"]}
    \cup [repository : {Own}, workflow : {NoWorkflow, "w"}]
=============================================================================
