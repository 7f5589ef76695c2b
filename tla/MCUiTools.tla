------------------------------ MODULE MCUiTools ------------------------------
(* Values of the constants of UiTools for TLC: a table that needs a title,  *)
(* a selector of two options, and a link whose kind may require a title.    *)
EXTENDS UiTools

CONSTANTS table, selector, link, unknown, null, empty, pod1, pod2, option1, name1, wide

MCNames == {table, selector, link, unknown}
MCSelectors == {{}, {table, selector, link}, {table, unknown}}
MCValues == {null, empty, pod1, pod2, option1, name1, wide}
MCNormal ==
    [v \in MCValues \ {null} |->
        CASE v \in {pod1, pod2} -> "pod" [] v = option1 -> "option" [] v = name1 -> "name"
          [] v = wide -> "wide" [] v = empty -> ""]
MCPlaceholders == {"option", "name"}

Tool(name, category, required, options) ==
    [name |-> name, complete |-> TRUE, enabled |-> TRUE, category |-> category,
     properties |-> {"a", "b"}, required |-> required, options |-> options]

NoOptions == << >>
WideRequiresB == [a |-> (wide :> {"b"} @@ pod1 :> {})]

MCTools == <<Tool(table, "custom", {"a"}, NoOptions),
             Tool(selector, "selector", {}, NoOptions),
             Tool(link, "custom", {}, WideRequiresB)>>

Config(enabled, max, tools_) == [enabled |-> enabled, maxTools |-> max, tools |-> tools_]

MCConfigMaps ==
    {Config(TRUE, 1, MCTools), Config(TRUE, 2, MCTools), Config(TRUE, 0, MCTools),
     Config(TRUE, NoLimit, MCTools), Config(FALSE, 1, MCTools),
     Config(TRUE, Unset, [MCTools EXCEPT ![1].complete = FALSE, ![2].enabled = FALSE]),
     Config(TRUE, 1, <<[MCTools[1] EXCEPT !.enabled = FALSE], [MCTools[1] EXCEPT !.required = {}]>>)}

MCInputs == {[a |-> pod1, b |-> pod2], [a |-> option1, b |-> name1],
             [a |-> wide, b |-> null], [a |-> pod1, b |-> empty]}
=============================================================================
