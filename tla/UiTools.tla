------------------------------- MODULE UiTools -------------------------------
(***************************************************************************)
(* The selection of UI tools (services/ui_tools, middleware/ui_tools.py):  *)
(* after the answer to a request, or for one of its own, an LLM picks among*)
(* the tools of a ConfigMap that the user interface offers, and its calls  *)
(* are validated, deduplicated and capped, in one pass each.               *)
(*                                                                         *)
(* The passes are written as the loops of the code; SelectsFirstValid says *)
(* which calls they let through without following them.                    *)
(***************************************************************************)
EXTENDS Naturals, Sequences, FiniteSets, SequencesExt

CONSTANTS
    Names,          \* names of tools, of those on offer and others the LLM may use
    Selectors,      \* sets of names that the user interface may ask for
    Values,         \* values of the fields of a call
    Null,           \* null
    Empty,          \* the empty string
    Normal,         \* per string: in lower case, without its last digit
    Placeholders,   \* normalized strings that stand for nothing
    ConfigMaps,     \* what the ConfigMap may hold: a config and tool definitions
    Inputs,         \* inputs of the LLM's calls
    NotAnInput,     \* an input that is not a JSON object
    DefaultMax,     \* tools by unique name when the config says none (5)
    NoLimit,        \* a negative maxTools
    Unset,          \* no maxTools
    MaxCalls        \* bound: calls in a response of the LLM

ASSUME UiToolsAssumption ==
    /\ DefaultMax \in Nat \ {0} /\ MaxCalls \in Nat
    /\ NotAnInput \notin Inputs
    /\ DOMAIN Normal \subseteq Values /\ Null \notin DOMAIN Normal
    /\ \A map \in ConfigMaps :
           /\ map.tools \in Seq(Range(map.tools))
           /\ \A tool \in Range(map.tools) : tool.name \in Names
           /\ map.maxTools \in Nat \cup {Unset, NoLimit}

VARIABLES
    at,         \* idle | selecting
    tools,      \* the tools bound to the LLM
    max_tools,  \* how many of them, by name
    calls,      \* the tool calls of the LLM's response
    answer      \* the UI tools selected

vars == <<at, tools, max_tools, calls, answer>>

Init == at = "idle" /\ tools = << >> /\ max_tools = NoLimit /\ calls = << >> /\ answer = << >>

-----------------------------------------------------------------------------
(* The tools on offer.                                                     *)

\* The elements of a sequence that are in a set.
Among(seq, S) ==
    FoldLeft(LAMBDA kept, x : IF x \in S THEN Append(kept, x) ELSE kept, << >>, seq)

\* A definition without a name, description or prompt is left out.
Parsed(map) == Among(map.tools, {tool \in Range(map.tools) : tool.complete})

\* filter_tool: no selector selects nothing.
Filtered(map, selectors) ==
    LET parsed == Parsed(map)
    IN  Among(parsed, {tool \in Range(parsed) : tool.enabled /\ tool.name \in selectors})

\* Zero or nothing is the default, a negative number no limit.
Limit(maxTools) == IF maxTools \in {Unset, 0} THEN DefaultMax ELSE maxTools

-----------------------------------------------------------------------------
(* A call is valid.                                                        *)

\* The first definition of that name.
ToolOf(name) ==
    LET i == CHOOSE i \in DOMAIN tools :
                 /\ tools[i].name = name
                 /\ \A j \in 1..(i - 1) : tools[j].name # name
    IN  tools[i]

HasFields(input, fields) ==
    \A f \in fields : f \in DOMAIN input /\ input[f] \notin {Empty, Null}

\* Every enum field given has one of its options, with what this one requires.
HasOptions(input, tool) ==
    \A f \in DOMAIN tool.options \cap tool.properties \cap DOMAIN input :
        /\ input[f] \in DOMAIN tool.options[f]
        /\ HasFields(input, tool.options[f][input[f]])

\* The options of a selector differ, and at most one of them is a placeholder.
HasDistinctValues(input, tool) ==
    LET given == {f \in tool.properties \cap DOMAIN input : input[f] \in DOMAIN Normal}
    IN  /\ Cardinality({f \in given : Normal[input[f]] \in Placeholders}) <= 1
        /\ \A f, g \in given : f # g => Normal[input[f]] # Normal[input[g]]

Valid(call) ==
    LET tool == ToolOf(call.toolName)
    IN  /\ HasFields(call.input, tool.required)
        /\ HasOptions(call.input, tool)
        /\ tool.category = "selector" => HasDistinctValues(call.input, tool)

-----------------------------------------------------------------------------
(* The calls that are answered.                                            *)

Available(name) == \E i \in DOMAIN tools : tools[i].name = name

\* Calls of other tools are left out, and an input that is no object is empty.
Extracted(response) ==
    LET known == Among(response, {call \in Range(response) : Available(call.toolName)})
    IN  [i \in DOMAIN known |->
            [toolName |-> known[i].toolName,
             input |-> IF known[i].input = NotAnInput THEN << >> ELSE known[i].input]]

Validated(response) == Among(response, {call \in Range(response) : Valid(call)})

\* The first of equal calls is kept.
Deduplicated(response) ==
    FoldLeft(LAMBDA kept, call : IF Contains(kept, call) THEN kept ELSE Append(kept, call),
             << >>, response)

ToolNames(response) == {response[i].toolName : i \in DOMAIN response}

\* A call is kept if its tool is already, or if there is room for one more tool.
Capped(response) ==
    IF max_tools = NoLimit THEN response
    ELSE FoldLeft(LAMBDA kept, call :
                      IF \/ call.toolName \in ToolNames(kept)
                         \/ Cardinality(ToolNames(kept)) < max_tools
                      THEN Append(kept, call) ELSE kept,
                  << >>, response)

\* Mutant: invalid calls use up the limit.
CappedFirst(response) == Validated(Deduplicated(Capped(Extracted(response))))

\* Mutant: the LLM's calls are taken as they come.
Unsanitized(response) == response

Sanitized(response) == Capped(Deduplicated(Validated(Extracted(response))))

-----------------------------------------------------------------------------
\* create_ui_tools_selector reads the ConfigMap anew for each selection; without
\* tools nothing is selected.
Begin(map, selectors) ==
    /\ at = "idle"
    /\ LET offered == Filtered(map, selectors)
           selects == map.enabled /\ offered # << >>
       IN  /\ at' = IF selects THEN "selecting" ELSE "idle"
           /\ tools' = IF selects THEN offered ELSE << >>
           /\ max_tools' = IF selects THEN Limit(map.maxTools) ELSE NoLimit
    /\ calls' = << >> /\ answer' = << >>

\* The response of the LLM has one more tool call.
LlmCalls(call) ==
    /\ at = "selecting" /\ Len(calls) < MaxCalls
    /\ calls' = Append(calls, call)
    /\ UNCHANGED <<at, tools, max_tools, answer>>

SelectTools ==
    /\ at = "selecting"
    /\ answer' = Sanitized(calls)
    /\ at' = "idle" /\ tools' = << >> /\ max_tools' = NoLimit /\ calls' = << >>

\* An error of the LLM or of the validation selects nothing.
SelectionFails ==
    /\ at = "selecting"
    /\ answer' = << >>
    /\ at' = "idle" /\ tools' = << >> /\ max_tools' = NoLimit /\ calls' = << >>

Calls == [toolName : Names, input : Inputs \cup {NotAnInput}]

Next ==
    \/ \E map \in ConfigMaps, selectors \in Selectors : Begin(map, selectors)
    \/ \E call \in Calls : LlmCalls(call)
    \/ SelectTools
    \/ SelectionFails

Spec == Init /\ [][Next]_vars

-----------------------------------------------------------------------------
\* The type of the state: what is answered are calls of tools on offer, with an
\* object for their input.
TypeOK ==
    /\ at \in {"idle", "selecting"}
    /\ \A i \in DOMAIN tools : tools[i].name \in Names
    /\ max_tools \in Nat \cup {NoLimit}
    /\ calls \in Seq(Calls) /\ Len(calls) <= MaxCalls
    /\ answer \in Seq([toolName : Names, input : Inputs \cup {<< >>}])

\* Which of the extracted calls are answered: the valid ones, each once, of the
\* first tools by name that have a valid call; invalid and repeated calls take no
\* tool's place, and all valid calls of a tool that is kept are kept, in order.
SelectsFirstValid ==
    LET given == Extracted(calls)
        valid == {i \in DOMAIN given : Valid(given[i])}
        first == {i \in valid : \A j \in valid : given[j] = given[i] => i <= j}
        before(i) == {given[j].toolName : j \in {k \in valid :
                         \A l \in valid : given[l].toolName = given[i].toolName => k < l}}
        kept == {i \in first : max_tools = NoLimit \/ Cardinality(before(i)) < max_tools}
        selected == Sanitized(calls)
    IN  \E order \in [DOMAIN selected -> kept] :
            /\ \A m, n \in DOMAIN selected : m < n => order[m] < order[n]
            /\ Range(order) = kept
            /\ selected = [n \in DOMAIN selected |-> given[order[n]]]
=============================================================================
