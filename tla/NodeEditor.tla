----------------------------- MODULE NodeEditor -----------------------------
(***************************************************************************)
(* The node drawers of the admin console: the one of the Nodes section and *)
(* the one of the Latency section.  A drawer copies a row of the list and  *)
(* fetches the node's Agent configuration; Save sends both.  Nothing ties  *)
(* an answer to the drawer that asked for it, and a drawer can be closed   *)
(* and another opened while requests are in flight.  A configuration or a  *)
(* correction is modelled by the node it was read from.                    *)
(***************************************************************************)
EXTENDS Naturals

CONSTANTS EditNodes, Nobody, MaxEdits

ASSUME EditorAssumption == Nobody \notin EditNodes /\ MaxEdits \in Nat

Owners == EditNodes \cup {Nobody}

VARIABLES
    drawer,         \* "nodes" (AdminNodes) or "latency" (AdminLatency)
    editing,        \* the node whose drawer is open, or Nobody
    agentConfig,    \* whose configuration the drawer holds
    inputs,         \* whose totals the correction inputs hold (trafficCorrection)
    fetches,        \* fetches[n]: fetches for node n not yet answered
    saving,         \* [node, step]: the save in flight, its node Nobody when not busy
    correcting,     \* the node whose correction request is in flight (correctionBusy)
    edits,          \* drawers opened, bounded by MaxEdits
    crossed,        \* history variable: a drawer was opened over another one's requests
    wrote           \* history variable: <<node, owner>>, each configuration or correction sent

editorVars == <<drawer, editing, agentConfig, inputs, fetches, saving, correcting, edits, crossed,
                wrote>>

Steps == {"node", "config", "latency", "both"}
Idle == [node |-> Nobody, step |-> "node"]

EditorTypeOK ==
    /\ drawer \in {"nodes", "latency"}
    /\ editing \in Owners /\ agentConfig \in Owners /\ inputs \in Owners
    /\ fetches \in [EditNodes -> 0..MaxEdits]
    /\ saving \in [node : Owners, step : Steps]
    /\ correcting \in Owners /\ edits \in 0..MaxEdits
    /\ crossed \in BOOLEAN /\ wrote \subseteq EditNodes \X Owners

EditorInit ==
    /\ drawer \in {"nodes", "latency"}
    /\ editing = Nobody /\ agentConfig = Nobody /\ inputs = Nobody
    /\ fetches = [n \in EditNodes |-> 0] /\ saving = Idle /\ correcting = Nobody
    /\ edits = 0 /\ crossed = FALSE /\ wrote = {}

----------------------------------------------------------------------------
\* Opening n's drawer finds something of another node still about.
Crosses(n) ==
    \/ \E m \in EditNodes \ {n} : fetches[m] > 0
    \/ saving.node \notin {Nobody, n} \/ correcting \notin {Nobody, n}
    \/ drawer = "latency" /\ agentConfig \notin {Nobody, n}

\* The drawer covers the list, so it is closed before another is opened.
Open(n) ==
    /\ editing = Nobody /\ edits < MaxEdits
    /\ editing' = n
    /\ fetches' = [fetches EXCEPT ![n] = @ + 1]
    /\ edits' = edits + 1
    /\ crossed' = (crossed \/ Crosses(n))
    /\ UNCHANGED <<drawer, saving, correcting, wrote>>

\* Fault: edit() does not clear what the previous drawer held.
EditKeeping(n) == drawer = "nodes" /\ Open(n) /\ UNCHANGED <<agentConfig, inputs>>

\* edit(n) of AdminNodes up to its await.
Edit(n) == drawer = "nodes" /\ Open(n) /\ agentConfig' = Nobody /\ inputs' = Nobody

\* editNode(n) of AdminLatency, which keeps the configuration it holds.
EditNode(n) == drawer = "latency" /\ Open(n) /\ UNCHANGED <<agentConfig, inputs>>

\* The answer of a fetch, whichever drawer is open by now; a failed one changes nothing.
EndFetch(n, ok) ==
    /\ fetches[n] > 0
    /\ fetches' = [fetches EXCEPT ![n] = @ - 1]
    /\ IF ok THEN /\ agentConfig' = n
                  /\ inputs' = IF drawer = "nodes" THEN n ELSE inputs
             ELSE UNCHANGED <<agentConfig, inputs>>
    /\ UNCHANGED <<drawer, editing, saving, correcting, edits, crossed, wrote>>

CloseDrawer ==
    /\ editing # Nobody
    /\ editing' = Nobody
    /\ UNCHANGED <<drawer, agentConfig, inputs, fetches, saving, correcting, edits, crossed, wrote>>

\* save() of AdminNodes awaits three requests one after the other; the first carries the
\* node.
Save ==
    /\ drawer = "nodes" /\ editing # Nobody /\ agentConfig # Nobody /\ saving = Idle
    /\ saving' = [node |-> editing, step |-> "node"]
    /\ UNCHANGED <<drawer, editing, agentConfig, inputs, fetches, correcting, edits, crossed, wrote>>

\* The answer of a request of save().  The second request carries agentConfig as it is
\* then.  The last answer closes the drawer that is open.
EndSaveStep ==
    /\ saving # Idle
    /\ \/ /\ saving.step = "node" /\ agentConfig # Nobody
          /\ saving' = [saving EXCEPT !.step = "config"]
          /\ wrote' = wrote \cup {<<saving.node, agentConfig>>}
          /\ UNCHANGED editing
       \/ /\ saving.step = "node" /\ agentConfig = Nobody     \* "null" is refused
          /\ saving' = Idle /\ UNCHANGED <<wrote, editing>>
       \/ /\ saving.step = "config"
          /\ saving' = [saving EXCEPT !.step = "latency"] /\ UNCHANGED <<wrote, editing>>
       \/ /\ saving.step = "latency"
          /\ saving' = Idle /\ editing' = Nobody /\ UNCHANGED wrote
    /\ UNCHANGED <<drawer, agentConfig, inputs, fetches, correcting, edits, crossed>>

\* saveNode() of AdminLatency sends its two requests at once ...
SaveBoth ==
    /\ drawer = "latency" /\ editing # Nobody /\ agentConfig # Nobody /\ saving = Idle
    /\ saving' = [node |-> editing, step |-> "both"]
    /\ wrote' = wrote \cup {<<editing, agentConfig>>}
    /\ UNCHANGED <<drawer, editing, agentConfig, inputs, fetches, correcting, edits, crossed>>

\* ... and closes the drawer that is open when both are answered.
EndSaveBoth ==
    /\ saving # Idle /\ saving.step = "both"
    /\ saving' = Idle /\ editing' = Nobody /\ agentConfig' = Nobody
    /\ UNCHANGED <<drawer, inputs, fetches, correcting, edits, crossed, wrote>>

\* A request of the save is refused or lost: the drawer stays, with the error.
FailSave ==
    /\ saving # Idle
    /\ saving' = Idle
    /\ UNCHANGED <<drawer, editing, agentConfig, inputs, fetches, correcting, edits, crossed, wrote>>

\* applyTrafficCorrection and clearTrafficCorrection; only AdminNodes fills the inputs.
Correct ==
    /\ editing # Nobody /\ inputs # Nobody /\ correcting = Nobody
    /\ correcting' = editing
    /\ wrote' = wrote \cup {<<editing, inputs>>}
    /\ UNCHANGED <<drawer, editing, agentConfig, inputs, fetches, saving, edits, crossed>>

EndCorrect(ok) ==
    /\ correcting # Nobody
    /\ inputs' = IF ok THEN correcting ELSE inputs
    /\ correcting' = Nobody
    /\ UNCHANGED <<drawer, editing, agentConfig, fetches, saving, edits, crossed, wrote>>

EditorNext ==
    \/ \E n \in EditNodes : Edit(n) \/ EditNode(n) \/ \E ok \in BOOLEAN : EndFetch(n, ok)
    \/ CloseDrawer \/ Save \/ EndSaveStep \/ SaveBoth \/ EndSaveBoth \/ FailSave
    \/ Correct \/ \E ok \in BOOLEAN : EndCorrect(ok)

EditorSpec == EditorInit /\ [][EditorNext]_editorVars

----------------------------------------------------------------------------
\* As long as no drawer was opened while something of another node was still in flight (or,
\* in the Latency section, still held), every configuration and every correction sent to a
\* node is the one read from that node.
OwnConfigWritten == ~crossed => \A w \in wrote : w[1] = w[2]
=============================================================================
