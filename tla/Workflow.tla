------------------------------ MODULE Workflow ------------------------------
(***************************************************************************)
(* The vocabulary and the transition table of the request lifecycle:       *)
(* workflow/enums.py, workflow/state_machine.py, workflow/triggers.py.     *)
(*                                                                         *)
(* The table is a set of triples <<state, trigger, next state>>; a trigger *)
(* that no triple lists for a state raises IllegalTransitionError.         *)
(***************************************************************************)

RequestState ==
    {"received", "aggregating", "processing_media", "classifying",
     "awaiting_classification", "generating", "rendering",
     "awaiting_approval", "completed", "discarded", "failed"}

TERMINAL_STATES == {"completed", "discarded", "failed"}

Intent == {"quote", "execution_plan", "none"}

\* ClassificationResult.is_actionable: the intents a document can be made for.
Actionable == Intent \ {"none"}

OwnerDecision == {"confirm", "correct", "reject", "approve", "revise"}

Trigger ==
    {"start_aggregation", "window_closed", "media_processed",
     "classified_actionable", "classified_none", "owner_confirmed",
     "owner_corrected", "owner_rejected", "generated", "rendered",
     "owner_approved", "owner_requested_revision", "fail"}

Edges ==
    {<<"received", "start_aggregation", "aggregating">>,
     <<"aggregating", "window_closed", "processing_media">>,
     <<"processing_media", "media_processed", "classifying">>,
     <<"classifying", "classified_actionable", "awaiting_classification">>,
     <<"classifying", "classified_none", "discarded">>,
     <<"awaiting_classification", "owner_confirmed", "generating">>,
     <<"awaiting_classification", "owner_corrected",
       "awaiting_classification">>,
     <<"awaiting_classification", "owner_rejected", "discarded">>,
     <<"generating", "generated", "rendering">>,
     <<"rendering", "rendered", "awaiting_approval">>,
     <<"awaiting_approval", "owner_approved", "completed">>,
     <<"awaiting_approval", "owner_requested_revision", "generating">>}

FailEdges == {<<s, "fail", "failed">> : s \in RequestState \ TERMINAL_STATES}

\* Mutant: a correction of a document that is up for approval reopens the first
\* gate.
CorrectReopens ==
    Edges \cup FailEdges
    \cup {<<"awaiting_approval", "owner_corrected", "awaiting_classification">>}

TRANSITIONS == Edges \cup FailEdges

\* next_state(state, trigger) returns; otherwise it raises.
Legal(state, trigger) == \E n \in RequestState : <<state, trigger, n>> \in TRANSITIONS

trigger_for ==
    [confirm |-> "owner_confirmed",
     correct |-> "owner_corrected",
     reject  |-> "owner_rejected",
     approve |-> "owner_approved",
     revise  |-> "owner_requested_revision"]

=============================================================================
