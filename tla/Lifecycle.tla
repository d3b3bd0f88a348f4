----------------------------- MODULE Lifecycle -----------------------------
(***************************************************************************)
(* What the service promises the owner of the business about a request:    *)
(* the two human gates of REQUIREMENTS.md section 6, with nothing of the   *)
(* handlers, records, links and notifications that bring it about. A       *)
(* document appears only between the two gates, one for every visit, and   *)
(* is of the kind that was on the table at the first gate.                 *)
(***************************************************************************)
EXTENDS Naturals, Sequences, Workflow

CONSTANT Requests

VARIABLES
    phase,      \* "unknown", or the service is "reading" or "writing", or the
                \* owner has a "question" or a "review", or it is "over"
    proposal,   \* the intent that is on the table
    documents   \* the kinds of the documents the owner was given, in order

vars == <<phase, proposal, documents>>

Init ==
    /\ phase = [r \in Requests |-> "unknown"]
    /\ proposal = [r \in Requests |-> "none"]
    /\ documents = [r \in Requests |-> << >>]

\* A request moves on, and nothing else changes.
Move(r, from, to) ==
    /\ phase[r] = from
    /\ phase' = [phase EXCEPT ![r] = to]

Start(r) ==
    /\ Move(r, "unknown", "reading")
    /\ UNCHANGED <<proposal, documents>>

\* The owner is asked about a kind of document; about nothing, it is over.
Ask(r) ==
    /\ \E i \in Actionable : proposal' = [proposal EXCEPT ![r] = i]
    /\ Move(r, "reading", "question")
    /\ UNCHANGED documents

Dismiss(r) ==
    /\ Move(r, "reading", "over")
    /\ UNCHANGED <<proposal, documents>>

Correct(r) ==
    /\ phase[r] = "question"
    /\ \E i \in Actionable : proposal' = [proposal EXCEPT ![r] = i]
    /\ UNCHANGED <<phase, documents>>

\* The owner confirms at the first gate, or asks for a revision at the second.
Commission(r) ==
    /\ Move(r, "question", "writing") \/ Move(r, "review", "writing")
    /\ UNCHANGED <<proposal, documents>>

Deliver(r) ==
    /\ Move(r, "writing", "review")
    /\ documents' = [documents EXCEPT ![r] = Append(@, proposal[r])]
    /\ UNCHANGED proposal

\* The owner rejects or approves, or the service gives up.
End(r) ==
    /\ \E from \in {"question", "review", "writing"} : Move(r, from, "over")
    /\ UNCHANGED <<proposal, documents>>

\* The records are in memory, and the process stops.
Forget == Init'

Next ==
    \/ \E r \in Requests :
          \/ Start(r) \/ Ask(r) \/ Dismiss(r) \/ Correct(r)
          \/ Commission(r) \/ Deliver(r) \/ End(r)
    \/ Forget

Spec == Init /\ [][Next]_vars

-----------------------------------------------------------------------------
\* FR-GEN-01, of the promise itself: all documents of a request are of one
\* kind, that of the intent on the table, which no correction changes once the
\* request has been through the first gate.
OneKind ==
    \A r \in Requests : documents[r] # << >> =>
        /\ phase[r] \in {"writing", "review", "over"}
        /\ \A n \in DOMAIN documents[r] : documents[r][n] = proposal[r]

=============================================================================
