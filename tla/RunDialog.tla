----------------------------- MODULE RunDialog -----------------------------
(***************************************************************************)
(* The run-workflow dialog of the definitions page: the app's runButton    *)
(* and runWorkflow methods (src/workflow/static/script.js) and the data    *)
(* fields they write.  runWorkflow posts to /workflow/run-workflow/; its   *)
(* .then/.catch and the .finally that follows run as one step when the     *)
(* answer arrives, after any number of user events.                       *)
(*                                                                         *)
(* The payload text is abstracted to what trim() and JSON.parse tell       *)
(* apart: "" (empty), "blank" (white space only), "json" (parses), "bad"   *)
(* (JSON.parse throws).  A definition is its user_code.  dialogItem is a   *)
(* history variable: the definition whose Run button opened the dialog.    *)
(***************************************************************************)
EXTENDS Naturals, FiniteSets

CONSTANTS
    Items,       \* user codes of the workflow definitions listed
    MaxRuns,     \* bound on runWorkflow calls
    Null,        \* JavaScript null
    NoText,      \* the empty string "" held by postWorkflowResponse
    Payloads     \* texts typed in the payload field, a subset of
                 \* {"", "blank", "json", "bad"}

VARIABLES
    dialog,                   \* data.dialog
    snackbar,                 \* data.snackbar
    dialogState,              \* data.dialogState: "", pending, success, error
    isWorkflowRun,            \* data.isWorkflowRun
    selectedRunningWorkflow,  \* data.selectedRunningWorkflow: an item or Null
    postWorkflowResponse,     \* data.postWorkflowResponse: NoText or [code, ok]
    postWorkflowErrorJSON,    \* data.postWorkflowErrorJSON: "" or "SyntaxError"
    payloadValue,             \* data.payloadValue, the payload text field
    pending,                  \* run-workflow POSTs in flight
    runs,                     \* runWorkflow calls so far
    dialogItem                \* history: the item the dialog was opened for

vars == <<dialog, snackbar, dialogState, isWorkflowRun, selectedRunningWorkflow,
          postWorkflowResponse, postWorkflowErrorJSON, payloadValue, pending,
          runs, dialogItem>>

\* The data() fields of the dialog.
Init ==
    /\ dialog = FALSE /\ snackbar = FALSE /\ dialogState = ""
    /\ isWorkflowRun = FALSE /\ selectedRunningWorkflow = Null
    /\ postWorkflowResponse = NoText /\ postWorkflowErrorJSON = "" /\ payloadValue = ""
    /\ pending = {} /\ runs = 0 /\ dialogItem = Null

\* payloadValue.trim(): white space only becomes the empty string.
Trim(p) == IF p = "blank" THEN "" ELSE p

\* Mutant: the trimmed text posted as the payload, unparsed.
PayloadSentTrimmed(trimmed) == trimmed

\* data.payload: {} for an empty text, the parsed value if JSON.parse
\* succeeded, and undefined (payloadValueParsed never assigned) if it threw.
PayloadSent(trimmed) ==
    CASE trimmed = ""     -> "{}"
      [] trimmed = "json" -> "parsed"
      [] OTHER            -> "undefined"

\* runButton(item): reset the dialog's fields and open it for item.
RunButton(item) ==
    /\ postWorkflowResponse' = NoText /\ postWorkflowErrorJSON' = ""
    /\ payloadValue' = "" /\ dialog' = TRUE /\ snackbar' = FALSE
    /\ selectedRunningWorkflow' = item
    /\ dialogItem' = item
    /\ UNCHANGED <<dialogState, isWorkflowRun, pending, runs>>

\* The payload field's v-model while the dialog is open.
EditPayload(p) ==
    /\ dialog
    /\ payloadValue' = p
    /\ UNCHANGED <<dialog, snackbar, dialogState, isWorkflowRun, selectedRunningWorkflow,
                   postWorkflowResponse, postWorkflowErrorJSON, pending, runs, dialogItem>>

\* The dialog's close button.
CloseDialog ==
    /\ dialog
    /\ dialog' = FALSE
    /\ UNCHANGED <<snackbar, dialogState, isWorkflowRun, selectedRunningWorkflow,
                   postWorkflowResponse, postWorkflowErrorJSON, payloadValue, pending,
                   runs, dialogItem>>

\* runWorkflow(), from the dialog's Run button (assumed disabled while
\* isWorkflowRun).  The flags are set first; a JSON.parse error is caught
\* and stored; then data.user_code reads selectedRunningWorkflow, which
\* throws a TypeError when it is null, and no request is posted.
RunWorkflow ==
    LET trimmed == Trim(payloadValue) IN
    /\ dialog /\ ~isWorkflowRun
    /\ runs < MaxRuns
    /\ runs' = runs + 1
    /\ snackbar' = TRUE
    /\ dialogState' = "pending"
    /\ isWorkflowRun' = TRUE
    /\ postWorkflowErrorJSON' = IF trimmed = "bad" THEN "SyntaxError" ELSE postWorkflowErrorJSON
    /\ pending' = IF selectedRunningWorkflow = Null THEN pending
                  ELSE pending \cup {[id |-> runs + 1, code |-> selectedRunningWorkflow,
                                      payload |-> PayloadSent(trimmed)]}
    /\ UNCHANGED <<dialog, selectedRunningWorkflow, postWorkflowResponse, payloadValue, dialogItem>>

\* The answer to POST r: .then (ok) or .catch stores the response or the
\* error and the alert state; .finally clears the running workflow and
\* the running flag, whatever the dialog shows by now.
Respond(r, ok) ==
    /\ r \in pending
    /\ pending' = pending \ {r}
    /\ postWorkflowResponse' = [code |-> r.code, ok |-> ok]
    /\ dialogState' = IF ok THEN "success" ELSE "error"
    /\ selectedRunningWorkflow' = Null
    /\ isWorkflowRun' = FALSE
    /\ UNCHANGED <<dialog, snackbar, postWorkflowErrorJSON, payloadValue, runs, dialogItem>>

Next ==
    \/ \E item \in Items : RunButton(item)
    \/ \E p \in Payloads : EditPayload(p)
    \/ CloseDialog
    \/ RunWorkflow
    \/ \E r \in pending, ok \in BOOLEAN : Respond(r, ok)

\* The backend answers every POST, with success or an error.
Spec == Init /\ [][Next]_vars /\ \A ok \in BOOLEAN : WF_vars(\E r \in pending : Respond(r, ok))

-----------------------------------------------------------------------------
(* Properties.                                                             *)

TypeOK ==
    /\ dialog \in BOOLEAN /\ snackbar \in BOOLEAN /\ isWorkflowRun \in BOOLEAN
    /\ dialogState \in {"", "pending", "success", "error"}
    /\ selectedRunningWorkflow \in Items \cup {Null}
    /\ postWorkflowResponse \in {NoText} \cup [code : Items, ok : BOOLEAN]
    /\ postWorkflowErrorJSON \in {"", "SyntaxError"}
    /\ payloadValue \in Payloads
    /\ runs \in 0..MaxRuns
    /\ dialogItem \in Items \cup {Null}
    /\ \A r \in pending : r.code \in Items /\ r.payload \in {"{}", "parsed", "undefined"}

\* While isWorkflowRun shows the run as in progress, a run request is in
\* flight (runWorkflow sets the flag before reading selectedRunningWorkflow).
SpinnerMeansRequest == isWorkflowRun => pending # {}

\* The alert and response shown belong to a run of the definition the
\* dialog is open for (runButton resets the response, not dialogState).
StatusShowsOwnRun ==
    dialogState \in {"success", "error"} =>
        postWorkflowResponse # NoText /\ postWorkflowResponse.code = dialogItem

\* A workflow is only run with the payload the user typed: a payload
\* that JSON.parse rejects is never posted.
PayloadParsedWhenPosted == \A r \in pending : r.payload # "undefined"
====
