-------------------------------- MODULE App --------------------------------
(***************************************************************************)
(* The Vue app of src/workflow/static/script.js as one page: the store and *)
(* the workflow views (Dashboard) composed with the run-workflow dialog   *)
(* of the definitions table (RunDialog).  They interact in three ways:    *)
(*   - the dialog's Run buttons are rows of state.definitions, which      *)
(*     listDefinitions fills (created(), refreshStorage's handler);       *)
(*   - a run-workflow POST the backend accepts adds a workflow to the     *)
(*     backend's list that listWorkflows pages through;                    *)
(*   - window.location.reload() (selectRow, goToHashUrl) restarts the     *)
(*     whole app: the store, the dialog's data() and every pending handler. *)
(* Each composed step is a step of one part with the other's state       *)
(* unchanged, or one of the interactions above.                           *)
(***************************************************************************)
EXTENDS Naturals, Sequences, FiniteSets

CONSTANTS
    Workflows, TaskSpec, StatusSteps, InitStatus, Codes, NoCode, InitList,
    Queries, PageSize, MaxWorkflows, MaxInFlight, Handles, MaxUserSteps,
    Null, NoReq, NoRoute, NoLabel,
    Items,          \* user codes of the workflow definitions (GET /definition/)
    MaxRuns, NoText, Payloads,
    MaxDefsInFlight \* bound on listDefinitions requests in flight

VARIABLES
    srvStatus, srvList, budget, net, workflows, workflowsCount, workflowNames,
    page, query, selectedWorkflow, selectedTask, hideHooks, svg, autoRefresh,
    interval, timers, route,
    dialog, snackbar, dialogState, isWorkflowRun, selectedRunningWorkflow,
    postWorkflowResponse, postWorkflowErrorJSON, payloadValue, pending, runs,
    dialogItem,
    definitions,    \* state.definitions, as the set of their user codes
    defsInFlight,   \* listDefinitions requests in flight
    accepted,       \* ids of run-workflow POSTs the backend has carried out
    relistDue       \* history: a run succeeded and no list request was sent since

D == INSTANCE Dashboard
R == INSTANCE RunDialog

srvVars == <<srvStatus, srvList>>
storeVars == <<workflows, workflowsCount, workflowNames, page, query,
               selectedWorkflow, selectedTask, hideHooks>>
appVars == <<svg, autoRefresh, interval, timers, route>>
dashVars == <<srvVars, budget, net, storeVars, appVars>>
dialogVars == <<dialog, snackbar, dialogState, isWorkflowRun, selectedRunningWorkflow,
                postWorkflowResponse, postWorkflowErrorJSON, payloadValue, pending,
                runs, dialogItem>>
vars == <<dashVars, dialogVars, definitions, defsInFlight, accepted, relistDue>>

\* A list request issued by this step: a slot that held no request waiting
\* for its answer now holds a listWorkflows request that was just sent.
ListPosted ==
    \E s \in D!Slots :
        /\ net'[s] # NoReq /\ net'[s].kind = "list" /\ net'[s].st = "sent"
        /\ (net[s] = NoReq \/ net[s].st = "answered")

Init ==
    /\ D!Init /\ R!Init
    /\ definitions = {} /\ defsInFlight = 1
    /\ accepted = {} /\ relistDue = FALSE

-----------------------------------------------------------------------------
(* Steps of one part.                                                      *)

\* What a step of the store, the workflow views, the interval or the
\* backend leaves to the rest of the page.
DashFrame ==
    /\ relistDue' = (relistDue /\ ~ListPosted)
    /\ UNCHANGED <<dialogVars, definitions, defsInFlight, accepted>>

\* What a step of the dialog that involves no request leaves to the rest.
DialogFrame == UNCHANGED <<dashVars, definitions, defsInFlight, accepted, relistDue>>

\* refreshStorage's .then also dispatches listDefinitions.
RefreshDelivered(s) ==
    /\ D!DeliverRefresh(s)
    /\ defsInFlight < MaxDefsInFlight
    /\ defsInFlight' = defsInFlight + 1
    /\ relistDue' = (relistDue /\ ~ListPosted)
    /\ UNCHANGED <<dialogVars, definitions, accepted>>

\* listDefinitions .then: updateDefinitions(response.data).
DefinitionsDelivered ==
    /\ defsInFlight > 0
    /\ defsInFlight' = defsInFlight - 1
    /\ definitions' = Items
    /\ UNCHANGED <<dashVars, dialogVars, accepted, relistDue>>

\* A listDefinitions request rejected by the interceptor.
DefinitionsFailed ==
    /\ defsInFlight > 0
    /\ budget > 0
    /\ budget' = budget - 1
    /\ defsInFlight' = defsInFlight - 1
    /\ UNCHANGED <<srvVars, net, storeVars, appVars, dialogVars, definitions,
                   accepted, relistDue>>

-----------------------------------------------------------------------------
(* Interactions.                                                           *)

\* The Run button of a row of the definitions table.
RunButton(item) ==
    /\ item \in definitions
    /\ R!RunButton(item)
    /\ DialogFrame

\* The backend carries out the POST r: a workflow of r.code heads its list.
RunAccepted(r) ==
    /\ r \in pending
    /\ r.id \notin accepted
    /\ Len(srvList) < MaxWorkflows
    /\ srvList' = <<r.code>> \o srvList
    /\ accepted' = accepted \cup {r.id}
    /\ UNCHANGED <<srvStatus, budget, net, storeVars, appVars, dialogVars,
                   definitions, defsInFlight, relistDue>>

\* The answer to an accepted POST reaches .then and .finally; nothing else
\* is dispatched.
RunSucceeded(r) ==
    /\ r.id \in accepted
    /\ R!Respond(r, TRUE)
    /\ accepted' = accepted \ {r.id}
    /\ relistDue' = TRUE
    /\ UNCHANGED <<dashVars, definitions, defsInFlight>>

\* The backend rejects the POST: .catch and .finally.
RunFailed(r) ==
    /\ r.id \notin accepted
    /\ R!Respond(r, FALSE)
    /\ UNCHANGED <<dashVars, definitions, defsInFlight, accepted, relistDue>>

\* The dialog's data() of a freshly created app (RunDialog's Init).
DialogRestart ==
    /\ dialog' = FALSE /\ snackbar' = FALSE /\ dialogState' = ""
    /\ isWorkflowRun' = FALSE /\ selectedRunningWorkflow' = Null
    /\ postWorkflowResponse' = NoText /\ postWorkflowErrorJSON' = "" /\ payloadValue' = ""
    /\ pending' = {} /\ runs' = 0 /\ dialogItem' = Null

\* window.location.reload(): the store and the dialog start afresh and
\* created() dispatches listWorkflows and listDefinitions again; the answers
\* to the old page's requests are never handled.
Reload(r) ==
    /\ D!Reload(r)
    /\ DialogRestart
    /\ definitions' = {} /\ defsInFlight' = 1
    /\ accepted' = {} /\ relistDue' = FALSE

\* selectRow and goToHashUrl reload the whole page.
SelectRow(w) == w \in Workflows /\ Reload(w)

GoToHashUrl(r) == r \in D!Routes /\ Reload(r)

Next ==
    \/ D!PageNext /\ ~(\E s \in D!Slots : D!DeliverRefresh(s)) /\ DashFrame
    \/ \E s \in D!Slots : RefreshDelivered(s)
    \/ DefinitionsDelivered \/ DefinitionsFailed
    \/ \E item \in Items : RunButton(item)
    \/ \E p \in Payloads : R!EditPayload(p) /\ DialogFrame
    \/ R!CloseDialog /\ DialogFrame
    \/ R!RunWorkflow /\ DialogFrame
    \/ \E r \in pending : RunAccepted(r) \/ RunSucceeded(r) \/ RunFailed(r)
    \/ \E w \in Workflows : SelectRow(w)
    \/ \E r \in D!Routes : GoToHashUrl(r)

\* The backend answers every request and the page runs its handlers and
\* its interval, as in Dashboard; listDefinitions and every run-workflow
\* POST are answered.
Fairness ==
    /\ \A s \in D!Slots : WF_vars(D!Answer(s) /\ DashFrame)
                        /\ WF_vars((D!Deliver(s) /\ ~D!DeliverRefresh(s) /\ DashFrame)
                                   \/ RefreshDelivered(s))
    /\ \A h \in Handles : WF_vars(D!Tick(h) /\ DashFrame)
    /\ WF_vars(DefinitionsDelivered)
    /\ WF_vars(\E r \in pending : RunSucceeded(r) \/ RunFailed(r))

Spec == Init /\ [][Next]_vars /\ Fairness

-----------------------------------------------------------------------------
(* Properties.                                                             *)

TypeOK ==
    /\ D!TypeOK /\ R!TypeOK
    /\ definitions \in {{}, Items}
    /\ defsInFlight \in 0..MaxDefsInFlight
    /\ accepted \subseteq {r.id : r \in pending}
    /\ relistDue \in BOOLEAN

(* With auto-refresh left on, the list view eventually shows, and keeps    *)
(* showing, the backend's page for the current page and query, workflows  *)
(* started from the run dialog included (Dashboard).                      *)
ListEventuallyCurrent == D!ListEventuallyCurrent

(* The list view implements ListView under the mapping of its backend to  *)
(* the backend's list and its page to state.workflows with                 *)
(* state.workflowsCount: listWorkflows' handler commits updateWorkflows and *)
(* updateWorkflowsCount from one response, whichever response completes    *)
(* last, a failure commits nothing, and a reload starts from the store's    *)
(* initial state.                                                          *)
LV == INSTANCE ListView WITH backend <- srvList,
                             view <- [results |-> workflows, count |-> workflowsCount]

ListViewRefined == LV!Spec

(* Spec 6: after a successful run-workflow the page re-fetches the         *)
(* workflow list, as relaunchWorkflow and cancelWorkflow do in their       *)
(* .then.  runWorkflow's .then stores the response only, so the new       *)
(* workflow reaches the list only through a later listWorkflows (the      *)
(* interval, a page change, a reload).                                     *)
RunTriggersRelist == relistDue ~> ~relistDue
=============================================================================
