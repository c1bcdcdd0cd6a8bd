----------------------------- MODULE Dashboard -----------------------------
(***************************************************************************)
(* The workflow dashboard of src/workflow/static/script.js: the Vuex store *)
(* (state, actions, mutations), the Vue app's handlers that dispatch to it *)
(* (created, the refresh interval, toggleAutoRefresh, selectRow, ...) and  *)
(* the svg graphs drawn by the Vue.nextTick callback of refreshNetwork.    *)
(*                                                                         *)
(* Every axios call is a request in a slot of `net`.  A request is        *)
(* answered by the backend from its state at that moment (Answer), and     *)
(* its .then handler runs later (Deliver), in any order with the others;  *)
(* a request may instead fail (Fail): the interceptor shows a toast and    *)
(* no handler runs.  JavaScript is single-threaded: each handler, with the *)
(* commits it makes and the nextTick callback that follows them, is one    *)
(* step.  The backend is the environment: task statuses progress and new  *)
(* workflows are run by other users.                                       *)
(***************************************************************************)
EXTENDS Integers, Sequences, SequencesExt, FiniteSets, TaskGraph, PageWindow, LabelSet

CONSTANTS
    Workflows,     \* workflow ids on the backend
    TaskSpec,      \* TaskSpec[w]: w's tasks, [celery_task_id, is_hook, previous]
    StatusSteps,   \* pairs <<s, t>>: the backend moves a task from s to t
    InitStatus,    \* the status of a task when the page is first opened
    Codes,         \* user_code values of workflows
    InitList,      \* the workflows' user codes on the backend, newest first
    Queries,       \* values the search box can hold (Null is the empty box)
    PageSize,      \* state.page_size
    MaxWorkflows,  \* bound on the backend's workflow list
    MaxInFlight,   \* bound on requests in flight at once
    Handles,       \* setInterval handles
    MaxUserSteps,  \* bound on user actions and failed requests
    Null,          \* JavaScript null
    NoReq,         \* an empty request slot
    NoRoute        \* the route has no workflow id (home, definitions, workers)

VARIABLES
    srvStatus,        \* backend: srvStatus[w][id] is the status of task id of w
    srvList,          \* backend: user codes of all workflows, newest first
    budget,           \* user actions and failures still allowed
    net,              \* net[s]: the request in slot s, or NoReq
    workflows,        \* state.workflows (abstracted to their user codes)
    workflowsCount,   \* state.workflowsCount
    workflowNames,    \* state.workflowNames
    page,             \* state.page
    query,            \* state.query
    selectedWorkflow, \* state.selectedWorkflow: [id, tasks] or Null
    selectedTask,     \* state.selectedTask: a task record or Null
    hideHooks,        \* state.hideHooks
    svg,              \* svg[k]: the graph last drawn in svg.svg-main / svg-hooks,
                      \*   its emphasised nodes and the tasks its click handler captured
    autoRefresh,      \* the app's data.autoRefresh
    interval,         \* the app's data.interval
    timers,           \* handles of intervals that are running
    route             \* $route.params.id of the loaded page

srvVars == <<srvStatus, srvList>>
storeVars == <<workflows, workflowsCount, workflowNames, page, query,
               selectedWorkflow, selectedTask, hideHooks>>
appVars == <<svg, autoRefresh, interval, timers, route>>
vars == <<srvVars, budget, net, storeVars, appVars>>

Slots == 1..MaxInFlight
Graphs == {"main", "hook"}

-----------------------------------------------------------------------------
(* The backend, as the store sees it through the REST API.                 *)

\* The task records of workflow w as GET /workflow/<w>/ returns them.
Snapshot(w) ==
    [id |-> w,
     tasks |-> [i \in DOMAIN TaskSpec[w] |->
                  [celery_task_id |-> TaskSpec[w][i].celery_task_id,
                   status |-> srvStatus[w][TaskSpec[w][i].celery_task_id],
                   is_hook |-> TaskSpec[w][i].is_hook,
                   previous |-> TaskSpec[w][i].previous]]]

\* The server-side free-text filter, on the user code.
Matching(q) == SelectSeq(srvList, LAMBDA c : q = Null \/ c = q)

\* GET /workflow/light/?page_size=..&page=..[&query=..]
ListResponse(arg) ==
    LET all == Matching(arg.query)
        from == (arg.page - 1) * PageSize + 1
    IN [results |-> IF from > Len(all) THEN <<>>
                    ELSE SubSeq(all, from, IF arg.page * PageSize < Len(all)
                                           THEN arg.page * PageSize ELSE Len(all)),
        count |-> Len(all)]

-----------------------------------------------------------------------------
(* Requests.                                                               *)

\* A request of the given kind; its arguments are the workflow id w (get,
\* relaunch, cancel) or the page and query of the URL (list).
Req(kind, w, p, q) ==
    [kind |-> kind, arg |-> [w |-> w, page |-> p, query |-> q], st |-> "sent", resp |-> Null]

\* The listWorkflows action: the URL is built from the current page/query.
ListReq == Req("list", Null, page, query)

\* The getWorkflow action.
GetReq(w) == Req("get", w, 1, Null)

\* Issue the requests rs in the lowest free slots of n; FALSE when the
\* network already holds MaxInFlight requests.
CanPost(n, rs) == Len(rs) <= Cardinality({s \in Slots : n[s] = NoReq})

Post(n, rs) ==
    LET free == SetToSortSeq({s \in Slots : n[s] = NoReq}, LAMBDA x, y : x < y)
    IN [s \in Slots |-> IF \E i \in 1..Len(rs) : free[i] = s
                        THEN rs[CHOOSE i \in 1..Len(rs) : free[i] = s]
                        ELSE n[s]]

Free(s) == [net EXCEPT ![s] = NoReq]

-----------------------------------------------------------------------------
(* Initial state: the store's initial state and the app's created() hook.  *)

\* The hash router's routes: home, definitions and workers name no workflow,
\* /item/:id names one.
Routes == Workflows \cup {NoRoute}

EmptySvg == [graph |-> EmptyGraph, emph |-> {}, tasks |-> <<>>]

\* The client's state after the store is created and created() has run:
\* listWorkflows, the 5000 ms interval, getWorkflow for the route's id
\* (listWorkers and listDefinitions are not modelled).
ClientStart(r) ==
    [workflows |-> <<>>, workflowsCount |-> 0, workflowNames |-> <<>>,
     page |-> 1, query |-> Null, selectedWorkflow |-> Null, selectedTask |-> Null,
     hideHooks |-> FALSE, svg |-> [k \in Graphs |-> EmptySvg],
     autoRefresh |-> TRUE, interval |-> Min(Handles), timers |-> {Min(Handles)},
     route |-> r,
     net |-> Post([s \in Slots |-> NoReq],
                  <<Req("list", Null, 1, Null)>> \o
                  (IF r = NoRoute THEN <<>> ELSE <<GetReq(r)>>))]

ClientInit(r) ==
    LET c == ClientStart(r) IN
    /\ workflows = c.workflows /\ workflowsCount = c.workflowsCount
    /\ workflowNames = c.workflowNames /\ page = c.page /\ query = c.query
    /\ selectedWorkflow = c.selectedWorkflow /\ selectedTask = c.selectedTask
    /\ hideHooks = c.hideHooks /\ svg = c.svg /\ autoRefresh = c.autoRefresh
    /\ interval = c.interval /\ timers = c.timers /\ route = c.route /\ net = c.net

Init ==
    /\ srvStatus = [w \in Workflows |-> [i \in {t.celery_task_id : t \in ToSet(TaskSpec[w])} |-> InitStatus]]
    /\ srvList = InitList
    /\ budget = MaxUserSteps
    /\ \E r \in Routes : ClientInit(r)

-----------------------------------------------------------------------------
(* The backend.                                                            *)

\* A task of workflow w moves on (init -> progress -> success/error/...).
TaskProgress(w, id, next) ==
    /\ <<srvStatus[w][id], next>> \in StatusSteps
    /\ srvStatus' = [srvStatus EXCEPT ![w][id] = next]
    /\ UNCHANGED <<srvList, budget, net, storeVars, appVars>>

\* Another user runs a workflow with user code c; it heads the list.
WorkflowRun(c) ==
    /\ Len(srvList) < MaxWorkflows
    /\ srvList' = <<c>> \o srvList
    /\ UNCHANGED <<srvStatus, budget, net, storeVars, appVars>>

-----------------------------------------------------------------------------
(* The network.                                                            *)

\* The backend answers the request in slot s from its current state.
Answer(s) ==
    /\ net[s] # NoReq
    /\ net[s].st = "sent"
    /\ \E resp \in CASE net[s].kind = "list"     -> {ListResponse(net[s].arg)}
                    [] net[s].kind = "get"      -> {Snapshot(net[s].arg.w)}
                    [] net[s].kind = "relaunch" -> Workflows
                    [] net[s].kind = "cancel"   -> {net[s].arg.w}
                    [] net[s].kind = "refresh"  -> {Null} :
         net' = [net EXCEPT ![s].st = "answered", ![s].resp = resp]
    /\ UNCHANGED <<srvVars, budget, storeVars, appVars>>

\* A non-2xx answer: the axios interceptor calls notifyError and rejects;
\* the action's .then handler never runs.
Fail(s) ==
    /\ net[s] # NoReq
    /\ net[s].st = "sent"
    /\ budget > 0
    /\ budget' = budget - 1
    /\ net' = Free(s)
    /\ UNCHANGED <<srvVars, storeVars, appVars>>

-----------------------------------------------------------------------------
(* The .then handlers of the store's actions.                              *)

\* Mutant: the updateWorkflowsCount commit dropped.
DeliverListNoCount(s) ==
    /\ net[s] # NoReq
    /\ net[s].st = "answered" /\ net[s].kind = "list"
    /\ workflows' = net[s].resp.results
    /\ workflowNames' = WorkflowNames(net[s].resp.results)
    /\ net' = Free(s)
    /\ UNCHANGED <<srvVars, budget, workflowsCount, page, query, selectedWorkflow,
                   selectedTask, hideHooks, appVars>>

\* Mutant: updateWorkflows appends the page to the rows already shown.
DeliverListAppend(s) ==
    /\ net[s] # NoReq
    /\ net[s].st = "answered" /\ net[s].kind = "list"
    /\ workflows' = workflows \o net[s].resp.results
    /\ workflowNames' = WorkflowNames(workflows \o net[s].resp.results)
    /\ workflowsCount' = net[s].resp.count
    /\ net' = Free(s)
    /\ UNCHANGED <<srvVars, budget, page, query, selectedWorkflow, selectedTask,
                   hideHooks, appVars>>

\* listWorkflows .then: updateWorkflows, updateWorkflowsCount.
DeliverList(s) ==
    /\ net[s] # NoReq
    /\ net[s].st = "answered" /\ net[s].kind = "list"
    /\ workflows' = net[s].resp.results
    /\ workflowNames' = WorkflowNames(net[s].resp.results)
    /\ workflowsCount' = net[s].resp.count
    /\ net' = Free(s)
    /\ UNCHANGED <<srvVars, budget, page, query, selectedWorkflow, selectedTask,
                   hideHooks, appVars>>

\* The Vue.nextTick callback of refreshNetwork: initGraph(graphMain), then
\* initGraph(graphHook).  A graph is drawn with no node emphasised and a
\* click handler that captured `tasks`; a throwing initGraph leaves its svg,
\* and every later one, as it was.
DrawGraphs(nw, tasks) ==
    LET drawn(k) == [graph |-> nw[k], emph |-> {}, tasks |-> tasks]
    IN IF InitGraphFails(nw.main) THEN svg
       ELSE [svg EXCEPT !.main = drawn("main"),
                        !.hook = IF InitGraphFails(nw.hook) THEN @ ELSE drawn("hook")]

\* Mutant: the first task is selected only when there is one, and the
\* previous selection is not cleared.
SelectionAfterLoadNoClear(wf) == IF Len(wf.tasks) > 0 THEN wf.tasks[1] ELSE selectedTask

\* updateSelectedWorkflow clears selectedTask; getWorkflow then selects
\* tasks[0] when there is one.
SelectionAfterLoad(wf) == IF Len(wf.tasks) > 0 THEN wf.tasks[1] ELSE Null

\* getWorkflow .then: updateSelectedWorkflow, refreshNetwork (and its
\* nextTick callback), updateSelectedTask(tasks[0]).
DeliverGet(s) ==
    /\ net[s] # NoReq
    /\ net[s].st = "answered" /\ net[s].kind = "get"
    /\ LET wf == net[s].resp
           nw == RefreshNetwork(wf.tasks)
       IN /\ selectedWorkflow' = wf
          /\ hideHooks' = ~nw.haveHook
          /\ svg' = DrawGraphs(nw, wf.tasks)
          /\ selectedTask' = SelectionAfterLoad(wf)
    /\ net' = Free(s)
    /\ UNCHANGED <<srvVars, budget, workflows, workflowsCount, workflowNames,
                   page, query, autoRefresh, interval, timers, route>>

\* relaunchWorkflow / cancelWorkflow .then: listWorkflows and getWorkflow
\* of the id the backend returned.
DeliverPost(s) ==
    /\ net[s] # NoReq
    /\ net[s].st = "answered" /\ net[s].kind \in {"relaunch", "cancel"}
    /\ CanPost(Free(s), <<ListReq, GetReq(net[s].resp)>>)
    /\ net' = Post(Free(s), <<ListReq, GetReq(net[s].resp)>>)
    /\ UNCHANGED <<srvVars, budget, storeVars, appVars>>

\* refreshStorage .then: listWorkflows (listDefinitions and listWorkers
\* are not modelled).
DeliverRefresh(s) ==
    /\ net[s] # NoReq
    /\ net[s].st = "answered" /\ net[s].kind = "refresh"
    /\ CanPost(Free(s), <<ListReq>>)
    /\ net' = Post(Free(s), <<ListReq>>)
    /\ UNCHANGED <<srvVars, budget, storeVars, appVars>>

Deliver(s) == DeliverList(s) \/ DeliverGet(s) \/ DeliverPost(s) \/ DeliverRefresh(s)

-----------------------------------------------------------------------------
(* The interval and the user's actions.                                    *)

\* The callback of the 5000 ms interval (created() and toggleAutoRefresh):
\* dispatch listWorkflows; the route's workflow id is read and unused.
Tick(h) ==
    /\ h \in timers
    /\ CanPost(net, <<ListReq>>)
    /\ net' = Post(net, <<ListReq>>)
    /\ UNCHANGED <<srvVars, budget, storeVars, appVars>>

\* Every user action is one of a bounded number.
UserStep == budget > 0 /\ budget' = budget - 1

\* changePage: setPage, then listWorkflows with the new page; the user
\* picks a page number the paginator shows.
ChangePage(p) ==
    /\ UserStep
    /\ p \in ToSet(DisplayPages(page, TotalPages(workflowsCount, PageSize))) \ {Ellipsis}
    /\ page' = p
    /\ CanPost(net, <<ListReq>>)
    /\ net' = Post(net, <<Req("list", Null, p, query)>>)
    /\ UNCHANGED <<srvVars, workflows, workflowsCount, workflowNames, query,
                   selectedWorkflow, selectedTask, hideHooks, appVars>>

\* Mutant: the page reset to 0, as if pages counted from 0.
UpdateQueryValuePageZero(q) ==
    /\ UserStep
    /\ page' = 0
    /\ query' = q
    /\ UNCHANGED <<srvVars, net, workflows, workflowsCount, workflowNames,
                   selectedWorkflow, selectedTask, hideHooks, appVars>>

\* The query setter: updateQueryValue resets the page and stores the
\* query; nothing is fetched.
UpdateQueryValue(q) ==
    /\ UserStep
    /\ page' = 1
    /\ query' = q
    /\ UNCHANGED <<srvVars, net, workflows, workflowsCount, workflowNames,
                   selectedWorkflow, selectedTask, hideHooks, appVars>>

\* Mutant: toggleAutoRefresh without clearInterval.
ToggleAutoRefreshNoClear ==
    /\ UserStep
    /\ autoRefresh' = ~autoRefresh
    /\ IF autoRefresh'
       THEN \E h \in Handles \ (timers \cup {interval}) :
               interval' = h /\ timers' = timers \cup {h}
       ELSE UNCHANGED <<interval, timers>>
    /\ UNCHANGED <<srvVars, net, storeVars, svg, route>>

\* toggleAutoRefresh: a new interval when switched on, clearInterval of
\* this.interval when switched off.
ToggleAutoRefresh ==
    /\ UserStep
    /\ autoRefresh' = ~autoRefresh
    /\ IF autoRefresh'
       THEN \E h \in Handles \ (timers \cup {interval}) :
               interval' = h /\ timers' = timers \cup {h}
       ELSE interval' = interval /\ timers' = timers \ {interval}
    /\ UNCHANGED <<srvVars, net, storeVars, svg, route>>

\* The store's selectTask action: commit updateSelectedTask.
SelectTask(t) == selectedTask' = t

\* displayTask: selectTask with a task of the open workflow.
DisplayTask(t) ==
    /\ UserStep
    /\ selectedWorkflow # Null
    /\ t \in ToSet(selectedWorkflow.tasks)
    /\ SelectTask(t)
    /\ UNCHANGED <<srvVars, net, workflows, workflowsCount, workflowNames, page,
                   query, selectedWorkflow, hideHooks, appVars>>

\* The click handler initGraph bound to the nodes of svg k: restyle the
\* nodes of the graph it captured, re-render, and select the first task of
\* the tasks it captured with the clicked id.
ClickNode(k, v) ==
    /\ UserStep
    /\ v \in DOMAIN svg[k].graph.label
    /\ svg' = [svg EXCEPT ![k].emph = Restyle(svg[k].graph, v)]
    /\ selectedTask' = FindTask(svg[k].tasks, v)
    /\ UNCHANGED <<srvVars, net, workflows, workflowsCount, workflowNames, page,
                   query, selectedWorkflow, hideHooks, autoRefresh, interval,
                   timers, route>>

\* refreshTask: getWorkflow of the open workflow.
RefreshTask ==
    /\ UserStep
    /\ selectedWorkflow # Null
    /\ CanPost(net, <<GetReq(selectedWorkflow.id)>>)
    /\ net' = Post(net, <<GetReq(selectedWorkflow.id)>>)
    /\ UNCHANGED <<srvVars, storeVars, appVars>>

\* relaunchWorkflow / cancelWorkflow (the dialogs' confirm buttons): POST
\* for the open workflow.
PostAction(kind) ==
    /\ UserStep
    /\ selectedWorkflow # Null
    /\ CanPost(net, <<Req(kind, selectedWorkflow.id, 1, Null)>>)
    /\ net' = Post(net, <<Req(kind, selectedWorkflow.id, 1, Null)>>)
    /\ UNCHANGED <<srvVars, storeVars, appVars>>

\* refreshStorage: GET /refresh-storage/.
RefreshStorage ==
    /\ UserStep
    /\ CanPost(net, <<Req("refresh", Null, 1, Null)>>)
    /\ net' = Post(net, <<Req("refresh", Null, 1, Null)>>)
    /\ UNCHANGED <<srvVars, storeVars, appVars>>

\* window.location.reload() with route r: the app restarts, intervals and
\* pending handlers of the old page are gone, created() runs for route r.
Reload(r) ==
    /\ UserStep
    /\ LET c == ClientStart(r) IN
       /\ workflows' = c.workflows /\ workflowsCount' = c.workflowsCount
       /\ workflowNames' = c.workflowNames /\ page' = c.page /\ query' = c.query
       /\ selectedWorkflow' = c.selectedWorkflow /\ selectedTask' = c.selectedTask
       /\ hideHooks' = c.hideHooks /\ svg' = c.svg /\ autoRefresh' = c.autoRefresh
       /\ interval' = c.interval /\ timers' = c.timers /\ route' = c.route /\ net' = c.net
    /\ UNCHANGED srvVars

\* selectRow: router.push to /item/<id> of the row, then reload; the
\* getWorkflow dispatched after the reload belongs to the page being left.
SelectRow(w) == w \in Workflows /\ Reload(w)

\* goToHashUrl: the hash becomes one of the router's routes, then reload.
GoToHashUrl(r) == r \in Routes /\ Reload(r)

-----------------------------------------------------------------------------

\* Every step but a reload: the backend, the network, the handlers, the
\* interval and the user's actions on the loaded page.
PageNext ==
    \/ \E w \in Workflows : \E id \in DOMAIN srvStatus[w] :
          \E st \in {p[2] : p \in StatusSteps} : TaskProgress(w, id, st)
    \/ \E c \in Codes \cup {NoCode} : WorkflowRun(c)
    \/ \E s \in Slots : Answer(s) \/ Fail(s) \/ Deliver(s)
    \/ \E h \in Handles : Tick(h)
    \/ \E p \in 1..MaxWorkflows : ChangePage(p)
    \/ \E q \in Queries : UpdateQueryValue(q)
    \/ ToggleAutoRefresh
    \/ selectedWorkflow # Null /\ \E t \in ToSet(selectedWorkflow.tasks) : DisplayTask(t)
    \/ \E k \in Graphs : \E v \in DOMAIN svg[k].graph.label : ClickNode(k, v)
    \/ RefreshTask
    \/ \E kind \in {"relaunch", "cancel"} : PostAction(kind)
    \/ RefreshStorage

Next ==
    \/ PageNext
    \/ \E w \in Workflows : SelectRow(w)
    \/ \E r \in Routes : GoToHashUrl(r)

\* The backend answers and the page runs its handlers and its interval:
\* a request is eventually answered and its handler eventually runs, and
\* a running interval eventually fires.
Fairness ==
    /\ \A s \in Slots : WF_vars(Answer(s)) /\ WF_vars(Deliver(s))
    /\ \A h \in Handles : WF_vars(Tick(h))

Spec == Init /\ [][Next]_vars /\ Fairness

-----------------------------------------------------------------------------
(* Properties.                                                             *)

TaskIds == UNION {{t.celery_task_id : t \in ToSet(TaskSpec[w])} : w \in Workflows}

Statuses == {InitStatus} \cup {st[2] : st \in StatusSteps}

Task == [celery_task_id : TaskIds, status : Statuses, is_hook : BOOLEAN, previous : Seq(TaskIds)]

TypeOK ==
    /\ budget \in 0..MaxUserSteps
    /\ \A s \in Slots :
          \/ net[s] = NoReq
          \/ /\ net[s].kind \in {"list", "get", "relaunch", "cancel", "refresh"}
             /\ net[s].st \in {"sent", "answered"}
    /\ workflows \in Seq(Codes \cup {NoCode}) /\ workflowsCount \in 0..MaxWorkflows
    /\ page \in 1..MaxWorkflows /\ query \in Queries
    /\ selectedWorkflow \in {Null} \cup [id : Workflows, tasks : Seq(Task)]
    /\ selectedTask \in {Null} \cup Task
    /\ hideHooks \in BOOLEAN /\ autoRefresh \in BOOLEAN
    /\ interval \in Handles /\ timers \subseteq Handles
    /\ route \in Routes

(* The task the detail panel shows (selectedTask) is a task of the open     *)
(* workflow as last fetched: getWorkflow's handler clears and re-selects,  *)
(* and a click resolves the id in the tasks the drawn graph was built     *)
(* from.  A stale record from an earlier fetch or another workflow would  *)
(* show a wrong status or worker.                                          *)
SelectedTaskCurrent ==
    selectedTask # Null =>
        selectedWorkflow # Null /\ selectedTask \in ToSet(selectedWorkflow.tasks)

(* Exactly one interval runs while autoRefresh is on, and none while it is *)
(* off: toggleAutoRefresh clears the handle it stored when it set it, and *)
(* a reload starts from created()'s single interval.                       *)
OneIntervalWhileAutoRefresh ==
    timers = IF autoRefresh THEN {interval} ELSE {}

\* The list the store shows is the backend's page for the current page and
\* query.
ListCurrent ==
    /\ workflows = ListResponse([page |-> page, query |-> query]).results
    /\ workflowsCount = ListResponse([page |-> page, query |-> query]).count

(* If auto-refresh stays on, the list view eventually shows, and keeps     *)
(* showing, the backend's page for the current page and query, once the    *)
(* user and the backend stop changing them: responses applied out of order *)
(* (last completed wins) and a query change that fetches nothing are       *)
(* repaired by the interval's listWorkflows.                               *)
ListEventuallyCurrent ==
    <>[]autoRefresh => <>[]ListCurrent

(* Spec 4.3 (step 3) and 8: a refresh of the open workflow keeps the       *)
(* selected task selected when the refreshed task list still contains it; *)
(* only the first load of a workflow selects its first task.  Checked on  *)
(* every getWorkflow response for the open workflow.                       *)
PreserveSelectionOnRefresh ==
    [][\A s \in Slots :
         ( /\ DeliverGet(s)
           /\ selectedWorkflow # Null /\ selectedTask # Null
           /\ net[s].resp.id = selectedWorkflow.id
           /\ selectedTask.celery_task_id \in {t.celery_task_id : t \in ToSet(net[s].resp.tasks)} )
         => selectedTask' # Null /\ selectedTask'.celery_task_id = selectedTask.celery_task_id
      ]_vars

(* Spec 4.3 (step 1): while a workflow detail view is open, each tick of   *)
(* the refresh interval re-fetches it, so the open workflow eventually     *)
(* shows, and keeps showing, the backend's task statuses once they stop   *)
(* changing.                                                               *)
DetailEventuallyCurrent ==
    <>[](selectedWorkflow # Null => selectedWorkflow = Snapshot(selectedWorkflow.id))

(* Spec 4.2: on selection of a task, every node of the graph that draws   *)
(* it is restyled: the selected node is the only emphasised one.  A task   *)
(* drawn in neither graph leaves the styles unchanged, so only the graph   *)
(* that draws the store's selectedTask is constrained.                     *)
EmphasisFollowsSelection ==
    selectedTask # Null =>
        \A k \in Graphs :
            selectedTask.celery_task_id \in DOMAIN svg[k].graph.label =>
                svg[k].emph \subseteq {selectedTask.celery_task_id}
=============================================================================
