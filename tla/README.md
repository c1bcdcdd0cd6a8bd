# TLA+ models of the finmars-workflow dashboard

These modules model the browser dashboard in `src/workflow/static/script.js`. It is a Vue 2 app with a Vuex store that
talks to the workflow REST API through axios and draws each workflow's task graph with
dagre-d3. `spec.md` describes the same component as five parts: the task-graph partitioner, the selection
controller, the polling reconciler, the pagination window and the derived label set.

## The system and what is hard about it

- **Store actions** send HTTP requests: listWorkflows, getWorkflow, refreshStorage, relaunchWorkflow, cancelWorkflow and
  changePage. Their `.then` handlers commit mutations when the response arrives. Responses arrive in any
  order, and the last one applied wins. A request can fail, and then the axios interceptor
  (`notifyError`) shows a toast and no handler runs.
- **refreshNetwork** (lines 278-364) splits a workflow's tasks into a main graph and a hook
  graph:
  - A hook task is skipped until its status is terminal.
  - Edges are added from each entry of `previous`.
  - In a `Vue.nextTick` callback, `initGraph` styles every node and renders both svgs. It also
    installs click handlers that capture that moment's `tasks` and `graph`.
- **The app** does the following:
  - `created()` fetches the list, and fetches the workflow named in the route.
  - `created()` also starts a 5000 ms interval that re-lists.
  - `toggleAutoRefresh` clears the interval or starts a new one.
  - `selectRow` and `goToHashUrl` reload the whole page.
  - `refreshTask` re-fetches the open workflow.
  - `displayTask` selects a task from the side list.
- **Getters** `totalPages` and `displayPages` compute the pagination window.

JavaScript runs one callback at a time. A response handler, the mutations it commits and the
nextTick render that follows are therefore one atomic step, because the render runs in the microtask queue before any
user event. The concurrency that remains is between separate events:
- responses arriving in any order;
- interval ticks;
- user actions;
- the backend changing underneath the page.

## Modules

| Module | Models | Notes |
|---|---|---|
| `TaskGraph` | `refreshNetwork`, the graphlib `setNode`/`setEdge` semantics, `initGraph`'s failure condition, the click handler's restyle and `tasks.find` | Pure operators. A graph is `[label, edges]`. `setEdge` creates a missing endpoint with the undefined label `NoLabel`, as graphlib does, and `initGraph` throws on such a node. |
| `TaskGraphCheck` | every task list of up to 3 tasks, with ids from `IdSeq`, any subset of other ids as `previous`, any status, hook or not | Compares `RefreshNetwork` with the spec's partitioning contract (`RoutedTo`, `ContractEdges`). These reference definitions are written independently of the code operators. `MC_TaskGraph` runs it alone for the canceled-hook violation. |
| `PageWindow` | `totalPages` (`Math.ceil`), `displayPages` (keep 1, last, page±1, mark gaps with `'...'`, collapse repeated markers) | `'...'` is the value 0. |
| `PageWindowCheck` | every page 1..9 and count 0..16 with page size 2 | Reference: the spec's window written as the sorted candidate set with gaps inserted, a RECURSIVE operator. |
| `LabelSet` | `updateWorkflows`' `workflowNames`: the truthy user codes, through a `Set`, after `"All"` | `Dashboard` extends it. |
| `LabelSetCheck` | every page of up to 4 records with codes `c1`, `c2` or none | Reference: the spec's 4.5 labels, the codes sorted by the index of their first occurrence. |
| `Duration`, `DurationCheck` | `formattedTime`, in tenths of a second, for every tenth up to 2 min and around the hour, day and two-day boundaries | Only non-negative durations are modelled; there, JavaScript's `%` and TLA+'s `%` agree. |
| `MC_Operators` | one harness for the four checks above | Each state is one input of one operator: a record tagged `graph`, `window`, `labels` or `time`. Each check module is instantiated with its variable mapped to the record's field. |
| `Dashboard`, `MC_Dashboard` | the store, the app's handlers, the interval, reloads, the network and the backend | See below. |
| `ListView` | the abstract list view: what the spec (4.3 step 2, 5, 7) promises about the page shown | `App` implements it under `backend <- srvList, view <- [results: workflows, count: workflowsCount]` (`ListViewRefined`). |
| `RunDialog`, `MC_RunDialog` | `runButton`, `runWorkflow` and its `.then/.catch/.finally` (619-670) | See below. The payload texts typed are the constant `Payloads`. |
| `App`, `MC_App` | the whole page: `Dashboard` and `RunDialog` composed, with `listDefinitions` and the backend's handling of a run | See below. |

### Dashboard: state and actions

State is split into three groups:
- **Backend:** `srvStatus` holds task statuses and `srvList` the list of workflows.
- **Store:** `workflows`, `workflowsCount`, `workflowNames`, `page`, `query`, `selectedWorkflow`, `selectedTask` and
  `hideHooks`.
- **App:** `svg` (per svg, the graph last drawn, its emphasised nodes and the tasks its
  click closure captured), `autoRefresh`, `interval`, the running interval handles `timers`, and
  `route`.

The network is a function from slots to requests. `Post` puts a request into a free slot, under the
bound `MaxInFlight`.

| Action | Code |
|---|---|
| `Answer(s)` | the backend computes the response from its state now |
| `Deliver(s)` = `DeliverList`, `DeliverGet`, `DeliverPost`, `DeliverRefresh` | the `.then` handlers (lines 128-132, 177-184, 217-220/232-235, 198-205), with refreshNetwork and `initGraph` (`DrawGraphs`) inside `DeliverGet` |
| `Fail(s)` | a non-2xx response rejected by the interceptor |
| `Tick(h)` | the interval callback (690-696, 599-604) |
| `ChangePage(p)` | the pagination control: `changePage` (240-248) |
| `UpdateQueryValue(q)` | the search box setter and its mutation (485-493, 368-371); it does not fetch |
| `ToggleAutoRefresh` | 594-608 |
| `ClickNode(k, v)` | the svg click handler (343-355), on the graph and tasks it captured |
| `DisplayTask(t)` | 566-568; it dispatches `selectTask` (185-188), the helper `SelectTask(t)` |
| `RefreshTask` | 576-578 |
| `PostAction(kind)` | relaunch or cancel (207-236, 569-571, 609-611) |
| `RefreshStorage` | 189-196 |
| `Reload(r)` | `window.location.reload()` (560, and 581 in `goToHashUrl`): drops pending handlers and intervals, and `created()` runs again with route `r` |
| `SelectRow(w)`, `GoToHashUrl(r)` | `selectRow` (548-565) pushes `/item/<id>` then reloads; `goToHashUrl` (579-582) sets the hash to any of the router's `Routes` (69-91: three routes without an id, `/item/:id`) then reloads |
| `TaskProgress(w, id, next)`, `WorkflowRun(c)` | the backend only: a task status moves one step of `StatusSteps`, or another user runs a workflow |

### RunDialog: state and actions

The variables are the dialog's data fields (`dialog`, `snackbar`, `dialogState`, `isWorkflowRun`,
`selectedRunningWorkflow`, `postWorkflowResponse`, `postWorkflowErrorJSON`, `payloadValue`). There are also the POSTs in flight (`pending`),
a bound on runs, and a history variable `dialogItem`: the definition whose Run button last opened the dialog.

The payload text is abstracted to what `trim()` and `JSON.parse` distinguish: empty, white space only, valid JSON and invalid JSON.

| Action | Code |
|---|---|
| `RunButton(item)` | `runButton`, 619-626 |
| `RunWorkflow` | `runWorkflow` up to the POST, 628-657. It throws before posting when `selectedRunningWorkflow` is null. |
| `Respond(r, ok)` | `.then` or `.catch`, then `.finally`, 658-670 |
| `EditPayload(p)`, `CloseDialog` | the page template's v-model and close button, which are not in the repository |

The template is not in the repository. The model therefore assumes the Run button is disabled while `isWorkflowRun` is set. This
assumption removes behaviours, so the violations found hold whether or not the template does this.

### App: the composition

`App` declares the variables of both parts and takes each part as an `INSTANCE` (`D`, `R`). A step is one of:
- a step of the store, the views, the interval or the backend (`D!PageNext`), with the dialog unchanged;
- a step of the dialog that sends nothing (`R!EditPayload`, `R!CloseDialog`, `R!RunWorkflow`), with the store unchanged;
- an interaction between the parts:

| Action | Code |
|---|---|
| `DefinitionsDelivered`, `DefinitionsFailed` | `listDefinitions` (133-148) and its rejection by the interceptor. `created()` (687) and `refreshStorage`'s `.then` (`RefreshDelivered`, 197-205) dispatch it. |
| `RunButton(item)` | `runButton` on a row of `state.definitions`; there are no rows before `listDefinitions` answers |
| `RunAccepted(r)` | the backend carries out a run-workflow POST: a workflow of that code heads its list (spec 6; the backend is not in the repository) |
| `RunSucceeded(r)`, `RunFailed(r)` | `.then` or `.catch`, then `.finally` (658-670). Nothing else is dispatched. |
| `Reload(r)`, via `SelectRow(w)` and `GoToHashUrl(r)` | `window.location.reload()` restarts the store, the dialog's `data()` (`DialogRestart`) and `listDefinitions`, and drops every pending handler |

`relistDue` is a history variable. A successful run sets it, and the next `listWorkflows` request sent clears it.

Two TLC limits shape the module:
- TLC cannot evaluate `UNCHANGED R!vars` or a primed `R!Init` of an implicitly substituted instance. `App` therefore lists its own
  variable tuples and writes the dialog's restart out in full.
- TLC reports action coverage per named action only for the module whose `Next` it checks. `Dashboard`'s own run therefore still
  fires all of `Dashboard`'s actions.

## Runs

| Run | Expect | What it shows |
|---|---|---|
| operators | pass | The pure operators against their reference definitions, over 114,544 inputs:<br>• `refreshNetwork` draws exactly the routed tasks, and every graph `initGraph` renders without throwing has exactly the contract's edges, each from a `previous` entry to the task naming it (all 112,945 task lists of up to 3 tasks whose `previous` may also name a fourth id that is not in the list);<br>• `displayPages` is the spec's window, and stays well formed past the end;<br>• `workflowNames` is the spec's label list;<br>• `formattedTime` splits a duration exactly. |
| dashboard_detail | pass | Three invariants hold under out-of-order, failing and concurrent requests, reloads and all user actions:<br>• the state is well typed (`TypeOK`);<br>• the selected task belongs to the open workflow as last fetched;<br>• exactly one interval runs while auto-refresh is on.<br>The task list of this run renders without throwing; the failing render is the dashboard_stale_click run. |
| app | pass | The composed page. With auto-refresh on, the list converges to the backend's page for the current page and query, including workflows started from the dialog. Every step refines `ListView`: the list and count shown always form one whole page that the backend served at some point, for some page and query. |
| taskgraph_canceled | violation | A `canceled` hook is never drawn, because `terminatedStatus` says `cancel` (finding 2). |
| detail_preserve_selection | violation | A refresh resets the selection to the first task (finding 3). |
| detail_polling | violation | The interval never re-fetches the open workflow (finding 4). |
| detail_emphasis | violation | After a click on node `a`, `displayTask` of `b`, drawn in the same graph, leaves `a` emphasised while `b` is selected (finding 5). |
| dashboard_stale_click | violation | A relaunch answers with a workflow whose graph makes `initGraph` throw. The old svg and its click handler stay, and a click selects a task of the previous workflow (finding 1). |
| run_dialog_spinner | violation | Run pressed again after a run finished throws on a null `selectedRunningWorkflow`. `isWorkflowRun` then stays set with nothing in flight (finding 6). |
| run_dialog_status | violation | A dialog opened for one definition shows another definition's alert and response (finding 7). |
| run_dialog_payload | violation | Invalid JSON does not stop the run: the POST goes out with `payload` undefined (finding 8). |
| app_relist | violation | Auto-refresh is switched off, then a run succeeds and the backend lists the new workflow. No `listWorkflows` request is ever sent again (finding 9). |

Every property of a passing run has a mutant in `PROJECT.json`. A mutant is a plausible bug in the mapped code that
the run detects:
- a dropped skip;
- `setEdge` called with its arguments swapped;
- no neighbours in the window;
- no collapse;
- a missing `Set` deduplication;
- hours not taken modulo a day;
- page 0 after a query change;
- no selection clear;
- a missing `clearInterval`;
- the count not stored (checked in the composed `app` run);
- a page appended to the rows already shown instead of replacing them;
- the payload posted unparsed.

### Bounds

- **Detail runs:**
  - The passing run starts with an empty backend list, and another user may run one workflow. It has 2 request slots, so a relaunch's
    follow-up requests wait until both slots are free.
  - Two workflows. `w1` has a main task `a` and a hook `h`, and `w2` has no tasks. In the passing run, `w1` also has a main
    task `b` after `a`, so the main graph has an edge, a node that can be clicked besides the first task, and a restyle over
    two nodes (1,229,628 states).
  - Statuses go progress→success or progress→canceled.
  - The violation runs have 3 request slots. All detail runs have 2 interval handles.
  - There are 2 user actions or failures.
  - These bounds reach the cases the properties are about:
    - a refresh overtaken by an older response;
    - a hook appearing once settled;
    - a reload with a request in flight;
    - a toggle off and on;
    - a click on a stale svg;
    - an empty workflow.
- **App runs:**
  - One backend workflow. Another user or the dialog can add a second one (code `c1` or `c2`).
  - Two definitions, `c1` and `c2`, which is enough for `runButton` on one row while a run of the other is in flight.
  - There are two queries (none, `c1`), a page size of 1 and so two pages.
  - There are 2 request slots, 2 interval handles, 1 user action or failure, 1 run and 1 `listDefinitions` in flight.
  - The only payload text is the empty one; `RunDialog`'s own runs cover the four kinds.
  - One user step is enough for each case: a query change that fetches nothing, a toggle of auto-refresh, or a reload with a run
    in flight. Two list requests can already overtake each other without one (`created()` and a tick).
  - `app_relist` has a single query.
- **Stale-click run:** the detail bounds, with `w1` = <<a>> and `w2` = <<b with previous [a]>>. A relaunch of `w1` may answer with `w2`.
- **Run dialog (violation runs):** two definitions, the four payload kinds and 3 runs. This is enough for a run, a second dialog opened during it, and a
  second Run after the first one finished.
- **Pure operators:** the checks are exhaustive over the stated ranges.

### Fairness

- `Answer`, `Deliver` and `Tick` are weakly fair, for three reasons:
  - the backend eventually answers;
  - the browser eventually runs a ready callback;
  - a running `setInterval` fires every 5 s.
- User actions and failures have no fairness. They are bounded by `MaxUserSteps`, so every behaviour ends in a
  state where only the page's own machinery acts.
- In `RunDialog`, `Respond` is weakly fair for each outcome, because the backend or the network eventually answers every
  POST. The user's actions are not fair.
- `App` keeps `Dashboard`'s fairness. It adds weak fairness on the `listDefinitions` answer and on the answer to a pending run
  (success if the backend carried it out, failure if not). `RunAccepted` is not fair, because the backend may reject a run.
- `CHECK_DEADLOCK FALSE` is used because the page really does stop: when auto-refresh is off and nothing is in
  flight, an idle page does nothing.

## Findings

1. **Dangling `previous` crashes `initGraph`, and clicks then act on the previous workflow** (code bug, line 316, crash at 325, click at 354).
   - `graph.setEdge` creates each missing endpoint without a label, and `node.rx = ...` then throws.
   - Neither svg is redrawn, and the old click handler, which captured the previous workflow's tasks, still
     sets `selectedTask`.
   - The spec's own example triggers the crash: hook C with previous [A].
2. **Canceled hooks are never drawn** (code bug, line 282). `terminatedStatus` lists `cancel`, but the backend status is `canceled`.
3. **A refresh loses the selection** (spec/code divergence, lines 181-183 and 271-272). `getWorkflow` always selects `tasks[0]`.
4. **Polling never refreshes the open workflow** (spec/code divergence, line 694). The interval reads the route's id but never
   dispatches `getWorkflow`.
5. **Emphasis can disagree with the selection** (spec/code divergence, lines 567 and 345-351). `displayTask` selects a task drawn
   in a graph without restyling that graph, so a node clicked earlier keeps the emphasis. (Selecting a task drawn in no
   graph, such as an unsettled hook, leaves the styles unchanged, as spec 4.2 allows; the property does not count it.)
6. **A second Run throws and leaves the dialog running** (code bug, line 646). The `.finally` at 668 nulls
   `selectedRunningWorkflow`, but the dialog stays open. Run then sets `isWorkflowRun` and throws reading `user_code` of null.
7. **The run dialog shows another run's outcome** (code bug, line 620). `runButton` resets the response but not `dialogState`,
   and a run in flight writes its result into a dialog reopened for another definition.
8. **An invalid JSON payload still runs the workflow** (code bug, line 641). The parse error is stored, and the POST still
   goes out with `payload: undefined`, which JSON serialisation drops.
9. **A successful run does not re-fetch the list** (spec/code divergence, line 660). Spec 6 asks every mutating action to
   re-fetch the workflow list on success. `relaunchWorkflow` and `cancelWorkflow` do so; `runWorkflow`'s `.then` does not.
   With auto-refresh on, the new workflow appears at the next tick. With it off, it never appears.

## Not modelled

- `listWorkers` and `changeLoadingState`: display-only data that nothing else reads.
- A run-workflow POST pending at a reload is dropped together with its handler, and `App` does not let the backend
  carry it out afterwards. Another user's `WorkflowRun` already covers a workflow that appears unannounced.
- Cookie parsing, headers and toast texts. One related defect is only noted: relaunch and cancel send `headers` as the POST body.
- `formatDate`, `statusColor`, `getColor`, `countTasksByStatus`, `getFlowerTaskUrl`, `goToWorkerLogs` and `moveUp`. These are formatting and
  navigation with no state.
- `pageName`.
- The page template: the run dialog's close button and payload field are environment actions.
- The table filters (`headers` computed). The Name filter compares the row's `fullname` with a label built from `user_code`. How the
  backend builds `fullname` is not in the repository, so the comparison cannot be modelled from the source.

`hazards` in `PROJECT.json` lists each hazard with the property that covers it, or with a note explaining why none does.

## Limits of the project

- The project has as many runs as its checker allows (12), and nine of them are violation runs, one per finding. Two more
  questions would each need a run of their own:
  - A hook whose parent settles later makes `initGraph` throw (finding 1). The dashboard_stale_click run
    already shows what a throwing render does.
  - A failed `listDefinitions` is never retried (line 144). Nothing in the repository promises a retry, though: spec 7 leaves
    transport failures to the HTTP layer. The ways back, `refreshStorage`'s handler and a reload, are actions of `App`.
- What is left of the code is formatting, or state read only by the page template, which is not in the repository:
  - `state.loading`, `state.workers`, `pageName`;
  - the confirm dialogs' flags;
  - the table filters' `selectedStatus` and `selectedWorkflowName`.
  No modelled step reads any of it, so modelling it would add states without adding anything a property could check.
  The two hazards in it (the confirm dialog's stale target at line 570, and `loading` cleared by the first answer of any
  request at line 146) are listed in `hazards` with this reason.
