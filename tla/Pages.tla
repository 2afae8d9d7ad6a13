-------------------------------- MODULE Pages -------------------------------
(***************************************************************************)
(* A directory page (CrudPageMixin, and the transactions page that repeats *)
(* it): a table, a form for the clicked row, a confirmation.  Handlers are *)
(* tasks that wait for a service; meanwhile the user goes on, looking at a *)
(* screen that is behind the page.                                         *)
(***************************************************************************)
EXTENDS Integers

CONSTANTS
    Ids,            \* rows, 1..n
    Values,         \* what a row may hold
    Handlers        \* handlers that may wait at the same time

ASSUME PagesAssumption == 0 \notin Ids /\ 0 \notin Values

VARIABLES
    rows,           \* the service's rows; 0 where there is none
    page,           \* the state object and the dialogs
    screen,         \* what the browser shows
    handler         \* what each handler waits for

pageVars == <<rows, page, screen, handler>>

Rested == [op |-> "none"]

Table(cache) == {i \in Ids : cache[i] # 0}

View(p) == [table |-> Table(p.cache), edit |-> IF p.edit THEN p.form ELSE 0,
            confirm |-> IF p.confirm THEN p.question ELSE 0, create |-> p.create]

NoRows == [i \in Ids |-> 0]

EmptyPage == [cache |-> NoRows, selected |-> 0, form |-> 0, typed |-> 0,
              question |-> 0, edit |-> FALSE, confirm |-> FALSE, create |-> FALSE]

Asking(op, id, value) ==
    [op |-> op, at |-> "service", id |-> id, value |-> value, got |-> NoRows]

Reload == Asking("load", 0, 0)

(* The end of render(): the first load is on its way. *)
Rendered(h) ==
    /\ page = EmptyPage /\ screen = View(EmptyPage)
    /\ handler = [x \in Handlers |-> IF x = h THEN Reload ELSE Rested]

PagesInit == rows \in [Ids -> Values \union {0}] /\ \E h \in Handlers : Rendered(h)

-----------------------------------------------------------------------------
(* The user and the browser. *)

Deliver ==
    /\ screen' = View(page)
    /\ UNCHANGED <<rows, page, handler>>

(* _fill_edit_form: the fields and the text of the confirmation.           *)
Filled(p, id) == [p EXCEPT !.form = id, !.typed = p.cache[id], !.question = id, !.edit = TRUE]

(* _on_table_select, _on_row_click: a row the cache has lost is ignored.   *)
Selected(p, id) == IF p.cache[id] = 0 THEN p ELSE Filled([p EXCEPT !.selected = id], id)

Undisturbed == screen.edit = 0 /\ screen.confirm = 0 /\ ~screen.create

ClickRow(id) ==
    /\ Undisturbed /\ id \in screen.table
    /\ page' = Selected(page, id)
    /\ UNCHANGED <<rows, screen, handler>>

Type(value) ==
    /\ screen.edit # 0
    /\ page' = [page EXCEPT !.typed = value]
    /\ UNCHANGED <<rows, screen, handler>>

(* A cancel button reaches the page first, the escape key the screen too.  *)
Cancel ==
    /\ ~Undisturbed
    /\ page' = [page EXCEPT !.edit = FALSE, !.confirm = FALSE, !.create = FALSE]
    /\ screen' \in {screen, View(page')}
    /\ UNCHANGED <<rows, handler>>

OpenCreate ==
    /\ Undisturbed
    /\ page' = [page EXCEPT !.create = TRUE]
    /\ UNCHANGED <<rows, screen, handler>>

Calls(h, call) == handler[h] = Rested /\ handler' = [handler EXCEPT ![h] = call]

(* _handle_create *)
PressAdd(h, value) ==
    /\ screen.create /\ Calls(h, Asking("create", 0, value))
    /\ UNCHANGED <<rows, page, screen>>

(* _handle_update: without a selection only a warning. *)
PressSave(h) ==
    /\ screen.edit # 0 /\ page.selected # 0
    /\ Calls(h, Asking("update", page.selected, page.typed))
    /\ UNCHANGED <<rows, page, screen>>

(* _handle_delete *)
PressDelete ==
    /\ screen.edit # 0 /\ page.selected # 0
    /\ page' = [page EXCEPT !.edit = FALSE, !.confirm = TRUE]
    /\ UNCHANGED <<rows, screen, handler>>

(* _confirm_delete up to its await. *)
PressYes(h) ==
    /\ screen.confirm # 0 /\ handler[h] = Rested
    /\ page' = [page EXCEPT !.confirm = FALSE]
    /\ IF page.selected = 0 THEN UNCHANGED handler
       ELSE Calls(h, Asking("delete", page.selected, 0))
    /\ UNCHANGED <<rows, screen>>

PressRefresh(h) ==
    /\ Undisturbed /\ Calls(h, Reload)
    /\ UNCHANGED <<rows, page, screen>>

-----------------------------------------------------------------------------
(* The services, used by this page and by others.                          *)

(* A new row's id is above those that are there; it may have been that of  *)
(* a row deleted since, which SQLite gives again.                          *)
Fresh(id) == \A i \in Ids : i >= id => rows[i] = 0

AnotherPage ==
    /\ \E id \in Ids, value \in Values \union {0} :
          /\ rows[id] # 0 \/ Fresh(id)
          /\ rows' = [rows EXCEPT ![id] = value]
    /\ UNCHANGED <<page, screen, handler>>

Answer(h, outcome) ==
    handler' = [handler EXCEPT ![h] = [@ EXCEPT !.at = outcome]]

(* "blocked" is the delete_guard_error of accounts and brokers.            *)
Refuse(h) ==
    /\ \E outcome \in {"failed"} \union (IF handler[h].op = "delete" THEN {"blocked"} ELSE {}) :
          Answer(h, outcome)
    /\ UNCHANGED rows

Serve(h) ==
    CASE handler[h].op = "load" ->
           /\ handler' = [handler EXCEPT ![h] = [@ EXCEPT !.at = "done", !.got = rows]]
           /\ UNCHANGED rows
      [] handler[h].op = "create" ->
           \E id \in Ids : /\ Fresh(id) /\ rows' = [rows EXCEPT ![id] = handler[h].value]
                           /\ Answer(h, "done")
      [] OTHER ->
           /\ rows' = IF rows[handler[h].id] = 0 THEN rows
                      ELSE [rows EXCEPT ![handler[h].id] = handler[h].value]
           /\ Answer(h, IF rows[handler[h].id] = 0 THEN "missing" ELSE "done")

Service(h) ==
    /\ handler[h] # Rested /\ handler[h].at = "service"
    /\ Serve(h) \/ Refuse(h)
    /\ UNCHANGED <<page, screen>>

-----------------------------------------------------------------------------
(* What a handler does when its service has answered. *)

Ends(h) == handler' = [handler EXCEPT ![h] = Rested]

Reloads(h) == handler' = [handler EXCEPT ![h] = Reload]

(* Fault: the row the call was for is shown again, whatever is selected.   *)
ReopenedFor(p, id) == IF p.cache[id] = 0 THEN p ELSE Filled(p, id)

(* The guard's branch of _confirm_delete, which looks up what is selected  *)
(* by now.                                                                 *)
Reopened(p, id) ==
    IF p.selected = 0 \/ p.cache[p.selected] = 0 THEN p ELSE Filled(p, p.selected)

(* _reload *)
LoadedPage(p, got) == [p EXCEPT !.cache = got, !.selected = 0]

Resume(h) ==
    LET call == handler[h] IN
    /\ call # Rested /\ call.at # "service"
    /\ CASE call.at = "failed" -> Ends(h) /\ UNCHANGED page
         [] call.at = "blocked" -> Ends(h) /\ page' = Reopened(page, call.id)
         [] call.op = "load" -> Ends(h) /\ page' = LoadedPage(page, call.got)
         [] OTHER ->
              /\ Reloads(h)
              /\ page' = [page EXCEPT !.edit = @ /\ ~(call.op = "update" /\ call.at = "done"),
                                      !.create = @ /\ call.op # "create"]
    /\ UNCHANGED <<rows, screen>>

PagesNext ==
    \/ Deliver \/ Cancel \/ OpenCreate \/ PressDelete \/ AnotherPage
    \/ \E i \in Ids : ClickRow(i)
    \/ \E v \in Values : Type(v)
    \/ \E h \in Handlers :
        \/ PressSave(h) \/ PressYes(h) \/ PressRefresh(h) \/ Service(h) \/ Resume(h)
        \/ \E v \in Values : PressAdd(h, v)

PagesSpec == PagesInit /\ [][PagesNext]_pageVars

-----------------------------------------------------------------------------
(* While a row is selected, the form and the question are about that row,  *)
(* whichever handlers of earlier rows come back meanwhile.                 *)
FormMatchesSelection ==
    page.selected # 0 => page.form = page.selected /\ page.question = page.selected

(* A save or a confirmed deletion goes to the id of the row the user had   *)
(* in front of them, although the screen is behind the page.  Whether the  *)
(* row itself was replaced under its id meanwhile, no handler asks.        *)
ActsOnWhatIsSeen ==
    [][\A h \in Handlers : handler[h] = Rested =>
          /\ handler'[h].op = "update" => handler'[h].id = screen.edit
          /\ handler'[h].op = "delete" => handler'[h].id = screen.confirm]_pageVars
=============================================================================
