----------------------------- MODULE IsinSearch -----------------------------
(***************************************************************************)
(* The create form of the bonds page: a search of the reference as the     *)
(* ISIN is typed, delayed, cancelled by what is typed next, and a form     *)
(* that the chosen candidate fills.  Change handlers are tasks: they run   *)
(* after the event that started them, one by one.                          *)
(***************************************************************************)
EXTENDS Integers, Sequences

CONSTANTS
    Texts,          \* what may stand in the field and is searched for
    Isins,          \* those of them a candidate has
    MaxEdits        \* bound: changes of the field

(* Nothing typed, no ISIN to pass over, no candidates listed. *)
Blank == ""

ASSUME IsinAssumption == Isins \subseteq Texts /\ Blank \notin Texts /\ MaxEdits \in Nat

VARIABLES
    field,          \* isin_input.value
    applied,        \* applied_isin
    changes,        \* handlers of on_value_change that have not run
    searches,       \* search tasks that are alive
    current,        \* isin_search_task, 0 if None
    shown,          \* the query whose candidates are listed
    dialog,         \* is the dialog open?
    edits,
    note            \* which changes were passed over or came late

isinVars == <<field, applied, changes, searches, current, shown, dialog, edits, note>>

IsinInit ==
    /\ field = Blank /\ applied = Blank /\ changes = <<>>
    /\ searches = {} /\ current = 0 /\ shown = Blank /\ dialog = FALSE
    /\ edits = 0 /\ note = [passed |-> FALSE, late |-> FALSE]

Put(text) ==
    /\ field' = text
    /\ IF text = field THEN UNCHANGED <<changes, edits>>
       ELSE changes' = Append(changes, text) /\ edits' = edits + 1

(* Fault: the task is forgotten and goes on. *)
Forgotten == searches

(* _cancel_isin_search: a cancelled task takes no further step, be it in   *)
(* its delay or at the provider.                                           *)
Remaining == {s \in searches : s.id # current}

CancelSearch == searches' = Remaining /\ current' = 0

TypeIsin(text) ==
    /\ dialog /\ edits < MaxEdits /\ text # field
    /\ Put(text)
    /\ UNCHANGED <<applied, searches, current, shown, dialog, note>>

(* _on_isin_change for the oldest change. *)
PassedOver(text) == applied # Blank /\ text = applied

Started(text) ==
    LET id == edits + 1 - Len(changes) IN
    IF text = Blank THEN searches' = Remaining /\ current' = 0
    ELSE /\ searches' = Remaining \union {[id |-> id, query |-> text, at |-> "delay"]}
         /\ current' = id

HandleChange ==
    /\ changes # <<>> /\ changes' = Tail(changes)
    /\ IF PassedOver(Head(changes)) THEN
         /\ applied' = Blank
         /\ note' = [note EXCEPT !.passed = searches # {} \/ shown # Blank]
         /\ UNCHANGED <<searches, current, shown>>
       ELSE
         /\ Started(Head(changes)) /\ shown' = Blank
         /\ note' = [passed |-> FALSE, late |-> note.late \/ ~dialog]
         /\ UNCHANGED applied
    /\ UNCHANGED <<field, dialog, edits>>

(* The delay is over: the provider is asked. *)
AskReference(s) ==
    /\ s.at = "delay"
    /\ searches' = (searches \ {s}) \union {[s EXCEPT !.at = "provider"]}
    /\ UNCHANGED <<field, applied, changes, current, shown, dialog, edits, note>>

(* Candidates, or none and a hint: no candidate, or the provider failed.   *)
Render(s) ==
    /\ s.at = "provider"
    /\ searches' = searches \ {s}
    /\ shown' \in {s.query, Blank}
    /\ UNCHANGED <<field, applied, changes, current, dialog, edits, note>>

(* _apply_reference for a candidate of the list. *)
Apply(isin) ==
    /\ shown # Blank /\ dialog
    /\ applied' = isin /\ Put(isin)
    /\ CancelSearch /\ shown' = Blank
    /\ UNCHANGED <<dialog, note>>

(* Fault: closing leaves the search alone. *)
LeftOnClose == UNCHANGED <<searches, current>> /\ shown' = Blank

(* _on_create_dialog_change *)
CleanedOnClose == CancelSearch /\ shown' = Blank

CloseDialog ==
    /\ dialog /\ dialog' = FALSE
    /\ CleanedOnClose
    /\ UNCHANGED <<field, applied, changes, edits, note>>

(* _open_create_dialog after _reset_create_form. *)
OpenDialog ==
    /\ ~dialog /\ dialog' = TRUE /\ edits < MaxEdits
    /\ Put(Blank) /\ applied' = Blank /\ CancelSearch /\ shown' = Blank
    /\ note' = [passed |-> FALSE, late |-> FALSE]

IsinNext ==
    \/ HandleChange \/ CloseDialog \/ OpenDialog
    \/ \E text \in Texts \union {Blank} : TypeIsin(text)
    \/ \E s \in searches : AskReference(s) \/ Render(s)
    \/ \E isin \in Isins : Apply(isin)

IsinSpec == IsinInit /\ [][IsinNext]_isinVars

-----------------------------------------------------------------------------
(* With every change handled, the candidates are those for the text in the *)
(* field: no search for an older text is alive to replace them.  Not so    *)
(* after a change that was passed over beside a running search.            *)
CandidatesMatchField ==
    changes = <<>> /\ ~note.passed =>
        /\ shown \in {Blank, field}
        /\ \A s \in searches : s.query = field

(* A closed dialog has no search and no candidates, but for a change whose *)
(* handler came after the close.                                           *)
ClosedDialogIsQuiet == ~dialog /\ ~note.late => searches = {} /\ shown = Blank
=============================================================================
