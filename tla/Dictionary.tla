----------------------------- MODULE Dictionary -----------------------------
(***************************************************************************)
(* The dialog in which a user edits the variables of a project, a line and   *)
(* a flow (gebr/ui_document.c), and whoever else drives the one validator of  *)
(* GeBR: selecting a flow or a line, checking every flow when the dialog      *)
(* closes, reverting to a snapshot, an import thread that pushes the         *)
(* documents it reads.                                                      *)
(*                                                                         *)
(* The dialog keeps no model of its own: after an edit it evaluates, with the  *)
(* validator, the rows from the edited one down, and draws a warning on those  *)
(* that have no value.  What is checked is that those marks, and the values    *)
(* the rest of GeBR computes, are those a reader of the documents would give.  *)
(***************************************************************************)
EXTENDS Validator

CONSTANTS
    LineOf,         \* the line of each flow; the project is the one of all lines
    TheProject,
    InitialDict,    \* the variables each document has when GeBR starts
    Snapshot,       \* those a flow has after it is reverted
    EditValues,     \* the values a user types
    Pages,          \* bound: the lowest scopes that the dialog is opened for
    KeepOne,        \* documents that always have a variable with a value
    MaxRows,        \* bound: rows of a document
    MaxEdits,       \* bound: edits of the user
    MaxPushed       \* bound: documents pushed at a time

Flows    == DOMAIN LineOf
Lines    == {LineOf[f] : f \in Flows}
\* The projects that an import reads.
Imported == Docs \ (Flows \cup Lines \cup {TheProject})
NewValue == [op |-> "empty", dep |-> {}]

VARIABLES
    validator,      \* the record of module Validator
    dict,           \* the variables of each document
    dialog,         \* the lowest scope that the dialog shows, Closed without one
    shown,          \* the mark on the row of a variable: none, ok or bad
    edits,          \* edits of the dialogs so far
    refused,        \* history: an empty value was refused since the dialog opened
    cancelled       \* history: a new variable was left without a type

vars == <<validator, dict, dialog, shown, edits, refused, cancelled>>

Closed    == Project + 1
Shows(s)  == dialog <= s
Doc(s)    == Head(validator.stack[s])
NoMarks   == [n \in Names |-> [s \in Scopes |-> "none"]]
Over(s)   == Len(validator.stack[s]) - 1      \* what is pushed over the selected one
Pushed    == Over(Flow) + Over(Line) + Over(Project)
Rest(rows, i) == SubSeq(rows, i, Len(rows))

\* Flow f, its line and the project are selected.
Selected(f) == [s \in Scopes |-> <<CASE s = Flow    -> f
                                     [] s = Line    -> LineOf[f]
                                     [] s = Project -> TheProject>>]

\* The types; every weight is a natural number (compute_weight).
TypeOK ==
    /\ validator.store \in [Names -> [Scopes -> Entry]]
    /\ validator.docs \in [Scopes -> Docs \cup {NoDoc}]
    /\ validator.stack \in [Scopes -> Seq(Docs)]
    /\ validator.cached \in Scopes \cup {Unknown}
    /\ validator.bc \in [Names -> {0, 1}]
    /\ dict \in [Docs -> Seq(Rows)]
    /\ dialog \in Scopes \cup {Closed}
    /\ shown \in [Names -> [Scopes -> {"none", "ok", "bad"}]]
    /\ edits \in 0..MaxEdits
    /\ {refused, cancelled} \subseteq BOOLEAN

Init ==
    \E f \in Flows :
        /\ validator = NewValidator(InitialDict, Selected(f))
        /\ dict = InitialDict
        /\ dialog = Closed
        /\ shown = NoMarks
        /\ edits = 0
        /\ refused = FALSE
        /\ cancelled = FALSE
-----------------------------------------------------------------------------
(* Marks                                                                    *)

\* validate_param_and_set_icon_tooltip, after the evaluation e and with it
Marked(marks, e, row, s) ==
    [w |-> e.w, shown |-> [marks EXCEPT ![row.name][s] = IF e.ok THEN "ok" ELSE "bad"]]

Mark(u, d, row, s) == Marked(u.shown, EvaluateParam(u.w, d, row, s), row, s)

\* mutant: the documents below that of the edited row are not evaluated
RefreshOneScope(w, d, marks, s, i, low) ==
    FoldLeft(LAMBDA v, row : Mark(v, d, row, s), [w |-> w, shown |-> marks],
             Rest(d[Head(w.stack[s])], i))

\* validate_dict_iter: the rows of scope s from the i-th, then those below,
\* down to the lowest scope shown.
Refresh(w, d, marks, s, i, low) ==
    LET marksOf(u, t) ==
            LET rows == d[Head(w.stack[t])]
            IN FoldLeft(LAMBDA v, row : Mark(v, d, row, t), u,
                        IF t = s THEN Rest(rows, i) ELSE rows)
    IN FoldLeft(marksOf, [w |-> w, shown |-> marks], SelectSeq(TopDown, LAMBDA t : low <= t /\ t <= s))

\* An edit that leaves the documents as d and the validator as w.
Edited(w, d, marks, s, i) ==
    /\ dict' = d
    /\ \E r \in {Refresh(w, d, marks, s, i, dialog)} : validator' = r.w /\ shown' = r.shown
    /\ edits' = edits + 1
    /\ UNCHANGED dialog

\* A variable whose last edit was refused: the validator keeps the error, the
\* document the value before it.
Refused(n, s) ==
    /\ validator.store[n][s].error = "empty"
    /\ \A i \in DOMAIN dict[Doc(s)] :
          dict[Doc(s)][i].name = n => dict[Doc(s)][i].value.op # "empty"
-----------------------------------------------------------------------------
(* The dialog                                                               *)

\* document_dict_edit_setup_ui: with the flow, or from the page of the lines
\* without it
OpenDictionary(low) ==
    /\ dialog = Closed
    /\ Pushed = 0
    /\ \E r \in {Refresh(validator, dict, NoMarks, Project, 1, low)} :
          validator' = r.w /\ shown' = r.shown
    /\ dialog' = low
    /\ refused' = \E n \in Names, s \in Scopes : Refused(n, s)
    /\ UNCHANGED <<dict, edits, cancelled>>

\* flow_browse_revalidate_flows: each flow of the line is pushed, its programs
\* are validated, and it is popped.
Revalidate(w, f) ==
    PopDocument(UpdateVars(PushDocument(w, dict, f, Flow), dict, Flow), dict, Flow)

\* close_and_destroy_dictionary_dialog
CloseDictionary ==
    /\ dialog # Closed
    /\ \E order \in SetToSeqs({f \in Flows : LineOf[f] = Doc(Line)}) :
          validator' = FoldLeft(Revalidate, validator, order)
    /\ dialog' = Closed
    /\ shown' = NoMarks
    /\ UNCHANGED <<dict, edits, refused, cancelled>>

Free(s, n) == n \notin NamesOf(dict[Doc(s)])

\* The 'New' row: the keyword inserts the variable with no value, the type
\* inserts it again, then its value is typed or left empty.
NewVariable(s, n, type, value) ==
    LET row(t, v) == [name |-> n, type |-> t, value |-> v]
        with(r) == [dict EXCEPT ![Doc(s)] = Append(@, r)]
        i       == Len(dict[Doc(s)]) + 1
        insert(w, r) == Insert(w, with(r)[Doc(s)], i, s)
        keyed   == insert(validator, row("number", NewValue))
        typed   == insert([keyed EXCEPT !.store[n][s].type = type], row(type, NewValue))
        marked  == EvaluateParam(typed, with(row(type, NewValue)), row(type, NewValue), s).w
    IN /\ Free(s, n)
       /\ i <= MaxRows
       /\ Edited(ChangeValue(marked, row(type, value), s), with(row(type, value)), shown, s, i)
       /\ UNCHANGED <<refused, cancelled>>

\* The 'New' row, when the choice of the type is cancelled: the row leaves the
\* document and the dialog.
CancelType(s, n) ==
    LET row == [name |-> n, type |-> "number", value |-> NewValue]
    IN /\ Free(s, n)
       /\ validator' = Insert(validator, Append(dict[Doc(s)], row), Len(dict[Doc(s)]) + 1, s)
       /\ edits' = MaxEdits   \* bound: the last edit
       /\ cancelled' = TRUE
       /\ UNCHANGED <<dict, dialog, shown, refused>>

\* The value column.  An empty value is refused: the document keeps the old one.
EditValue(s, i, value) ==
    LET rows == dict[Doc(s)]
        row  == [rows[i] EXCEPT !.value = value]
    IN /\ i \in DOMAIN rows
       /\ Edited(ChangeValue(validator, row, s),
                 IF value.op = "empty" THEN dict ELSE [dict EXCEPT ![Doc(s)][i] = row],
                 shown, s, i)
       /\ refused' = (refused \/ (value.op = "empty" /\ rows[i].value.op # "empty"))
       /\ UNCHANGED cancelled

\* The keyword column of a variable that has one.
RenameRow(s, i, n) ==
    LET old     == dict[Doc(s)][i].name
        renamed == [dict EXCEPT ![Doc(s)][i].name = n]
        w       == RenameVar(validator, old, n, s)
    IN /\ i \in DOMAIN dict[Doc(s)]
       /\ Free(s, n)
       /\ ~Present(validator, n, s)
       /\ Edited(Insert(w, renamed[Doc(s)], i, s), renamed,
                 [shown EXCEPT ![old][s] = "none"], s, i)
       /\ UNCHANGED <<refused, cancelled>>

MayLose(s, i) ==
    Doc(s) \in KeepOne => \E j \in DOMAIN dict[Doc(s)] \ {i} : dict[Doc(s)][j].value.op # "empty"

RemoveRow(s, i) ==
    LET n == dict[Doc(s)][i].name
    IN /\ i \in DOMAIN dict[Doc(s)]
       /\ MayLose(s, i)
       /\ Edited(RemoveVar(validator, n, s), [dict EXCEPT ![Doc(s)] = RemoveAt(@, i)],
                 [shown EXCEPT ![n][s] = "none"], s, i)
       /\ UNCHANGED <<refused, cancelled>>

\* gebr_validator_move of the i-th variable of s to the k-th place of t: the
\* documents and the validator after it.  A variable that changes scope is first
\* inserted at the end of its new document.
Moved(s, i, t, k) ==
    LET row  == dict[Doc(s)][i]
        appended == [dict EXCEPT ![Doc(t)] = Append(@, row)]
        last == Len(appended[Doc(t)])
        kept == HashRemove(IF s = t THEN validator
                           ELSE Insert(validator, appended[Doc(t)], last, t), row.name, s)
        left == [dict EXCEPT ![Doc(s)] = RemoveAt(@, i)]
        d    == [left EXCEPT ![Doc(t)] = InsertAt(@, k, row)]
    IN [dict |-> d, w |-> Insert(kept, d[Doc(t)], k, t)]

\* dict_edit_reorder, for a drop that dict_edit_can_reorder accepts.
MoveRow(s, i, t, k) ==
    LET n == dict[Doc(s)][i].name
        m == Moved(s, i, t, k)
        above == s > t \/ (s = t /\ i < k)
    IN /\ i \in DOMAIN dict[Doc(s)]
       /\ k <= Len(dict[Doc(t)]) + IF s = t THEN 0 ELSE 1
       /\ Shows(t)
       /\ s # t => ~Present(validator, n, t) /\ Len(dict[Doc(t)]) < MaxRows
       /\ s # t => MayLose(s, i)
       /\ Edited(m.w, m.dict, IF s = t THEN shown ELSE [shown EXCEPT ![n][s] = "none"],
                 IF above THEN s ELSE t, IF above THEN i ELSE k)
       /\ UNCHANGED <<refused, cancelled>>
-----------------------------------------------------------------------------
(* The rest of GeBR                                                         *)

\* flow_browse_load, after project_line_load when the line changes
Select(f) ==
    /\ dialog = Closed
    /\ Pushed = 0
    /\ f # Doc(Flow)
    /\ validator' = Update([validator EXCEPT !.stack = Selected(f)], dict)
    /\ UNCHANGED <<dict, dialog, shown, edits, refused, cancelled>>

\* gebr_validator_push_document by the thread that imports a project, a line or
\* a flow, or by the check of a flow before it runs
Push(d, s) ==
    /\ dialog = Closed
    /\ Pushed < MaxPushed
    /\ \A t \in Scopes : t < s => Over(t) = 0
    /\ validator' = PushDocument(validator, dict, d, s)
    /\ UNCHANGED <<dict, dialog, shown, edits, refused, cancelled>>

Pop(s) ==
    /\ Over(s) > 0
    /\ \A t \in Scopes : t < s => Over(t) = 0
    /\ validator' = PopDocument(validator, dict, s)
    /\ UNCHANGED <<dict, dialog, shown, edits, refused, cancelled>>

\* A program, a path or the completion of a name is evaluated.
Evaluate(s) ==
    /\ validator.cached # s
    /\ validator' = UpdateVars(validator, dict, s)
    /\ UNCHANGED <<dict, dialog, shown, edits, refused, cancelled>>

\* flow_browse_change_revision
Revert ==
    /\ dialog = Closed
    /\ Pushed = 0
    /\ Doc(Flow) \in DOMAIN Snapshot
    /\ LET d == [dict EXCEPT ![Doc(Flow)] = Snapshot[Doc(Flow)]]
       IN dict' = d /\ validator' = ForceUpdate(validator, d)
    /\ UNCHANGED <<dialog, shown, edits, refused, cancelled>>

Edit ==
    /\ dialog # Closed
    /\ edits < MaxEdits
    /\ \E s \in {t \in Scopes : Shows(t)} :
        \/ \E n \in Names, type \in Types, value \in EditValues \cup {NewValue} :
              NewVariable(s, n, type, value)
        \/ \E n \in Names : CancelType(s, n)
        \/ \E i \in 1..MaxRows :
              \/ \E value \in EditValues \cup {NewValue} : EditValue(s, i, value)
              \/ \E n \in Names : RenameRow(s, i, n)
              \/ RemoveRow(s, i)
              \/ \E t \in Scopes, k \in 1..MaxRows : MoveRow(s, i, t, k)

Next ==
    \/ \E low \in Pages : OpenDictionary(low)
    \/ CloseDictionary
    \/ Edit
    \/ \E f \in Flows : Select(f)
    \/ \E f \in Flows : Push(f, Flow)
    \/ \E l \in Lines : Push(l, Line)
    \/ \E p \in Imported : Push(p, Project)
    \/ \E s \in Scopes : Pop(s)
    \/ \E s \in Scopes : Evaluate(s)
    \/ Revert

Spec == Init /\ [][Next]_vars
-----------------------------------------------------------------------------
(* What the documents say                                                   *)

Error     == -1
Undefined == -2
Text      == -3

\* The rows from the project down to the last of the flow, in the order they
\* define values.
AllRows ==
    FlattenSeq([k \in 1..3 |->
        [i \in DOMAIN dict[Doc(TopDown[k])] |->
            [scope |-> TopDown[k], row |-> dict[Doc(TopDown[k])][i]]]])

\* What a row means to a reader who knows what the names above it mean.
RowMeaning(row, known) ==
    LET used == {known[n] : n \in row.value.dep}
    IN IF \/ row.value.op \in {"broken", "empty"}
          \/ row.name \in row.value.dep
          \/ used \cap {Error, Undefined} # {}
          \/ row.type = "number" /\ Text \in used
          \/ row.type = "number" /\ row.value.op = "inverse" /\ used = {0}
         THEN Error
         ELSE CASE row.type = "string"                             -> Text
                [] row.type = "number" /\ row.value.op = "zero"    -> 0
                [] row.type = "number" /\ row.value.op = "one"     -> 1
                [] row.type = "number" /\ row.value.op = "inverse" -> 1
                [] row.type = "number" /\ row.value.op = "copy"    -> CHOOSE v \in used : TRUE

\* The meaning of every name after the first i rows, of which it is the last
\* that has this name.
Meanings(rows) ==
    LET after[i \in 0..Len(rows)] ==
            IF i = 0 THEN [n \in Names |-> Undefined]
            ELSE LET above == after[i - 1]
                 IN [above EXCEPT ![rows[i].row.name] = RowMeaning(rows[i].row, above)]
    IN after
-----------------------------------------------------------------------------
(* Properties                                                               *)

\* The validator knows exactly the variables of the current documents, with
\* their types, after any edit, selection, push, pop or snapshot
\* (gebr_validator_insert, remove, rename, move, clean_cache), as long as no new
\* variable was left without a type: on_value_type_editing_canceled takes it
\* out of the document only.
StoreMatchesDocuments ==
    ~cancelled => \A s \in Scopes :
        /\ validator.docs[s] = Doc(s)
        /\ \A n \in Names : Present(validator, n, s) <=> n \in NamesOf(dict[Doc(s)])
        /\ \A i \in DOMAIN dict[Doc(s)] :
              validator.store[dict[Doc(s)][i].name][s].type = dict[Doc(s)][i].type

\* compute_weight halves the gap between two neighbours: whatever is inserted,
\* renamed or moved, the weights stay in the order of the document, on which
\* get_dep_param and the end of the recursion of get_error_indirect rest.
WeightsFollowOrder ==
    \A s \in Scopes : \A i, j \in DOMAIN dict[Doc(s)] :
        i < j => validator.store[dict[Doc(s)][i].name][s].weight
                   < validator.store[dict[Doc(s)][j].name][s].weight

\* While the dialog is open each variable has the mark its document earns it,
\* though only the rows below an edit are evaluated again (validate_dict_iter),
\* and each by an evaluation that reads errors and values left by others.
ShownRight ==
    ~refused /\ ~cancelled =>
        LET rows == AllRows
            mean == Meanings(rows)
        IN \A i \in DOMAIN rows : Shows(rows[i].scope) =>
              shown[rows[i].row.name][rows[i].scope]
                = IF mean[i][rows[i].row.name] = Error THEN "bad" ELSE "ok"

\* A flow's program that uses a name gets the value the current documents give
\* it (gebr_validator_evaluate), whatever was evaluated before.
EvaluatesCurrent ==
    LET rows == AllRows
        mean == Meanings(rows)[Len(rows)]
    IN ~cancelled /\ (\A n \in Names, s \in Scopes : ~Refused(n, s)) =>
          EvaluateName(validator, dict, Flow) = [n \in Names |-> IF mean[n] < 0 THEN Fail ELSE mean[n]]
=============================================================================
