----------------------------- MODULE Documents ------------------------------
(***************************************************************************)
(* GeBR's documents: projects name their lines, lines name their flows,    *)
(* each document is a file of the data directory (gebr/document.c), and    *)
(* the interface keeps the documents of the rows it shows                  *)
(* (gebr/project.c, line.c, flow.c, ui_project_line.c).                    *)
(*                                                                         *)
(* A handler changes the documents in memory and writes several files.  A  *)
(* save truncates the file first (gzopen "w"), and a new name is created   *)
(* empty (g_mkstemp).  GeBR may be killed between any two of these writes. *)
(***************************************************************************)
EXTENDS Naturals, Sequences, FiniteSets, FiniteSetsExt, SequencesExt

CONSTANTS
    Projects, Lines, Flows, \* the names mkstemp may come up with
    Nothing,                \* NULL
    Archived,               \* the name a flow has in an archive, which may be one of Flows
    MaxUpsets               \* bound: deaths of GeBR and drags of a line, together

ASSUME NamesAssumption ==
    /\ IsFiniteSet(Projects \cup Lines \cup Flows)
    /\ Projects \cap Lines = {} /\ Projects \cap Flows = {} /\ Lines \cap Flows = {}
    /\ Nothing \notin Projects \cup Lines \cup Flows
    /\ MaxUpsets \in Nat

Files == Projects \cup Lines \cup Flows

VARIABLES
    disk,       \* the data directory
    gui,        \* the process: rows, documents, selection, cache, clipboard
    made,       \* names that mkstemp has returned
    deleted,    \* documents the user has deleted
    crashes,    \* how often GeBR was killed
    drags       \* how often a line was dragged

vars == <<disk, gui, made, deleted, crashes, drags>>

-----------------------------------------------------------------------------
(* Files and the writes of a handler.                                        *)

Intact(names) == [is |-> "intact", names |-> names]
Broken == [is |-> "broken", names |-> <<>>]
Absent == [is |-> "absent", names |-> <<>>]

Write(f, c) == [file |-> f, content |-> c]
Make(f)        == <<Write(f, Broken)>>
Save(f, names) == <<Write(f, Broken), Write(f, Intact(names))>>
Unlink(f)      == <<Write(f, Absent)>>

(* The directory after the first n writes of s.                              *)
Written(s, n) ==
    [f \in Files |->
        LET last == {i \in 1..n : s[i].file = f}
        IN IF last = {} THEN disk[f] ELSE s[Max(last)].content]

NoRows == [l \in {} |-> <<>>]
RowAdded(rows, l, names) == [k \in DOMAIN rows \cup {l} |-> IF k = l THEN names ELSE rows[k]]

(* gebr before project_list_populate, and when it is not running.            *)
Closed == [on |-> FALSE, pending |-> {}, shown |-> {},
           doc |-> [p \in Projects |-> <<>>], row |-> [p \in Projects |-> NoRows],
           project |-> Nothing, line |-> Nothing, browser |-> <<>>,
           cache |-> {}, clip |-> Nothing]

(* A handler that leaves the process as g and writes s runs to its end, or   *)
(* GeBR is killed after some of the writes.                                  *)
Perform(g, s, gone) ==
    \/ /\ gui' = g
       /\ disk' = Written(s, Len(s))
       /\ deleted' = deleted \cup gone
       /\ UNCHANGED crashes
    \/ /\ crashes + drags < MaxUpsets
       /\ crashes' = crashes + 1
       /\ \E n \in 1..Len(s) - 1 : disk' = Written(s, n)
       /\ gui' = Closed
       /\ UNCHANGED deleted

(* The names of a list that are in keep, in the order of the list: the n-th  *)
(* is the one with n of them up to it.                                       *)
Among(names, keep) ==
    LET K == {i \in DOMAIN names : names[i] \in keep}
    IN [n \in 1..Cardinality(K) |->
          names[CHOOSE i \in K : Cardinality({k \in K : k <= i}) = n]]

(* Mutant: the reference is dropped in memory and not saved.                 *)
LoadedUnsaved(parent, names, cached, ignored) ==
    LET ok == {f \in ToSet(names) : f \in cached \/ disk[f].is = "intact"}
        stops == {i \in DOMAIN names : names[i] \notin ok /\ ~(names[i] \in ignored /\ disk[names[i]].is = "broken")}
        k == IF stops = {} THEN 0 ELSE Min(stops)
    IN IF k = 0 THEN [names |-> names, shown |-> Among(names, ok), script |-> <<>>]
       ELSE [names  |-> RemoveAt(names, k),
             shown  |-> Among(SubSeq(names, 1, k - 1), ok),
             script |-> <<>>]

(* Loading what a list names, one after the other                            *)
(* (document_load_path_with_parent).  A file that is missing loses its       *)
(* reference (remove_parent_ref); for one that cannot be parsed the user     *)
(* says Ignore, or Delete, which drops the reference and the file.  The      *)
(* loops that call it stand on the reference that is removed, and            *)
(* gebr_geoxml_sequence_next ends them there.                                *)
Loaded(parent, names, cached, ignored) ==
    LET ok == {f \in ToSet(names) : f \in cached \/ disk[f].is = "intact"}
        stops == {i \in DOMAIN names : names[i] \notin ok /\ ~(names[i] \in ignored /\ disk[names[i]].is = "broken")}
        k == IF stops = {} THEN 0 ELSE Min(stops)
    IN IF k = 0 THEN [names |-> names, shown |-> Among(names, ok), script |-> <<>>]
       ELSE [names  |-> RemoveAt(names, k),
             shown  |-> Among(SubSeq(names, 1, k - 1), ok),
             script |-> Save(parent, RemoveAt(names, k))
                        \o IF disk[names[k]].is = "broken" THEN Unlink(names[k]) ELSE <<>>]

-----------------------------------------------------------------------------
Init ==
    /\ disk = [f \in Files |-> Absent]
    /\ gui = Closed
    /\ made = {} /\ deleted = {} /\ crashes = 0 /\ drags = 0

(* project_list_populate: every project file of the directory ...            *)
Start ==
    /\ ~gui.on
    /\ gui' = [Closed EXCEPT !.on = TRUE, !.pending = {p \in Projects : disk[p].is # "absent"}]
    /\ UNCHANGED <<disk, made, deleted, crashes, drags>>

(* The two writes of Save for each of the names.                             *)
Resaved(names) ==
    [i \in 1..2 * Len(names) |->
        LET l == names[(i + 1) \div 2]
        IN Write(l, IF i % 2 = 1 THEN Broken ELSE Intact(disk[l].names))]

(* ... is loaded, and its lines with it (project_load_with_lines).  Lines    *)
(* that belong to no maestro yet (unclaimed) are given one and saved as they *)
(* are read.                                                                 *)
LoadProject(p) ==
    /\ p \in gui.pending
    /\ \E ignored \in SUBSET {f \in Projects \cup Lines : disk[f].is = "broken"},
         unclaimed \in SUBSET Lines :
         IF disk[p].is = "intact"
         THEN LET ls == Loaded(p, disk[p].names, {}, ignored)
              IN Perform([gui EXCEPT !.pending = @ \ {p}, !.shown = @ \cup {p},
                                     !.doc[p] = ls.names,
                                     !.row[p] = [l \in ToSet(ls.shown) |-> disk[l].names]],
                         Resaved(Among(ls.shown, unclaimed)) \o ls.script, {})
         ELSE Perform([gui EXCEPT !.pending = @ \ {p}],
                      IF p \in ignored THEN <<>> ELSE Unlink(p), {})
    /\ UNCHANGED <<made, drags>>

Up == gui.on /\ gui.pending = {}

(* GeBR is closed, or killed while no handler runs.                          *)
Quit ==
    /\ gui.on
    /\ gui' = Closed
    /\ UNCHANGED <<disk, made, deleted, crashes, drags>>

Fresh(f) == f \notin made /\ made' = made \cup {f}

-----------------------------------------------------------------------------
(* Projects and lines.                                                       *)

(* The selection without a line in it (project_line_free, project_line_load).*)
Unselected(g) == [g EXCEPT !.project = Nothing, !.line = Nothing, !.browser = <<>>]

(* project_new                                                               *)
ProjectNew(p) ==
    /\ Up /\ Fresh(p)
    /\ Perform([Unselected(gui) EXCEPT !.shown = @ \cup {p}, !.project = p],
               Make(p) \o Save(p, <<>>), {})
    /\ UNCHANGED drags

(* project_delete: a project without rows below it.                          *)
ProjectDelete(p) ==
    /\ Up /\ p \in gui.shown
    /\ DOMAIN gui.row[p] = {}
    /\ Perform([Unselected(gui) EXCEPT !.shown = @ \ {p}, !.doc[p] = <<>>], Unlink(p), {p})
    /\ UNCHANGED <<made, drags>>

(* Mutant: the line is saved, the project is not.                            *)
LineNewUnlisted(l) ==
    LET p == gui.project
        names == Append(gui.doc[p], l)
    IN /\ Up /\ p # Nothing /\ Fresh(l)
       /\ Perform([gui EXCEPT !.doc[p] = names, !.row[p] = RowAdded(@, l, <<>>),
                              !.line = l, !.browser = <<>>],
                  Make(l) \o Save(l, <<>>), {})
       /\ UNCHANGED drags

(* line_new                                                                  *)
LineNew(l) ==
    LET p == gui.project
        names == Append(gui.doc[p], l)
    IN /\ Up /\ p # Nothing /\ Fresh(l)
       /\ Perform([gui EXCEPT !.doc[p] = names, !.row[p] = RowAdded(@, l, <<>>),
                              !.line = l, !.browser = <<>>],
                  Make(l) \o Save(p, names) \o Save(l, <<>>), {})
       /\ UNCHANGED drags

(* The row of a line goes.                                                   *)
RowRemoved(g, p, l) == [g EXCEPT !.row[p] = [k \in DOMAIN @ \ {l} |-> @[k]]]

UnlinkAll(names) == [i \in DOMAIN names |-> Write(names[i], Absent)]

(* line_delete: the flows' files go first; the line's own file goes only if  *)
(* the project's document names it.                                          *)
LineDelete(p, l) ==
    LET flows == gui.row[p][l]
        names == RemoveFirst(gui.doc[p], l)
        named == l \in ToSet(gui.doc[p])
    IN /\ Up /\ l \in DOMAIN gui.row[p]
       /\ Perform([Unselected(RowRemoved(gui, p, l)) EXCEPT !.doc[p] = names],
                  UnlinkAll(flows) \o IF named THEN Save(p, names) \o Unlink(l) ELSE <<>>,
                  {l} \cup ToSet(flows))
       /\ UNCHANGED <<made, drags>>

(* project_line_load: the selection moves to a project, or to a line, whose  *)
(* flows are loaded (line_load_flows).                                       *)
SelectProject(p) ==
    /\ Up /\ p \in gui.shown
    /\ gui' = [Unselected(gui) EXCEPT !.project = p]
    /\ UNCHANGED <<disk, made, deleted, crashes, drags>>

LoadFlows(g, p, l, ignored) ==
    LET fs == Loaded(l, g.row[p][l], g.cache, ignored)
    IN [gui |-> [g EXCEPT !.project = p, !.line = l, !.browser = fs.shown,
                          !.cache = @ \cup ToSet(fs.shown), !.row[p][l] = fs.names],
        script |-> fs.script]

BrokenFlows == {f \in Flows : disk[f].is = "broken"}

(* While the maestro of the line is not logged in no flow is loaded.         *)
Selections(g, p, l) ==
    {LoadFlows(g, p, l, ignored) : ignored \in SUBSET BrokenFlows}
    \cup {[gui |-> [g EXCEPT !.project = p, !.line = l, !.browser = <<>>], script |-> <<>>]}

SelectLine(p, l) ==
    /\ Up /\ l \in DOMAIN gui.row[p]
    /\ \E lf \in Selections(gui, p, l) : Perform(lf.gui, lf.script, {})
    /\ UNCHANGED <<made, drags>>

(* project_line_move to the i-th place of q: the lists that are changed and  *)
(* saved are read from the disk; the documents of the rows stay as they are. *)
ProjectLineMove(p, l, q, i) ==
    LET src == RemoveFirst(disk[p].names, l)
    IN IF p = q THEN Save(p, InsertAt(src, i, l))
       ELSE Save(p, src) \o Save(q, InsertAt(disk[q].names, i, l))

(* line_reorder: the row moves below q, and the line becomes the selection.  *)
LineMove(p, l, q) ==
    /\ Up /\ crashes + drags < MaxUpsets /\ drags' = drags + 1
    /\ l \in DOMAIN gui.row[p] /\ q \in gui.shown
    /\ LET g == [RowRemoved(gui, p, l) EXCEPT !.row[q] = RowAdded(@, l, gui.row[p][l])]
           places == 1..Len(disk[q].names) + IF p = q THEN 0 ELSE 1
       IN \E i \in places, lf \in Selections(g, q, l) :
            Perform(lf.gui, ProjectLineMove(p, l, q, i) \o lf.script, {})
    /\ UNCHANGED made

(* The properties, the help and the dictionary of a project or of a line are *)
(* saved with the row's document; so is every line, one after the other,     *)
(* when a maestro has logged in (update_xml_parameters).                     *)
SaveProject ==
    /\ Up /\ gui.project # Nothing
    /\ Perform(gui, Save(gui.project, gui.doc[gui.project]), {})
    /\ UNCHANGED <<made, drags>>

SaveLine(p, l) ==
    /\ Up /\ l \in DOMAIN gui.row[p]
    /\ Perform(gui, Save(l, gui.row[p][l]), {})
    /\ UNCHANGED <<made, drags>>

(* document_import_single and line_import for a line with one flow: the line *)
(* is saved under its new name while it still names what the archive names.  *)
LineImport(l, f) ==
    LET p == gui.project
        names == Append(gui.doc[p], l)
    IN /\ Up /\ p # Nothing
       /\ l \notin made /\ f \notin made /\ made' = made \cup {l, f}
       /\ Perform([gui EXCEPT !.doc[p] = names, !.row[p] = RowAdded(@, l, <<f>>),
                              !.line = l, !.browser = <<f>>, !.cache = @ \cup {f}],
                  Make(l) \o Save(l, <<Archived>>) \o Make(f) \o Save(f, <<>>)
                  \o Save(l, <<f>>) \o Save(p, names) \o Save(l, <<f>>), {})
       /\ UNCHANGED drags

-----------------------------------------------------------------------------
(* Flows of the selected line.                                               *)

Line == gui.row[gui.project][gui.line]
Relisted(names) == [gui EXCEPT !.row[gui.project][gui.line] = names]
LineSelected == Up /\ gui.line # Nothing

(* flow_new; flow_import_single saves the line once more, before.            *)
FlowNew(f) ==
    LET names == Append(Line, f)
    IN /\ LineSelected /\ Fresh(f)
       /\ \E import \in BOOLEAN :
            Perform([Relisted(names) EXCEPT !.browser = Append(@, f), !.cache = @ \cup {f}],
                    Make(f) \o (IF import THEN Save(gui.line, Line) ELSE <<>>)
                    \o Save(gui.line, names) \o Save(f, <<>>), {})
       /\ UNCHANGED drags

(* Mutant: the file goes and the line keeps its reference on the disk.       *)
FlowDeleteUnsaved(f) ==
    LET names == RemoveFirst(Line, f)
    IN /\ LineSelected /\ f \in ToSet(gui.browser)
       /\ Perform([Relisted(names) EXCEPT !.browser = RemoveFirst(@, f)], Unlink(f), {f})
       /\ UNCHANGED <<made, drags>>

(* flow_delete: the cache keeps the document.                                *)
FlowDelete(f) ==
    LET names == RemoveFirst(Line, f)
    IN /\ LineSelected /\ f \in ToSet(gui.browser)
       /\ Perform([Relisted(names) EXCEPT !.browser = RemoveFirst(@, f)],
                  (IF names # Line THEN Save(gui.line, names) ELSE <<>>) \o Unlink(f), {f})
       /\ UNCHANGED <<made, drags>>

(* flow_copy keeps the name of the flow, flow_paste reads the file again and *)
(* imports it: the new flow is saved before the line that names it.          *)
FlowCopy(f) ==
    /\ LineSelected /\ f \in ToSet(gui.browser)
    /\ gui' = [gui EXCEPT !.clip = f]
    /\ UNCHANGED <<disk, made, deleted, crashes, drags>>

(* Mutant: the pasted reference is the one that was copied.                  *)
FlowPasteSame(f) ==
    LET names == Append(Line, gui.clip)
    IN /\ LineSelected /\ gui.clip # Nothing /\ gui.clip \notin ToSet(Line)
       /\ Fresh(f)
       /\ Perform([Relisted(names) EXCEPT !.browser = Append(@, gui.clip)],
                  Save(gui.line, names), {})
       /\ UNCHANGED drags

(* Mutant: the same, into the line it was copied from.                       *)
FlowPasteTwice(f) ==
    LET names == Append(Line, gui.clip)
    IN /\ LineSelected /\ gui.clip \in ToSet(Line)
       /\ Fresh(f)
       /\ Perform([Relisted(names) EXCEPT !.browser = Append(@, gui.clip)],
                  Save(gui.line, names), {})
       /\ UNCHANGED drags

FlowPaste(f) ==
    LET names == Append(Line, f)
    IN /\ LineSelected /\ gui.clip # Nothing /\ disk[gui.clip].is = "intact"
       /\ Fresh(f)
       /\ Perform([Relisted(names) EXCEPT !.browser = Append(@, f), !.cache = @ \cup {f}],
                  Make(f) \o Save(f, <<>>) \o Save(gui.line, names), {})
       /\ UNCHANGED drags

(* The name f just before or just after the name g.                          *)
At(names, f) == CHOOSE i \in DOMAIN names : names[i] = f
Beside(names, f, g, after) ==
    LET rest == RemoveFirst(names, f)
    IN InsertAt(rest, At(rest, g) + IF after THEN 1 ELSE 0, f)

(* Mutant: the references are looked up by the indices of the rows.          *)
FlowMoveByIndex(f, g) ==
    LET b == gui.browser
    IN /\ LineSelected /\ f # g /\ {f, g} \subseteq ToSet(b)
       /\ \E after \in BOOLEAN :
            LET names == Beside(Line, Line[At(b, f)], Line[At(b, g)], after)
            IN Perform([Relisted(names) EXCEPT !.browser = Beside(b, f, g, after)],
                       Save(gui.line, names), {})
       /\ UNCHANGED <<made, drags>>

(* reorder_flows_or_programs: the row of f is dropped before or after the    *)
(* row of g, and the reference that each row holds moves likewise.           *)
FlowMove(f, g) ==
    /\ LineSelected /\ f # g /\ {f, g} \subseteq ToSet(gui.browser)
    /\ \E after \in BOOLEAN :
         LET names == Beside(Line, f, g, after)
         IN Perform([Relisted(names) EXCEPT !.browser = Beside(@, f, g, after)],
                    Save(gui.line, names), {})
    /\ UNCHANGED <<made, drags>>

-----------------------------------------------------------------------------
Next ==
    \/ Start \/ Quit \/ SaveProject
    \/ \E p \in Projects :
         LoadProject(p) \/ ProjectNew(p) \/ ProjectDelete(p) \/ SelectProject(p)
    \/ \E l \in Lines : LineNew(l)
    \/ \E p \in Projects, l \in Lines : LineDelete(p, l) \/ SelectLine(p, l) \/ SaveLine(p, l)
    \/ \E p, q \in Projects, l \in Lines : LineMove(p, l, q)
    \/ \E l \in Lines, f \in Flows : LineImport(l, f)
    \/ \E f \in Flows : FlowNew(f) \/ FlowDelete(f) \/ FlowCopy(f) \/ FlowPaste(f)
    \/ \E f, g \in Flows : FlowMove(f, g)

Spec == Init /\ [][Next]_vars

-----------------------------------------------------------------------------
(* Properties.  A line that was dragged is exempt from most of them: the     *)
(* documents of its projects' rows are then out of step with the disk, and a *)
(* run of its own shows what follows.                                        *)

Distinct(names) == Cardinality(ToSet(names)) = Len(names)
Names(f) == ToSet(disk[f].names)

(* Types: projects name lines, lines name flows, and no list, on the disk or *)
(* in memory, names a document twice.                                        *)
TypeOK ==
    /\ \A f \in Files : disk[f].is \in {"absent", "broken", "intact"}
    /\ \A p \in Projects : /\ Names(p) \subseteq Lines /\ ToSet(gui.doc[p]) \subseteq Lines
                           /\ DOMAIN gui.row[p] \subseteq Lines
    /\ \A l \in Lines : Names(l) \subseteq Flows \cup {Archived}
    /\ \A f \in Flows : Names(f) = {}
    /\ gui.pending \cap gui.shown = {}
    /\ made \subseteq Files /\ deleted \subseteq made
    /\ drags = 0 => /\ \A f \in Files : Distinct(disk[f].names)
                    /\ \A p \in Projects : Distinct(gui.doc[p])
                    /\ Distinct(gui.browser)

(* What the rows hold is what the files hold: after any sequence of handlers *)
(* and of deaths between two writes, each row's document names exactly what  *)
(* its file names, and a load that drops a reference drops it in both        *)
(* (document_load_path_with_parent, remove_parent_ref).                      *)
MemoryIsDisk ==
    drags = 0 => \A p \in gui.shown :
        /\ disk[p] = Intact(gui.doc[p])
        /\ DOMAIN gui.row[p] \subseteq ToSet(gui.doc[p])
        /\ \A l \in DOMAIN gui.row[p] : disk[l] = Intact(gui.row[p][l])

Before(names, f, g) ==
    \E i, j \in DOMAIN names : i < j /\ names[i] = f /\ names[j] = g

(* The flow browser shows flows of the selected line that have a file, in    *)
(* the order of the line, whatever was interrupted: a flow that is broken    *)
(* and ignored, or that comes after a lost one, has a reference and no row,  *)
(* and the rows are moved apart from the references                          *)
(* (reorder_flows_or_programs, line_load_flows).                             *)
BrowserInOrder ==
    drags = 0 /\ gui.line # Nothing =>
        /\ \A f \in ToSet(gui.browser) : f \in ToSet(Line) /\ disk[f].is = "intact"
        /\ \A f, g \in ToSet(gui.browser) : Before(gui.browser, f, g) => Before(Line, f, g)

Listed == UNION {Names(p) : p \in Projects}

(* No document has two parents on the disk, whatever was interrupted.  The   *)
(* exception is a line that an interrupted import has left in no project: it *)
(* may name a flow as the archive does, which is another line's flow when    *)
(* what was exported from here is imported again (line_import).              *)
OneParent ==
    drags = 0 =>
        /\ \A p, q \in Projects : p # q => Names(p) \cap Names(q) = {}
        /\ \A l, k \in Lines : l # k =>
              Names(l) \cap Names(k) \subseteq IF {l, k} \subseteq Listed THEN {} ELSE {Archived}

(* Without a crash every document is in its place: a line that has a file is *)
(* named by a project, a flow by a line, and every name has its file         *)
(* (line_new, flow_new, line_delete, flow_delete, flow_paste).               *)
NothingLost ==
    crashes = 0 /\ drags = 0 =>
        /\ \A l \in Lines : disk[l] # Absent <=> \E p \in Projects : l \in Names(p)
        /\ \A f \in Flows : disk[f] # Absent <=> \E l \in Lines : f \in Names(l)

(* What the user has deleted stays deleted: no file, no row, no name on the  *)
(* disk that a later start could follow, although the cache keeps documents. *)
StaysDeleted ==
    drags = 0 => \A f \in deleted :
        /\ disk[f] = Absent
        /\ f \notin gui.shown \cup ToSet(gui.browser)
        /\ \A p \in Projects : f \notin DOMAIN gui.row[p] /\ f \notin Names(p)
        /\ \A l \in Lines : f \in Names(l) => f = Archived /\ l \notin Listed

(* project.h: project_line_move moves the line to the other project.  The    *)
(* rows' documents do not follow, so that the next save of a project undoes  *)
(* half of the move: a line the user has not deleted is then in no project,  *)
(* or in two.                                                                *)
MovedLineKept ==
    crashes = 0 => \A l \in Lines : disk[l] # Absent /\ l \notin deleted =>
        Cardinality({p \in Projects : l \in Names(p)}) = 1
=============================================================================
