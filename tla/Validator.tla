----------------------------- MODULE Validator -----------------------------
(***************************************************************************)
(* The variables of a project, a line and a flow, as GebrValidator keeps     *)
(* them (libgebr/gebr-validator.c).  The documents are the source of truth.  *)
(* The validator holds a hash of what it has seen of them, a weight for the   *)
(* order inside a document, the names each value uses, the last error of      *)
(* each, and a bc process whose variables hold the last values computed.      *)
(*                                                                         *)
(* The functions of the C file are operators on a record w:                   *)
(*   store   HashData by name and scope: param, weight, dep, error            *)
(*   docs    cache_docs, the documents the store was filled from              *)
(*   stack   the queues of documents, the current one first                   *)
(*   cached  cached_scope, the scope bc was last filled for                   *)
(*   bc      the variables of bc                                              *)
(* A row of a dictionary is [name, type, value].  A value is abstracted to     *)
(* what it does: a constant, a copy or the inverse of another variable, a      *)
(* syntax error, or nothing.                                                  *)
(***************************************************************************)
EXTENDS Integers, Sequences, SequencesExt

CONSTANTS
    Names,          \* keywords of variables
    NoName,         \* an expression that belongs to no variable
    Docs,           \* flows, lines and projects
    NoDoc,          \* a scope whose cache is empty
    WeightUnit      \* the 1.0 of weights; a power of two, so halves are exact

ASSUME ValidatorAssumption == NoName \notin Names /\ NoDoc \notin Docs /\ WeightUnit \in Nat

Flow    == 0
Line    == 1
Project == 2
Unknown == 3
Scopes  == Flow..Project
TopDown == <<Project, Line, Flow>>

Types  == {"number", "string"}
Ops    == {"zero", "one", "copy", "inverse", "broken", "empty"}
Values == [op: Ops, dep: SUBSET Names]
Rows   == [name: Names, type: Types, value: Values]
Fail   == -1

\* A name the store does not have at a scope.  The weight is what get_weight
\* answers for it.
Absent == [param |-> "none", type |-> "none", weight |-> -1, dep |-> {}, error |-> "none"]
Entry  == [param: {"none", "row"}, type: Types \cup {"none"},
           weight: Nat \cup {-1}, dep: SUBSET Names, error: {"none", "eval", "empty"}]

EmptyStore == [n \in Names |-> [s \in Scopes |-> Absent]]
NamesOf(rows) == {rows[i].name : i \in DOMAIN rows}
Present(w, n, s) == w.store[n][s].param # "none"
WithError(w, n, s, err) == [w EXCEPT !.store[n][s].error = err]
-----------------------------------------------------------------------------
(* References                                                               *)

\* get_param: the scope of the first parameter called n, from s upwards.
ParamScope(w, n, s) ==
    LET found == {t \in s..Project : Present(w, n, t)}
    IN IF found = {} THEN Unknown ELSE Min(found)

\* get_dep_param: which n an expression of variable me at scope s refers to.
\* One that comes later in the same document is passed over.
DepScope(w, me, s, n) ==
    LET t == ParamScope(w, n, s)
    IN IF me # NoName /\ t = s /\ w.store[n][t].weight > w.store[me][s].weight
         THEN ParamScope(w, n, s + 1)
         ELSE t

Usable(w, me, type, n, t) ==
    /\ n # me
    /\ t # Unknown
    /\ ~(type = "number" /\ w.store[n][t].type = "string")
    /\ w.store[n][t].error = "none"

\* get_error_indirect for the variables of the store: all that <<n, s>> uses,
\* directly or not, is usable.
WellDefined(w) ==
    LET ok[k \in Names \X Scopes] ==
            LET me == w.store[k[1]][k[2]]
            IN \A n \in me.dep :
                  LET t == DepScope(w, k[1], k[2], n)
                  IN Usable(w, k[1], me.type, n, t) /\ ok[<<n, t>>]
    IN ok

\* get_error_indirect for the names in deps.
IndirectOK(w, deps, me, type, s) ==
    \A n \in deps : LET t == DepScope(w, me, s, n)
                    IN Usable(w, me, type, n, t) /\ WellDefined(w)[<<n, t>>]
-----------------------------------------------------------------------------
(* Values                                                                   *)

\* What bc prints.  A variable it has never been given is 0.
Calc(bc, value) ==
    CASE value.op = "zero"    -> 0
      [] value.op = "one"     -> 1
      [] value.op = "copy"    -> bc[CHOOSE n \in value.dep : TRUE]
      [] value.op = "inverse" -> IF bc[CHOOSE n \in value.dep : TRUE] = 0 THEN Fail ELSE 1
      [] OTHER                -> Fail

\* validate_and_extract_param.  Without extract, deps is NULL.  Only errors of
\* the expression itself are stored; those of what it refers to are looked for
\* each time.
Validated(w, row, s, extract) ==
    LET n    == row.name
        refs == IndirectOK(w, row.value.dep, n, row.type, s)
        u    == IF extract THEN [w EXCEPT !.store[n][s].dep = row.value.dep] ELSE w
        calc == Calc(w.bc, row.value)
    IN CASE row.value.op = "empty"  -> WithError(w, n, s, "empty")
         [] row.value.op # "empty" /\ row.type = "string"
              -> WithError(u, n, s, IF row.value.op = "broken" THEN "eval" ELSE "none")
         [] row.value.op # "empty" /\ row.type = "number" /\ ~refs
              -> WithError(u, n, s, "none")
         [] row.value.op # "empty" /\ row.type = "number" /\ refs
              -> IF calc = Fail
                   THEN [WithError(u, n, s, "eval") EXCEPT !.cached = Unknown]
                   ELSE [WithError(u, n, s, "none") EXCEPT !.cached = Unknown, !.bc[n] = calc]

\* The part of gebr_validator_update_vars that visits one variable.  To a string
\* bc_reset assigns its number in the function str: some number that is not 0.
Revalidated(w, row, s) ==
    CASE ~WellDefined(w)[<<row.name, s>>] -> w
      [] WellDefined(w)[<<row.name, s>>] /\ row.type = "number" -> Validated(w, row, s, FALSE)
      [] WellDefined(w)[<<row.name, s>>] /\ row.type = "string"
           -> IF w.store[row.name][s].error = "none" THEN [w EXCEPT !.bc[row.name] = 1] ELSE w

RevalidatedDoc(w, dict, s) ==
    FoldLeft(LAMBDA u, row : Revalidated(u, row, s), w, dict[Head(w.stack[s])])

\* gebr_validator_update_vars: bc is filled from the current documents, the
\* project first, down to scope s; not at all when it was last filled for s.
UpdateVars(w, dict, s) ==
    IF w.cached = s THEN w
    ELSE [FoldLeft(LAMBDA u, t : RevalidatedDoc(u, dict, t),
                   w, SelectSeq(TopDown, LAMBDA t : t >= s)) EXCEPT !.cached = s]

\* gebr_validator_evaluate of the expression n, a number, for each name n.
EvaluateName(w, dict, s) ==
    LET u == UpdateVars(w, dict, s)
    IN [n \in Names |-> IF IndirectOK(u, {n}, NoName, "number", s) THEN u.bc[n] ELSE Fail]

Evaluated(w, row, s) == [w |-> w, ok |-> w.store[row.name][s].error = "none"]

\* gebr_validator_evaluate_param: the validator after it, and whether the
\* variable has a value.
EvaluateParam(w, dict, row, s) ==
    IF ~WellDefined(w)[<<row.name, s>>]
      THEN [w |-> w, ok |-> FALSE]
      ELSE Evaluated(UpdateVars(w, dict, s), row, s)
-----------------------------------------------------------------------------
(* Edits.  rows is the dictionary of scope s after the edit.                  *)

\* mutant: the variable that follows is not looked at
ComputeWeightNoAfter(w, rows, i, s) ==
    (IF i = 1 THEN 0 ELSE w.store[rows[i - 1].name][s].weight) + WeightUnit

\* mutant: the weight of a variable that is put first lies below that of the next
ComputeWeightBelow(w, rows, i, s) ==
    (IF i = 1 THEN 0 ELSE w.store[rows[i - 1].name][s].weight) - WeightUnit - 1

\* compute_weight
ComputeWeight(w, rows, i, s) ==
    LET before == IF i = 1 THEN 0 ELSE w.store[rows[i - 1].name][s].weight
        after  == IF i = Len(rows) THEN -1 ELSE w.store[rows[i + 1].name][s].weight
    IN CASE before = -1                -> WeightUnit
         [] before # -1 /\ after = -1  -> before + WeightUnit
         [] before # -1 /\ after # -1  -> (before + after) \div 2

\* gebr_validator_change_value, for a required parameter: an empty value is
\* refused before anything else is touched.
ChangeValue(w, row, s) ==
    IF row.value.op = "empty"
      THEN WithError(w, row.name, s, "empty")
      ELSE Validated([w EXCEPT !.cached = Unknown], row, s, TRUE)

\* gebr_validator_insert.  A parameter already there is not replaced.
Insert(w, rows, i, s) ==
    LET row  == rows[i]
        n    == row.name
        held == IF Present(w, n, s) THEN w
                ELSE [w EXCEPT !.store[n][s] = [Absent EXCEPT !.param = "row", !.type = row.type]]
    IN ChangeValue([held EXCEPT !.store[n][s].weight = ComputeWeight(held, rows, i, s)], row, s)

\* hash_data_remove
HashRemove(w, n, s) == [w EXCEPT !.store[n][s] = Absent]

\* mutant: bc is not marked stale
RemoveVarKeepsCache(w, n, s) == HashRemove(w, n, s)

\* gebr_validator_remove
RemoveVar(w, n, s) == [HashRemove(w, n, s) EXCEPT !.cached = Unknown]

\* gebr_validator_rename, for a name that is free at the scope
RenameVar(w, old, new, s) ==
    [w EXCEPT !.store = [@ EXCEPT ![new][s] = w.store[old][s], ![old][s] = Absent],
              !.cached = Unknown]
-----------------------------------------------------------------------------
(* Documents                                                                *)

\* mutant: the names of the document that is left stay in the store
CleanCacheKeepsNames(w, dict) ==
    [w EXCEPT !.docs = [s \in Scopes |-> IF w.docs[s] = Head(w.stack[s]) THEN @[s] ELSE NoDoc]]

\* gebr_validator_clean_cache
CleanCache(w, dict) ==
    LET stale(s) == w.docs[s] # NoDoc /\ w.docs[s] # Head(w.stack[s])
    IN IF stale(Project)
         THEN [w EXCEPT !.store = EmptyStore, !.docs = [s \in Scopes |-> NoDoc]]
         ELSE [w EXCEPT
                 !.store = [n \in Names |-> [s \in Scopes |->
                              IF stale(s) /\ n \in NamesOf(dict[w.docs[s]])
                                THEN Absent ELSE w.store[n][s]]],
                 !.docs  = [s \in Scopes |-> IF stale(s) THEN NoDoc ELSE w.docs[s]]]

\* The loop over a document in gebr_validator_update and force_update.
Load(w, dict, s) ==
    LET d == Head(w.stack[s])
    IN [FoldLeftDomain(LAMBDA u, i : Insert(u, dict[d], i, s), w, dict[d]) EXCEPT !.docs[s] = d]

\* gebr_validator_update
Update(w, dict) ==
    FoldLeft(LAMBDA u, s : IF u.docs[s] = Head(u.stack[s]) THEN u ELSE Load(u, dict, s),
             CleanCache(w, dict), TopDown)

\* gebr_validator_force_update
ForceUpdate(w, dict) ==
    FoldLeft(LAMBDA u, s : Load(u, dict, s), [w EXCEPT !.store = EmptyStore], TopDown)

\* gebr_validator_push_document and gebr_validator_pop_document
PushDocument(w, dict, d, s) == Update([w EXCEPT !.stack[s] = <<d>> \o @], dict)
PopDocument(w, dict, s)     == Update([w EXCEPT !.stack[s] = Tail(@)], dict)

\* gebr_validator_new
NewValidator(dict, stack) ==
    Update([store |-> EmptyStore, docs |-> [s \in Scopes |-> NoDoc], stack |-> stack,
            cached |-> Unknown, bc |-> [n \in Names |-> 0]], dict)
=============================================================================
