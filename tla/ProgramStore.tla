---------------------------- MODULE ProgramStore ----------------------------
(***************************************************************************)
(* Functions and variables of an open project: program_service_v6.py over   *)
(* program_repository.py, project_variable_service_v6.py and the locks of   *)
(* workspace.py.  A document is what it refers to: the functions it calls   *)
(* and the variables it uses.  An operation is a plan of file operations,    *)
(* each with the plan that takes its place when it fails; the process may   *)
(* end between any two of them, and then undo and redo are gone.            *)
(*                                                                         *)
(* A request with an old revision is refused and changes nothing, so the     *)
(* requests here have the current one.  Left out: everything else in a       *)
(* document, names, handlers of listeners (which an edit does not look up), *)
(* damaged files, and files changed by other programs.                       *)
(***************************************************************************)
EXTENDS Naturals, Sequences, SequencesExt

CONSTANTS
    Functions, Variables,
    Entry,          \* the project's entry function
    Requests,       \* threads that handle requests
    HistoryLimit,   \* versions kept on disk, and entries kept for undo
    MaxRequests,    \* bound: operations
    FilesFail       \* whether a file operation may fail

ASSUME ProgramAssumption ==
    /\ Entry \in Functions
    /\ Functions \cap Variables = {}
    /\ "free" \notin Requests
    /\ HistoryLimit \in Nat \ {0}
    /\ MaxRequests \in Nat
    /\ FilesFail \in BOOLEAN

VARIABLES
    documents,  \* program/functions: the document of each function, or NoDocument
    variables,  \* program/variables.json
    archive,    \* .easycode/history: versions that were replaced, oldest first
    undos, redos,   \* the session's stacks of each function
    locks,      \* holders of the workspace's lock and of the service's
    work,       \* what each thread has still to do
    requests,   \* operations so far
    wentBack,   \* history: a version was taken back
    removed     \* history: a function or variable was removed

programVars ==
    <<documents, variables, archive, undos, redos, locks, work, requests, wentBack, removed>>

NoDocument == [there |-> FALSE, refs |-> {}]
Document(refs) == [there |-> TRUE, refs |-> refs]
Existing == {f \in Functions : documents[f].there}
Names == Functions \cup Variables

\* What the stacks remember: the document, and for an extraction the function it
\* made, and whether that function is to exist after going there.
Former(doc) == [doc |-> doc, companion |-> {}, extracted |-> NoDocument, exists |-> FALSE]

----------------------------------------------------------------------------
(* Plans of file operations.                                               *)

FileStep(kind, f, doc, otherwise) == [do |-> kind, f |-> f, doc |-> doc, otherwise |-> otherwise]

\* Mutant: the version is kept only when it is replaced by another one.
DeleteAtOnce(f, otherwise) == <<FileStep("unlink", f, NoDocument, otherwise)>>

SavePlan(f, doc, otherwise) ==
    <<FileStep("archive", f, NoDocument, otherwise), FileStep("replace", f, doc, otherwise)>>
DeletePlan(f, otherwise) ==
    <<FileStep("archive", f, NoDocument, otherwise), FileStep("unlink", f, NoDocument, otherwise)>>
CreatePlan(f, doc) == <<FileStep("link", f, doc, <<>>)>>

\* The companion first appears and last disappears.
CompanionPlan(f, doc, e, extracted, exists) ==
    IF exists THEN CreatePlan(e, extracted) \o SavePlan(f, doc, DeletePlan(e, <<>>))
    ELSE SavePlan(f, doc, <<>>) \o DeletePlan(e, SavePlan(f, documents[f], <<>>))

NoWork == [todo |-> <<>>, then |-> "nothing", f |-> Entry, entry |-> Former(NoDocument)]
NoLocks == [workspace |-> "free", service |-> "free"]

Trimmed(s) == IF Len(s) <= HistoryLimit THEN s ELSE Tail(s)

----------------------------------------------------------------------------
ProgramInit ==
    /\ documents = [f \in Functions |-> IF f = Entry THEN Document({}) ELSE NoDocument]
    /\ variables = Variables
    /\ archive = [f \in Functions |-> <<>>]
    /\ undos = [f \in Functions |-> <<>>]
    /\ redos = [f \in Functions |-> <<>>]
    /\ locks = NoLocks
    /\ work = [t \in Requests |-> NoWork]
    /\ requests = 0
    /\ wentBack = FALSE
    /\ removed = FALSE

\* A request gets its locks and has its plan made.  A function's new identity has
\* never been used.
begins(t, plan, then, f, entry) ==
    /\ requests < MaxRequests
    /\ requests' = requests + 1
    /\ work[t] = NoWork
    /\ locks.service = "free"
    /\ work' = [work EXCEPT ![t] = [todo |-> plan, then |-> then, f |-> f, entry |-> entry]]
    /\ UNCHANGED <<documents, variables, archive, undos, redos, wentBack, removed>>

with_workspace(t) ==
    /\ locks.workspace = "free"
    /\ locks' = [workspace |-> t, service |-> t]

Unused(f) == ~documents[f].there /\ archive[f] = <<>>

create(t, f) ==
    /\ Unused(f)
    /\ with_workspace(t)
    /\ begins(t, CreatePlan(f, Document({})), "nothing", f, Former(NoDocument))

\* insert_call asks for the contract; variables are looked up for the whole document.
Resolved(f, refs) ==
    /\ (refs \ documents[f].refs) \cap Functions \subseteq Existing
    /\ refs \cap Variables \subseteq variables

edit(t, f, refs) ==
    /\ f \in Existing
    /\ with_workspace(t)
    /\ begins(t, SavePlan(f, Document(refs), <<>>), "edited", f, Former(documents[f]))

\* A command that adds or takes away one reference.
apply_command(t, f, name) ==
    LET old == documents[f].refs
        refs == IF name \in old THEN old \ {name} ELSE old \cup {name} IN
    /\ Resolved(f, refs)
    /\ edit(t, f, refs)

\* Several commands with one save and one entry for undo.
apply_commands(t, f, refs) ==
    /\ Resolved(f, refs)
    /\ edit(t, f, refs)

\* The references stay; a document with diagnostics is not renamed.
rename(t, f) ==
    /\ documents[f].refs \cap Functions \subseteq Existing
    /\ edit(t, f, documents[f].refs)

\* The references in taken move to a new function, which takes their place.
extract_statements(t, f, e, taken) ==
    LET extracted == Document(taken)
        source == Document((documents[f].refs \ taken) \cup {e}) IN
    /\ f \in Existing
    /\ Unused(e)
    /\ taken \subseteq documents[f].refs
    /\ documents[f].refs \subseteq Existing \cup variables
    /\ with_workspace(t)
    /\ begins(t, CompanionPlan(f, source, e, extracted, TRUE), "edited", f,
              [doc |-> documents[f], companion |-> {e}, extracted |-> extracted, exists |-> FALSE])

\* _restore_history for undo and redo.  An extraction is undone only while its
\* function is as it was extracted.
go_back(t, f, stack, then) ==
    LET entry == stack[Len(stack)] IN
    /\ f \in Existing
    /\ stack # <<>>
    /\ IF entry.companion = {}
       THEN begins(t, SavePlan(f, entry.doc, <<>>), then, f,
                   [entry EXCEPT !.doc = documents[f]])
       ELSE \E e \in entry.companion :
            /\ ~entry.exists => documents[e] = entry.extracted
            /\ begins(t, CompanionPlan(f, entry.doc, e, entry.extracted, entry.exists), then, f,
                      [entry EXCEPT !.doc = documents[f], !.exists = ~@])
    /\ with_workspace(t)

undo_edit(t, f) == go_back(t, f, undos[f], "undone")
redo_edit(t, f) == go_back(t, f, redos[f], "redone")

\* Mutant: the function goes although it is called.
NoCallers(f) == f # Entry

\* Calls from other documents.
Removable(f) == f # Entry /\ \A g \in Existing \ {f} : f \notin documents[g].refs

delete(t, f) ==
    /\ f \in Existing
    /\ Removable(f)
    /\ with_workspace(t)
    /\ begins(t, DeletePlan(f, <<>>), "deleted", f, Former(NoDocument))

\* restore_program_history does not take the workspace's lock.
restore_history(t, f, n) ==
    /\ f \in Existing
    /\ n \in DOMAIN archive[f]
    /\ locks' = [locks EXCEPT !.service = t]
    /\ begins(t, SavePlan(f, archive[f][n], <<>>), "restored", f, Former(NoDocument))

\* Variables have the workspace's lock only: a look at the references, then the
\* registry is written.
delete_variable(t, v) ==
    /\ v \in variables
    /\ \A g \in Existing : v \notin documents[g].refs
    /\ requests < MaxRequests
    /\ requests' = requests + 1
    /\ work[t] = NoWork
    /\ locks.workspace = "free"
    /\ locks' = [locks EXCEPT !.workspace = t]
    /\ work' = [work EXCEPT ![t].todo = <<FileStep("variable", v, NoDocument, <<>>)>>,
                             ![t].then = "variable"]
    /\ UNCHANGED <<documents, variables, archive, undos, redos, wentBack, removed>>

----------------------------------------------------------------------------
(* The file operations.                                                    *)

file_operation(t) ==
    /\ work[t].todo # <<>>
    /\ LET step == Head(work[t].todo)
           f == step.f IN
       /\ step.do = "link" => ~documents[f].there
       /\ documents' = CASE step.do \in {"link", "replace"} -> [documents EXCEPT ![f] = step.doc]
                         [] step.do = "unlink" -> [documents EXCEPT ![f] = NoDocument]
                         [] OTHER -> documents
       /\ archive' = IF step.do = "archive"
                     THEN [archive EXCEPT ![f] = Trimmed(Append(@, documents[f]))] ELSE archive
       /\ variables' = IF step.do = "variable" THEN variables \ {f} ELSE variables
       /\ removed' = (removed \/ step.do \in {"unlink", "variable"})
       /\ wentBack' = (wentBack \/ (step.do = "replace" /\ work[t].then \in {"undone", "redone", "restored"}))
    /\ work' = [work EXCEPT ![t].todo = Tail(@)]
    /\ UNCHANGED <<undos, redos, locks, requests>>

\* An error, or a new function whose file is there already.
file_operation_fails(t) ==
    /\ work[t].todo # <<>>
    /\ FilesFail \/ (Head(work[t].todo).do = "link" /\ documents[Head(work[t].todo).f].there)
    /\ work' = [work EXCEPT ![t] = [NoWork EXCEPT !.todo = Head(work[t].todo).otherwise,
                                                   !.then = "failed"]]
    /\ UNCHANGED <<documents, variables, archive, undos, redos, locks, requests, wentBack, removed>>

\* The stacks change only after the files.
Undos(w) ==
    CASE w.then \in {"edited", "redone"} -> Trimmed(Append(undos[w.f], w.entry))
      [] w.then = "undone" -> Front(undos[w.f])
      [] w.then \in {"deleted", "restored"} -> <<>>
      [] OTHER -> undos[w.f]

Redos(w) ==
    CASE w.then = "undone" -> Trimmed(Append(redos[w.f], w.entry))
      [] w.then = "redone" -> Front(redos[w.f])
      [] w.then \in {"edited", "deleted", "restored"} -> <<>>
      [] OTHER -> redos[w.f]

request_ends(t) ==
    LET w == work[t] IN
    /\ w # NoWork
    /\ w.todo = <<>>
    /\ undos' = [undos EXCEPT ![w.f] = Undos(w)]
    /\ redos' = [redos EXCEPT ![w.f] = Redos(w)]
    /\ work' = [work EXCEPT ![t] = NoWork]
    /\ locks' = [l \in {"workspace", "service"} |-> IF locks[l] = t THEN "free" ELSE locks[l]]
    /\ UNCHANGED <<documents, variables, archive, requests, wentBack, removed>>

process_restarts ==
    /\ \E t \in Requests : work[t] # NoWork
    /\ undos' = [f \in Functions |-> <<>>]
    /\ redos' = [f \in Functions |-> <<>>]
    /\ work' = [t \in Requests |-> NoWork]
    /\ locks' = NoLocks
    /\ UNCHANGED <<documents, variables, archive, requests, wentBack, removed>>

ProgramNext ==
    \/ \E t \in Requests :
        \/ \E f \in Functions :
            \/ create(t, f) \/ delete(t, f) \/ undo_edit(t, f) \/ redo_edit(t, f)
            \/ \E name \in Names : apply_command(t, f, name)
            \/ \E refs \in SUBSET Names : apply_commands(t, f, refs)
            \/ rename(t, f)
            \/ \E e \in Functions : \E taken \in SUBSET documents[f].refs :
                    extract_statements(t, f, e, taken)
            \/ \E n \in DOMAIN archive[f] : restore_history(t, f, n)
        \/ \E v \in Variables : delete_variable(t, v)
        \/ file_operation(t) \/ file_operation_fails(t) \/ request_ends(t)
    \/ process_restarts

ProgramSpec == ProgramInit /\ [][ProgramNext]_programVars

----------------------------------------------------------------------------
(* Properties.                                                             *)

Dangling == {f \in Existing : ~(documents[f].refs \subseteq Existing \cup variables)}

\* Whatever fails and wherever the process ends, creating, editing, extracting and
\* deleting leave every call and every use resolved; so do undo, redo and restore
\* until something has been removed.
ReferencesResolve == Dangling # {} => wentBack /\ removed

\* Nothing is replaced or removed, by an operation or by the repair of one that
\* failed, unless it is the newest version in the function's history.
ReplacedIsArchived ==
    [][\A f \in Functions :
          documents[f].there /\ documents'[f] # documents[f] =>
              archive[f] # <<>> /\ archive[f][Len(archive[f])] = documents[f]]_programVars
=============================================================================
