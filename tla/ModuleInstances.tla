-------------------------- MODULE ModuleInstances --------------------------
(***************************************************************************)
(* Foundation modules: which ones the user attached, their names and order.*)
(*                                                                         *)
(* A client edits what it last loaded and names the revision it saw. Every *)
(* edit is one BEGIN IMMEDIATE transaction, so it is one step; the row the *)
(* answer carries is read after the commit, in a step of its own. Orders   *)
(* are in tens. No operation writes config_json: it is left out.           *)
(***************************************************************************)
EXTENDS FiniteSetsExt, Functions, Naturals

CONSTANTS
    Modules,     \* built-in modules
    Seeded,      \* module -> its seeded order
    Primary,     \* modules seeded as attached
    Clients,     \* windows of the interface
    Names,       \* display names a user may type
    MaxRevision  \* bound

VARIABLES
    rows,  \* the rows of module_instances
    view,  \* client -> the rows it last got
    due    \* client -> modules whose rows its answer has yet to read

moduleVars == <<rows, view, due>>

Row == [attached : BOOLEAN, name : Names \cup {"seeded"}, order : Nat, revision : 1..MaxRevision]

ModulesTypeOK ==
    /\ rows \in [Modules -> Row] /\ view \in [Clients -> [Modules -> Row]]
    /\ due \in [Clients -> SUBSET Modules]

ModulesInit ==
    /\ rows = [m \in Modules |-> [attached |-> m \in Primary, name |-> "seeded",
                                  order |-> Seeded[m], revision |-> 1]]
    /\ view = [c \in Clients |-> rows]
    /\ due = [c \in Clients |-> {}]

Attached(table) == {m \in Modules : table[m].attached}

\* get_module_projection: what a client shows.
LoadModules(c) ==
    /\ due[c] = {} /\ view[c] # rows
    /\ view' = [view EXCEPT ![c] = rows]
    /\ UNCHANGED <<rows, due>>

AnyRevision(c, m) == TRUE \* mutant
\* _require_revision
SeenLast(c, m) == view[c][m].revision = rows[m].revision

\* An edit with the rows it writes; a refused or empty one writes nothing.
Edit(c, changed, answered) ==
    /\ due[c] = {} /\ \A m \in Modules : changed[m].revision <= MaxRevision
    /\ rows' = changed
    /\ due' = [due EXCEPT ![c] = answered]
    /\ UNCHANGED view

\* set_module_attached: an attached module goes last, a detached one keeps
\* its order.
SetAttached(c, m) ==
    LET row == rows[m]
        last == Max({rows[n].order : n \in Attached(rows)} \cup {0})
    IN  /\ SeenLast(c, m)
        /\ Edit(c, [rows EXCEPT ![m] = [row EXCEPT !.attached = ~row.attached, !.revision = @ + 1,
                                        !.order = IF row.attached THEN @ ELSE last + 1]], {m})

Rename(c, m) ==
    /\ SeenLast(c, m)
    /\ \E name \in Names \ {rows[m].name} :
           Edit(c, [rows EXCEPT ![m].name = name, ![m].revision = @ + 1], {m})

Placed(row, place) ==
    IF row.order = place THEN row ELSE [row EXCEPT !.order = place, !.revision = @ + 1]

\* reorder_attached_modules: the attached modules the client saw, all at the
\* revisions it saw, in the order it wants.
Reorder(c) ==
    /\ Attached(view[c]) = Attached(rows) /\ \A m \in Attached(rows) : SeenLast(c, m)
    /\ \E place \in Bijection(Attached(rows), 1..Cardinality(Attached(rows))) :
           Edit(c, [m \in Modules |-> IF rows[m].attached
                                      THEN Placed(rows[m], place[m]) ELSE rows[m]],
                Modules)

\* The rows of the answer: another client may have edited them since.
Answer(c) ==
    /\ due[c] # {}
    /\ view' = [view EXCEPT ![c] = [m \in Modules |-> IF m \in due[c] THEN rows[m] ELSE @[m]]]
    /\ due' = [due EXCEPT ![c] = {}]
    /\ UNCHANGED rows

ModulesNext ==
    \E c \in Clients :
        \/ LoadModules(c) \/ Reorder(c) \/ Answer(c)
        \/ \E m \in Modules : SetAttached(c, m) \/ Rename(c, m)
ModulesSpec == ModulesInit /\ [][ModulesNext]_moduleVars

-----------------------------------------------------------------------------

\* No two attached modules share a place: the navigation has one order.
OrderIsTotal ==
    \A m, n \in Attached(rows) : rows[m].order = rows[n].order => m = n

\* A revision stands for one content: a client that names the revision it saw
\* overwrites no change it did not see.
RevisionTellsContent ==
    \A c \in Clients : \A m \in Modules :
        view[c][m].revision = rows[m].revision => view[c][m] = rows[m]

\* Whoever changes a module had its present row on the screen.
EditIsSeen ==
    \A c \in Clients : (due[c] = {} /\ due'[c] # {}) =>
        \A m \in Modules : rows'[m] # rows[m] => view[c][m] = rows[m]
NoEditIsLost == [][EditIsSeen]_moduleVars

=============================================================================
