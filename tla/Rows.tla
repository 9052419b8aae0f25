-------------------------------- MODULE Rows --------------------------------
(***************************************************************************)
(* The endpoints that change one row: canvases, libraries, folders (name   *)
(* and order; their tree is in Folders) and the user's own row.  All of    *)
(* them read the row, look at it, and write with a second statement.       *)
(*                                                                         *)
(* Rows do not influence each other, so a behaviour is about one row, of   *)
(* any table.  The value of a column is the number of the request that set *)
(* it, or Blank: NULL, the empty string, or what the row was created with. *)
(***************************************************************************)
EXTENDS Rest

CONSTANT MaxEdits   \* bound on the edits of a behaviour

ASSUME RowsAssumption == MaxEdits \in Nat

Blank == 0

\* What each endpoint writes, of which table, and what becomes of a column
\* that the request leaves out: it is written back as it was read ("kept"),
\* written over with "" or NULL ("blank"), or must be there ("refused").
Endpoint(t, cols, omitted) == [table |-> t, cols |-> cols, omitted |-> omitted]

\* Mutant: the update of a canvas writes the whole row it read.
CanvasUpdateWhole == Endpoint("canvas", {"name", "folder", "data"}, "kept")

CanvasUpdate == Endpoint("canvas", {"name", "folder"}, "blank")

CanvasSaveData == Endpoint("canvas", {"data"}, "refused")

CanvasMove == Endpoint("canvas", {"folder"}, "refused")

LibraryUpdate == Endpoint("library", {"name", "description", "data"}, "kept")

FolderUpdate == Endpoint("folder", {"name", "order"}, "kept")

UpdateMe == Endpoint("user", {"nickname", "avatar"}, "kept")

ChangePassword == Endpoint("user", {"password"}, "refused")

Endpoints ==
    {CanvasUpdate, CanvasSaveData, CanvasMove, LibraryUpdate, FolderUpdate, UpdateMe,
     ChangePassword}

Tables == {e.table : e \in Endpoints}
Columns(t) == UNION {e.cols : e \in {d \in Endpoints : d.table = t}}

VARIABLES
    table,      \* the table of the row
    life,       \* whether the row is unborn, there or gone
    val,        \* its columns
    edit,       \* what each request is at
    edits,      \* how many edits were started
    last,       \* for each column, the last request that named it and wrote
    undone      \* columns written since by a request that left them out, not
                \* knowing of that

rowsVars == <<table, life, val, edit, edits, last, undone>>

\* missed: the columns for which the request has not what the row says, being
\* blank, or set by others since it read the row
NoEdit == [pc |-> "idle", n |-> 0, cols |-> {}, given |-> {}, copy |-> <<>>, missed |-> {}]

RowsInit ==
    /\ table \in Tables
    /\ life = "unborn"
    /\ val = [c \in Columns(table) |-> Blank]
    /\ edit = [r \in Req |-> NoEdit]
    /\ edits = 0
    /\ last = val
    /\ undone = {}

Busy(r) == edit[r].pc # "idle"

\* The columns take what the request names, or the default.
CreateRow ==
    /\ life = "unborn"
    /\ life' = "there"
    /\ UNCHANGED <<table, val, edit, edits, last, undone>>

\* The columns that are made blank in memory.
Blanked(e, given) == IF e.omitted = "blank" THEN e.cols \ given ELSE {}

\* An edit with a number and the row it has in memory.
StartEdit(r, e, given, row) ==
    edit' = [edit EXCEPT ![r] =
        [pc |-> "write", n |-> edits + 1, cols |-> e.cols, given |-> given,
         copy |-> [c \in DOMAIN row |-> IF c \in Blanked(e, given) THEN Blank ELSE row[c]],
         missed |-> Blanked(e, given)]]

Named(e, given) == given \subseteq e.cols /\ (e.omitted = "refused" => given = e.cols)

\* Mutant: an edit goes on when there was no row to read.
ReadAnyway(r, e, given) ==
    /\ ~Busy(r)
    /\ edits < MaxEdits
    /\ e.table = table
    /\ Named(e, given)
    /\ edits' = edits + 1
    /\ StartEdit(r, e, given, IF life = "there" THEN val ELSE <<>>)
    /\ UNCHANGED <<table, life, val, last, undone>>

\* A missing row is answered NOT_FOUND, another user FORBIDDEN and a wrong old
\* password WRONG_PASSWORD, without a change; this is an edit that goes on.
ReadRow(r, e, given) ==
    /\ ~Busy(r)
    /\ edits < MaxEdits
    /\ life = "there"
    /\ e.table = table
    /\ Named(e, given)
    /\ edits' = edits + 1
    /\ StartEdit(r, e, given, val)
    /\ UNCHANGED <<table, life, val, last, undone>>

\* The others in flight have missed that these columns were set.
Miss(r, set) ==
    [q \in Req |->
        IF q = r THEN NoEdit
        ELSE IF Busy(q) THEN [edit[q] EXCEPT !.missed = @ \cup set] ELSE edit[q]]

\* The columns the statement writes: what the request names from the request,
\* the rest of the endpoint's columns from the row in memory.
WriteRow(r) ==
    LET d == edit[r] IN
    /\ Busy(r) /\ life = "there"
    /\ val' = [c \in DOMAIN val |-> IF c \in d.given THEN d.n
                                    ELSE IF c \in d.cols THEN d.copy[c] ELSE val[c]]
    /\ last' = [c \in DOMAIN val |-> IF c \in d.given THEN d.n ELSE last[c]]
    /\ undone' = (undone \ d.given) \cup ((d.cols \ d.given) \cap d.missed)
    /\ edit' = Miss(r, d.given)
    /\ UNCHANGED <<table, life, edits>>

\* The row was deleted meanwhile: the statement matches nothing, and the
\* request is answered as if it had.
WriteNothing(r) ==
    /\ Busy(r) /\ life = "gone"
    /\ edit' = [edit EXCEPT ![r] = NoEdit]
    /\ UNCHANGED <<table, life, val, edits, last, undone>>

\* The statement fails; so does one that names a folder which is gone, and a
\* move of a canvas to the top level, whose empty string is no UUID.
FailEdit(r) ==
    /\ DbFails
    /\ Busy(r)
    /\ edit' = [edit EXCEPT ![r] = NoEdit]
    /\ UNCHANGED <<table, life, val, edits, last, undone>>

\* The read and the check of a delete leave nothing behind, and its statement
\* takes the row as it is.  A user is never deleted.
DeleteRow ==
    /\ life = "there" /\ table # "user"
    /\ life' = "gone"
    /\ UNCHANGED <<table, val, edit, edits, last, undone>>

\* The folder that holds the canvas is deleted: folder_id becomes NULL.
Unfile ==
    /\ life = "there" /\ table = "canvas" /\ val["folder"] # Blank
    /\ val' = [val EXCEPT !["folder"] = Blank]
    /\ last' = [last EXCEPT !["folder"] = Blank]
    /\ undone' = undone \ {"folder"}
    /\ edit' = [q \in Req |-> IF Busy(q) THEN [edit[q] EXCEPT !.missed = @ \cup {"folder"}]
                              ELSE edit[q]]
    /\ UNCHANGED <<table, life, edits>>

RowsNext ==
    \/ \E r \in Req, e \in Endpoints : \E given \in SUBSET e.cols : ReadRow(r, e, given)
    \/ \E r \in Req : WriteRow(r) \/ WriteNothing(r) \/ FailEdit(r)
    \/ CreateRow
    \/ DeleteRow
    \/ Unfile

RowsSpec == RowsInit /\ [][RowsNext]_rowsVars

----------------------------------------------------------------------------
(* Properties *)

\* Types; an edit in flight holds a whole row, of values set before it.
RowsTypeOK ==
    LET Col == Columns(table) IN
    /\ table \in Tables
    /\ life \in {"unborn", "there", "gone"}
    /\ edits \in 0..MaxEdits
    /\ val \in [Col -> 0..edits] /\ last \in [Col -> 0..edits]
    /\ undone \subseteq Col
    /\ \A r \in Req : Busy(r) =>
          /\ edit[r].n \in 1..edits
          /\ edit[r].copy \in [Col -> 0..edits]
          /\ edit[r].given \subseteq edit[r].cols /\ edit[r].cols \subseteq Col
          /\ edit[r].missed \subseteq Col

\* No edit is lost but to a request that leaves its column out: every column
\* holds what the last edit that named it wrote, or else was written since by
\* such a request.  Of libraries, folders and profiles this takes one that
\* read the row before that edit; of a canvas the name and the folder are
\* blank then, and its data is never lost.
LostOnlyIfOmitted ==
    \A c \in Columns(table) :
        \/ val[c] = last[c]
        \/ c \in undone /\ (table = "canvas" => c # "data" /\ val[c] = Blank)
=============================================================================
