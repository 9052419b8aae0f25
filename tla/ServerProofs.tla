----------------------------- MODULE ServerProofs -----------------------------
(***************************************************************************)
(* The parts of the server that are proved alone, because they share       *)
(* nothing but the database: Rows, Sharing, Migrations and Heartbeat, each *)
(* for every value of its constants, with an inductive invariant of its    *)
(* own.  MCServer checks them together on small instances.                 *)
(***************************************************************************)
EXTENDS Rows, Sharing, Migrations, Heartbeat, TLAPS

-------------------------------------------------------------------------------
(*****************************************************************************)
(* Rows, for any requests.  The invariant is about the copies that edits in  *)
(* flight have read: a column of a copy is what the last edit that named the *)
(* column wrote, unless it is blank or a write came after the read (missed)  *)
(* or the column holds another value already (undone).                       *)
(*****************************************************************************)

\* The edits of a row of table t that may be in flight after n were started:
\* one of a canvas writes back blanks only, and none over its data.
InFlight(t, n) ==
    {d \in [pc : {"write"}, n : 1..n, cols : SUBSET Columns(t), given : SUBSET Columns(t),
            copy : [Columns(t) -> 0..n], missed : SUBSET Columns(t)] :
        /\ d.given \subseteq d.cols
        /\ t = "canvas" => \A c \in d.cols \ d.given : c # "data" /\ d.copy[c] = Blank}

RowsTyped ==
    /\ table \in Tables
    /\ life \in {"unborn", "there", "gone"}
    /\ edits \in 0..MaxEdits
    /\ val \in [Columns(table) -> 0..edits] /\ last \in [Columns(table) -> 0..edits]
    /\ undone \subseteq Columns(table)
    /\ edit \in [Req -> {NoEdit} \cup InFlight(table, edits)]
    /\ table = "canvas" => \A c \in undone : c # "data" /\ val[c] = Blank

\* What an edit has read of a column is what the last edit that named it
\* wrote, unless one was written since or the column is undone.
CopyIsLast ==
    \A r \in Req : Busy(r) =>
        \A c \in Columns(table) \ edit[r].missed : edit[r].copy[c] = last[c] \/ c \in undone

RowsInv == RowsTyped /\ CopyIsLast /\ LostOnlyIfOmitted

\* What is known of an edit in flight.
LEMMA BusyEdit ==
    ASSUME RowsTyped, NEW r \in Req
    PROVE  /\ Busy(r) <=> edit[r] \in InFlight(table, edits)
           /\ ~Busy(r) <=> edit[r] = NoEdit
           /\ edit[r].cols \subseteq Columns(table)
           /\ edit[r].missed \subseteq Columns(table)
           /\ edit[r].given \subseteq edit[r].cols
BY DEF RowsTyped, Busy, InFlight, NoEdit

\* An endpoint writes columns of its table, and those of a canvas keep no
\* column and blank none of its data.
LEMMA EndpointColumns ==
    ASSUME NEW e \in Endpoints
    PROVE  /\ e.cols \subseteq Columns(e.table)
           /\ \A given \in SUBSET e.cols : e.table = "canvas" /\ Named(e, given) =>
                 e.cols \ given = Blanked(e, given) /\ "data" \notin Blanked(e, given)
           /\ \A given \in SUBSET e.cols : Blanked(e, given) \subseteq e.cols \ given
<1>1. e.cols \subseteq Columns(e.table) BY DEF Columns
<1>2. \/ e.table # "canvas"
      \/ e.omitted = "refused"
      \/ e.omitted = "blank" /\ "data" \notin e.cols
    BY DEF Endpoints, Endpoint, CanvasUpdate, CanvasSaveData, CanvasMove, LibraryUpdate,
           FolderUpdate, UpdateMe, ChangePassword
<1> QED BY <1>1, <1>2 DEF Named, Blanked

\* An edit stays one when another is started.
LEMMA InFlightGrows ==
    ASSUME NEW t, NEW n \in Nat PROVE InFlight(t, n) \subseteq InFlight(t, n + 1)
<1>1. 0..n \subseteq 0..(n + 1) /\ 1..n \subseteq 1..(n + 1) OBVIOUS
<1>2. [Columns(t) -> 0..n] \subseteq [Columns(t) -> 0..(n + 1)] BY <1>1
<1> QED BY <1>1, <1>2 DEF InFlight

\* So does an edit that misses more.
LEMMA MissInFlight ==
    ASSUME NEW t, NEW n, NEW d \in InFlight(t, n), NEW S \in SUBSET Columns(t)
    PROVE  /\ [d EXCEPT !.missed = @ \cup S] \in InFlight(t, n)
           /\ [d EXCEPT !.missed = @ \cup S].missed = d.missed \cup S
           /\ [d EXCEPT !.missed = @ \cup S].copy = d.copy
           /\ [d EXCEPT !.missed = @ \cup S].pc # "idle"
BY DEF InFlight

\* Before a row is created nothing was written.
LEMMA RowsStart == ASSUME RowsInit PROVE RowsInv
<1>1. RowsTyped BY RowsAssumption DEF RowsAssumption, RowsInit, RowsTyped, Blank
<1>2. \A r \in Req : ~Busy(r) BY DEF RowsInit, Busy, NoEdit
<1>3. LostOnlyIfOmitted BY DEF RowsInit, LostOnlyIfOmitted
<1> QED BY <1>1, <1>2, <1>3 DEF RowsInv, CopyIsLast

\* The read of an edit: its copy is the row.
LEMMA ReadRowKeeps ==
    ASSUME RowsInv, NEW r \in Req, NEW e \in Endpoints, NEW given \in SUBSET e.cols,
           ReadRow(r, e, given)
    PROVE  RowsInv'
<1> DEFINE d == [pc |-> "write", n |-> edits + 1, cols |-> e.cols, given |-> given,
                 copy |-> [c \in Columns(table) |-> IF c \in Blanked(e, given) THEN Blank ELSE val[c]],
                 missed |-> Blanked(e, given)]
<1>1. edit' = [edit EXCEPT ![r] = d] /\ edits' = edits + 1 /\ UNCHANGED <<table, life, val, last, undone>>
    BY DEF ReadRow, StartEdit, RowsInv, RowsTyped
<1>2. edits \in Nat /\ edits' \in 0..MaxEdits /\ 0..edits \subseteq 0..(edits + 1)
    BY <1>1, RowsAssumption DEF RowsAssumption, ReadRow, RowsInv, RowsTyped
<1>3. /\ e.table = table /\ e.cols \subseteq Columns(table)
      /\ Blanked(e, given) \subseteq e.cols \ given
      /\ table = "canvas" => e.cols \ given = Blanked(e, given) /\ "data" \notin Blanked(e, given)
    BY EndpointColumns DEF ReadRow
<1>4. /\ val \in [Columns(table) -> 0..(edits + 1)] /\ last \in [Columns(table) -> 0..(edits + 1)]
    BY <1>2 DEF RowsInv, RowsTyped
<1>5. d \in InFlight(table, edits + 1)
    BY <1>2, <1>3, <1>4 DEF InFlight, Blank
<1>6. edit' \in [Req -> {NoEdit} \cup InFlight(table, edits + 1)]
    <2> HIDE DEF d
    <2> QED BY <1>1, <1>2, <1>5, InFlightGrows DEF RowsInv, RowsTyped
<1>7. RowsTyped' BY <1>1, <1>2, <1>4, <1>6 DEF RowsInv, RowsTyped
<1>8. ASSUME NEW q \in Req, Busy(q)', NEW c \in Columns(table) \ edit'[q].missed
      PROVE  edit'[q].copy[c] = last[c] \/ c \in undone
    <2>1. CASE q = r
        BY <1>1, <2>1 DEF RowsInv, RowsTyped, LostOnlyIfOmitted
    <2>2. CASE q # r
        <3>1. edit'[q] = edit[q] BY <1>1, <2>2 DEF RowsInv, RowsTyped
        <3> QED BY <1>8, <3>1 DEF RowsInv, CopyIsLast, Busy
    <2> QED BY <2>1, <2>2
<1>9. CopyIsLast' BY <1>1, <1>8 DEF CopyIsLast
<1>10. LostOnlyIfOmitted' BY <1>1 DEF RowsInv, LostOnlyIfOmitted
<1> QED BY <1>7, <1>9, <1>10 DEF RowsInv

\* The statement of an edit: what it names is new and missed by the others,
\* and the rest of its columns is last's value or undone.
LEMMA WriteRowKeeps ==
    ASSUME RowsInv, NEW r \in Req, WriteRow(r)
    PROVE  RowsInv'
<1> DEFINE d == edit[r]
<1>1. /\ val' = [c \in Columns(table) |-> IF c \in d.given THEN d.n
                                    ELSE IF c \in d.cols THEN d.copy[c] ELSE val[c]]
      /\ last' = [c \in Columns(table) |-> IF c \in d.given THEN d.n ELSE last[c]]
      /\ undone' = (undone \ d.given) \cup ((d.cols \ d.given) \cap d.missed)
      /\ edit' = Miss(r, d.given)
      /\ UNCHANGED <<table, life, edits>>
    BY DEF WriteRow, RowsInv, RowsTyped
<1>2. d \in InFlight(table, edits) BY BusyEdit DEF WriteRow, RowsInv
<1>3. /\ d.n \in 0..edits /\ d.copy \in [Columns(table) -> 0..edits]
      /\ d.given \subseteq d.cols /\ d.cols \subseteq Columns(table)
      /\ table = "canvas" => \A c \in d.cols \ d.given : c # "data" /\ d.copy[c] = Blank
    <2>1. edits \in Nat BY DEF RowsInv, RowsTyped
    <2> QED BY <1>2, <2>1 DEF InFlight
<1>4. \A q \in Req : edit'[q] = IF q = r THEN NoEdit
                                ELSE IF Busy(q) THEN [edit[q] EXCEPT !.missed = @ \cup d.given]
                                ELSE edit[q]
    BY <1>1 DEF Miss
<1>5. \A q \in Req : edit'[q] \in {NoEdit} \cup InFlight(table, edits)
    <2> SUFFICES ASSUME NEW q \in Req PROVE edit'[q] \in {NoEdit} \cup InFlight(table, edits)
        OBVIOUS
    <2>1. CASE q = r \/ ~Busy(q) BY <1>4, <2>1, BusyEdit DEF RowsInv
    <2>2. CASE q # r /\ Busy(q)
        <3>1. edit[q] \in InFlight(table, edits) BY <2>2, BusyEdit DEF RowsInv
        <3>2. d.given \in SUBSET Columns(table) BY <1>3
        <3>3. [edit[q] EXCEPT !.missed = @ \cup d.given] \in InFlight(table, edits)
            BY <3>1, <3>2, MissInFlight
        <3> QED BY <1>4, <2>2, <3>3
    <2> QED BY <2>1, <2>2
<1>6. RowsTyped'
    <2>1. edit' \in [Req -> {NoEdit} \cup InFlight(table, edits)]
        BY <1>1, <1>5 DEF Miss
    <2>2. val' \in [Columns(table) -> 0..edits] /\ last' \in [Columns(table) -> 0..edits]
        BY <1>1, <1>3 DEF RowsInv, RowsTyped
    <2>3. undone' \subseteq Columns(table)
        BY <1>1, <1>3 DEF RowsInv, RowsTyped
    <2>4. ASSUME table = "canvas", NEW c \in undone' PROVE c # "data" /\ val'[c] = Blank
        <3>1. CASE c \in d.cols \ d.given BY <1>1, <1>3, <2>4, <3>1
        <3>2. CASE c \notin d.cols
            <4>1. c \in undone /\ c # "data" /\ val[c] = Blank /\ c \in Columns(table)
                BY <1>1, <2>4, <3>2 DEF RowsInv, RowsTyped
            <4> QED BY <1>1, <1>3, <3>2, <4>1
        <3> QED BY <1>1, <2>4, <3>1, <3>2
    <2> QED BY <1>1, <2>1, <2>2, <2>3, <2>4 DEF RowsInv, RowsTyped
<1>7. ASSUME NEW q \in Req, Busy(q)', NEW c \in Columns(table) \ edit'[q].missed
      PROVE  edit'[q].copy[c] = last'[c] \/ c \in undone'
    <2>1. q # r /\ Busy(q)
        <3>1. edit'[q].pc # "idle" BY <1>7 DEF Busy
        <3>2. q # r
            <4>1. NoEdit.pc = "idle" BY DEF NoEdit
            <4>2. q = r => edit'[q] = NoEdit BY <1>4
            <4> QED BY <3>1, <4>1, <4>2
        <3>3. Busy(q) BY <1>4, <3>1, <3>2 DEF Busy
        <3> QED BY <3>2, <3>3
    <2>2. edit[q] \in InFlight(table, edits) /\ d.given \in SUBSET Columns(table)
        BY <1>3, <2>1, BusyEdit DEF RowsInv
    <2>3. edit'[q].missed = edit[q].missed \cup d.given /\ edit'[q].copy = edit[q].copy
        <3>1. edit'[q] = [edit[q] EXCEPT !.missed = @ \cup d.given] BY <1>4, <2>1
        <3> QED BY <2>2, <3>1, MissInFlight
    <2>4. c \notin d.given /\ c \notin edit[q].missed BY <1>7, <2>3
    <2>5. edit[q].copy[c] = last[c] \/ c \in undone
        BY <1>7, <2>1, <2>4 DEF RowsInv, CopyIsLast
    <2> QED BY <1>1, <2>3, <2>4, <2>5
<1>8. CopyIsLast' BY <1>1, <1>7 DEF CopyIsLast
<1>9. ASSUME NEW c \in Columns(table)
      PROVE  val'[c] = last'[c] \/ c \in undone'
    <2>1. CASE c \in d.given BY <1>1, <2>1
    <2>2. CASE c \in d.cols \ d.given
        <3>1. c \in d.missed \/ d.copy[c] = last[c] \/ c \in undone
            BY DEF WriteRow, RowsInv, CopyIsLast
        <3> QED BY <1>1, <2>2, <3>1
    <2>3. CASE c \notin d.cols
        <3>1. val[c] = last[c] \/ c \in undone BY DEF RowsInv, LostOnlyIfOmitted
        <3> QED BY <1>1, <1>3, <2>3, <3>1
    <2> QED BY <2>1, <2>2, <2>3
<1>10. LostOnlyIfOmitted' BY <1>1, <1>6, <1>9 DEF LostOnlyIfOmitted, RowsTyped
<1> QED BY <1>6, <1>8, <1>10 DEF RowsInv

\* The end of an edit without a write.
LEMMA EndEditKeeps ==
    ASSUME RowsInv, NEW r \in Req, edit' = [edit EXCEPT ![r] = NoEdit],
           UNCHANGED <<table, life, val, edits, last, undone>>
    PROVE  RowsInv'
<1>1. RowsTyped' BY DEF RowsInv, RowsTyped
<1>2. \A q \in Req : Busy(q)' => Busy(q) /\ edit'[q] = edit[q]
    BY DEF RowsInv, RowsTyped, Busy, NoEdit
<1>3. CopyIsLast' BY <1>2 DEF RowsInv, CopyIsLast
<1> QED BY <1>1, <1>3 DEF RowsInv, LostOnlyIfOmitted

\* The cascade of a folder sets the column folder like an edit that names it.
LEMMA UnfileKeeps == ASSUME RowsInv, Unfile PROVE RowsInv'
<1>1. table = "canvas" /\ "folder" \in Columns(table)
    <2>1. CanvasMove \in Endpoints BY DEF Endpoints
    <2>2. CanvasMove.table = "canvas" /\ "folder" \in CanvasMove.cols
        BY DEF CanvasMove, Endpoint
    <2> QED BY <2>1, <2>2, EndpointColumns DEF Unfile
<1>2. /\ val' = [val EXCEPT !["folder"] = Blank] /\ last' = [last EXCEPT !["folder"] = Blank]
      /\ undone' = undone \ {"folder"} /\ UNCHANGED <<table, life, edits>>
      /\ edit' = [q \in Req |-> IF Busy(q) THEN [edit[q] EXCEPT !.missed = @ \cup {"folder"}]
                                ELSE edit[q]]
    BY DEF Unfile
<1>3. \A q \in Req : edit'[q] \in {NoEdit} \cup InFlight(table, edits)
    <2> SUFFICES ASSUME NEW q \in Req PROVE edit'[q] \in {NoEdit} \cup InFlight(table, edits)
        OBVIOUS
    <2>1. CASE ~Busy(q) BY <1>2, <2>1, BusyEdit DEF RowsInv
    <2>2. CASE Busy(q)
        <3>1. edit[q] \in InFlight(table, edits) /\ {"folder"} \in SUBSET Columns(table)
            BY <1>1, <2>2, BusyEdit DEF RowsInv
        <3>2. [edit[q] EXCEPT !.missed = @ \cup {"folder"}] \in InFlight(table, edits)
            BY <3>1, MissInFlight
        <3> QED BY <1>2, <2>2, <3>2
    <2> QED BY <2>1, <2>2
<1>4. RowsTyped'
    <2>1. edit' \in [Req -> {NoEdit} \cup InFlight(table, edits)] BY <1>2, <1>3
    <2>2. val' \in [Columns(table) -> 0..edits] /\ last' \in [Columns(table) -> 0..edits]
        <3>1. Blank \in 0..edits BY DEF RowsInv, RowsTyped, Blank
        <3> QED BY <1>2, <3>1 DEF RowsInv, RowsTyped
    <2> QED BY <1>2, <2>1, <2>2 DEF RowsInv, RowsTyped
<1>5. ASSUME NEW q \in Req, Busy(q)', NEW c \in Columns(table) \ edit'[q].missed
      PROVE  edit'[q].copy[c] = last'[c] \/ c \in undone'
    <2>1. Busy(q) BY <1>2, <1>5 DEF Busy
    <2>2. edit[q] \in InFlight(table, edits) /\ {"folder"} \in SUBSET Columns(table)
        BY <1>1, <2>1, BusyEdit DEF RowsInv
    <2>3. edit'[q].missed = edit[q].missed \cup {"folder"} /\ edit'[q].copy = edit[q].copy
        <3>1. edit'[q] = [edit[q] EXCEPT !.missed = @ \cup {"folder"}] BY <1>2, <2>1
        <3> QED BY <2>2, <3>1, MissInFlight
    <2>4. c # "folder" /\ c \notin edit[q].missed BY <1>5, <2>3
    <2>5. edit[q].copy[c] = last[c] \/ c \in undone
        BY <1>5, <2>1, <2>4 DEF RowsInv, CopyIsLast
    <2>6. last'[c] = last[c] BY <1>2, <2>4 DEF RowsInv, RowsTyped
    <2> QED BY <1>2, <2>3, <2>4, <2>5, <2>6
<1>6. CopyIsLast' BY <1>2, <1>5 DEF CopyIsLast
<1>7. LostOnlyIfOmitted'
    BY <1>1, <1>2 DEF RowsInv, RowsTyped, LostOnlyIfOmitted
<1> QED BY <1>4, <1>6, <1>7 DEF RowsInv

\* Every step on the row keeps the invariant.
LEMMA RowsStep == ASSUME RowsInv, [RowsNext]_rowsVars PROVE RowsInv'
<1>1. CASE CreateRow \/ DeleteRow \/ UNCHANGED rowsVars
    <2>1. UNCHANGED <<table, val, edit, edits, last, undone>> /\ life' \in {"unborn", "there", "gone"}
        BY <1>1 DEF CreateRow, DeleteRow, rowsVars, RowsInv, RowsTyped
    <2> QED BY <2>1 DEF RowsInv, RowsTyped, CopyIsLast, Busy, LostOnlyIfOmitted
<1>2. ASSUME NEW r \in Req, WriteNothing(r) \/ FailEdit(r) PROVE RowsInv'
    BY <1>2, EndEditKeeps DEF WriteNothing, FailEdit
<1> QED BY <1>1, <1>2, ReadRowKeeps, WriteRowKeeps, UnfileKeeps DEF RowsNext

\* The inductive invariant holds whatever the edits of a row and the order of
\* their statements.
THEOREM RowsInvariant == RowsSpec => []RowsInv
BY RowsStart, RowsStep, PTL DEF RowsSpec

\* A row keeps its types, and an edit in flight holds a whole row of values
\* set before it.
THEOREM RowsTypeCorrect == RowsSpec => []RowsTypeOK
<1>1. RowsInv => RowsTypeOK
    <2> SUFFICES ASSUME RowsInv PROVE RowsTypeOK OBVIOUS
    <2>1. \A r \in Req : Busy(r) => edit[r] \in InFlight(table, edits)
        BY BusyEdit DEF RowsInv
    <2> QED BY <2>1 DEF RowsInv, RowsTyped, RowsTypeOK, InFlight
<1> QED BY <1>1, RowsInvariant, PTL

\* No edit of a row is lost but to a request that leaves its column out: of a
\* canvas that blanks the name or the folder, elsewhere it takes a request that
\* read the row before the edit.
THEOREM EditsAreKept == RowsSpec => []LostOnlyIfOmitted
BY RowsInvariant, PTL DEF RowsInv

-------------------------------------------------------------------------------
(*****************************************************************************)
(* Sharing, for any users, canvases, links, joins and lives of tokens.  The  *)
(* invariant follows the reads of a request: a visitor that has read a link  *)
(* read it before it went and before it expired, and a join under way is due *)
(* all that its user may do now as the owner or a collaborator.              *)
(*****************************************************************************)

Allowed == Permission \cup {NoPermission}
Days == 0..MaxDay

LinkRows == [pc : {"row"}, canvas : Canvas, permission : Permission, exp : Days \cup {Never}]
Tokens == [canvas : Canvas, permission : Permission, exp : Nat, link : Link, took : Nat]
Infos == [pc : {"info"}, link : Link, read : Days]
Joins == [pc : {"canvas", "perm"}, user : User, canvas : Canvas, due : SUBSET Permission]
Grants == [pc : {"granted"}, user : User, canvas : Canvas, permission : Permission, due : SUBSET Permission]

SharingTyped ==
    /\ canvases \subseteq Canvas
    /\ collab \in [Canvas -> [User -> Allowed]]
    /\ links \subseteq Link
    /\ row \in [Link -> {Waiting} \cup LinkRows]
    /\ gone \in [Link -> Days \cup {Never}]
    /\ shareTokens \subseteq Tokens
    /\ day \in Days
    /\ ask \in [Visit -> {Waiting} \cup Infos \cup Joins \cup Grants]

\* The foreign keys, and links that were never made have not gone.
References ==
    /\ \A k \in Canvas \ canvases, u \in User : collab[k][u] = NoPermission
    /\ \A l \in links : row[l] # Waiting /\ row[l].canvas \in canvases /\ gone[l] = Never
    /\ \A l \in Link : gone[l] # Never => row[l] # Waiting /\ gone[l] <= day

\* What a token took over from its link.
FromLink(t) ==
    LET l == t.link IN
    /\ row[l] # Waiting
    /\ t.canvas = row[l].canvas /\ t.permission = row[l].permission
    /\ t.exp <= day + TokenTtl
    /\ gone[l] # Never => t.exp <= gone[l] + TokenTtl + t.took
    /\ row[l].exp # Never => t.exp <= row[l].exp + TokenTtl + t.took

\* What a visitor has read of a link.
ReadInTime(a) ==
    LET l == a.link IN
    /\ row[l] # Waiting
    /\ a.read <= day
    /\ gone[l] # Never => a.read <= gone[l]
    /\ row[l].exp # Never => a.read <= row[l].exp

AskedInTime(r) ==
    /\ ask[r].pc = "info" => ReadInTime(ask[r])
    /\ ask[r].pc \in {"canvas", "perm"} =>
          Rights(canvases, collab, ask[r].user, ask[r].canvas) \subseteq ask[r].due
    /\ ask[r].pc = "granted" => ask[r].permission \in ask[r].due

SharingInv ==
    /\ SharingTyped
    /\ References
    /\ \A t \in shareTokens : FromLink(t)
    /\ \A r \in Visit : AskedInTime(r)

\* No collaborator, no link and no request in flight yet.
LEMMA SharingStart == ASSUME SharingInit PROVE SharingInv
<1> USE DEF SharingInit
<1>1. SharingTyped
  BY SharingAssumption DEF SharingAssumption, SharingTyped, Allowed, Days, Waiting
<1>2. References
  BY DEF References
<1>3. \A r \in Visit : AskedInTime(r)
  BY DEF AskedInTime, Waiting
<1> QED BY <1>1, <1>2, <1>3 DEF SharingInv

\* Steps of joins and validations that write no table.
LEMMA AskOnly ==
    ASSUME SharingInv, NEW r \in Visit,
           NEW a \in {Waiting} \cup Infos \cup Joins \cup Grants,
           ask' = [ask EXCEPT ![r] = a],
           UNCHANGED <<canvases, collab, links, row, gone, shareTokens, day>>,
           AskedInTime(r)'
    PROVE  SharingInv'
<1>1. SharingTyped'
  BY DEF SharingInv, SharingTyped
<1>2. References'
  BY DEF SharingInv, References
<1>3. \A t \in shareTokens' : FromLink(t)'
  BY DEF SharingInv, FromLink
<1>4. ASSUME NEW s \in Visit PROVE AskedInTime(s)'
  <2>1. CASE s = r
    BY <2>1
  <2>2. CASE s # r
    <3>1. ask'[s] = ask[s]
      BY <2>2 DEF SharingInv, SharingTyped
    <3> QED BY <3>1 DEF SharingInv, AskedInTime, ReadInTime
  <2> QED BY <2>1, <2>2
<1> QED BY <1>1, <1>2, <1>3, <1>4 DEF SharingInv

\* A request that ends knows nothing any more.
LEMMA EndAskKeeps == ASSUME SharingInv, NEW r \in Visit, EndAsk(r) PROVE SharingInv'
<1>1. ask'[r] = Waiting
  BY DEF EndAsk, SharingInv, SharingTyped
<1>2. AskedInTime(r)'
  BY <1>1 DEF AskedInTime, Waiting
<1> QED BY <1>2, AskOnly DEF EndAsk

\* A visitor reads a link that is there and not expired.
LEMMA ReadLinkKeeps ==
    ASSUME SharingInv, NEW r \in Visit, NEW l \in Link, ReadLink(r, l) PROVE SharingInv'
<1> DEFINE a == [pc |-> "info", link |-> l, read |-> day]
<1>1. a \in Infos
  BY DEF Infos, SharingInv, SharingTyped
<1>2. ask' = [ask EXCEPT ![r] = a] /\ ask'[r] = a
  BY DEF ReadLink, SharingInv, SharingTyped
<1>3. ReadInTime(a)
  <2>1. row[l] # Waiting /\ gone[l] = Never /\ day \in Nat
    BY DEF ReadLink, SharingInv, References, SharingTyped, Days
  <2>2. row[l].exp # Never => row[l].exp \in Nat
    BY <2>1 DEF SharingInv, SharingTyped, LinkRows, Days
  <2>3. row[l].exp # Never => day <= row[l].exp
    BY <2>1, <2>2 DEF ReadLink, Expired
  <2> QED BY <2>1, <2>3 DEF ReadInTime
<1>4. AskedInTime(r)'
  <2>1. ask'[r].pc = "info" /\ ask'[r].link = l /\ ask'[r].read = day
    BY <1>2
  <2>2. row[l] # Waiting /\ gone[l] = Never /\ day <= day /\ (row[l].exp # Never => day <= row[l].exp)
    BY <1>3 DEF ReadInTime, ReadLink, SharingInv, References
  <2>3. row' = row /\ gone' = gone /\ day' = day
    BY DEF ReadLink
  <2> QED BY <2>1, <2>2, <2>3 DEF AskedInTime, ReadInTime
<1> HIDE DEF a
<1> QED BY <1>1, <1>2, <1>4, AskOnly DEF ReadLink

\* A grant for what is due.
LEMMA GrantKeeps ==
    ASSUME SharingInv, NEW r \in Visit, ask[r] \in Joins,
           NEW p \in Permission, p \in ask[r].due, Grant(r, p),
           UNCHANGED <<canvases, collab, links, row, gone, shareTokens, day>>
    PROVE  SharingInv'
<1> DEFINE a == [pc |-> "granted", user |-> ask[r].user, canvas |-> ask[r].canvas,
                 permission |-> p, due |-> ask[r].due]
<1>1. a \in Grants
  BY DEF Grants, Joins
<1>2. ask' = [ask EXCEPT ![r] = a] /\ ask'[r] = a
  BY DEF Grant, SharingInv, SharingTyped
<1>3. AskedInTime(r)'
  BY <1>2 DEF AskedInTime
<1> HIDE DEF a
<1> QED BY <1>1, <1>2, <1>3, AskOnly

\* A join by a good token is due what the link behind it says, which is what
\* the token says; any other is due what its user may do now.
LEMMA StartJoinKeeps ==
    ASSUME SharingInv, NEW r \in Visit, NEW u \in User, NEW k \in Canvas,
           NEW shown \in SUBSET shareTokens, StartJoin(r, u, k, shown)
    PROVE  SharingInv'
<1> DEFINE due == Rights(canvases, collab, u, k) \cup LinkRights(k, shown)
<1>1. ASSUME NEW t \in shown
      PROVE  /\ t.permission \in Permission
             /\ t.permission = row[t.link].permission /\ t.canvas = row[t.link].canvas
  BY DEF SharingInv, SharingTyped, Tokens, FromLink
<1>2. due \in SUBSET Permission
  <2>1. Rights(canvases, collab, u, k) \subseteq Permission
    BY DEF Rights
  <2>2. LinkRights(k, shown) \subseteq Permission
    BY <1>1 DEF LinkRights
  <2> QED BY <2>1, <2>2
<1>3. ASSUME NEW t \in shown, Good(t, k) PROVE t.permission \in due
  BY <1>1, <1>3 DEF Good, LinkRights
<1>4. Rights(canvases, collab, u, k) \subseteq due
  OBVIOUS
<1> HIDE DEF due
<1>5. CASE \E t \in shown :
             /\ Good(t, k)
             /\ ask' = [ask EXCEPT ![r] = [pc |-> "granted", user |-> u, canvas |-> k,
                                           permission |-> t.permission, due |-> due]]
  <2> PICK t \in shown :
         /\ Good(t, k)
         /\ ask' = [ask EXCEPT ![r] = [pc |-> "granted", user |-> u, canvas |-> k,
                                       permission |-> t.permission, due |-> due]]
    BY <1>5
  <2> DEFINE a == [pc |-> "granted", user |-> u, canvas |-> k, permission |-> t.permission, due |-> due]
  <2>1. a \in Grants
    BY <1>1, <1>2 DEF Grants
  <2>2. ask' = [ask EXCEPT ![r] = a] /\ ask'[r] = a
    BY DEF SharingInv, SharingTyped
  <2>3. AskedInTime(r)'
    BY <1>3, <2>2 DEF AskedInTime
  <2> HIDE DEF a
  <2> QED BY <2>1, <2>2, <2>3, AskOnly DEF StartJoin
<1>6. CASE Asking(r, u, k, due)
  <2> DEFINE a == [pc |-> "canvas", user |-> u, canvas |-> k, due |-> due]
  <2>1. a \in Joins
    BY <1>2 DEF Joins
  <2>2. ask' = [ask EXCEPT ![r] = a] /\ ask'[r] = a
    BY <1>6 DEF Asking, SharingInv, SharingTyped
  <2>3. canvases' = canvases /\ collab' = collab
    BY DEF StartJoin
  <2>4. AskedInTime(r)'
    BY <1>4, <2>2, <2>3 DEF AskedInTime
  <2> HIDE DEF a
  <2> QED BY <2>1, <2>2, <2>4, AskOnly DEF StartJoin
<1> QED BY <1>5, <1>6 DEF StartJoin, due

\* The owner is granted what an owner may do; anyone else goes on with what
\* was due.
LEMMA JoinReadsCanvasKeeps ==
    ASSUME SharingInv, NEW r \in Visit, JoinReadsCanvas(r)
    PROVE  SharingInv'
<1> DEFINE k == ask[r].canvas
           u == ask[r].user
<1>1. ask[r] \in Joins /\ k \in canvases
  BY DEF JoinReadsCanvas, SharingInv, SharingTyped, Infos, Grants, Waiting
<1>2. k \in Canvas /\ u \in User /\ Rights(canvases, collab, u, k) \subseteq ask[r].due
  BY <1>1 DEF Joins, JoinReadsCanvas, SharingInv, AskedInTime
<1>3. CASE OwnerOf[k] = u
  <2>1. "collaborate" \in Permission
    BY DEF Permission
  <2>2. "collaborate" \in ask[r].due
    BY <1>1, <1>2, <1>3, <2>1 DEF Rights
  <2> QED BY <1>1, <1>3, <2>1, <2>2, GrantKeeps DEF JoinReadsCanvas
<1>4. CASE OwnerOf[k] # u
  <2> DEFINE a == [ask[r] EXCEPT !.pc = "perm"]
  <2>1. a \in Joins /\ a.pc = "perm" /\ a.user = u /\ a.canvas = k /\ a.due = ask[r].due
    BY <1>1 DEF Joins
  <2>2. ask' = [ask EXCEPT ![r] = a] /\ ask'[r] = a
    BY <1>4 DEF JoinReadsCanvas, SharingInv, SharingTyped
  <2>3. canvases' = canvases /\ collab' = collab
    BY DEF JoinReadsCanvas
  <2> HIDE DEF a
  <2>4. AskedInTime(r)'
    BY <1>2, <2>1, <2>2, <2>3 DEF AskedInTime
  <2> QED BY <2>1, <2>2, <2>4, AskOnly DEF JoinReadsCanvas
<1> QED BY <1>3, <1>4

\* The second read grants what the user may do now, which is due.
LEMMA JoinReadsPermissionKeeps ==
    ASSUME SharingInv, NEW r \in Visit, JoinReadsPermission(r) PROVE SharingInv'
<1> DEFINE k == ask[r].canvas
           u == ask[r].user
<1>1. ask[r] \in Joins
  BY DEF JoinReadsPermission, SharingInv, SharingTyped, Infos, Grants, Waiting
<1>2. k \in Canvas /\ u \in User /\ Rights(canvases, collab, u, k) \subseteq ask[r].due
  BY <1>1 DEF Joins, JoinReadsPermission, SharingInv, AskedInTime
<1>3. collab[k][u] \in Permission
  BY <1>2 DEF JoinReadsPermission, SharingInv, SharingTyped, Allowed
<1>4. collab[k][u] \in ask[r].due
  BY <1>2, <1>3 DEF Rights
<1> QED BY <1>1, <1>3, <1>4, GrantKeeps DEF JoinReadsPermission

\* The token is given as long after the link was read as it took.
LEMMA GiveTokenKeeps ==
    ASSUME SharingInv, NEW r \in Visit, GiveToken(r) PROVE SharingInv'
<1> DEFINE l == ask[r].link
           read == ask[r].read
           new == ShareToken(l, read)
<1>1. ask[r] \in Infos /\ l \in Link /\ read \in Nat /\ day \in Nat /\ TokenTtl \in Nat
  BY SharingAssumption
     DEF SharingAssumption, GiveToken, SharingInv, SharingTyped, Infos, Joins, Grants, Waiting, Days
<1>2. ReadInTime(ask[r])
  BY DEF GiveToken, SharingInv, AskedInTime
<1>3. row[l] \in LinkRows /\ read <= day
  BY <1>1, <1>2 DEF ReadInTime, SharingInv, SharingTyped
<1>4. /\ new.link = l /\ new.canvas = row[l].canvas /\ new.permission = row[l].permission
      /\ new.exp = day + TokenTtl /\ new.took = day - read
  BY DEF ShareToken
<1>5. new \in Tokens
  BY <1>1, <1>3 DEF ShareToken, Tokens, LinkRows
<1>6. FromLink(new)
  <2>1. gone[l] # Never => gone[l] \in Nat /\ read <= gone[l]
    BY <1>1, <1>2 DEF ReadInTime, SharingInv, SharingTyped, Days
  <2>2. row[l].exp # Never => row[l].exp \in Nat /\ read <= row[l].exp
    BY <1>2, <1>3 DEF ReadInTime, LinkRows, Days
  <2>3. gone[l] # Never => day + TokenTtl <= gone[l] + TokenTtl + (day - read)
    BY <1>1, <2>1
  <2>4. row[l].exp # Never => day + TokenTtl <= row[l].exp + TokenTtl + (day - read)
    BY <1>1, <2>2
  <2>5. row[l] # Waiting /\ day + TokenTtl <= day + TokenTtl
    BY <1>1, <1>2 DEF ReadInTime
  <2> HIDE DEF new
  <2> QED BY <1>4, <2>3, <2>4, <2>5 DEF FromLink
<1>7. /\ shareTokens' = shareTokens \cup {new} /\ ask' = [ask EXCEPT ![r] = Waiting]
      /\ UNCHANGED <<canvases, collab, links, row, gone, day>>
  BY DEF GiveToken
<1> HIDE DEF new
<1>8. SharingTyped'
  BY <1>5, <1>7 DEF SharingInv, SharingTyped
<1>9. References'
  BY <1>7 DEF SharingInv, References
<1>10. \A t \in shareTokens' : FromLink(t)'
  BY <1>6, <1>7 DEF SharingInv, FromLink
<1>11. ASSUME NEW s \in Visit PROVE AskedInTime(s)'
  <2>1. ask'[s] = Waiting \/ ask'[s] = ask[s]
    BY <1>7 DEF SharingInv, SharingTyped
  <2> QED BY <1>7, <2>1 DEF SharingInv, AskedInTime, ReadInTime, Waiting
<1> QED BY <1>8, <1>9, <1>10, <1>11 DEF SharingInv

\* The clock: what is bounded by the day stays bounded.
LEMMA NextDayKeeps == ASSUME SharingInv, NextDay PROVE SharingInv'
<1>1. /\ day \in Nat /\ day' = day + 1 /\ day' \in Days /\ TokenTtl \in Nat
      /\ UNCHANGED <<canvases, collab, links, row, gone, shareTokens, ask>>
  BY SharingAssumption DEF SharingAssumption, NextDay, SharingInv, SharingTyped, Days
<1>2. SharingTyped'
  BY <1>1 DEF SharingInv, SharingTyped
<1>3. References'
  <2>1. ASSUME NEW l \in Link, gone[l] # Never PROVE row[l] # Waiting /\ gone[l] <= day'
    <3>1. gone[l] \in Nat /\ row[l] # Waiting /\ gone[l] <= day
      BY <2>1 DEF SharingInv, SharingTyped, References, Days
    <3> QED BY <1>1, <3>1
  <2> QED BY <1>1, <2>1 DEF SharingInv, References
<1>4. ASSUME NEW t \in shareTokens PROVE FromLink(t)'
  <2>1. t.exp \in Nat /\ t.exp <= day + TokenTtl
    BY DEF SharingInv, SharingTyped, Tokens, FromLink
  <2>2. t.exp <= day' + TokenTtl
    BY <1>1, <2>1
  <2> QED BY <1>1, <2>2 DEF SharingInv, FromLink
<1>5. ASSUME NEW r \in Visit PROVE AskedInTime(r)'
  <2>1. ASSUME ask[r].pc = "info" PROVE ask[r].read <= day'
    <3>1. ask[r] \in Infos /\ ask[r].read <= day
      BY <2>1 DEF SharingInv, SharingTyped, AskedInTime, ReadInTime, Joins, Grants, Waiting
    <3>2. ask[r].read \in Nat
      BY <3>1 DEF Infos, Days
    <3> QED BY <1>1, <3>1, <3>2
  <2> QED BY <1>1, <2>1 DEF SharingInv, AskedInTime, ReadInTime
<1> QED BY <1>1, <1>2, <1>3, <1>4, <1>5 DEF SharingInv

\* Joins under way are due what they were, and what the tables now say.
LEMMA NotingKeeps ==
    ASSUME SharingInv, ask' = Noting(canvases', collab'), NEW r \in Visit
    PROVE  /\ ask'[r] \in {Waiting} \cup Infos \cup Joins \cup Grants
           /\ ask'[r].pc = "info" => ask'[r] = ask[r] /\ ask[r].pc = "info"
           /\ ask'[r].pc \in {"canvas", "perm"} =>
                 Rights(canvases', collab', ask'[r].user, ask'[r].canvas) \subseteq ask'[r].due
           /\ ask'[r].pc = "granted" => ask'[r].permission \in ask'[r].due
<1>1. CASE ask[r].pc \in {"canvas", "perm"}
  <2>1. ask[r] \in Joins
    BY <1>1 DEF SharingInv, SharingTyped, Infos, Grants, Waiting
  <2> DEFINE now == Rights(canvases', collab', ask[r].user, ask[r].canvas)
  <2>2. now \subseteq Permission
    BY DEF Rights
  <2>3. ask'[r] = [ask[r] EXCEPT !.due = @ \cup now]
    BY <1>1 DEF Noting
  <2> HIDE DEF now
  <2>4. ask'[r] \in Joins
    BY <2>1, <2>2, <2>3 DEF Joins
  <2>5. /\ ask'[r].canvas = ask[r].canvas /\ ask'[r].user = ask[r].user
        /\ now \subseteq ask'[r].due /\ ask'[r].pc \in {"canvas", "perm"}
    BY <2>1, <2>3 DEF Joins
  <2> QED BY <2>4, <2>5 DEF now
<1>2. CASE ask[r].pc \notin {"canvas", "perm"}
  <2>1. ask'[r] = ask[r]
    BY <1>2 DEF Noting
  <2> QED BY <1>2, <2>1 DEF SharingInv, SharingTyped, AskedInTime
<1> QED BY <1>1, <1>2

\* The owner's changes add to what the joins in flight are due.
LEMMA CollaboratorsKeep ==
    ASSUME SharingInv, NEW k \in Canvas, NEW u \in User, NEW p \in Allowed,
           p # NoPermission => k \in canvases, SetCollaborator(k, u, p)
    PROVE  SharingInv'
<1>1. /\ collab' = [collab EXCEPT ![k][u] = p] /\ ask' = Noting(canvases', collab')
      /\ UNCHANGED <<canvases, links, row, gone, shareTokens, day>>
  BY DEF SetCollaborator
<1>2. collab' \in [Canvas -> [User -> Allowed]]
  BY <1>1 DEF SharingInv, SharingTyped
<1>3. SharingTyped'
  <2>1. ask' = [r \in Visit |-> ask'[r]]
    BY <1>1 DEF Noting
  <2>2. \A r \in Visit : ask'[r] \in {Waiting} \cup Infos \cup Joins \cup Grants
    BY <1>1, <1>2, NotingKeeps
  <2>3. ask' \in [Visit -> {Waiting} \cup Infos \cup Joins \cup Grants]
    BY <2>1, <2>2
  <2> QED BY <1>1, <1>2, <2>3 DEF SharingInv, SharingTyped
<1>4. References'
  BY <1>1 DEF SharingInv, SharingTyped, References
<1>5. \A t \in shareTokens' : FromLink(t)'
  BY <1>1 DEF SharingInv, FromLink
<1>6. ASSUME NEW r \in Visit PROVE AskedInTime(r)'
  BY <1>1, <1>2, NotingKeeps DEF SharingInv, AskedInTime, ReadInTime
<1> QED BY <1>3, <1>4, <1>5, <1>6 DEF SharingInv

\* Two of them, as the handlers do them.
LEMMA OwnerKeeps ==
    ASSUME SharingInv, NEW k \in Canvas, NEW u \in User, NEW p \in Permission,
           AddCollaborator(k, u, p) \/ UpdateCollaborator(k, u, p) \/ RemoveCollaborator(k, u)
    PROVE  SharingInv'
<1>1. collab[k][u] # NoPermission => k \in canvases
  BY DEF SharingInv, References
<1> QED BY <1>1, CollaboratorsKeep
        DEF AddCollaborator, UpdateCollaborator, RemoveCollaborator, Allowed

\* The third takes the permission away.
LEMMA RemoveKeeps ==
    ASSUME SharingInv, NEW k \in Canvas, NEW u \in User, RemoveCollaborator(k, u)
    PROVE  SharingInv'
<1>1. "readonly" \in Permission
  BY DEF Permission
<1> QED BY <1>1, OwnerKeeps

\* A link is made once, so nothing was read or given of it before.
LEMMA CreateLinkKeeps ==
    ASSUME SharingInv, NEW l \in Link, NEW k \in Canvas, NEW p \in Permission,
           NEW exp \in Days \cup {Never}, CreateLink(l, k, p, exp)
    PROVE  SharingInv'
<1> DEFINE new == LinkRow(k, p, exp)
<1>1. new \in LinkRows /\ new # Waiting /\ new.canvas = k
  BY DEF LinkRow, LinkRows, Waiting
<1>2. /\ k \in canvases /\ row[l] = Waiting /\ links' = links \cup {l}
      /\ row' = [row EXCEPT ![l] = new]
      /\ UNCHANGED <<canvases, collab, gone, shareTokens, day, ask>>
  BY DEF CreateLink
<1> HIDE DEF new
<1>3. row'[l] = new /\ \A m \in Link \ {l} : row'[m] = row[m]
  BY <1>2 DEF SharingInv, SharingTyped
<1>4. SharingTyped'
  BY <1>1, <1>2 DEF SharingInv, SharingTyped
<1>5. References'
  <2>1. gone[l] = Never /\ l \notin links
    BY <1>2 DEF SharingInv, References
  <2> QED BY <1>1, <1>2, <1>3, <2>1 DEF SharingInv, SharingTyped, References
<1>6. ASSUME NEW t \in shareTokens PROVE FromLink(t)'
  <2>1. t.link \in Link \ {l}
    BY <1>2 DEF SharingInv, SharingTyped, Tokens, FromLink
  <2> QED BY <1>2, <1>3, <2>1 DEF SharingInv, FromLink
<1>7. ASSUME NEW r \in Visit PROVE AskedInTime(r)'
  <2>1. ask[r].pc = "info" => ask[r].link \in Link \ {l}
    BY <1>2 DEF SharingInv, SharingTyped, AskedInTime, ReadInTime, Infos, Joins, Grants, Waiting
  <2> QED BY <1>2, <1>3, <2>1 DEF SharingInv, AskedInTime, ReadInTime
<1> QED BY <1>2, <1>4, <1>5, <1>6, <1>7 DEF SharingInv

\* A link that goes now goes after it was read, and its tokens end within
\* their life from now.
LEMMA UnlinkKeeps ==
    ASSUME SharingInv, NEW S, Unlink(S), UNCHANGED <<row, shareTokens, day>>
    PROVE  /\ links' \subseteq links
           /\ gone' \in [Link -> Days \cup {Never}]
           /\ \A l \in links' : gone'[l] = Never
           /\ \A l \in Link : gone'[l] # Never => row[l] # Waiting /\ gone'[l] <= day
           /\ \A t \in shareTokens : FromLink(t)'
           /\ \A a \in Infos : ReadInTime(a) => ReadInTime(a)'
<1>1. /\ links' = links \ S
      /\ gone' = [l \in Link |-> IF l \in links \cap S THEN day ELSE gone[l]]
      /\ row' = row /\ shareTokens' = shareTokens /\ day' = day
  BY DEF Unlink
<1>2. day \in Nat /\ day \in Days /\ Never \notin Nat /\ TokenTtl \in Nat
  BY SharingAssumption DEF SharingAssumption, SharingInv, SharingTyped, Days
<1>3. gone' \in [Link -> Days \cup {Never}]
  BY <1>1, <1>2 DEF SharingInv, SharingTyped
<1>4. \A l \in links' : gone'[l] = Never
  BY <1>1 DEF SharingInv, SharingTyped, References
<1>5. ASSUME NEW l \in Link, gone'[l] # Never PROVE row[l] # Waiting /\ gone'[l] <= day
  <2>1. CASE l \in links \cap S
    BY <1>1, <1>2, <2>1 DEF SharingInv, References
  <2>2. CASE l \notin links \cap S
    BY <1>1, <1>5, <2>2 DEF SharingInv, References
  <2> QED BY <2>1, <2>2
<1>6. ASSUME NEW t \in shareTokens PROVE FromLink(t)'
  <2>1. t.link \in Link /\ t.exp \in Nat /\ t.took \in Nat /\ FromLink(t)
    BY DEF SharingInv, SharingTyped, Tokens
  <2>2. CASE t.link \in links \cap S
    <3>1. gone'[t.link] = day /\ t.exp <= day + TokenTtl
      BY <1>1, <2>1, <2>2 DEF FromLink
    <3>2. t.exp <= day + TokenTtl + t.took
      BY <1>2, <2>1, <3>1
    <3> QED BY <1>1, <2>1, <3>1, <3>2 DEF FromLink
  <2>3. CASE t.link \notin links \cap S
    <3>1. gone'[t.link] = gone[t.link]
      BY <1>1, <2>1, <2>3
    <3> QED BY <1>1, <2>1, <3>1 DEF FromLink
  <2> QED BY <2>2, <2>3
<1>7. ASSUME NEW a \in Infos, ReadInTime(a) PROVE ReadInTime(a)'
  <2>1. a.link \in Link /\ a.read <= day
    BY <1>7 DEF Infos, ReadInTime
  <2> QED BY <1>1, <1>7, <2>1 DEF ReadInTime
<1> QED BY <1>1, <1>3, <1>4, <1>5, <1>6, <1>7

\* A link that is deleted is gone from this day on.
LEMMA DeleteLinkKeeps ==
    ASSUME SharingInv, NEW l \in Link, DeleteLink(l) PROVE SharingInv'
<1>1. Unlink({l}) /\ UNCHANGED <<canvases, collab, row, shareTokens, day, ask>>
  BY DEF DeleteLink
<1>2. /\ links' \subseteq links
      /\ gone' \in [Link -> Days \cup {Never}]
      /\ \A m \in links' : gone'[m] = Never
      /\ \A m \in Link : gone'[m] # Never => row[m] # Waiting /\ gone'[m] <= day
      /\ \A t \in shareTokens : FromLink(t)'
      /\ \A a \in Infos : ReadInTime(a) => ReadInTime(a)'
  BY <1>1, UnlinkKeeps
<1>3. SharingTyped'
  BY <1>1, <1>2 DEF SharingInv, SharingTyped
<1>4. References'
  BY <1>1, <1>2 DEF SharingInv, References
<1>5. ASSUME NEW r \in Visit PROVE AskedInTime(r)'
  <2>1. ask[r].pc = "info" => ReadInTime(ask[r])'
    <3>1. ask[r].pc = "info" => ask[r] \in Infos /\ ReadInTime(ask[r])
      BY DEF SharingInv, SharingTyped, AskedInTime, Joins, Grants, Waiting
    <3> DEFINE a == ask[r]
    <3>2. ask'[r] = a /\ (a \in Infos /\ ReadInTime(a) => ReadInTime(a)')
      BY <1>1, <1>2
    <3> QED BY <1>1, <3>1, <3>2
  <2> QED BY <1>1, <2>1 DEF SharingInv, AskedInTime
<1> QED BY <1>1, <1>2, <1>3, <1>4, <1>5 DEF SharingInv

\* The canvas goes with its collaborators and links.
LEMMA DeleteCanvasKeeps ==
    ASSUME SharingInv, NEW k \in Canvas, DeleteCanvasRow(k) PROVE SharingInv'
<1>1. /\ canvases' = canvases \ {k}
      /\ collab' = [collab EXCEPT ![k] = [u \in User |-> NoPermission]]
      /\ Unlink({l \in links : row[l].canvas = k})
      /\ ask' = Noting(canvases', collab')
      /\ UNCHANGED <<row, shareTokens, day>>
  BY DEF DeleteCanvasRow
<1>2. /\ links' \subseteq links
      /\ gone' \in [Link -> Days \cup {Never}]
      /\ \A m \in links' : gone'[m] = Never
      /\ \A m \in Link : gone'[m] # Never => row[m] # Waiting /\ gone'[m] <= day
      /\ \A t \in shareTokens : FromLink(t)'
      /\ \A a \in Infos : ReadInTime(a) => ReadInTime(a)'
  BY <1>1, UnlinkKeeps
<1>3. collab' \in [Canvas -> [User -> Allowed]]
  BY <1>1 DEF SharingInv, SharingTyped, Allowed
<1>4. SharingTyped'
  <2>1. ask' = [r \in Visit |-> ask'[r]]
    BY <1>1 DEF Noting
  <2>2. \A r \in Visit : ask'[r] \in {Waiting} \cup Infos \cup Joins \cup Grants
    BY <1>1, <1>3, NotingKeeps
  <2>3. ask' \in [Visit -> {Waiting} \cup Infos \cup Joins \cup Grants]
    BY <2>1, <2>2
  <2> QED BY <1>1, <1>2, <1>3, <2>3 DEF SharingInv, SharingTyped
<1>5. References'
  <2>1. \A j \in Canvas \ canvases', u \in User : collab'[j][u] = NoPermission
    BY <1>1 DEF SharingInv, SharingTyped, References
  <2>2. \A l \in links' : row'[l] # Waiting /\ row'[l].canvas \in canvases'
    BY <1>1 DEF Unlink, SharingInv, References
  <2> QED BY <1>1, <1>2, <2>1, <2>2 DEF SharingInv, References
<1>6. ASSUME NEW r \in Visit PROVE AskedInTime(r)'
  <2>1. /\ ask'[r].pc = "info" => ask'[r] = ask[r] /\ ask[r].pc = "info"
        /\ ask'[r].pc \in {"canvas", "perm"} =>
              Rights(canvases', collab', ask'[r].user, ask'[r].canvas) \subseteq ask'[r].due
        /\ ask'[r].pc = "granted" => ask'[r].permission \in ask'[r].due
    BY <1>1, <1>3, NotingKeeps
  <2>2. ask'[r].pc = "info" => ReadInTime(ask[r])'
    <3>1. ask[r].pc = "info" => ask[r] \in Infos /\ ReadInTime(ask[r])
      BY DEF SharingInv, SharingTyped, AskedInTime, Joins, Grants, Waiting
    <3>2. CASE ask'[r].pc = "info"
      <4> DEFINE a == ask[r]
      <4>1. a \in Infos /\ ReadInTime(a) /\ ask'[r] = a
        BY <2>1, <3>1, <3>2
      <4>2. a.link \in Link /\ a.read <= day
        BY <4>1 DEF Infos, ReadInTime
      <4> QED BY <1>1, <4>1, <4>2 DEF ReadInTime, Unlink
    <3> QED BY <3>2
  <2> QED BY <2>1, <2>2 DEF AskedInTime
<1> QED BY <1>1, <1>2, <1>4, <1>5, <1>6 DEF SharingInv

\* Every step keeps the invariant.
LEMMA SharingStep == ASSUME SharingInv, [SharingNext]_sharingVars PROVE SharingInv'
<1>1. CASE UNCHANGED sharingVars
  BY <1>1 DEF sharingVars, SharingInv, SharingTyped, References, FromLink, AskedInTime, ReadInTime
<1>2. CASE SharingNext
  <2>1. ASSUME NEW k \in Canvas, NEW u \in User, NEW p \in Permission,
               AddCollaborator(k, u, p) \/ UpdateCollaborator(k, u, p)
        PROVE  SharingInv'
    BY <2>1, OwnerKeeps
  <2>2. ASSUME NEW r \in Visit, NEW u \in User, NEW k \in Canvas,
               NEW shown \in {{}} \cup {{t} : t \in shareTokens}, StartJoin(r, u, k, shown)
        PROVE  SharingInv'
    <3>1. shown \in SUBSET shareTokens
      OBVIOUS
    <3> QED BY <2>2, <3>1, StartJoinKeeps
  <2>3. ASSUME NEW r \in Visit,
               \/ \E l \in Link : ReadLink(r, l)
               \/ GiveToken(r) \/ JoinReadsCanvas(r) \/ JoinReadsPermission(r) \/ EndAsk(r)
        PROVE  SharingInv'
    BY <2>3, ReadLinkKeeps, GiveTokenKeeps, JoinReadsCanvasKeeps, JoinReadsPermissionKeeps, EndAskKeeps
  <2>4. ASSUME NEW l \in Link, NEW k \in Canvas, NEW p \in Permission,
               NEW exp \in 0..MaxDay \cup {Never}, CreateLink(l, k, p, exp)
        PROVE  SharingInv'
    BY <2>4, CreateLinkKeeps DEF Days
  <2> QED BY <1>2, <2>1, <2>2, <2>3, <2>4, NextDayKeeps, RemoveKeeps, DeleteLinkKeeps,
             DeleteCanvasKeeps DEF SharingNext
<1> QED BY <1>1, <1>2

\* The inductive invariant holds in every behaviour of owner, collaborators
\* and visitors.
THEOREM SharingInvariant == SharingSpec => []SharingInv
<1>1. SharingInit => SharingInv
  BY SharingStart
<1>2. SharingInv /\ [SharingNext]_sharingVars => SharingInv'
  BY SharingStep
<1> QED BY <1>1, <1>2, PTL DEF SharingSpec

\* The tables keep their types and their foreign keys.
THEOREM SharingTypeCorrect == SharingSpec => []SharingTypeOK
<1>1. SharingInv => SharingTypeOK
  <2> SUFFICES ASSUME SharingInv PROVE SharingTypeOK
    OBVIOUS
  <2>1. /\ canvases \subseteq Canvas /\ day \in 0..MaxDay
        /\ collab \in [Canvas -> [User -> Permission \cup {NoPermission}]]
        /\ \A k \in Canvas \ canvases, u \in User : collab[k][u] = NoPermission
        /\ links \subseteq {l \in Link : row[l] # Waiting}
    BY DEF SharingInv, SharingTyped, References, Allowed, Days
  <2>2. \A l \in links : row[l].canvas \in canvases /\ row[l].permission \in Permission
    BY DEF SharingInv, SharingTyped, References, LinkRows
  <2>3. \A t \in shareTokens : t.link \in Link /\ t.canvas = row[t.link].canvas
    BY DEF SharingInv, SharingTyped, Tokens, FromLink
  <2>4. \A r \in Visit : ask[r].pc \in {"idle", "info", "canvas", "perm", "granted"}
    BY DEF SharingInv, SharingTyped, Infos, Joins, Grants, Waiting
  <2> QED BY <2>1, <2>2, <2>3, <2>4 DEF SharingTypeOK
<1> QED BY <1>1, SharingInvariant, PTL

\* However the owner's changes fall between the reads of a join, the
\* permission it ends with was right at some moment of it.
THEOREM GrantsAreJustified == SharingSpec => []GrantJustified
<1>1. SharingInv => GrantJustified
  BY DEF SharingInv, AskedInTime, GrantJustified
<1> QED BY <1>1, SharingInvariant, PTL

\* Every token ends within its life after its link was deleted or expired.
THEOREM LinksEnd == SharingSpec => []TokensEnd
<1>1. SharingInv => TokensEnd
  BY DEF SharingInv, FromLink, TokensEnd
<1> QED BY <1>1, SharingInvariant, PTL

-------------------------------------------------------------------------------
(*****************************************************************************)
(* Migrations, for any number of servers with any files each.  A server      *)
(* that is at a file has seen all before it applied, and of the servers      *)
(* that have recorded a version in an open transaction there is one, which   *)
(* nobody has committed before.                                              *)
(*****************************************************************************)

\* Where a server is in its files, and what it has seen applied.
Place ==
    \A s \in Server :
        /\ proc[s] \in Running => 1..(file[s] - 1) \subseteq applied
        /\ proc[s] \in {"execute", "record", "commit"} => file[s] <= Files[s]

\* The open transactions that hold the primary key of a version.
Holder ==
    \A s \in Server : proc[s] = "commit" =>
        /\ file[s] \notin applied
        /\ \A q \in Server : proc[q] = "commit" /\ file[q] = file[s] => q = s

MigrationsInv == MigrationsTypeOK /\ Place /\ Holder /\ AppliedOnce /\ InOrder /\ ServesMigrated

\* An empty database, and all servers down.
LEMMA MigrationsStart == MigrationsInit => MigrationsInv
  <1> SUFFICES ASSUME MigrationsInit PROVE MigrationsInv
    OBVIOUS
  <1> USE MigrationsAssumption DEF MigrationsAssumption, MigrationsInit
  <1>1. MigrationsTypeOK
    BY DEF MigrationsTypeOK, Running
  <1>2. Place /\ Holder /\ ServesMigrated
    BY DEF Place, Holder, ServesMigrated, Running
  <1>3. AppliedOnce /\ InOrder
    BY DEF AppliedOnce, InOrder
  <1>4. QED
    BY <1>1, <1>2, <1>3 DEF MigrationsInv

\* The versions a server may be at are versions.
LEMMA FileIsVersion ==
  ASSUME MigrationsTypeOK, NEW s \in Server, file[s] <= Files[s]
  PROVE  file[s] \in Version
  <1>1. file[s] \in 1..Files[s]
    BY MigrationsAssumption DEF MigrationsAssumption, MigrationsTypeOK
  <1>2. QED
    BY <1>1 DEF Version

\* The steps that write nothing but where a server is.
LEMMA QuietStep ==
  ASSUME MigrationsInv, NEW s \in Server, UNCHANGED <<applied, effects, file>>,
         starts' \in 0..MaxStarts,
         NEW to \in Running \cup {"down", "serving"}, proc' = [proc EXCEPT ![s] = to],
         to \in Running => proc[s] \in Running,
         to \in {"execute", "record", "commit"} => file[s] <= Files[s],
         to = "commit" => file[s] \notin applied /\ ~Locked(s),
         to = "serving" => proc[s] = "check" /\ file[s] > Files[s]
  PROVE  MigrationsInv'
  <1> USE MigrationsAssumption DEF MigrationsAssumption, MigrationsInv
  <1>1. MigrationsTypeOK'
    BY DEF MigrationsTypeOK
  <1>2. Place'
    BY DEF Place, MigrationsTypeOK
  <1>3. Holder'
    BY DEF Holder, MigrationsTypeOK, Locked
  <1>4. AppliedOnce' /\ InOrder'
    BY DEF AppliedOnce, InOrder
  <1>5. ServesMigrated'
    <2>1. ASSUME to = "serving" PROVE 1..Files[s] \subseteq applied
      <3>1. proc[s] \in Running /\ file[s] > Files[s]
        BY <2>1 DEF Running
      <3>2. Files[s] \in Nat /\ file[s] \in Nat /\ file[s] <= Files[s] + 1
        BY DEF MigrationsTypeOK
      <3>3. file[s] - 1 = Files[s]
        BY <3>1, <3>2
      <3>4. 1..(file[s] - 1) \subseteq applied
        BY <3>1 DEF Place
      <3>5. QED
        BY <3>3, <3>4
    <2>2. QED
      BY <2>1 DEF ServesMigrated, MigrationsTypeOK
  <1>6. QED
    BY <1>1, <1>2, <1>3, <1>4, <1>5

\* A server goes on to the next file when it has seen this one applied.
LEMMA StepSkip ==
  ASSUME MigrationsInv, NEW s \in Server, SkipApplied(s)
  PROVE  MigrationsInv'
  <1> USE MigrationsAssumption DEF MigrationsAssumption, MigrationsInv, SkipApplied, Step
  <1>1. MigrationsTypeOK'
    <2>1. proc' \in [Server -> Running \cup {"down", "serving"}]
      BY DEF MigrationsTypeOK, Running
    <2>2. file' \in [Server -> Nat \ {0}]
      BY DEF MigrationsTypeOK
    <2>3. ASSUME NEW q \in Server PROVE file'[q] <= Files[q] + 1
      <3>1. Files[q] \in Nat /\ file[q] \in Nat /\ file[q] <= Files[q] + 1
        BY DEF MigrationsTypeOK
      <3>2. CASE q = s
        <4>1. file[q] \in Nat /\ file'[q] = file[q] + 1 /\ file[q] <= Files[q]
          BY <3>1, <3>2 DEF MigrationsTypeOK
        <4>2. QED
          BY <3>1, <4>1
      <3>3. CASE q # s
        BY <3>1, <3>3 DEF MigrationsTypeOK
      <3>4. QED
        BY <3>2, <3>3
    <2>4. applied' \subseteq Version /\ effects' \in [Version -> Nat]
      BY DEF MigrationsTypeOK
    <2>5. starts' \in 0..MaxStarts
      BY DEF MigrationsTypeOK
    <2>6. QED
      BY <2>1, <2>2, <2>3, <2>4, <2>5 DEF MigrationsTypeOK
  <1>2. Place'
    BY DEF Place, MigrationsTypeOK, Running
  <1>3. Holder' /\ ServesMigrated'
    BY DEF Holder, ServesMigrated, MigrationsTypeOK
  <1>4. AppliedOnce' /\ InOrder'
    BY DEF AppliedOnce, InOrder
  <1>5. QED
    BY <1>1, <1>2, <1>3, <1>4

\* The commit of the only transaction that holds the version.
LEMMA StepCommit ==
  ASSUME MigrationsInv, NEW s \in Server, Commit(s)
  PROVE  MigrationsInv'
  <1> USE MigrationsAssumption DEF MigrationsAssumption, MigrationsInv, Commit, Step
  <1>0. file[s] \in Version /\ file[s] \notin applied /\ file[s] <= Files[s]
    BY FileIsVersion DEF Place, Holder
  <1>00. 1..(file[s] - 1) \subseteq applied
    BY DEF Place, Running
  <1>1. MigrationsTypeOK'
    <2>1. proc' \in [Server -> Running \cup {"down", "serving"}]
      BY DEF MigrationsTypeOK, Running
    <2>2. file' \in [Server -> Nat \ {0}]
      BY DEF MigrationsTypeOK
    <2>3. ASSUME NEW q \in Server PROVE file'[q] <= Files[q] + 1
      <3>1. Files[q] \in Nat /\ file[q] \in Nat /\ file[q] <= Files[q] + 1
        BY DEF MigrationsTypeOK
      <3>2. CASE q = s
        <4>1. file[q] \in Nat /\ file'[q] = file[q] + 1 /\ file[q] <= Files[q]
          BY <1>0, <3>1, <3>2 DEF MigrationsTypeOK
        <4>2. QED
          BY <3>1, <4>1
      <3>3. CASE q # s
        BY <3>1, <3>3 DEF MigrationsTypeOK
      <3>4. QED
        BY <3>2, <3>3
    <2>4. applied' \subseteq Version /\ effects' \in [Version -> Nat]
      BY <1>0 DEF MigrationsTypeOK
    <2>5. starts' \in 0..MaxStarts
      BY DEF MigrationsTypeOK
    <2>6. QED
      BY <2>1, <2>2, <2>3, <2>4, <2>5 DEF MigrationsTypeOK
  <1>2. Place'
    BY <1>0 DEF Place, MigrationsTypeOK, Running
  <1>3. Holder'
    BY <1>0 DEF Holder, MigrationsTypeOK
  <1>4. AppliedOnce'
    BY <1>0 DEF AppliedOnce, MigrationsTypeOK
  <1>5. InOrder'
    <2>1. ASSUME NEW v \in applied' PROVE 1..v \subseteq applied'
      <3>1. CASE v \in applied
        BY <3>1 DEF InOrder
      <3>2. CASE v = file[s]
        BY <3>2, <1>00 DEF MigrationsTypeOK
      <3>3. QED
        BY <3>1, <3>2
    <2>2. QED
      BY <2>1 DEF InOrder
  <1>6. ServesMigrated'
    BY DEF ServesMigrated, MigrationsTypeOK
  <1>7. QED
    BY <1>1, <1>2, <1>3, <1>4, <1>5, <1>6

\* A server that starts is at its first file.
LEMMA StepStart ==
  ASSUME MigrationsInv, NEW s \in Server, Start(s)
  PROVE  MigrationsInv'
  <1> USE MigrationsAssumption DEF MigrationsAssumption, MigrationsInv, Start
  <1>1. MigrationsTypeOK'
    <2>1. proc' \in [Server -> Running \cup {"down", "serving"}]
      BY DEF MigrationsTypeOK, Running
    <2>2. file' \in [Server -> Nat \ {0}]
      BY DEF MigrationsTypeOK
    <2>3. ASSUME NEW q \in Server PROVE file'[q] <= Files[q] + 1
      <3>1. Files[q] \in Nat /\ file[q] \in Nat /\ file[q] <= Files[q] + 1
        BY DEF MigrationsTypeOK
      <3>2. CASE q = s
        <4>1. file'[q] = 1
          BY <3>1, <3>2 DEF MigrationsTypeOK
        <4>2. QED
          BY <3>1, <4>1
      <3>3. CASE q # s
        BY <3>1, <3>3 DEF MigrationsTypeOK
      <3>4. QED
        BY <3>2, <3>3
    <2>4. applied' \subseteq Version /\ effects' \in [Version -> Nat]
      BY DEF MigrationsTypeOK
    <2>5. starts' \in 0..MaxStarts
      BY DEF MigrationsTypeOK
    <2>6. QED
      BY <2>1, <2>2, <2>3, <2>4, <2>5 DEF MigrationsTypeOK
  <1>2. Place'
    BY DEF Place, MigrationsTypeOK, Running
  <1>3. Holder' /\ ServesMigrated'
    BY DEF Holder, ServesMigrated, MigrationsTypeOK
  <1>4. AppliedOnce' /\ InOrder'
    BY DEF AppliedOnce, InOrder
  <1>5. QED
    BY <1>1, <1>2, <1>3, <1>4

\* Every step of a server keeps the invariant.
LEMMA MigrationsStep == MigrationsInv /\ [MigrationsNext]_migrationsVars => MigrationsInv'
  <1> SUFFICES ASSUME MigrationsInv, [MigrationsNext]_migrationsVars PROVE MigrationsInv'
    OBVIOUS
  <1>0. starts \in 0..MaxStarts
    BY DEF MigrationsInv, MigrationsTypeOK
  <1>1. ASSUME NEW s \in Server, BeginFile(s) PROVE MigrationsInv'
    BY <1>0, <1>1, QuietStep DEF BeginFile, Step, Running
  <1>2. ASSUME NEW s \in Server, Execute(s) PROVE MigrationsInv'
    BY <1>0, <1>2, QuietStep DEF Execute, Step, Running, MigrationsInv, Place
  <1>3. ASSUME NEW s \in Server, Record(s) PROVE MigrationsInv'
    BY <1>0, <1>3, QuietStep DEF Record, Step, Running, MigrationsInv, Place
  <1>4. ASSUME NEW s \in Server, Serve(s) PROVE MigrationsInv'
    BY <1>0, <1>4, QuietStep DEF Serve, Step, Running
  <1>5. ASSUME NEW s \in Server, Conflict(s) PROVE MigrationsInv'
    BY <1>0, <1>5, QuietStep DEF Conflict, Step, Running
  <1>6. ASSUME NEW s \in Server, Down(s) PROVE MigrationsInv'
    BY <1>0, <1>6, QuietStep DEF Down, Running
  <1>7. CASE UNCHANGED migrationsVars
    BY <1>7 DEF migrationsVars, MigrationsInv, MigrationsTypeOK, Place, Holder, AppliedOnce,
       InOrder, ServesMigrated
  <1>8. QED
    BY <1>1, <1>2, <1>3, <1>4, <1>5, <1>6, <1>7, StepSkip, StepCommit, StepStart
    DEF MigrationsNext, Advance

\* The inductive invariant of RunMigrations.
LEMMA MigrationsInvariant == MigrationsSpec => []MigrationsInv
  BY MigrationsStart, MigrationsStep, PTL DEF MigrationsSpec

\* Types of RunMigrations, for any servers and files.
THEOREM MigrationsTypeCorrect == MigrationsSpec => []MigrationsTypeOK
  BY MigrationsInvariant, PTL DEF MigrationsInv

\* However many servers start together, a migration takes effect once.
THEOREM MigrationsApplyOnce == MigrationsSpec => []AppliedOnce
  BY MigrationsInvariant, PTL DEF MigrationsInv

\* No migration is applied before one with a smaller number.
THEOREM MigrationsApplyInOrder == MigrationsSpec => []InOrder
  BY MigrationsInvariant, PTL DEF MigrationsInv

\* A server that serves has every migration it was shipped with.
THEOREM ServersAreMigrated == MigrationsSpec => []ServesMigrated
  BY MigrationsInvariant, PTL DEF MigrationsInv

-------------------------------------------------------------------------------
(*****************************************************************************)
(* Heartbeat, for every value of its durations.  What keeps a live peer is   *)
(* that since the deadline was last moved either no period has gone by, or a *)
(* ping is outstanding that is as late as the time since, but for a period.  *)
(*****************************************************************************)

\* The time since the deadline was moved.
Waited == PongWait - left

\* The tick after the deadline was moved is still to come, or its ping, or an
\* earlier one, is outstanding.
Supplied ==
    alive /\ up =>
        Waited + tick <= PingPeriod \/ \E a \in Outstanding : Waited <= a + PingPeriod

\* A peer that is gone has used up what is no longer left, but for the time in
\* which its last pongs were read: flying only ages after its death.
Counted ==
    up /\ ~alive =>
        /\ silent + left <= PongWait + MaxLate
        /\ \A a \in flying : silent <= a

HeartbeatInv == HeartbeatTypeOK /\ LiveIsKept /\ Supplied /\ Counted

\* A new connection waits for its first tick.
LEMMA HeartbeatStart == HeartbeatInit => HeartbeatInv
  <1> SUFFICES ASSUME HeartbeatInit PROVE HeartbeatInv
    OBVIOUS
  <1> USE HeartbeatAssumption DEF HeartbeatAssumption, HeartbeatInit
  <1>1. HeartbeatTypeOK
    <2>1. up \in BOOLEAN /\ alive \in BOOLEAN /\ pinging \in BOOLEAN
      OBVIOUS
    <2>2. /\ tick \in 0..PingPeriod /\ left \in 0..PongWait /\ lag \in 0..MaxLate
          /\ flying \subseteq 0..MaxLate /\ silent \in Nat
      OBVIOUS
    <2>3. QED
      BY <2>1, <2>2, Zenon DEF HeartbeatTypeOK
  <1>2. LiveIsKept /\ Counted
    BY DEF LiveIsKept, Counted
  <1>3. Waited + tick <= PingPeriod
    BY DEF Waited
  <1>4. QED
    BY <1>1, <1>2, <1>3 DEF HeartbeatInv, Supplied

\* Types and bounds, action by action.
LEMMA HeartbeatTypes == HeartbeatInv /\ [HeartbeatNext]_heartbeatVars => HeartbeatTypeOK'
  <1> SUFFICES ASSUME HeartbeatInv, [HeartbeatNext]_heartbeatVars PROVE HeartbeatTypeOK'
    OBVIOUS
  <1> USE HeartbeatAssumption DEF HeartbeatAssumption, HeartbeatInv, HeartbeatTypeOK
  <1>1. CASE Elapse
    <2>1. pinging => lag < MaxLate
      BY <1>1 DEF Elapse, Outstanding
    <2>2. \A a \in flying : a < MaxLate
      BY <1>1 DEF Elapse, Outstanding
    <2>3. QED
      BY <1>1, <2>1, <2>2 DEF Elapse
  <1>2. CASE TickerFires
    BY <1>2 DEF TickerFires
  <1>3. CASE WritePing
    <2>1. flying' \subseteq flying \cup {lag}
      BY <1>3 DEF WritePing
    <2>2. pinging' = FALSE /\ lag' = 0 /\ UNCHANGED <<up, tick, left, alive, silent>>
      BY <1>3 DEF WritePing
    <2>3. up' \in BOOLEAN /\ alive' \in BOOLEAN /\ pinging' \in BOOLEAN
      BY <2>2
    <2>4. /\ tick' \in 0..PingPeriod /\ left' \in 0..PongWait /\ lag' \in 0..MaxLate
          /\ flying' \subseteq 0..MaxLate
      BY <2>1, <2>2
    <2>5. lag' = 0 /\ silent' \in Nat /\ (alive' => silent' = 0)
      BY <2>2
    <2>6. QED
      BY <2>3, <2>4, <2>5, Zenon
  <1>4. CASE PeerDies
    BY <1>4 DEF PeerDies
  <1>5. CASE DropPeer
    BY <1>5 DEF DropPeer
  <1>6. ASSUME NEW a \in flying, ReadPong(a) PROVE HeartbeatTypeOK'
    BY <1>6 DEF ReadPong
  <1>7. CASE UNCHANGED heartbeatVars
    BY <1>7 DEF heartbeatVars
  <1>8. QED
    BY <1>1, <1>2, <1>3, <1>4, <1>5, <1>6, <1>7 DEF HeartbeatNext

\* Time makes the outstanding pings later; a tick hands over to the ping, the
\* ping to its pong, and the pong moves the deadline.
LEMMA DeadlineSupplied == HeartbeatInv /\ [HeartbeatNext]_heartbeatVars => Supplied'
  <1> SUFFICES ASSUME HeartbeatInv, [HeartbeatNext]_heartbeatVars, alive', up'
               PROVE  (Waited + tick <= PingPeriod \/ \E a \in Outstanding : Waited <= a + PingPeriod)'
    BY DEF Supplied
  <1> USE HeartbeatAssumption DEF HeartbeatAssumption, HeartbeatInv, HeartbeatTypeOK
  <1>1. CASE Elapse
    <2>1. CASE Waited + tick <= PingPeriod
      BY <1>1, <2>1 DEF Elapse, Waited
    <2>2. ASSUME NEW a \in Outstanding, Waited <= a + PingPeriod
          PROVE  a + 1 \in Outstanding' /\ Waited' <= (a + 1) + PingPeriod
      <3>1. a + 1 \in Outstanding' /\ a \in Nat
        BY <1>1, <2>2 DEF Elapse, Outstanding
      <3>2. QED
        BY <1>1, <2>2, <3>1 DEF Elapse, Waited
    <2>3. QED
      BY <1>1, <2>1, <2>2 DEF Elapse, Supplied
  <1>2. CASE TickerFires
    <2>1. UNCHANGED <<up, alive, left, lag, flying>> /\ tick = 0 /\ pinging'
      BY <1>2 DEF TickerFires
    <2>2. CASE Waited + tick <= PingPeriod
      <3>1. lag \in Outstanding' /\ Waited' <= lag + PingPeriod
        BY <2>1, <2>2 DEF Outstanding, Waited
      <3>2. QED
        BY <3>1
    <2>3. ASSUME NEW a \in Outstanding, Waited <= a + PingPeriod
          PROVE  a \in Outstanding' /\ Waited' <= a + PingPeriod
      BY <2>1, <2>3 DEF Outstanding, Waited
    <2>4. QED
      BY <2>1, <2>2, <2>3 DEF Supplied
  <1>3. CASE WritePing
    <2>1. /\ UNCHANGED <<up, tick, left, alive>> /\ pinging /\ flying' = flying \cup {lag}
      BY <1>3 DEF WritePing
    <2>2. Outstanding \subseteq Outstanding' /\ Waited' = Waited
      BY <2>1 DEF Outstanding, Waited
    <2>3. QED
      BY <2>1, <2>2 DEF Supplied
  <1>4. CASE PeerDies
    BY <1>4 DEF PeerDies
  <1>5. CASE DropPeer
    BY <1>5 DEF DropPeer
  <1>6. ASSUME NEW a \in flying, ReadPong(a) PROVE (Waited + tick <= PingPeriod)'
    BY <1>6 DEF ReadPong, Waited
  <1>7. CASE UNCHANGED heartbeatVars
    BY <1>7 DEF heartbeatVars, Supplied, Outstanding, Waited
  <1>8. QED
    BY <1>1, <1>2, <1>3, <1>4, <1>5, <1>6, <1>7 DEF HeartbeatNext

\* When the deadline is due a whole period has gone by and more, so a ping is
\* outstanding, and late.
LEMMA LiveStaysKept == HeartbeatInv /\ [HeartbeatNext]_heartbeatVars => LiveIsKept'
  <1> SUFFICES ASSUME HeartbeatInv, [HeartbeatNext]_heartbeatVars, alive', ~up'
               PROVE  \E late \in Outstanding' : late >= PongWait - PingPeriod
    BY DEF LiveIsKept
  <1> USE HeartbeatAssumption DEF HeartbeatAssumption, HeartbeatInv, HeartbeatTypeOK
  <1>1. CASE DropPeer
    <2>1. alive /\ up /\ left = 0 /\ Outstanding' = Outstanding
      BY <1>1 DEF DropPeer, Outstanding
    <2>2. Waited = PongWait
      BY <2>1 DEF Waited
    <2>3. PICK a \in Outstanding : Waited <= a + PingPeriod
      BY <2>1, <2>2 DEF Supplied
    <2>4. a \in Nat
      BY <2>3 DEF Outstanding
    <2>5. QED
      BY <2>1, <2>2, <2>3, <2>4
  <1>2. CASE UNCHANGED heartbeatVars
    BY <1>2 DEF heartbeatVars, LiveIsKept, Outstanding
  <1>3. QED
    BY <1>1, <1>2 DEF HeartbeatNext, Elapse, TickerFires, WritePing, ReadPong, PeerDies

\* Time moves silent and left against each other; a pong read after the death
\* was sent before it and is at most MaxLate old.
LEMMA SilenceCounted == HeartbeatInv /\ [HeartbeatNext]_heartbeatVars => Counted'
  <1> SUFFICES ASSUME HeartbeatInv, [HeartbeatNext]_heartbeatVars PROVE Counted'
    OBVIOUS
  <1> USE HeartbeatAssumption DEF HeartbeatAssumption, HeartbeatInv, HeartbeatTypeOK, Counted
  <1>1. CASE Elapse
    BY <1>1 DEF Elapse
  <1>2. CASE TickerFires
    BY <1>2 DEF TickerFires
  <1>3. CASE WritePing
    BY <1>3 DEF WritePing
  <1>4. CASE PeerDies
    BY <1>4 DEF PeerDies
  <1>5. CASE DropPeer
    BY <1>5 DEF DropPeer
  <1>6. ASSUME NEW a \in flying, ReadPong(a) PROVE Counted'
    BY <1>6 DEF ReadPong
  <1>7. CASE UNCHANGED heartbeatVars
    BY <1>7 DEF heartbeatVars
  <1>8. QED
    BY <1>1, <1>2, <1>3, <1>4, <1>5, <1>6, <1>7 DEF HeartbeatNext

\* The inductive invariant of a connection.
LEMMA HeartbeatInvariant == HeartbeatSpec => []HeartbeatInv
  <1>1. HeartbeatInv /\ [HeartbeatNext]_heartbeatVars => HeartbeatInv'
    BY HeartbeatTypes, DeadlineSupplied, LiveStaysKept, SilenceCounted DEF HeartbeatInv
  <1>2. QED
    BY HeartbeatStart, <1>1, PTL DEF HeartbeatSpec

\* The durations stay within their bounds: Client.WritePump and ReadPump.
THEOREM HeartbeatTypeCorrect == HeartbeatSpec => []HeartbeatTypeOK
  BY HeartbeatInvariant, PTL DEF HeartbeatInv

\* A peer that answers is dropped only if a pong is read later after its tick
\* than pingPeriod leaves of pongWait, whatever those durations are.
THEOREM LivePeersAreKept == HeartbeatSpec => []LiveIsKept
  BY HeartbeatInvariant, PTL DEF HeartbeatInv

\* A peer that went away without a close is dropped within pongWait and the
\* delay of its last pong, whatever is still written to it.
THEOREM DeadPeersAreDropped == HeartbeatSpec => []DeadIsDropped
  <1>1. HeartbeatInv => DeadIsDropped
    BY HeartbeatAssumption DEF HeartbeatAssumption, HeartbeatInv, HeartbeatTypeOK, Counted, DeadIsDropped
  <1>2. QED
    BY HeartbeatInvariant, <1>1, PTL
===============================================================================
