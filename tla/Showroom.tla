------------------------------- MODULE Showroom -------------------------------
(***************************************************************************)
(* The inventory as its admins keep it: cars created one by one or by the  *)
(* sheet, their VINs, and the gallery of each, whose rows are in the       *)
(* database and whose files are in an object storage.                      *)
(*                                                                         *)
(* The storage takes no part in transactions: a file is saved before the   *)
(* commit of its row and removed after the commit that removed its row.    *)
(***************************************************************************)
EXTENDS Naturals, Sequences, FiniteSets

CONSTANTS
    Workers,   \* request threads at work at once
    Cars,      \* vehicles ever inserted (a bound)
    Vins,
    Sheets,    \* import sheets: of each row its VIN, or "bad"
    Files,     \* image files ever saved (a bound)
    NoVin      \* not a VIN: no such car

VARIABLES
    vin,       \* vehicles.vin
    deleted,   \* vehicles with a deleted_at
    images,    \* vehicle_images
    stored,    \* files in the storage
    txn,       \* the session of each worker
    freed,     \* VINs a car gave up (ghost)
    raced      \* cars whose gallery two handlers had in memory at once (ghost)

cars == <<vin, deleted>>
gallery == <<images, stored>>
vars == <<cars, gallery, txn, freed, raced>>

Image == [of : Cars, file : Files, order : Nat, primary : BOOLEAN]

(* row: the next of the sheet; made: the VINs inserted so far; seen: the   *)
(* gallery as it was loaded; add and remove: images; pick: the one that    *)
(* becomes primary.                                                        *)
NoTxn == [op |-> "idle", sheet |-> <<>>, row |-> 0, made |-> {}, on |-> {},
          seen |-> {}, add |-> {}, remove |-> {}, pick |-> {}]

TypeOK ==
    /\ vin \in [Cars -> Vins \cup {NoVin}]
    /\ deleted \subseteq {c \in Cars : vin[c] # NoVin}
    /\ images \subseteq Image
    /\ stored \subseteq Files
    /\ \A w \in Workers : DOMAIN txn[w] = DOMAIN NoTxn
    /\ freed \subseteq Vins /\ raced \subseteq Cars

Init ==
    /\ vin = [c \in Cars |-> NoVin]
    /\ deleted = {}
    /\ images = {} /\ stored = {}
    /\ txn = [w \in Workers |-> NoTxn]
    /\ freed = {} /\ raced = {}

Idle(w) == txn[w].op = "idle"
Live(c) == vin[c] # NoVin /\ c \notin deleted
Of(c) == {i \in images : i.of = c}

Step(w, x) ==
    /\ txn' = [txn EXCEPT ![w] = x]
    /\ UNCHANGED <<cars, images, freed, raced>>

(* A commit: the galleries the session had, and others have, have been     *)
(* raced for.                                                              *)
End(w, x) ==
    /\ txn' = [txn EXCEPT ![w] = x]
    /\ raced' = raced \cup (txn[w].on \cap UNION {txn[u].on : u \in Workers \ {w}})

--------------------------------------------------------------------------------
(* Cars *)

(* _assert_vin_unique; a deleted car keeps its VIN. *)
Taken(v, except) == \E c \in Cars \ except : vin[c] = v

(* The unique key: an INSERT or an UPDATE waits for an uncommitted one of  *)
(* the same VIN, then it is refused or goes through.                       *)
Pending(w, v) == \E u \in Workers \ {w} : v \in txn[u].made

(* bulk_import_vehicles; create_vehicle is a sheet of one row. *)
ImportStart(w, sheet) ==
    /\ Idle(w)
    /\ Step(w, [NoTxn EXCEPT !.op = "check", !.sheet = sheet, !.row = 1])
    /\ UNCHANGED stored

Row(w) == txn[w].sheet[txn[w].row]

(* A row that is not valid, or whose VIN is taken, is reported.            *)
RowCheck(w) ==
    LET x == txn[w]
        refused == Row(w) = "bad" \/ Taken(Row(w), {}) \/ Row(w) \in x.made
    IN /\ x.op = "check" /\ x.row <= Len(x.sheet)
       /\ Step(w, IF refused THEN [x EXCEPT !.row = @ + 1] ELSE [x EXCEPT !.op = "insert"])
       /\ UNCHANGED stored

(* Mutant: no savepoint; what is refused takes the rows before it along.   *)
RowInsertPlain(w) ==
    LET x == txn[w]
    IN /\ x.op = "insert" /\ ~Pending(w, Row(w))
       /\ Step(w, [x EXCEPT !.op = "check", !.row = @ + 1,
                            !.made = IF Taken(Row(w), {}) THEN {} ELSE @ \cup {Row(w)}])
       /\ UNCHANGED stored

(* Each row in a savepoint: a VIN that was taken since the check undoes    *)
(* that row alone.                                                         *)
RowInsert(w) ==
    LET x == txn[w]
    IN /\ x.op = "insert" /\ ~Pending(w, Row(w))
       /\ Step(w, [x EXCEPT !.op = "check", !.row = @ + 1,
                            !.made = IF Taken(Row(w), {}) THEN @ ELSE @ \cup {Row(w)}])
       /\ UNCHANGED stored

Absent == {c \in Cars : vin[c] = NoVin}

ImportCommit(w) ==
    LET x == txn[w]
    IN /\ x.op = "check" /\ x.row > Len(x.sheet)
       /\ Cardinality(x.made) <= Cardinality(Absent)
       /\ \E id \in [x.made -> Absent] :
             /\ \A v, u \in x.made : id[v] = id[u] => v = u
             /\ vin' = [c \in Cars |-> IF \E v \in x.made : id[v] = c
                                       THEN CHOOSE v \in x.made : id[v] = c ELSE vin[c]]
       /\ End(w, NoTxn)
       /\ UNCHANGED <<deleted, gallery, freed>>

(* update_vehicle, another VIN. *)
Rename(w, c, v) ==
    /\ Idle(w) /\ Live(c) /\ vin[c] # v
    /\ ~Taken(v, {c}) /\ ~Pending(w, v)
    /\ vin' = [vin EXCEPT ![c] = v]
    /\ freed' = freed \cup {vin[c]}
    /\ UNCHANGED <<deleted, gallery, txn, raced>>

(* soft_delete_vehicle: the row stays, and its gallery. *)
Delete(w, c) ==
    /\ Idle(w) /\ Live(c)
    /\ deleted' = deleted \cup {c}
    /\ UNCHANGED <<vin, gallery, txn, freed, raced>>

--------------------------------------------------------------------------------
(* The gallery *)

(* A file is saved under a new name (a UUID): one that nobody knows.       *)
Remembered(x) == x.seen \cup x.add \cup x.remove \cup x.pick
Unsaved ==
    Files \ (stored \cup {i.file : i \in images \cup UNION {Remembered(txn[w]) : w \in Workers}})

NewImages(c, files, first) ==
    LET order(f) == IF f = first THEN 0 ELSE 1
        next == IF Of(c) = {} THEN 0
                ELSE 1 + (CHOOSE n \in {i.order : i \in Of(c)} : \A i \in Of(c) : i.order <= n)
    IN {[of |-> c, file |-> f, order |-> next + order(f), primary |-> f = first] : f \in files}

(* The images of an upload come after those there are; the first is the    *)
(* primary one if there is none.                                           *)
Prepared(c, files, first) ==
    {[i EXCEPT !.primary = @ /\ ~\E j \in Of(c) : j.primary] : i \in NewImages(c, files, first)}

(* add_vehicle_images, up to its commit: every file is in the storage.     *)
AddRead(w, c, files) ==
    /\ Idle(w) /\ Live(c)
    /\ \E first \in files :
          Step(w, [NoTxn EXCEPT !.op = "add", !.on = {c}, !.add = Prepared(c, files, first)])
    /\ stored' = stored \cup files

AddCommit(w) ==
    /\ txn[w].op = "add"
    /\ images' = images \cup txn[w].add
    /\ End(w, NoTxn)
    /\ UNCHANGED <<cars, stored, freed>>

(* delete_vehicle_image: the image is loaded, with its is_primary. *)
DeleteRead(w, i) ==
    /\ Idle(w) /\ Live(i.of)
    /\ Step(w, [NoTxn EXCEPT !.op = "delete", !.on = {i.of}, !.seen = Of(i.of),
                            !.remove = {i}])
    /\ UNCHANGED stored

Same(i, j) == i.file = j.file
Gone(w) == {i \in images : \E j \in txn[w].remove : Same(i, j)}
LockedRow(w, i) == \E u \in Workers \ {w} : txn[u].op = "promote" /\ i \in Gone(u)

(* Mutant: nothing is promoted. *)
HeirsNone(w) == {{}}

(* If the image was primary when it was loaded, the next one by sort_order *)
(* is to be, unless it was, too.                                           *)
Heirs(w) ==
    LET x == txn[w]
        left == (UNION {Of(c) : c \in x.on}) \ Gone(w)
        next == {i \in left : \A j \in left : i.order <= j.order}
        Written(i) == {i} \ {k \in left : \E j \in x.seen : Same(k, j) /\ j.primary}
    IN IF next # {} /\ \E i \in x.remove : i.primary
       THEN {Written(i) : i \in next} ELSE {{}}

(* The row is deleted first. *)
DeleteFlush(w) ==
    /\ txn[w].op = "delete" /\ \A i \in Gone(w) : ~LockedRow(w, i)
    /\ \E pick \in Heirs(w) : Step(w, [txn[w] EXCEPT !.op = "promote", !.pick = pick])
    /\ UNCHANGED stored

(* An heir that was deleted meanwhile makes the whole deletion fail.       *)
DeleteCommit(w) ==
    LET x == txn[w]
        Heir(i) == \E j \in x.pick : Same(i, j)
    IN /\ x.op = "promote"
       /\ \A j \in x.pick : \E i \in images : Same(i, j) /\ ~LockedRow(w, i)
       /\ images' = {[i EXCEPT !.primary = @ \/ Heir(i)] : i \in images \ Gone(w)}
       /\ End(w, [NoTxn EXCEPT !.op = "unlink", !.remove = x.remove])
       /\ UNCHANGED <<cars, stored, freed>>

(* storage.delete, best effort. *)
Unlink(w) ==
    /\ txn[w].op = "unlink"
    /\ stored' = stored \ {i.file : i \in txn[w].remove}
    /\ Step(w, NoTxn)

(* The handler raises, a deadlock of two imports ends one of them, the     *)
(* process stops: what is in the storage stays there.                      *)
Abort(w) ==
    /\ ~Idle(w)
    /\ Step(w, NoTxn)
    /\ UNCHANGED stored

Inventory(w) ==
    \/ \E sheet \in Sheets : ImportStart(w, sheet)
    \/ RowCheck(w) \/ RowInsert(w) \/ ImportCommit(w)
    \/ \E c \in Cars : Delete(w, c)
    \/ \E c \in Cars, v \in Vins : Rename(w, c, v)

Gallery(w) ==
    \/ \E c \in Cars, files \in SUBSET Unsaved :
          Cardinality(files) \in {1, 2} /\ AddRead(w, c, files)
    \/ \E i \in images : DeleteRead(w, i)
    \/ AddCommit(w) \/ DeleteFlush(w) \/ DeleteCommit(w) \/ Unlink(w)

Next == \E w \in Workers : Inventory(w) \/ Gallery(w) \/ Abort(w)

Spec == Init /\ [][Next]_vars

--------------------------------------------------------------------------------
(* Properties *)

(* Every image the app is given has its file, whatever raced or failed     *)
(* between the database and the storage; and a gallery has one primary     *)
(* image and one order ("First image ever uploaded", "If the primary was   *)
(* removed, promote the next"), unless two handlers had it at once.        *)
GallerySound ==
    /\ \A i \in images : i.file \in stored
    /\ \A c \in Cars \ raced :
          /\ Of(c) # {} => Cardinality({i \in Of(c) : i.primary}) = 1
          /\ \A i, j \in Of(c) : i.order = j.order => i = j

(* bulk_import_vehicles: "one bad row never aborts the batch": after an    *)
(* import there is a car of every valid VIN of its sheet, among imports    *)
(* and creations at once, unless a car gave its VIN up meanwhile.          *)
ImportLeavesNoneOut ==
    [][\A w \in Workers : ImportCommit(w) =>
          \A r \in DOMAIN txn[w].sheet :
              LET v == txn[w].sheet[r]
              IN v # "bad" => v \in freed \/ \E c \in Cars : vin'[c] = v]_vars

=============================================================================
