------------------------------- MODULE EntityReads -------------------------------
(***************************************************************************)
(* loadIidPassthrough of loaders/entity.ts: the fields of an entity that   *)
(* are columns of its own IID row.  A call selects the columns that its    *)
(* operation reads, with a statement that is kept, for the calls to come,  *)
(* under the list of its columns.                                          *)
(*                                                                         *)
(* One call at a time is modelled: what calls share is the kept            *)
(* statements, which are looked up and added in one synchronous step.      *)
(***************************************************************************)
EXTENDS Listing, Sequences, SequencesExt

CONSTANTS
  Iids,           \* ids of IID rows
  Declared,       \* PASSTHROUGH_COLUMNS, a sequence
  Sorted,         \* the same columns in the order of sort()
  Contents,       \* what a column may hold
  Unread,         \* a column that was not selected, a row that does not exist
  Operations,     \* the sets of attributes that operations read
  MaxReads,       \* bound: calls
  MaxUpdates      \* bound: commits of the indexer

Columns == ToSet(Declared)

ASSUME ReadsAssumption ==
  /\ Declared \in Seq(Columns) \ {<< >>}
  /\ Sorted \in Seq(Columns) /\ ToSet(Sorted) = Columns /\ Len(Sorted) = Len(Declared)
  /\ Unread \notin Contents
  /\ MaxReads \in Nat /\ MaxUpdates \in Nat

VARIABLES
  table,       \* the IID table: a row or Unread for each id
  updates,
  statements,  \* iidSqlForColumns: the columns each kept statement selects
  reads,       \* calls so far
  attributes,  \* of the last call: what its operation reads
  wanted,      \* ... the ids it is for
  sql,         \* ... the columns its statement selects, << >> once it is answered
  rowsRead,    \* ... and its answer
  snapshot     \* auxiliary: the table its query saw

readVars == <<table, updates, statements, reads, attributes, wanted, sql, rowsRead, snapshot>>

TableRows == [Columns -> Contents]

NoRows == [id \in {} |-> Unread]

ReadsInit ==
  /\ table \in [Iids -> TableRows \cup {Unread}]
  /\ updates = 0
  /\ statements = [columns \in {} |-> {}]
  /\ reads = 0
  /\ attributes = {} /\ wanted = {}
  /\ sql = << >>
  /\ rowsRead = NoRows
  /\ snapshot = table

(* The columns an operation reads, sorted; all of them if it names none *)
ColumnsFor(read) ==
  LET requested == Selection(Sorted, {i \in DOMAIN Sorted : Sorted[i] \in read})
  IN  IF requested = << >> THEN Declared ELSE requested

(* Mutant of KeyOf: statements of as many columns share an entry. *)
KeyOfNumber(columns) == Len(columns)

KeyOf(columns) == columns

(* getIidsByIdsSql, which keeps the statement, and the query is sent *)
ReadColumns(read, ids) ==
  /\ sql = << >> /\ reads < MaxReads
  /\ reads' = reads + 1
  /\ LET key == KeyOf(ColumnsFor(read))
     IN  /\ statements' = IF key \in DOMAIN statements THEN statements
                          ELSE [k \in DOMAIN statements \cup {key} |->
                                  IF k = key THEN ColumnsFor(read) ELSE statements[k]]
         /\ sql' = statements'[key]
  /\ attributes' = read /\ wanted' = ids
  /\ UNCHANGED <<table, updates, rowsRead, snapshot>>

(* The rows are there; they are given to the ids by their id. *)
RowsArrive ==
  /\ sql # << >>
  /\ sql' = << >>
  /\ rowsRead' = [id \in wanted |->
                    IF table[id] = Unread THEN Unread
                    ELSE [c \in Columns |-> IF c \in ToSet(sql) THEN table[id][c] ELSE Unread]]
  /\ snapshot' = table
  /\ UNCHANGED <<table, updates, statements, reads, attributes, wanted>>

(* The indexer creates or updates an IID. *)
UpdateIid(id, row) ==
  /\ updates < MaxUpdates /\ table[id] # row
  /\ updates' = updates + 1
  /\ table' = [table EXCEPT ![id] = row]
  /\ UNCHANGED <<statements, reads, attributes, wanted, sql, rowsRead, snapshot>>

ReadsDone == reads = MaxReads /\ sql = << >> /\ UNCHANGED readVars

ReadsNext ==
  \/ \E read \in Operations, ids \in SUBSET Iids \ {{}} : ReadColumns(read, ids)
  \/ RowsArrive
  \/ \E id \in Iids, row \in TableRows : UpdateIid(id, row)
  \/ ReadsDone

ReadsSpec == ReadsInit /\ [][ReadsNext]_readVars

-----------------------------------------------------------------------------
(***************************************************************************)
(* entity.ts:62-67: whichever operations came before it and left their     *)
(* statements, an operation gets every field it reads, as it was in the    *)
(* snapshot of its query, and null for an entity without a row.            *)
(***************************************************************************)
GetsWhatItReads ==
  sql = << >> =>
    \A id \in wanted :
      IF snapshot[id] = Unread THEN rowsRead[id] = Unread
      ELSE \A c \in attributes \cap Columns : rowsRead[id][c] = snapshot[id][c]

=============================================================================
