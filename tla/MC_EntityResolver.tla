--------------------------- MODULE MC_EntityResolver ---------------------------
(***************************************************************************)
(* What an operation is answered of entities, for TLC: the inherited       *)
(* fields, the fields of the entity's own row, and the text of its         *)
(* timestamps.  They share no state, so that one moves while the others    *)
(* rest.                                                                   *)
(***************************************************************************)
EXTENDS EntityResolver, EntityReads, DatetimeTrim, TLC

VARIABLE part     \* the one that moves

allVars == <<part, vars, readVars, trimVars>>

ResolverAtRest ==
  /\ iid = [n \in Nodes |-> None] /\ ids = Nodes /\ attrs = {}
  /\ Init

ReadsAtRest == table = [id \in Iids |-> Unread] /\ ReadsInit

TrimAtRest ==
  /\ time = [whole |-> <<"T", "0", "0">>, fraction |-> [i \in 1 .. Places |-> "0"],
             zone |-> << >>]
  /\ TrimInit

MCInit ==
  /\ part \in {"inherited", "own", "time"}
  /\ IF part = "inherited" THEN Init ELSE ResolverAtRest
  /\ IF part = "own" THEN ReadsInit ELSE ReadsAtRest
  /\ IF part = "time" THEN TrimInit ELSE TrimAtRest

(* Bound: the indexer commits between the two queries.  A commit before    *)
(* the first leads to what is another initial table, and after the second  *)
(* nothing is read.                                                        *)
CommitsBetweenQueries == phase = "walked" \/ UNCHANGED iid

MCNext ==
  /\ UNCHANGED part
  /\ \/ part = "inherited" /\ Next /\ CommitsBetweenQueries /\ UNCHANGED <<readVars, trimVars>>
     \/ part = "own" /\ ReadsNext /\ UNCHANGED <<vars, trimVars>>
     \/ part = "time" /\ TrimNext /\ UNCHANGED <<vars, readVars>>

MCSpec == MCInit /\ [][MCNext]_allVars

-----------------------------------------------------------------------------
Entry(id, description, endpoint) ==
  [id |-> id, description |-> description, endpoint |-> endpoint]

(* An empty row, and two whose documents share entry ids: "r" is a plain   *)
(* resource in one and a Settings resource in the other, and one document  *)
(* has two Settings resources of one description.                          *)
Documents ==
  { [service |-> << >>, linked |-> << >>],
    [service |-> <<Entry("ipfs", None, "x"), Entry("s", None, "x")>>,
     linked  |-> <<Entry("r", None, "x"), Entry("p", "page", "x")>>],
    [service |-> <<Entry("s", None, "y")>>,
     linked  |-> <<Entry("r", "page", "y"), Entry("q", "page", "y")>>] }

RowsOver(classes, documents) ==
  {[class |-> c, service |-> d.service, linked |-> d.linked] :
     c \in classes, d \in documents}

AllRows == RowsOver(Nodes \cup {None}, Documents)

SomeReads == {{}, {"settings"}, {"service"}}

Symmetry == Permutations(Nodes)

(* Columns declared in another order than sort() gives; attributes that    *)
(* are no column, and none                                                 *)
ThreeColumns == <<"context", "controller", "alsoKnownAs">>

ThreeSorted == <<"alsoKnownAs", "context", "controller">>

SomeOperations ==
  {{}, {"settings", "controller"}, {"alsoKnownAs"}, {"controller", "alsoKnownAs"}}

SomeWholes == {<<"T", "0", "0">>, <<"T", "1", "0">>}

SomeZones == {<< >>, <<"Z">>, <<"+", "0", "0">>, <<"-", "1", "0", ":", "0", "0">>}

=============================================================================
