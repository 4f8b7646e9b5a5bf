------------------------------ MODULE EntityResolver ------------------------------
(***************************************************************************)
(* loadResolvedEntities of loaders/entity.ts: the service, linkedResource  *)
(* and settings of a batch of entities, each merged with what it inherits  *)
(* along its chain of classes.  One query walks the chains, a second one   *)
(* fetches the documents of the nodes they go through; the indexer may     *)
(* commit in between.                                                      *)
(*                                                                         *)
(* A document is a sequence of entries.  An entry has an id, which         *)
(* inheritance goes by, a description if it is a Settings resource, and    *)
(* the node it was written for, which tells apart entries with one id.     *)
(***************************************************************************)
EXTENDS Listing, Sequences, SequencesExt

CONSTANTS
  Nodes,     \* ids of IIDs: entities and the classes they inherit from
  Rows,      \* the contents of IID rows: a class, which is a node or None,
             \* and the documents service and linked
  None,      \* no class, no row, no description
  Reads,     \* the sets of fields operations read
  MaxDepth,  \* how many classes up a chain is followed (20 in the query)
  IpfsIds,   \* ids of services that mention ipfs
  Mapping,   \* IPFS_SERVICE_MAPPING, or None
  MaxCommits \* bound: commits of the indexer

Fields == {"service", "linkedResource", "settings"}

ASSUME ResolverAssumption ==
  /\ None \notin Nodes
  /\ \A row \in Rows : /\ row.class \in Nodes \cup {None}
                       /\ row.service \in Seq(ToSet(row.service))
                       /\ row.linked \in Seq(ToSet(row.linked))
  /\ Reads \subseteq SUBSET Fields
  /\ MaxDepth \in Nat /\ MaxCommits \in Nat

VARIABLES
  iid,       \* the IID table: a row or None for each node
  commits,   \* the commits so far
  phase,     \* of the one call of the loader
  ids,       \* the batch of ids it resolves
  attrs,     \* the fields the operation reads
  chains,    \* phase 1: the chain of each id that has a row
  answer,    \* what it returns for each id of the batch
  walked,    \* auxiliary: the IID table the chains were read from ...
  fetched    \* ... and the one the documents were read from

vars == <<iid, commits, phase, ids, attrs, chains, answer, walked, fetched>>

-----------------------------------------------------------------------------
Present(t) == {n \in Nodes : t[n] # None}

Parent(t, n) == IF t[n].class \in Present(t) THEN t[n].class ELSE None

(* The recursive query: the node, its class, the class of its class, ... *)
Chain(t, id) ==
  LET node[d \in 0 .. MaxDepth] ==
        IF d = 0 THEN id
        ELSE IF node[d - 1] = None THEN None ELSE Parent(t, node[d - 1])
  IN  [i \in 1 .. Cardinality({d \in 0 .. MaxDepth : node[d] # None}) |-> node[i - 1]]

ChainsOf(t, batch) == [id \in batch \cap Present(t) |-> Chain(t, id)]

(* The documents of each node *)
Services(t) == [n \in Nodes |-> IF t[n] = None THEN << >> ELSE t[n].service]
Linked(t)   == [n \in Nodes |-> IF t[n] = None THEN << >> ELSE t[n].linked]
NoDocuments == [n \in Nodes |-> << >>]

(* An entry is taken over unless one with its id has been. *)
TakeOver(entries, e) ==
  IF \E i \in DOMAIN entries : entries[i].id = e.id THEN entries ELSE Append(entries, e)

(* The loop over the entries of the node, of its class, and so on *)
Merged(chain, documents) ==
  FoldLeft(TakeOver, << >>, FlattenSeq([i \in DOMAIN chain |-> documents[chain[i]]]))

(* The first Settings resource of a description counts. *)
SettingsOf(linked) ==
  [d \in {e.description : e \in ToSet(linked)} \ {None} |->
     linked[CHOOSE i \in DOMAIN linked :
              /\ linked[i].description = d
              /\ \A j \in 1 .. i - 1 : linked[j].description # d]]

PlainOf(linked) ==
  Selection(linked, {i \in DOMAIN linked : linked[i].description = None})

(* IPFS services are served from the mapped endpoint. *)
Mapped(e) ==
  IF Mapping # None /\ e.id \in IpfsIds THEN [e EXCEPT !.endpoint = Mapping] ELSE e

Wants(field) == attrs = {} \/ field \in attrs

WantService == Wants("service")

(* Mutant of WantLinked: forgets that settings derive from linkedResource. *)
WantLinkedOnly == Wants("linkedResource")

WantLinked  == Wants("linkedResource") \/ Wants("settings")

NoEntity == [service |-> << >>, linkedResource |-> << >>, settings |-> << >>]

(* The loop over the batch: chain ch of one id, documents from table t *)
Assembled(ch, t) ==
  LET service == Merged(ch, IF WantService THEN Services(t) ELSE NoDocuments)
      linked  == Merged(ch, IF WantLinked THEN Linked(t) ELSE NoDocuments)
  IN  [service        |-> [i \in DOMAIN service |-> Mapped(service[i])],
       linkedResource |-> PlainOf(linked),
       settings       |-> SettingsOf(linked)]

-----------------------------------------------------------------------------
NoAnswer == [id \in {} |-> NoEntity]

Init ==
  /\ iid \in [Nodes -> Rows \cup {None}]
  /\ commits = 0
  /\ phase = "start"
  /\ ids \in SUBSET Nodes \ {{}}
  /\ attrs \in Reads
  /\ chains = [id \in {} |-> << >>]
  /\ answer = NoAnswer
  /\ walked = iid /\ fetched = iid

(* The indexer creates or updates IIDs; it never removes one. *)
Commit(n, row) ==
  /\ commits < MaxCommits
  /\ row # iid[n]
  /\ iid' = [iid EXCEPT ![n] = row]
  /\ commits' = commits + 1
  /\ UNCHANGED <<phase, ids, attrs, chains, answer, walked, fetched>>

WalkChains ==
  /\ phase = "start"
  /\ phase' = "walked"
  /\ chains' = ChainsOf(iid, ids)
  /\ walked' = iid
  /\ UNCHANGED <<iid, commits, ids, attrs, answer, fetched>>

FetchDocuments ==
  /\ phase = "walked"
  /\ phase' = "answered"
  /\ answer' = [id \in ids |-> IF id \in DOMAIN chains THEN Assembled(chains[id], iid)
                                                       ELSE NoEntity]
  /\ fetched' = iid
  /\ UNCHANGED <<iid, commits, ids, attrs, chains, walked>>

Answered == phase = "answered" /\ UNCHANGED vars

Next ==
  \/ \E n \in Nodes, row \in Rows : Commit(n, row)
  \/ WalkChains
  \/ FetchDocuments
  \/ Answered

Spec == Init /\ [][Next]_vars

-----------------------------------------------------------------------------
(***************************************************************************)
(* What inheritance means, without chains, batches or loops: an entity     *)
(* sees, of every entry id, the entry of the nearest of its ancestors that *)
(* has one, itself first, and of several in one document the first.        *)
(***************************************************************************)
Ancestor(t, id, d) ==
  LET up[k \in 0 .. d] == IF k = 0 THEN id
                          ELSE IF up[k - 1] = None THEN None ELSE Parent(t, up[k - 1])
  IN  up[d]

EntriesAt(tc, id, d, documents) ==
  IF Ancestor(tc, id, d) = None THEN {}
  ELSE LET doc == documents[Ancestor(tc, id, d)]
       IN  {[depth |-> d, at |-> i, entry |-> doc[i]] : i \in DOMAIN doc}

Nearer(a, b) == a.depth < b.depth \/ (a.depth = b.depth /\ a.at < b.at)

Visible(tc, id, documents) ==
  LET all == UNION {EntriesAt(tc, id, d, documents) : d \in 0 .. MaxDepth}
  IN  {a \in all : ~ \E b \in all : b.entry.id = a.entry.id /\ Nearer(b, a)}

IsVisibleIn(entries, seen) ==
  /\ Len(entries) = Cardinality(seen)
  /\ \A i \in DOMAIN entries :
       \E a \in seen : /\ a.entry = entries[i]
                       /\ Cardinality({b \in seen : Nearer(b, a)}) = i - 1

(* a is what entity id inherits by the classes of tc from the documents of td. *)
IsInherited(a, tc, td, id) ==
  LET visible(documents) == IF id \in Present(tc) THEN Visible(tc, id, documents) ELSE {}
      services == visible(Services(td))
      linked   == visible(Linked(td))
      plain    == {v \in linked : v.entry.description = None}
      settings == linked \ plain
  IN  /\ WantService =>
           IsVisibleIn(a.service, {[v EXCEPT !.entry = Mapped(v.entry)] : v \in services})
      /\ Wants("linkedResource") => IsVisibleIn(a.linkedResource, plain)
      /\ Wants("settings") =>
           /\ DOMAIN a.settings = {v.entry.description : v \in settings}
           /\ \A d \in DOMAIN a.settings :
                \E v \in settings :
                  /\ v.entry = a.settings[d]
                  /\ ~ \E w \in settings : w.entry.description = d /\ Nearer(w, v)

(***************************************************************************)
(* entity.ts:116-121 and :137-140: resolving a batch in two queries, with  *)
(* documents fetched once per node and only those the operation reads,     *)
(* gives every entity what it inherits, through missing classes, cycles    *)
(* and the depth cap.  Whatever is committed between the queries, classes  *)
(* are those of the first snapshot and documents those of the second.      *)
(***************************************************************************)
InheritsFromTwoSnapshots ==
  phase = "answered" => \A id \in ids : IsInherited(answer[id], walked, fetched, id)

=============================================================================
