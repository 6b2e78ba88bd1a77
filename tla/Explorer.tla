------------------------------- MODULE Explorer -------------------------------
(***************************************************************************)
(* The explorer pages of the node dashboard                                *)
(* (plugins/dashboard/frontend/src/app/stores/ExplorerStore.tsx and the    *)
(* Explorer* components).  A page asks the API for its entity when it is   *)
(* mounted and clears the store when it is left; every answer is written   *)
(* into the one store whenever it arrives, whatever page is shown then.    *)
(* The search bar asks which page a text belongs to and routes there.      *)
(* A block page shows the payload of a transaction with a component of its *)
(* own, which asks for the metadata when it is mounted, and not again when *)
(* another transaction takes the place of the first, and clears the store  *)
(* as well when it is unmounted: by an error, or by a block of another     *)
(* kind, which is lost with it.  The transaction of a block goes by the id *)
(* of the block here.                                                      *)
(*                                                                         *)
(* An answer is "ok", "notFound" (404), "badRequest" (400: a JSON object   *)
(* with an error) or "failed" (no answer, or one that is not JSON; the     *)
(* server turns its own 404s into a redirect to the HTML of the page).     *)
(***************************************************************************)
EXTENDS Naturals, Bags, FiniteSets

CONSTANTS Id,            \* what can be searched for and shown
          NoId,          \* the empty text, null
          Garbage,       \* an error object taken for an entity
          Malformed,     \* the ids the API answers with a 400
          TransactionBlocks,  \* the blocks with a (valid) transaction
          Kinds,         \* the kinds of pages that are visited
          MaxRequests,   \* bound: requests in flight
          MaxVisits      \* bound: pages visited and texts typed

ASSUME ExplorerConstants ==
  /\ NoId \notin Id /\ Garbage \notin Id \union {NoId}
  /\ Malformed \subseteq Id /\ TransactionBlocks \subseteq Id
  /\ Kinds \subseteq {"block", "address", "transaction", "output", "conflict"}
  /\ MaxRequests \in Nat /\ MaxVisits \in Nat

VARIABLES
  page,           \* the route: the kind of the page and its id
  entity,         \* the fields of the store, NoId: null
  nested,         \* the transaction with which the component in the block
                  \* page was mounted, NoId: it is not there
  query_loading, query_err,
  search, searching,
  requests,       \* the bag of requests in flight
  visits, patient, \* history: how often the user did something; whether she
                  \* left a page only when nothing was in flight
  blanked         \* history: the block page was cleared under her eyes

explorerVars == <<page, entity, nested, query_loading, query_err, search, searching,
                  requests, visits, patient, blanked>>

(* The queries of a page, by the field of the store they fill.             *)
Queries(kind) ==
  CASE kind = "block"       -> {"blk"}
    [] kind = "address"     -> {"addr"}
    [] kind = "transaction" -> {"tx", "txMetadata", "txAttachments"}
    [] kind = "output"      -> {"output", "outputMetadata", "outputConsumers",
                                "pendingMana"}
    [] kind = "conflict"    -> {"conflict", "conflictChildren",
                                "conflictConflicts", "conflictVoters"}
    [] kind = "tips"        -> {"tips"}
    [] OTHER                -> {}

Fields ==
  {"payload"} \union UNION {Queries(kind) : kind \in {"block", "address", "transaction",
                                                     "output", "conflict", "tips"}}

NotReset == {"addr", "payload", "conflictVoters"}

(* reset(), called when a page but those of addresses is left, and by the  *)
(* component in the block page.                                            *)
Cleared(e) == [f \in Fields |-> IF f \in NotReset THEN e[f] ELSE NoId]

Resetting == {"block", "transaction", "output", "conflict", "tips"}
Searchable == {"block", "address"}

Request(field, id) == [field |-> field, id |-> id]
Others(r) == requests (-) SetToBag({r})

ExplorerInit ==
  /\ page = [kind |-> "explorer", id |-> NoId]
  /\ entity = [f \in Fields |-> NoId] /\ nested = NoId
  /\ query_loading = FALSE /\ query_err = FALSE
  /\ search = NoId /\ searching = FALSE
  /\ requests = EmptyBag
  /\ visits = 0 /\ patient = TRUE /\ blanked = FALSE

(* What follows in the page from an entity e and an error: the component   *)
(* in the block page is mounted, or unmounted, or it stays, if the page    *)
(* does.                                                                   *)
Mounts(p, e, err) == p.kind = "block" /\ ~err /\ e["blk"] \in TransactionBlocks

Render(p, e, err, inFlight) ==
  LET there == nested # NoId /\ p.kind = page.kind
      mounts == Mounts(p, e, err)
      unmounted == there /\ ~mounts
  IN  /\ nested' = IF ~mounts THEN NoId ELSE IF there THEN nested ELSE e["payload"]
      /\ requests' = IF mounts /\ ~there
                     THEN inFlight (+) SetToBag({Request("txMetadata", e["payload"])})
                     ELSE inFlight
      /\ entity' = IF unmounted THEN Cleared(e) ELSE e
      /\ query_err' = (err /\ ~unmounted)
      /\ blanked' = (unmounted \/ (blanked /\ p = page))

Asked(p) == SetToBag({Request(f, p.id) : f \in Queries(p.kind)})

(* Mutant of Show: another id does not make a page ask.                    *)
Show_OnlyOnMount(p, inFlight) ==
  LET asks == p.kind # page.kind
      resets == asks /\ page.kind \in Resetting
  IN  /\ page' = p
      /\ Render(p, IF resets THEN Cleared(entity) ELSE entity, query_err /\ ~resets,
                IF asks THEN inFlight (+) Asked(p) ELSE inFlight)
      /\ BagCardinality(requests') <= MaxRequests
      /\ query_loading' = (query_loading \/ (asks /\ p.kind \in Searchable))
      /\ patient' = (patient /\ (asks => inFlight = EmptyBag))

(* The router shows p.  The components of the old page are unmounted and   *)
(* those of the new one mounted, unless only the id changes: then the      *)
(* pages of blocks and addresses ask again.                                *)
Show(p, inFlight) ==
  LET asks == p # page
      resets == p.kind # page.kind /\ page.kind \in Resetting
  IN  /\ page' = p
      /\ Render(p, IF resets THEN Cleared(entity) ELSE entity, query_err /\ ~resets,
                IF asks THEN inFlight (+) Asked(p) ELSE inFlight)
      /\ BagCardinality(requests') <= MaxRequests
      /\ query_loading' = (query_loading \/ (asks /\ p.kind \in Searchable))
      /\ patient' = (patient /\ (asks => inFlight = EmptyBag))

(* The user follows a link, the menu, the history or one of the search     *)
(* bars for transactions, outputs and conflicts.                           *)
Visit(p) ==
  /\ visits < MaxVisits /\ visits' = visits + 1
  /\ p # page
  /\ p.kind = page.kind => p.kind \in Searchable
  /\ Show(p, requests)
  /\ searching' = (searching /\ ~(p.kind \in Searchable /\ p.kind # page.kind))
  /\ UNCHANGED search

(* updateSearch: the inputs are disabled during a search.                  *)
UpdateSearch(text) ==
  /\ visits < MaxVisits /\ visits' = visits + 1
  /\ ~searching
  /\ search' = text
  /\ UNCHANGED <<page, entity, nested, query_loading, query_err, searching, requests,
                 patient, blanked>>

SearchAny ==
  /\ ~searching
  /\ searching' = TRUE
  /\ requests' = requests (+) SetToBag({Request("search", search)})
  /\ BagCardinality(requests') <= MaxRequests
  /\ UNCHANGED <<page, entity, nested, query_loading, query_err, search, visits, patient,
                 blanked>>

(* updateQueryError                                                        *)
QueryError_KeepsLoading(inFlight) ==
  /\ Render(page, entity, TRUE, inFlight)
  /\ searching' = FALSE
  /\ UNCHANGED <<page, query_loading, search, visits, patient>>

QueryError(inFlight) ==
  /\ Render(page, entity, TRUE, inFlight)
  /\ query_loading' = FALSE
  /\ searching' = FALSE
  /\ UNCHANGED <<page, search, visits, patient>>

(* One of the update functions that only write their field.                *)
Update(f, value) ==
  /\ entity' = [entity EXCEPT ![f] = value]
  /\ UNCHANGED <<page, nested, query_loading, query_err, search, searching, visits, patient,
                 blanked>>

Outcomes(id) ==
  {"notFound", "failed"} \union {IF id \in Malformed THEN "badRequest" ELSE "ok"}
Body(r) == IF r.id \in Malformed THEN Garbage ELSE r.id

(* updateSearchResult routes to the text that is in the input by now.  The *)
(* answer to the empty text is not JSON.                                   *)
SearchAnswered(r, result) ==
  /\ r.field = "search"
  /\ IF result = "failed" \/ r.id = NoId
     THEN QueryError(Others(r))
     ELSE /\ search' = NoId
          /\ searching' = FALSE
          /\ Show(IF search = NoId THEN [kind |-> "explorer", id |-> NoId]
                                   ELSE [kind |-> result, id |-> search],
                  Others(r))
          /\ UNCHANGED visits

(* searchBlock and searchAddress do not look for a 400; updateBlock and    *)
(* updateAddress also end the loading and clear the error.                 *)
BlockAnswered(r, outcome) ==
  /\ r.field = "blk"
  /\ IF outcome \in {"notFound", "failed"} THEN QueryError(Others(r))
     ELSE /\ Render(page, [entity EXCEPT !["blk"] = Body(r), !["payload"] = Body(r)],
                    FALSE, Others(r))
          /\ query_loading' = FALSE
          /\ UNCHANGED <<page, search, searching, visits, patient>>

AddressAnswered(r, outcome) ==
  /\ r.field = "addr"
  /\ IF outcome \in {"notFound", "failed"} THEN QueryError(Others(r))
     ELSE /\ Render(page, [entity EXCEPT !["addr"] = Body(r)], FALSE, Others(r))
          /\ query_loading' = FALSE
          /\ UNCHANGED <<page, search, searching, visits, patient>>

(* getTransaction fetches the outputs of the inputs, one after the other   *)
(* and here as one request, before it shows the transaction; their errors  *)
(* are ignored.  The error object of a 400 has no inputs to walk through.  *)
TransactionAnswered(r, outcome) ==
  \/ /\ r.field = "tx"
     /\ IF outcome # "ok" THEN QueryError(Others(r))
        ELSE /\ requests' = Others(r) (+) SetToBag({Request("inputs", r.id)})
             /\ UNCHANGED <<page, entity, nested, query_loading, query_err, search,
                            searching, visits, patient, blanked>>
  \/ /\ r.field = "inputs"
     /\ Update("tx", r.id) /\ requests' = Others(r)
  \/ /\ r.field \in {"txMetadata", "txAttachments"}
     /\ IF outcome \in {"notFound", "failed"} THEN QueryError(Others(r))
        ELSE Update(r.field, Body(r)) /\ requests' = Others(r)

(* The queries that neither set query_err nor show an error object.        *)
Ignored(r) ==
  /\ requests' = Others(r)
  /\ UNCHANGED <<page, entity, nested, query_loading, query_err, search, searching,
                 visits, patient, blanked>>

(* getOutput reports its errors, the queries about the output do not.      *)
OutputAnswered(r, outcome) ==
  /\ r.field \in Queries("output")
  /\ IF outcome = "ok" THEN Update(r.field, r.id) /\ requests' = Others(r)
     ELSE IF r.field = "output" THEN QueryError(Others(r)) ELSE Ignored(r)

(* getConflict reports its errors; the queries about the conflict ignore   *)
(* them, but take the error object of a 400 for an answer.                 *)
ConflictAnswered(r, outcome) ==
  /\ r.field \in Queries("conflict")
  /\ IF outcome = "ok" THEN Update(r.field, r.id) /\ requests' = Others(r)
     ELSE IF r.field = "conflict" THEN QueryError(Others(r))
     ELSE IF outcome = "badRequest" THEN Update(r.field, Garbage) /\ requests' = Others(r)
     ELSE Ignored(r)

TipsAnswered(r, outcome) ==
  /\ r.field = "tips"
  /\ IF outcome \in {"notFound", "failed"} THEN Ignored(r)
     ELSE Update("tips", Body(r)) /\ requests' = Others(r)

Answered(r) ==
  \/ \E result \in {"block", "address", "404", "failed"} : SearchAnswered(r, result)
  \/ \E outcome \in Outcomes(r.id) :
       \/ BlockAnswered(r, outcome)
       \/ AddressAnswered(r, outcome)
       \/ TransactionAnswered(r, outcome)
       \/ OutputAnswered(r, outcome)
       \/ ConflictAnswered(r, outcome)
       \/ TipsAnswered(r, outcome)

Pages == [kind : Kinds, id : Id] \union [kind : {"tips", "explorer"}, id : {NoId}]

ExplorerNext ==
  \/ \E p \in Pages : Visit(p)
  \/ \E text \in Id \union {NoId} : UpdateSearch(text)
  \/ SearchAny
  \/ \E r \in BagToSet(requests) : Answered(r)

ExplorerSpec == ExplorerInit /\ [][ExplorerNext]_explorerVars

-----------------------------------------------------------------------------
(* What the pages show.                                                    *)
BlockPage ==
  IF query_err \/ entity["blk"] = NoId THEN {}
  ELSE {"blk", "payload"} \union {f \in {"txMetadata"} : nested # NoId}
AddressPage == IF query_err THEN {} ELSE {"addr"}
TransactionPage == IF query_err THEN {"txAttachments"} ELSE Queries("transaction")
OutputPage == IF query_err THEN {} ELSE Queries("output")
ConflictPage ==
  IF query_err \/ entity["conflict"] = NoId THEN {} ELSE Queries("conflict")

Shown ==
  CASE page.kind = "block"       -> BlockPage
    [] page.kind = "address"     -> AddressPage
    [] page.kind = "transaction" -> TransactionPage
    [] page.kind = "output"      -> OutputPage
    [] page.kind = "conflict"    -> ConflictPage
    [] OTHER                     -> {}

(* The field without which a page is empty.                                *)
Main(kind) ==
  CASE kind = "block" -> "blk" [] kind = "address" -> "addr"
    [] kind = "transaction" -> "tx" [] kind = "output" -> "output"
    [] kind = "conflict" -> "conflict"

(* A user who waits for the answers before she moves on sees, when they    *)
(* are all there, the entity the page is about or an error, and nothing of *)
(* an entity she looked at before.  There are three exceptions: reset()    *)
(* leaves the voters of a conflict as they are; a block page was cleared   *)
(* when the component in it was unmounted; and that component shows the    *)
(* metadata of the transaction it was mounted with.                        *)
PatientUserSeesHerPage ==
  patient /\ requests = EmptyBag /\ page.kind \in Kinds =>
    /\ query_err \/ entity[Main(page.kind)] # NoId \/ blanked
    /\ \A f \in Shown \ {"conflictVoters"} :
         entity[f] \in {NoId, Garbage,
                       IF page.kind = "block" /\ f = "txMetadata" THEN nested ELSE page.id}

(* A spinner never outlives the requests it waits for, whatever page and   *)
(* answer came in between.                                                 *)
LoadingHasARequest ==
  query_loading => \E r \in BagToSet(requests) : r.field \in {"blk", "addr"}
===============================================================================
