------------------------------ MODULE ListPages ------------------------------
(***************************************************************************)
(* The pages of the dashboard that list the rows of a table and act on the *)
(* selected one: jobs, networks, nodes, schemas, credentials, users,       *)
(* groups, roles and policies, and the read-only lists of logs and         *)
(* sessions.  One tab is modelled, together with the query cache that the  *)
(* page reads, the requests it has sent and the table at the server, which *)
(* other users and the server change too.                                  *)
(*                                                                         *)
(* Rows are numbered in the order in which they are listed.                *)
(***************************************************************************)
EXTENDS Naturals, FiniteSets

CONSTANTS Pages,      \* the pages, of those defined below
          MaxId,      \* rows ever created
          FirstRows,  \* how many of them are there at first
          PageSize,   \* PAGE_SIZE
          Terms,      \* what a search term may match: sets of rows
          Calls,      \* requests under way at a time
          None

Ids == 1..MaxId

ASSUME ListAssumption ==
  /\ MaxId \in Nat /\ FirstRows \in 0..MaxId
  /\ PageSize \in Nat \ {0}
  /\ Terms \subseteq SUBSET Ids /\ Ids \in Terms
  /\ None \notin Ids \cup Calls

(* What the pages have.  asks: the operations that are confirmed first.    *)
(* direct: those that are not.  dialog: SweetAlert popups, of which there  *)
(* is one at a time, or boxes that the page renders.  polls: refetches by  *)
(* itself.  settles: a deletion ends with a new list and no selection.     *)
(* lenient: the server reports success for a row that is not there.        *)
(* refresh: a handler that loads twice and shows a toast, or refetch.      *)
(* toggles: a click on the selected row selects none.                      *)
(* turns: it has pages of PageSize rows.  fixed: the answer is a constant. *)
ReadOnly == [asks |-> {}, direct |-> {}, dialog |-> "none", form |-> FALSE, tests |-> FALSE, informs |-> FALSE,
             polls |-> FALSE, settles |-> FALSE, lenient |-> FALSE, refresh |-> "none", toggles |-> FALSE,
             searches |-> TRUE, turns |-> TRUE, fixed |-> FALSE]
PopupPage == [ReadOnly EXCEPT !.asks = {"delete"}, !.dialog = "popup", !.settles = TRUE, !.refresh = "handler",
                              !.toggles = TRUE]
BoxPage == [ReadOnly EXCEPT !.asks = {"delete"}, !.dialog = "box", !.settles = TRUE, !.refresh = "refetch",
                            !.lenient = TRUE, !.toggles = TRUE]

JobsPage == [PopupPage EXCEPT !.asks = {"delete", "abort"}, !.direct = {"start", "reset"},
                              !.polls = TRUE, !.settles = FALSE]
NetworkPage == [PopupPage EXCEPT !.tests = TRUE, !.polls = TRUE]
NodesPage == [PopupPage EXCEPT !.informs = TRUE, !.polls = TRUE]
SchemaPage == [PopupPage EXCEPT !.polls = TRUE]
CredentialsPage == [PopupPage EXCEPT !.form = TRUE]
ProfilePage == [BoxPage EXCEPT !.toggles = FALSE]
GroupsPage == BoxPage
RolePage == BoxPage
PolicyPage == BoxPage
LogsPage == [ReadOnly EXCEPT !.polls = TRUE, !.turns = FALSE]
SessionsPage == [ReadOnly EXCEPT !.refresh = "handler", !.searches = FALSE, !.fixed = TRUE]

ASSUME PagesAssumption ==
  Pages \subseteq {JobsPage, NetworkPage, NodesPage, SchemaPage, CredentialsPage,
                   ProfilePage, GroupsPage, RolePage, PolicyPage, LogsPage, SessionsPage}

VARIABLES
  page,                          \* the page of this behaviour
  rows, used, owner,             \* the table: its rows, the rows ever created, whose values a row holds
  list, known, stale,            \* the query cache: the list, whether there is one, whether it is invalidated
  fetch, answer,                 \* the query's request: "no", "asked", "served"; what the server answered
  refreshing,                    \* where handleRefresh is
  on, selected, match, current,  \* the page: mounted, selectedId, the rows that searchTerm matches, currentPage
  popup,                         \* the SweetAlert popup (or the notification) that covers the page
  modal, formOf, deleting,       \* modalOpen and modalType, the row the form was filled from, deleteModalOpen
  call, pending,                 \* the requests; those whose mutation isPending on this page
  gone                           \* history: rows whose deletion the mounted page was told of since the last list came

table == <<rows, used, owner>>
query == <<list, known, stale, fetch, answer>>
view == <<on, selected, match, current>>
boxes == <<popup, modal, formOf, deleting>>
vars == <<page, table, query, refreshing, view, boxes, call, pending, gone>>

Free == [st |-> "free", op |-> "none", id |-> None, of |-> None]
NoPopup == [kind |-> "none", id |-> None]
Note == [kind |-> "note", id |-> None]
Modals == {"none", "create", "edit", "view"}
Ops == {"none", "delete", "abort", "start", "reset", "create", "update", "test-source", "test-target"}

(* What is on the screen: filteredX, totalPages, paginatedX.               *)
Matching == list \cap match
Rank(i) == Cardinality({j \in Matching : j < i})
AtLeastOne(n) == IF n = 0 THEN 1 ELSE n

TotalPages == AtLeastOne((Cardinality(Matching) + PageSize - 1) \div PageSize)

(* Variant: counts the pages from zero. *)
PaginatedFromZero(p) == {i \in Matching : Rank(i) >= p * PageSize /\ Rank(i) < (p + 1) * PageSize}

Paginated(p) == {i \in Matching : Rank(i) >= (p - 1) * PageSize /\ Rank(i) < p * PageSize}

DialogShown == deleting /\ selected \in list
Covered == popup.kind # "none" \/ modal # "none" \/ DialogShown

(* Variant: the rows stay clickable under a box. *)
UsableUnderBoxes == on /\ popup.kind = "none"

Usable == on /\ ~Covered
Selected == selected \in list

-----------------------------------------------------------------------------
(* The page is mounted and its query observed: it is loaded when there is  *)
(* no list, or an invalidated one, or one older than staleTime (whether it *)
(* is, is left open).                                                      *)
Return ==
  /\ ~on
  /\ on' = TRUE
  /\ \E old \in BOOLEAN : fetch' = IF (old \/ stale \/ ~known) /\ fetch = "no" THEN "asked" ELSE fetch
  /\ UNCHANGED <<page, table, list, known, stale, answer, refreshing, selected, match, current, boxes, call, pending, gone>>

(* A link, or a button that opens the editor of the selected row.  The     *)
(* requests go on.                                                         *)
Leave ==
  /\ Usable
  /\ on' = FALSE /\ selected' = None /\ match' = Ids /\ current' = 1
  /\ deleting' = FALSE /\ formOf' = None
  /\ pending' = {} /\ refreshing' = "no"
  /\ UNCHANGED <<page, table, query, popup, modal, call, gone>>

Search(S) ==
  /\ Usable /\ page.searches
  /\ match' = S /\ current' = 1
  /\ UNCHANGED <<page, table, query, refreshing, on, selected, boxes, call, pending, gone>>

(* The four buttons of Pagination, which renders nothing for one page.     *)
TurnPage ==
  /\ Usable /\ page.turns /\ TotalPages > 1
  /\ \/ current # 1 /\ current' \in {1, current - 1}
     \/ current # TotalPages /\ current' \in {current + 1, TotalPages}
  /\ current' <= MaxId + 1
  /\ UNCHANGED <<page, table, query, refreshing, on, selected, match, boxes, call, pending, gone>>

SelectRow(i) ==
  /\ Usable
  /\ i \in IF page.turns THEN Paginated(current) ELSE Matching
  /\ page.dialog # "none"
  /\ selected' = IF page.toggles /\ selected = i THEN None ELSE i
  /\ UNCHANGED <<page, table, query, refreshing, on, match, current, boxes, call, pending, gone>>

-----------------------------------------------------------------------------
(* Loading.  A query has one request under way: a poll, or a mount, joins  *)
(* it; refetch and the invalidation of an observed query drop it and ask   *)
(* again; that of an unobserved one only marks it.                         *)
(* Variant: loads by itself only until there is a list. *)
PollUntilKnown ==
  /\ on /\ page.polls /\ fetch = "no" /\ ~known
  /\ fetch' = "asked"
  /\ UNCHANGED <<page, table, list, known, stale, answer, refreshing, view, boxes, call, pending, gone>>

Poll ==
  /\ on /\ page.polls /\ fetch = "no"
  /\ fetch' = "asked"
  /\ UNCHANGED <<page, table, list, known, stale, answer, refreshing, view, boxes, call, pending, gone>>

(* handleRefresh; a second press while it is under way is left out.        *)
Refresh ==
  /\ Usable /\ page.refresh # "none" /\ refreshing = "no"
  /\ fetch' = "asked"
  /\ refreshing' = IF page.refresh = "handler" THEN "invalidate" ELSE "no"
  /\ UNCHANGED <<page, table, list, known, stale, answer, view, boxes, call, pending, gone>>

ServeList ==
  /\ fetch = "asked"
  /\ fetch' = "served" /\ answer' = rows
  /\ UNCHANGED <<page, table, list, known, stale, refreshing, view, boxes, call, pending, gone>>

FetchEnds ==
  /\ refreshing' = CASE refreshing = "invalidate" -> "refetch"
                     [] refreshing = "refetch" -> "timer"
                     [] OTHER -> refreshing
  /\ fetch' = IF refreshing = "invalidate" THEN "asked" ELSE "no"

ListArrives ==
  /\ fetch = "served"
  /\ list' = answer /\ known' = TRUE /\ stale' = FALSE /\ answer' = {}
  /\ gone' = {}
  /\ FetchEnds
  /\ UNCHANGED <<page, table, view, boxes, call, pending>>

ListFails ==
  /\ fetch # "no"
  /\ answer' = {}
  /\ FetchEnds
  /\ UNCHANGED <<page, table, list, known, stale, view, boxes, call, pending, gone>>

(* The 600 ms are over: the toast takes the place of any popup.            *)
RefreshToast ==
  /\ refreshing = "timer"
  /\ refreshing' = "no"
  /\ popup' = IF page.dialog = "box" THEN popup ELSE NoPopup
  /\ UNCHANGED <<page, table, query, view, modal, formOf, deleting, call, pending, gone>>

(* Variant: joins the request under way. *)
InvalidateJoins ==
  IF on THEN fetch' = (IF fetch = "no" THEN "asked" ELSE fetch) /\ UNCHANGED <<list, known, stale, answer>>
        ELSE stale' = TRUE /\ UNCHANGED <<list, known, fetch, answer>>

Invalidate ==
  IF on THEN fetch' = "asked" /\ answer' = {} /\ UNCHANGED <<list, known, stale>>
        ELSE stale' = TRUE /\ UNCHANGED <<list, known, fetch, answer>>

-----------------------------------------------------------------------------
(* The operations.  of is the row whose values the request carries.        *)
Send(c, op, id, of) ==
  /\ call[c].st = "free"
  /\ call' = [call EXCEPT ![c] = [st |-> "sent", op |-> op, id |-> id, of |-> of]]

(* Run and Reset on a job, without a question.                             *)
Act(c) ==
  /\ Usable /\ selected # None
  /\ \E op \in page.direct : Send(c, op, selected, None)
  /\ UNCHANGED <<page, table, query, refreshing, view, boxes, pending, gone>>

(* The button of an operation that asks first.  The lists need the row for *)
(* the question, jobs only its id; the user pages render the box when they *)
(* have the row.                                                           *)
Ask(op) ==
  /\ Usable /\ selected # None /\ op \in page.asks
  /\ \/ /\ page.dialog = "popup" /\ (page.settles => Selected)
        /\ popup' = [kind |-> op, id |-> selected]
        /\ UNCHANGED deleting
     \/ /\ page.dialog = "box"
        /\ deleting' = TRUE
        /\ UNCHANGED popup
  /\ UNCHANGED <<page, table, query, refreshing, view, modal, formOf, call, pending, gone>>

Confirm(c) ==
  /\ popup.kind \in page.asks
  /\ Send(c, popup.kind, popup.id, None)
  /\ popup' = NoPopup
  /\ UNCHANGED <<page, table, query, refreshing, view, modal, formOf, deleting, pending, gone>>

ConfirmBox(c) ==
  /\ DialogShown /\ popup.kind = "none"
  /\ Send(c, "delete", selected, None)
  /\ UNCHANGED <<page, table, query, refreshing, view, boxes, pending, gone>>

CancelBox ==
  /\ DialogShown /\ popup.kind = "none"
  /\ deleting' = FALSE
  /\ UNCHANGED <<page, table, query, refreshing, view, popup, modal, formOf, call, pending, gone>>

Dismiss ==
  /\ popup.kind # "none"
  /\ popup' = NoPopup
  /\ UNCHANGED <<page, table, query, refreshing, view, modal, formOf, deleting, call, pending, gone>>

(* handleCreateOrEdit: the popup edits the selected row, if there is one,  *)
(* whichever button opened it.                                             *)
OpenForm ==
  /\ Usable /\ page.form
  /\ popup' = [kind |-> "form", id |-> IF Selected THEN selected ELSE None]
  /\ UNCHANGED <<page, table, query, refreshing, view, modal, formOf, deleting, call, pending, gone>>

SubmitForm(c) ==
  /\ popup.kind = "form"
  /\ Send(c, IF popup.id = None THEN "create" ELSE "update", popup.id, popup.id)
  /\ popup' = NoPopup
  /\ UNCHANGED <<page, table, query, refreshing, view, modal, formOf, deleting, pending, gone>>

(* handleOpenCreate, handleOpenView, handleOpenEdit.                       *)
OpenModal(m) ==
  /\ Usable /\ page.dialog = "box" /\ m # "none"
  /\ m = "create" \/ Selected
  /\ modal' = m
  /\ formOf' = IF m = "create" THEN None ELSE selected
  /\ UNCHANGED <<page, table, query, refreshing, view, popup, deleting, call, pending, gone>>

(* The values of a closed form are not read again: opening fills it.       *)
CloseModal ==
  /\ modal # "none" /\ popup.kind = "none"
  /\ modal' = "none" /\ formOf' = None
  /\ UNCHANGED <<page, table, query, refreshing, view, popup, deleting, call, pending, gone>>

(* handleSubmit: an update is addressed by the selection of now.           *)
Submit(c) ==
  /\ modal \in {"create", "edit"} /\ popup.kind = "none"
  /\ pending = {}
  /\ IF modal = "create" THEN Send(c, "create", None, None)
                         ELSE Send(c, "update", selected, formOf)
  /\ pending' = {c}
  /\ UNCHANGED <<page, table, query, refreshing, view, boxes, gone>>

(* handleQuickTest: the source, then the target, of the selected row; only *)
(* the message tells them apart.                                           *)
QuickTest(c) ==
  /\ Usable /\ page.tests /\ Selected
  /\ Send(c, "test-source", None, None)
  /\ popup' = Note
  /\ UNCHANGED <<page, table, query, refreshing, view, modal, formOf, deleting, pending, gone>>

Inform ==
  /\ Usable /\ page.informs /\ selected # None
  /\ popup' = Note
  /\ UNCHANGED <<page, table, query, refreshing, view, modal, formOf, deleting, call, pending, gone>>

-----------------------------------------------------------------------------
(* The server.                                                             *)
Reply(c, st) == call' = [call EXCEPT ![c].st = st]

Deleted(c) ==
  /\ call[c].op = "delete"
  /\ rows' = rows \ {call[c].id}
  /\ Reply(c, IF call[c].id \in rows \/ page.lenient THEN "ok" ELSE "failed")
  /\ UNCHANGED <<used, owner>>

Created(c) ==
  /\ call[c].op = "create" /\ used # Ids
  /\ LET i == Cardinality(used) + 1 IN
     /\ rows' = rows \cup {i} /\ used' = used \cup {i}
     /\ owner' = [owner EXCEPT ![i] = i]
  /\ Reply(c, "ok")

Updated(c) ==
  /\ call[c].op = "update"
  /\ owner' = [i \in Ids |-> IF i = call[c].id /\ i \in rows THEN call[c].of ELSE owner[i]]
  /\ Reply(c, IF call[c].id \in rows \/ page.lenient THEN "ok" ELSE "failed")
  /\ UNCHANGED <<rows, used>>

Performed(c) ==
  /\ call[c].op \in {"abort", "start", "reset", "test-source", "test-target"}
  /\ Reply(c, "ok")
  /\ UNCHANGED table

Serve(c) ==
  /\ call[c].st = "sent"
  /\ Deleted(c) \/ Created(c) \/ Updated(c) \/ Performed(c)
  /\ UNCHANGED <<page, query, refreshing, view, boxes, pending, gone>>

(* The request is refused, or its answer is lost.                          *)
CallFails(c) ==
  /\ call[c].st \in {"sent", "ok"}
  /\ Reply(c, "failed")
  /\ UNCHANGED <<page, table, query, refreshing, view, boxes, pending, gone>>

(* What other users and the server do to the table.                        *)
OthersChange ==
  /\ ~page.fixed
  /\ \/ /\ used # Ids
        /\ LET i == Cardinality(used) + 1 IN
           rows' = rows \cup {i} /\ used' = used \cup {i} /\ owner' = [owner EXCEPT ![i] = i]
     \/ \E i \in rows : rows' = rows \ {i} /\ UNCHANGED <<used, owner>>
  /\ UNCHANGED <<page, query, refreshing, view, boxes, call, pending, gone>>

-----------------------------------------------------------------------------
(* The answers: onSuccess, onError, doAction.                              *)

(* Variant: a mutation whose answer came is pending still. *)
DoneStillPending(c) == call' = [call EXCEPT ![c] = Free] /\ UNCHANGED pending

Done(c) == /\ call' = [call EXCEPT ![c] = Free]
           /\ pending' = pending \ {c}

DeleteSucceeds(c) ==
  /\ call[c].st = "ok" /\ call[c].op = "delete" /\ page.settles
  /\ Invalidate
  /\ selected' = None
  /\ deleting' = FALSE
  /\ popup' = Note
  /\ gone' = IF on THEN gone \cup {call[c].id} ELSE gone
  /\ Done(c)
  /\ UNCHANGED <<page, table, refreshing, on, match, current, modal, formOf>>

(* A job operation only shows a toast, which closes any other popup.       *)
JobActionSucceeds(c) ==
  /\ call[c].st = "ok" /\ ~page.settles
  /\ popup' = NoPopup
  /\ Done(c)
  /\ UNCHANGED <<page, table, query, refreshing, view, modal, formOf, deleting, gone>>

(* A create or an update closes the modal that is open by then.            *)
SaveSucceeds(c) ==
  /\ call[c].st = "ok" /\ call[c].op \in {"create", "update"}
  /\ Invalidate
  /\ modal' = "none" /\ formOf' = None
  /\ popup' = Note
  /\ Done(c)
  /\ UNCHANGED <<page, table, refreshing, view, deleting, gone>>

TestGoesOn(c) ==
  /\ call[c].st = "ok" /\ call[c].op = "test-source"
  /\ call' = [call EXCEPT ![c] = [@ EXCEPT !.op = "test-target", !.st = "sent"]]
  /\ UNCHANGED <<page, table, query, refreshing, view, boxes, pending, gone>>

TestEnds(c) ==
  /\ \/ call[c].st = "ok" /\ call[c].op = "test-target"
     \/ call[c].st = "failed" /\ call[c].op \in {"test-source", "test-target"}
  /\ popup' = Note
  /\ Done(c)
  /\ UNCHANGED <<page, table, query, refreshing, view, modal, formOf, deleting, gone>>

(* onError: a message; it closes the deletion box; the form of credentials *)
(* has none.                                                               *)
ActionFails(c) ==
  /\ call[c].st = "failed" /\ call[c].op \notin {"test-source", "test-target"}
  /\ popup' = IF page.form /\ call[c].op # "delete" THEN popup ELSE Note
  /\ deleting' = (deleting /\ call[c].op # "delete")
  /\ Done(c)
  /\ UNCHANGED <<page, table, query, refreshing, view, modal, formOf, gone>>

-----------------------------------------------------------------------------
Init ==
  /\ page \in Pages
  /\ rows = 1..FirstRows /\ used = rows /\ owner = [i \in Ids |-> IF i \in used THEN i ELSE None]
  /\ list = {} /\ known = FALSE /\ stale = FALSE /\ fetch = "no" /\ answer = {}
  /\ refreshing = "no"
  /\ on = FALSE /\ selected = None /\ match = Ids /\ current = 1
  /\ popup = NoPopup /\ modal = "none" /\ formOf = None /\ deleting = FALSE
  /\ call = [c \in Calls |-> Free] /\ pending = {}
  /\ gone = {}

UserStep == \/ Return \/ Leave \/ TurnPage \/ Refresh
            \/ \E S \in Terms : Search(S)
            \/ \E i \in Ids : SelectRow(i)
            \/ \E op \in Ops : Ask(op)
            \/ \E m \in Modals : OpenModal(m)
            \/ CancelBox \/ Dismiss \/ OpenForm \/ CloseModal \/ Inform
UserCall(c) == Act(c) \/ Confirm(c) \/ ConfirmBox(c) \/ SubmitForm(c) \/ Submit(c) \/ QuickTest(c)
QueryStep == Poll \/ ServeList \/ ListArrives \/ ListFails \/ RefreshToast
ServerStep(c) == Serve(c) \/ CallFails(c)
AnswerStep(c) == \/ DeleteSucceeds(c) \/ JobActionSucceeds(c) \/ SaveSucceeds(c)
                 \/ TestGoesOn(c) \/ TestEnds(c) \/ ActionFails(c)

Next == \/ UserStep \/ QueryStep \/ OthersChange
        \/ \E c \in Calls : UserCall(c) \/ ServerStep(c) \/ AnswerStep(c)

(* The interval of a mounted page fires, and a request that is repeated    *)
(* for ever is answered some time, between two invalidations.              *)
Fairness == WF_vars(Poll) /\ SF_vars(ServeList) /\ SF_vars(ListArrives)

Spec == Init /\ [][Next]_vars /\ Fairness

-----------------------------------------------------------------------------
(* Types of the state; a pending mutation is a request under way; a popup  *)
(* that asks is about a row.                                               *)
TypeOK ==
  /\ page \in Pages
  /\ rows \in SUBSET Ids /\ used \in SUBSET Ids /\ owner \in [Ids -> Ids \cup {None}]
  /\ list \in SUBSET Ids /\ known \in BOOLEAN /\ stale \in BOOLEAN
  /\ fetch \in {"no", "asked", "served"} /\ answer \in SUBSET Ids
  /\ refreshing \in {"no", "invalidate", "refetch", "timer"}
  /\ on \in BOOLEAN /\ selected \in Ids \cup {None} /\ match \in Terms /\ current \in 1..MaxId + 1
  /\ popup \in [kind : {"none", "note", "form", "delete", "abort"}, id : Ids \cup {None}]
  /\ popup.kind \in {"delete", "abort"} => popup.id \in Ids
  /\ modal \in Modals /\ formOf \in Ids \cup {None} /\ deleting \in BOOLEAN
  /\ call \in [Calls -> [st : {"free", "sent", "ok", "failed"}, op : Ops, id : Ids \cup {None}, of : Ids \cup {None}]]
  /\ pending \in SUBSET Calls /\ \A c \in pending : call[c].st # "free"
  /\ gone \in SUBSET Ids

(* No row ever holds the values of another one, although an update is      *)
(* addressed by the selection at the time of the submit, its values were   *)
(* copied from the selection at the time the form opened, and answers to   *)
(* older requests move the selection in between.                           *)
OwnValues == \A i \in used : owner[i] = i

(* Once a deletion was reported to a mounted page, the next list does not  *)
(* show the row again: the answer of a request that was under way is not   *)
(* used.                                                                   *)
NoGhosts == [][list' # list => list' \cap gone = {}]_vars

(* The pages of a list hold each matching row exactly once.                *)
PagesCover == /\ UNION {Paginated(p) : p \in 1..TotalPages} = Matching
              /\ \A p, q \in 1..TotalPages : p # q => Paginated(p) \cap Paginated(q) = {}

(* A page that polls and stays mounted shows the table as it is, again and *)
(* again, once others leave the table alone for a while.                   *)
ListCatchesUp == []<>(~page.polls \/ ~on \/ list = rows)
=============================================================================
