-------------------------- MODULE ListPagesProofs --------------------------
(* Proofs about ListPages for any number of rows, requests and search      *)
(* terms, any page size and each of the pages.                             *)
EXTENDS ListPages, FiniteSetTheorems, TLAPS

Calling == [st : {"free", "sent", "ok", "failed"}, op : Ops, id : Ids \cup {None}, of : Ids \cup {None}]
Popup == [kind : {"none", "note", "form", "delete", "abort"}, id : Ids \cup {None}]

TableTypes ==
  /\ page \in Pages
  /\ rows \in SUBSET Ids /\ used \in SUBSET Ids /\ owner \in [Ids -> Ids \cup {None}]
ViewTypes ==
  /\ list \in SUBSET Ids /\ known \in BOOLEAN /\ stale \in BOOLEAN
  /\ fetch \in {"no", "asked", "served"} /\ answer \in SUBSET Ids
  /\ refreshing \in {"no", "invalidate", "refetch", "timer"}
  /\ on \in BOOLEAN /\ selected \in Ids \cup {None} /\ match \in Terms /\ current \in 1..MaxId + 1
  /\ popup \in Popup
  /\ modal \in Modals /\ formOf \in Ids \cup {None} /\ deleting \in BOOLEAN
  /\ gone \in SUBSET Ids
CallTypes == call \in [Calls -> Calling] /\ pending \in SUBSET Calls

(* Rows are created one after the other, and whatever names a row names    *)
(* one that was created.                                                   *)
Numbered == \E n \in 0..MaxId : used = 1..n
TableKnown == Numbered /\ rows \subseteq used
ViewKnown == /\ list \subseteq used /\ answer \subseteq used /\ gone \subseteq used
             /\ selected \in used \cup {None} /\ popup.id \in used \cup {None}

(* A row that was reported deleted is not in the table, hence not in an    *)
(* answer that was asked for since.                                        *)
GoneInv == gone \cap rows = {} /\ (fetch = "served" => answer \cap gone = {})

(* A form is filled from the row that is selected, unless none is by now.  *)
FormInv == modal = "edit" => selected \in {formOf, None}
PopupInv == popup.kind \in {"delete", "abort"} => popup.id \in Ids

CallInv(c) ==
  /\ call[c].id \in used \cup {None}
  /\ call[c].op = "delete" => /\ call[c].id # None
                              /\ call[c].st = "ok" => call[c].id \notin rows
  /\ call[c].op = "update" => call[c].id \in {call[c].of, None}
  /\ c \in pending => call[c].st # "free"

TableInv == TableTypes /\ TableKnown /\ OwnValues
ViewInv == ViewTypes /\ ViewKnown /\ GoneInv /\ FormInv /\ PopupInv
CallsInv == CallTypes /\ \A c \in Calls : CallInv(c)
IndInv == TableInv /\ ViewInv /\ CallsInv

-----------------------------------------------------------------------------
(* The pages of a list.  Division with remainder, and products.            *)
LEMMA DivFacts ==
  ASSUME NEW a \in Nat, NEW b \in Nat \ {0}
  PROVE  a \div b \in Nat /\ (a \div b) * b =< a /\ a < (a \div b) * b + b
  BY SMT

LEMMA ProductGrows ==
  ASSUME NEW p \in Nat, NEW q \in Nat, NEW b \in Nat, p =< q
  PROVE  p * b =< q * b
  BY SMT

LEMMA RowsFinite == ASSUME NEW S \in SUBSET Ids
                    PROVE  IsFiniteSet(S) /\ Cardinality(S) \in Nat
<1>1. IsFiniteSet(Ids)
  BY ListAssumption, FS_Interval, SMT DEF Ids
<1>. QED  BY <1>1, FS_Subset, FS_CardinalityType

(* A row's rank is below the number of rows.                               *)
LEMMA RankFacts ==
  ASSUME list \in SUBSET Ids, NEW i \in Matching
  PROVE  Rank(i) \in Nat /\ Rank(i) < Cardinality(Matching) /\ Cardinality(Matching) \in Nat
<1>. DEFINE before == {j \in Matching : j < i}
<1>1. Matching \in SUBSET Ids /\ i \in Int
  <2>1. Matching \in SUBSET Ids /\ i \in Ids
    BY Zenon DEF Matching
  <2>. QED  BY <2>1, SMT DEF Ids
<1>2. before \in SUBSET Matching /\ i \notin before
  BY <1>1, SMT
<1>3. IsFiniteSet(Matching) /\ Cardinality(Matching) \in Nat
  BY <1>1, RowsFinite
<1>4. /\ Cardinality(before) \in Nat /\ Cardinality(before) =< Cardinality(Matching)
      /\ Cardinality(before) = Cardinality(Matching) => before = Matching
  BY <1>2, <1>3, FS_Subset, FS_CardinalityType
<1>5. Cardinality(before) # Cardinality(Matching)
  BY <1>2, <1>4, Zenon
<1>6. Rank(i) = Cardinality(before)
  BY DEF Rank
<1>. QED  BY <1>3, <1>4, <1>5, <1>6, SMT

LEMMA TotalFacts ==
  ASSUME list \in SUBSET Ids
  PROVE  /\ TotalPages \in Nat \ {0}
         /\ Cardinality(Matching) \in Nat
         /\ Cardinality(Matching) =< TotalPages * PageSize
<1>. DEFINE n == Cardinality(Matching)
            q == (n + PageSize - 1) \div PageSize
<1>1. n \in Nat
  BY RowsFinite, Zenon DEF Matching
<1>2. PageSize \in Nat \ {0} /\ n + PageSize - 1 \in Nat
  BY <1>1, ListAssumption, SMT
<1>3. q \in Nat /\ n + PageSize - 1 < q * PageSize + PageSize
  BY <1>2, DivFacts, Zenon
<1>4. TotalPages = IF q = 0 THEN 1 ELSE q
  BY DEF TotalPages, AtLeastOne
<1>. HIDE DEF n, q
<1>5. TotalPages \in Nat \ {0} /\ q =< TotalPages
  BY <1>3, <1>4, SMT
<1>6. q * PageSize =< TotalPages * PageSize /\ q * PageSize \in Nat /\ TotalPages * PageSize \in Nat
  BY <1>2, <1>3, <1>5, ProductGrows, SMT
<1>7. n =< TotalPages * PageSize
  BY <1>1, <1>2, <1>3, <1>6, SMT
<1>. QED  BY <1>1, <1>5, <1>7 DEF n

(* Every matching row is on one page, and on one only.                     *)
LEMMA CoverLemma == ASSUME list \in SUBSET Ids PROVE PagesCover
<1>1. PageSize \in Nat \ {0} /\ TotalPages \in Nat \ {0}
  BY TotalFacts, ListAssumption
<1>2. ASSUME NEW i \in Matching PROVE \E p \in 1..TotalPages : i \in Paginated(p)
  <2>. DEFINE r == Rank(i)
              d == r \div PageSize
  <2>1. r \in Nat /\ r < Cardinality(Matching)
    BY RankFacts
  <2>2. d \in Nat /\ d * PageSize =< r /\ r < d * PageSize + PageSize
    BY <1>1, <2>1, DivFacts, Zenon
  <2>3. Cardinality(Matching) \in Nat /\ Cardinality(Matching) =< TotalPages * PageSize
    BY TotalFacts
  <2>4. Rank(i) = r
    OBVIOUS
  <2>. HIDE DEF r, d
  <2>5. d < TotalPages
    <3> SUFFICES ASSUME TotalPages =< d PROVE FALSE
      BY <1>1, <2>2, SMT
    <3>1. TotalPages * PageSize =< d * PageSize
      BY <1>1, <2>2, ProductGrows
    <3>. QED  BY <1>1, <2>1, <2>2, <2>3, <3>1, SMT
  <2>6. d + 1 \in 1..TotalPages /\ (d + 1) - 1 = d /\ (d + 1) * PageSize = d * PageSize + PageSize
    BY <1>1, <2>2, <2>5, SMT
  <2>7. i \in Paginated(d + 1)
    BY <2>1, <2>2, <2>4, <2>6, SMT DEF Paginated
  <2>. QED  BY <2>6, <2>7
<1>3. \A p \in 1..TotalPages : Paginated(p) \subseteq Matching
  BY DEF Paginated
<1>4. ASSUME NEW p \in 1..TotalPages, NEW q \in 1..TotalPages, p < q, NEW i \in Paginated(p) \cap Paginated(q)
      PROVE  FALSE
  <2>1. p \in Nat /\ q - 1 \in Nat /\ p =< q - 1
    BY <1>1, <1>4, SMT
  <2>2. p * PageSize =< (q - 1) * PageSize
    BY <1>1, <2>1, ProductGrows
  <2>3. i \in Matching /\ Rank(i) < p * PageSize /\ Rank(i) >= (q - 1) * PageSize
    BY Zenon DEF Paginated
  <2>4. Rank(i) \in Nat /\ p * PageSize \in Nat /\ (q - 1) * PageSize \in Nat
    BY <1>1, <2>1, <2>3, RankFacts, SMT
  <2>. QED  BY <2>2, <2>3, <2>4, SMT
<1>5. \A p, q \in 1..TotalPages : p # q => Paginated(p) \cap Paginated(q) = {}
  <2> SUFFICES ASSUME NEW p \in 1..TotalPages, NEW q \in 1..TotalPages, p # q,
                      NEW i \in Paginated(p) \cap Paginated(q)
               PROVE  FALSE
    OBVIOUS
  <2>1. p < q \/ q < p
    BY <1>1, SMT
  <2>. QED  BY <1>4, <2>1
<1>6. UNION {Paginated(p) : p \in 1..TotalPages} = Matching
  BY <1>2, <1>3, Zenon
<1>. QED  BY <1>5, <1>6 DEF PagesCover

-----------------------------------------------------------------------------
(* Facts about the data.                                                   *)
LEMMA PageFacts ==
  ASSUME page \in Pages
  PROVE  page.direct \subseteq {"start", "reset"} /\ page.asks \subseteq {"delete", "abort"}
<1>1. ReadOnly.direct = {} /\ ReadOnly.asks = {}
  BY SMT DEF ReadOnly
<1>2. PopupPage.direct = {} /\ PopupPage.asks = {"delete"} /\ BoxPage.direct = {} /\ BoxPage.asks = {"delete"}
  BY SMT DEF PopupPage, BoxPage, ReadOnly
<1>3. /\ JobsPage.direct = {"start", "reset"} /\ JobsPage.asks = {"delete", "abort"}
      /\ NetworkPage.direct = {} /\ NetworkPage.asks = {"delete"}
      /\ NodesPage.direct = {} /\ NodesPage.asks = {"delete"}
      /\ SchemaPage.direct = {} /\ SchemaPage.asks = {"delete"}
      /\ CredentialsPage.direct = {} /\ CredentialsPage.asks = {"delete"}
  BY SMT DEF JobsPage, NetworkPage, NodesPage, SchemaPage, CredentialsPage, PopupPage, ReadOnly
<1>4. /\ ProfilePage.direct = {} /\ ProfilePage.asks = {"delete"}
      /\ LogsPage.direct = {} /\ LogsPage.asks = {}
      /\ SessionsPage.direct = {} /\ SessionsPage.asks = {}
  BY SMT DEF ProfilePage, LogsPage, SessionsPage, BoxPage, ReadOnly
<1>5. page \in {JobsPage, NetworkPage, NodesPage, SchemaPage, CredentialsPage,
                ProfilePage, BoxPage, LogsPage, SessionsPage}
  BY PagesAssumption, Zenon DEF GroupsPage, RolePage, PolicyPage
<1>. QED  BY <1>2, <1>3, <1>4, <1>5, Zenon

LEMMA PopupFacts == /\ NoPopup \in Popup /\ NoPopup.kind = "none" /\ NoPopup.id = None
                    /\ Note \in Popup /\ Note.kind = "note" /\ Note.id = None
<1>1. NoPopup \in Popup /\ Note \in Popup
  BY Zenon DEF NoPopup, Note, Popup
<1>. QED  BY <1>1, SMT DEF NoPopup, Note

(* A new row comes behind all others.                                      *)
LEMMA NewRow ==
  ASSUME Numbered, used # Ids
  PROVE  LET i == Cardinality(used) + 1 IN i \in Ids \ used /\ used \cup {i} = 1..i
<1>1. PICK n \in 0..MaxId : used = 1..n
  BY DEF Numbered
<1>2. n \in Nat /\ MaxId \in Nat
  BY ListAssumption, SMT
<1>3. Cardinality(used) = n
  BY <1>1, <1>2, FS_Interval, SMT
<1>4. n # MaxId
  BY <1>1 DEF Ids
<1>5. n + 1 \in Ids \ used /\ used \cup {n + 1} = 1..n + 1
  BY <1>1, <1>2, <1>4, SMT DEF Ids
<1>. QED  BY <1>3, <1>5, Zenon

(* The invariant holds initially.                                          *)
LEMMA InitInv == Init => IndInv
<1> SUFFICES ASSUME Init PROVE IndInv
  OBVIOUS
<1>1. FirstRows \in 0..MaxId /\ rows \in SUBSET Ids /\ used = rows /\ rows = 1..FirstRows
  BY ListAssumption, SMT DEF Init, Ids
<1>2. TableTypes
  BY <1>1, Zenon DEF Init, TableTypes
<1>3. TableKnown
  BY <1>1, Zenon DEF TableKnown, Numbered
<1>4. OwnValues
  BY <1>1, Zenon DEF Init, OwnValues
<1>5. 1 \in 1..MaxId + 1
  BY ListAssumption, SMT
<1>6. ViewTypes
  BY <1>5, PopupFacts, ListAssumption, Zenon DEF Init, ViewTypes, Modals
<1>7. ViewKnown /\ GoneInv /\ FormInv /\ PopupInv
  BY PopupFacts, Zenon DEF Init, ViewKnown, GoneInv, FormInv, PopupInv
<1>8. Free \in Calling /\ Free.op = "none" /\ Free.id = None
  <2>1. Free \in Calling
    BY Zenon DEF Free, Calling, Ops
  <2>. QED  BY <2>1, SMT DEF Free
<1>9. CallTypes
  BY <1>8, Zenon DEF Init, CallTypes
<1>10. ASSUME NEW c \in Calls PROVE CallInv(c)
  BY <1>8, Zenon DEF Init, CallInv
<1>. QED  BY <1>2, <1>3, <1>4, <1>6, <1>7, <1>9, <1>10, Zenon DEF IndInv, TableInv, ViewInv, CallsInv

-----------------------------------------------------------------------------
(* Steps that leave the table alone, or the requests.                      *)
LEMMA TableFrame == ASSUME IndInv, UNCHANGED <<page, table>> PROVE TableInv'
  BY Zenon DEF IndInv, TableInv, TableTypes, TableKnown, Numbered, OwnValues, table

LEMMA CallsFrame == ASSUME IndInv, UNCHANGED <<page, table, call>>, pending' \subseteq pending PROVE CallsInv'
<1>1. CallTypes'
  BY Zenon DEF IndInv, CallsInv, CallTypes
<1>2. ASSUME NEW c \in Calls PROVE CallInv(c)'
  BY Zenon DEF IndInv, CallsInv, CallInv, table
<1>. QED  BY <1>1, <1>2 DEF CallsInv

(* What the user does, short of a request: the selection, the popup and    *)
(* the modal only ever name rows that are known.                           *)
LEMMA UserInv ==
  ASSUME IndInv,
         UNCHANGED <<page, table, call, gone, list, known, answer>>, pending' \subseteq pending,
         fetch' \in {fetch, "asked"}, stale' \in BOOLEAN,
         refreshing' \in {"no", "invalidate", "refetch", "timer"},
         on' \in BOOLEAN, selected' \in used \cup {None}, match' \in Terms, current' \in 1..MaxId + 1,
         popup' \in Popup, popup'.id \in used \cup {None},
         popup'.kind \in {"delete", "abort"} => popup'.id \in Ids,
         modal' \in Modals, formOf' \in Ids \cup {None}, deleting' \in BOOLEAN,
         modal' = "edit" => selected' \in {formOf', None}
  PROVE  IndInv'
<1>1. TableInv' /\ CallsInv'
  BY TableFrame, CallsFrame, Zenon
<1>2. ViewTypes'
  <2>1. used \in SUBSET Ids
    BY Zenon DEF IndInv, TableInv, TableTypes
  <2>2. fetch' \in {"no", "asked", "served"} /\ selected' \in Ids \cup {None}
    BY <2>1, Zenon DEF IndInv, ViewInv, ViewTypes
  <2>. QED  BY <2>2, Zenon DEF IndInv, ViewInv, ViewTypes
<1>3. ViewKnown'
  BY Zenon DEF IndInv, ViewInv, ViewKnown, table
<1>4. GoneInv'
  BY Zenon DEF IndInv, ViewInv, GoneInv, table
<1>5. FormInv' /\ PopupInv'
  BY Zenon DEF FormInv, PopupInv
<1>. QED  BY <1>1, <1>2, <1>3, <1>4, <1>5 DEF IndInv, ViewInv

LEMMA UserFacts ==
  ASSUME IndInv
  PROVE  /\ stale \in BOOLEAN /\ refreshing \in {"no", "invalidate", "refetch", "timer"} /\ on \in BOOLEAN
         /\ selected \in used \cup {None} /\ match \in Terms /\ current \in 1..MaxId + 1
         /\ popup \in Popup /\ popup.id \in used \cup {None}
         /\ popup.kind \in {"delete", "abort"} => popup.id \in Ids
         /\ modal \in Modals /\ formOf \in Ids \cup {None} /\ deleting \in BOOLEAN
         /\ modal = "edit" => selected \in {formOf, None}
         /\ list \subseteq used /\ used \subseteq Ids
  BY Zenon DEF IndInv, ViewInv, ViewTypes, ViewKnown, FormInv, PopupInv, TableInv, TableTypes

LEMMA ReturnInv == ASSUME IndInv, Return PROVE IndInv'
<1>1. fetch' \in {fetch, "asked"}
  BY Zenon DEF Return
<1>. QED  BY <1>1, UserInv, UserFacts, Zenon DEF Return, boxes

(* Whoever leaves has no modal open.                                       *)
LEMMA LeaveInv == ASSUME IndInv, Leave PROVE IndInv'
<1>1. Ids \in Terms /\ 1 \in 1..MaxId + 1
  BY ListAssumption, SMT
<1>2. modal # "edit"
  BY Zenon DEF Leave, Usable, Covered
<1>. QED  BY <1>1, <1>2, UserInv, UserFacts, Zenon DEF Leave, query

LEMMA SearchInv == ASSUME IndInv, NEW S \in Terms, Search(S) PROVE IndInv'
<1>1. 1 \in 1..MaxId + 1
  BY ListAssumption, SMT
<1>. QED  BY <1>1, UserInv, UserFacts, Zenon DEF Search, query, boxes

LEMMA TurnPageInv == ASSUME IndInv, TurnPage PROVE IndInv'
<1>1. list \in SUBSET Ids /\ current \in 1..MaxId + 1
  BY UserFacts, Zenon
<1>2. TotalPages \in Nat \ {0} /\ MaxId \in Nat
  BY <1>1, TotalFacts, ListAssumption
<1>3. current' \in {1, current - 1, current + 1, TotalPages} /\ current' =< MaxId + 1 /\ (current' = current - 1 => current # 1)
  <2>1. CASE current # 1 /\ current' \in {1, current - 1}
    BY <2>1, <1>1, <1>2, SMT DEF TurnPage
  <2>2. CASE current # TotalPages /\ current' \in {current + 1, TotalPages}
    <3>1. current' # current - 1 \/ current # 1
      BY <1>1, <1>2, <2>2, SMT
    <3>. QED  BY <2>2, <3>1, Zenon DEF TurnPage
  <2>. QED  BY <2>1, <2>2, Zenon DEF TurnPage
<1>4. current' \in 1..MaxId + 1
  BY <1>1, <1>2, <1>3, SMT
<1>. QED  BY <1>4, UserInv, UserFacts, Zenon DEF TurnPage, query, boxes

LEMMA SelectRowInv == ASSUME IndInv, NEW i \in Ids, SelectRow(i) PROVE IndInv'
<1>1. i \in list
  BY Zenon DEF SelectRow, Paginated, Matching
<1>2. selected' \in used \cup {None}
  BY <1>1, UserFacts, Zenon DEF SelectRow
<1>3. modal # "edit"
  BY Zenon DEF SelectRow, Usable, Covered
<1>. QED  BY <1>2, <1>3, UserInv, UserFacts, Zenon DEF SelectRow, query, boxes

LEMMA PollInv == ASSUME IndInv, Poll PROVE IndInv'
  BY UserInv, UserFacts, Zenon DEF Poll, view, boxes

LEMMA RefreshInv == ASSUME IndInv, Refresh PROVE IndInv'
<1>1. refreshing' \in {"no", "invalidate", "refetch", "timer"}
  BY Zenon DEF Refresh
<1>. QED  BY <1>1, UserInv, UserFacts, Zenon DEF Refresh, view, boxes

LEMMA RefreshToastInv == ASSUME IndInv, RefreshToast PROVE IndInv'
<1>1. popup' \in {popup, NoPopup}
  BY Zenon DEF RefreshToast
<1>. QED  BY <1>1, UserInv, UserFacts, PopupFacts, Zenon DEF RefreshToast, query, view

(* The question names the selected row.                                    *)
LEMMA AskInv == ASSUME IndInv, NEW op \in Ops, Ask(op) PROVE IndInv'
<1>1. op \in {"delete", "abort"} /\ selected \in Ids
  BY PageFacts, UserFacts, Zenon DEF Ask, IndInv, TableInv, TableTypes
<1>2. popup' \in {popup, [kind |-> op, id |-> selected]} /\ deleting' \in {deleting, TRUE}
  BY Zenon DEF Ask
<1>3. CASE popup' = popup
  BY <1>2, <1>3, UserInv, UserFacts, Zenon DEF Ask, query, view
<1>4. CASE popup' = [kind |-> op, id |-> selected]
  <2>1. popup' \in Popup
    BY <1>1, <1>4, Zenon DEF Popup
  <2>2. popup'.id = selected
    BY <1>4
  <2>. QED  BY <1>1, <1>2, <2>1, <2>2, UserInv, UserFacts, Zenon DEF Ask, query, view
<1>. QED  BY <1>2, <1>3, <1>4, Zenon

LEMMA CancelBoxInv == ASSUME IndInv, CancelBox PROVE IndInv'
  BY UserInv, UserFacts, Zenon DEF CancelBox, query, view

LEMMA DismissInv == ASSUME IndInv, Dismiss PROVE IndInv'
  BY UserInv, UserFacts, PopupFacts, Zenon DEF Dismiss, query, view

LEMMA InformInv == ASSUME IndInv, Inform PROVE IndInv'
  BY UserInv, UserFacts, PopupFacts, Zenon DEF Inform, query, view

LEMMA OpenFormInv == ASSUME IndInv, OpenForm PROVE IndInv'
<1>. DEFINE i == IF Selected THEN selected ELSE None
<1>1. i \in used \cup {None} /\ popup' = [kind |-> "form", id |-> i]
  BY UserFacts, Zenon DEF OpenForm
<1>2. i \in Ids \cup {None}
  BY <1>1, UserFacts, Zenon
<1>. HIDE DEF i
<1>3. popup' \in Popup
  BY <1>1, <1>2, Zenon DEF Popup
<1>4. popup'.id = i /\ popup'.kind = "form"
  BY <1>1
<1>. QED  BY <1>1, <1>3, <1>4, UserInv, UserFacts, Zenon DEF OpenForm, query, view

LEMMA OpenModalInv == ASSUME IndInv, NEW m \in Modals, OpenModal(m) PROVE IndInv'
<1>1. formOf' \in Ids \cup {None}
  BY UserFacts, Zenon DEF OpenModal
<1>2. modal' = "edit" => formOf' = selected
  BY Zenon DEF OpenModal
<1>. QED  BY <1>1, <1>2, UserInv, UserFacts, Zenon DEF OpenModal, query, view

LEMMA CloseModalInv == ASSUME IndInv, CloseModal PROVE IndInv'
<1>1. "none" \in Modals
  BY Zenon DEF Modals
<1>. QED  BY <1>1, UserInv, UserFacts, Zenon DEF CloseModal, query, view

-----------------------------------------------------------------------------
(* The lists that the query brings are older states of the table.          *)
LEMMA ServeListInv == ASSUME IndInv, ServeList PROVE IndInv'
<1>. USE DEF ServeList, view, boxes
<1>1. TableInv' /\ CallsInv'
  BY TableFrame, CallsFrame, Zenon
<1>2. ViewTypes'
  BY Zenon DEF IndInv, ViewInv, ViewTypes, TableInv, TableTypes
<1>3. ViewKnown' /\ GoneInv' /\ FormInv' /\ PopupInv'
  BY Zenon DEF IndInv, ViewInv, ViewKnown, GoneInv, FormInv, PopupInv, TableInv, TableKnown, table
<1>. QED  BY <1>1, <1>2, <1>3 DEF IndInv, ViewInv

LEMMA FetchEndsFacts ==
  ASSUME FetchEnds, refreshing \in {"no", "invalidate", "refetch", "timer"}
  PROVE  fetch' \in {"no", "asked"} /\ refreshing' \in {"no", "invalidate", "refetch", "timer"}
<1>1. fetch' \in {"no", "asked"}
  BY Zenon DEF FetchEnds
<1>2. refreshing' \in {"no", "invalidate", "refetch", "timer"}
  BY SMT DEF FetchEnds
<1>. QED  BY <1>1, <1>2

LEMMA ListArrivesInv == ASSUME IndInv, ListArrives PROVE IndInv'
<1>. USE DEF ListArrives, view, boxes
<1>1. TableInv' /\ CallsInv'
  BY TableFrame, CallsFrame, Zenon
<1>2. fetch' \in {"no", "asked"} /\ refreshing' \in {"no", "invalidate", "refetch", "timer"}
  BY FetchEndsFacts, Zenon DEF IndInv, ViewInv, ViewTypes
<1>3. ViewTypes'
  BY <1>2, Zenon DEF IndInv, ViewInv, ViewTypes
<1>4. ViewKnown' /\ GoneInv' /\ FormInv' /\ PopupInv'
  BY <1>2, Zenon DEF IndInv, ViewInv, ViewKnown, GoneInv, FormInv, PopupInv, table
<1>. QED  BY <1>1, <1>3, <1>4 DEF IndInv, ViewInv

LEMMA ListFailsInv == ASSUME IndInv, ListFails PROVE IndInv'
<1>. USE DEF ListFails, view, boxes
<1>1. TableInv' /\ CallsInv'
  BY TableFrame, CallsFrame, Zenon
<1>2. fetch' \in {"no", "asked"} /\ refreshing' \in {"no", "invalidate", "refetch", "timer"}
  BY FetchEndsFacts, Zenon DEF IndInv, ViewInv, ViewTypes
<1>3. ViewTypes'
  BY <1>2, Zenon DEF IndInv, ViewInv, ViewTypes
<1>4. ViewKnown' /\ GoneInv' /\ FormInv' /\ PopupInv'
  BY <1>2, Zenon DEF IndInv, ViewInv, ViewKnown, GoneInv, FormInv, PopupInv, table
<1>. QED  BY <1>1, <1>3, <1>4 DEF IndInv, ViewInv

-----------------------------------------------------------------------------
(* Requests.  One is sent for a row that is known, with its own values.    *)
LEMMA SendInv ==
  ASSUME IndInv, NEW c \in Calls, NEW op \in Ops, NEW id \in used \cup {None}, NEW of \in Ids \cup {None},
         Send(c, op, id, of), op = "delete" => id # None, op = "update" => id \in {of, None},
         UNCHANGED <<page, table, query, refreshing, view, modal, formOf, deleting, gone>>,
         popup' \in {popup, NoPopup, Note}, pending' \subseteq pending \cup {c}
  PROVE  IndInv'
<1>. DEFINE q == [st |-> "sent", op |-> op, id |-> id, of |-> of]
<1>1. call' = [call EXCEPT ![c] = q] /\ call \in [Calls -> Calling] /\ pending \in SUBSET Calls
  BY Zenon DEF Send, IndInv, CallsInv, CallTypes
<1>2. q \in Calling
  BY UserFacts, Zenon DEF Calling
<1>3. q.st = "sent" /\ q.op = op /\ q.id = id /\ q.of = of
  OBVIOUS
<1>. HIDE DEF q
<1>4. call'[c] = q /\ \A d \in Calls \ {c} : call'[d] = call[d]
  BY <1>1, Zenon
<1>5. CallTypes'
  BY <1>1, <1>2, Zenon DEF CallTypes
<1>6. CallInv(c)'
  <2>1. used' = used
    BY Zenon DEF table
  <2>. QED  BY <1>3, <1>4, <2>1, Zenon DEF CallInv
<1>7. ASSUME NEW d \in Calls, d # c PROVE CallInv(d)'
  <2>1. CallInv(d)
    BY Zenon DEF IndInv, CallsInv
  <2>2. call'[d] = call[d] /\ (d \in pending' => d \in pending)
    BY <1>4, <1>7, Zenon
  <2>. QED  BY <2>1, <2>2, Zenon DEF CallInv, table
<1>8. TableInv'
  BY TableFrame, Zenon
<1>9. ViewTypes'
  <2>1. ViewTypes
    BY Zenon DEF IndInv, ViewInv
  <2>2. popup' \in Popup
    BY <2>1, PopupFacts, Zenon DEF ViewTypes
  <2>3. /\ list' = list /\ known' = known /\ stale' = stale /\ fetch' = fetch /\ answer' = answer
        /\ on' = on /\ selected' = selected /\ match' = match /\ current' = current
        /\ refreshing' = refreshing /\ modal' = modal /\ formOf' = formOf /\ deleting' = deleting /\ gone' = gone
    BY Zenon DEF query, view
  <2>. QED  BY <2>1, <2>2, <2>3, Zenon DEF ViewTypes
<1>10. ViewKnown' /\ GoneInv' /\ FormInv' /\ PopupInv'
  BY PopupFacts, Zenon DEF IndInv, ViewInv, ViewKnown, GoneInv, FormInv, PopupInv, table, query, view
<1>. QED  BY <1>5, <1>6, <1>7, <1>8, <1>9, <1>10, Zenon DEF IndInv, ViewInv, CallsInv

LEMMA ActInv == ASSUME IndInv, NEW c \in Calls, Act(c) PROVE IndInv'
<1>1. PICK op \in page.direct : Send(c, op, selected, None)
  BY Zenon DEF Act
<1>2. op \in {"start", "reset"} /\ op \in Ops
  BY <1>1, PageFacts, Zenon DEF IndInv, TableInv, TableTypes, Ops
<1>3. selected \in used \cup {None} /\ None \in Ids \cup {None}
  BY UserFacts, Zenon
<1>. QED  BY <1>1, <1>2, <1>3, SendInv, Zenon DEF Act, boxes

LEMMA ConfirmInv == ASSUME IndInv, NEW c \in Calls, Confirm(c) PROVE IndInv'
<1>1. popup.kind \in {"delete", "abort"} /\ popup.kind \in Ops
  BY PageFacts, Zenon DEF Confirm, IndInv, TableInv, TableTypes, Ops
<1>2. popup.id \in used \cup {None} /\ popup.id # None /\ None \in Ids \cup {None}
  BY <1>1, UserFacts, ListAssumption, Zenon
<1>. QED  BY <1>1, <1>2, SendInv, Zenon DEF Confirm

LEMMA ConfirmBoxInv == ASSUME IndInv, NEW c \in Calls, ConfirmBox(c) PROVE IndInv'
<1>1. selected \in list
  BY Zenon DEF ConfirmBox, DialogShown
<1>2. selected \in used \cup {None} /\ selected # None /\ None \in Ids \cup {None} /\ "delete" \in Ops
  BY <1>1, UserFacts, ListAssumption, Zenon DEF Ops
<1>. QED  BY <1>2, SendInv, Zenon DEF ConfirmBox, boxes

LEMMA SubmitFormInv == ASSUME IndInv, NEW c \in Calls, SubmitForm(c) PROVE IndInv'
<1>. DEFINE op == IF popup.id = None THEN "create" ELSE "update"
<1>1. op \in Ops /\ op # "delete"
  BY Zenon DEF Ops
<1>2. popup.id \in used \cup {None} /\ popup.id \in Ids \cup {None}
  BY UserFacts, Zenon
<1>3. Send(c, op, popup.id, popup.id)
  BY Zenon DEF SubmitForm
<1>. HIDE DEF op
<1>. QED  BY <1>1, <1>2, <1>3, SendInv, Zenon DEF SubmitForm

(* The form holds the values of the row that the update is addressed to.   *)
LEMMA SubmitInv == ASSUME IndInv, NEW c \in Calls, Submit(c) PROVE IndInv'
<1>1. CASE modal = "create"
  <2>1. Send(c, "create", None, None) /\ None \in used \cup {None} /\ None \in Ids \cup {None} /\ "create" \in Ops
    BY <1>1, Zenon DEF Submit, Ops
  <2>. QED  BY <2>1, SendInv, Zenon DEF Submit, boxes
<1>2. CASE modal = "edit"
  <2>1. Send(c, "update", selected, formOf) /\ "update" \in Ops
    BY <1>2, Zenon DEF Submit, Ops
  <2>2. selected \in used \cup {None} /\ formOf \in Ids \cup {None} /\ selected \in {formOf, None}
    BY <1>2, UserFacts, Zenon
  <2>. QED  BY <2>1, <2>2, SendInv, Zenon DEF Submit, boxes
<1>. QED  BY <1>1, <1>2, Zenon DEF Submit

LEMMA QuickTestInv == ASSUME IndInv, NEW c \in Calls, QuickTest(c) PROVE IndInv'
<1>1. None \in used \cup {None} /\ None \in Ids \cup {None} /\ "test-source" \in Ops
  BY Zenon DEF Ops
<1>. QED  BY <1>1, SendInv, Zenon DEF QuickTest

-----------------------------------------------------------------------------
(* The server.  The table gets new rows behind the others or loses some,   *)
(* and a deletion succeeds only when the row is not there afterwards.      *)
LEMMA TableStepInv ==
  ASSUME IndInv, UNCHANGED <<page, query, refreshing, view, boxes, pending, gone>>,
         TableTypes', TableKnown', OwnValues', used \subseteq used', rows' \cap used \subseteq rows,
         call' \in [Calls -> Calling],
         \A c \in Calls : /\ call'[c].id = call[c].id /\ call'[c].of = call[c].of
                          /\ call'[c].op \in {call[c].op, "test-target"}
                          /\ call[c].st # "free" => call'[c].st # "free"
                          /\ call'[c].op = "delete" /\ call'[c].st = "ok" =>
                               call[c].st = "ok" \/ call[c].id \notin rows'
  PROVE  IndInv'
<1>1. TableInv'
  BY DEF TableInv
<1>2. ViewTypes'
  BY Zenon DEF IndInv, ViewInv, ViewTypes, query, view, boxes
<1>3. ViewKnown'
  BY Zenon DEF IndInv, ViewInv, ViewKnown, query, view, boxes
<1>4. GoneInv' /\ FormInv' /\ PopupInv'
  BY Zenon DEF IndInv, ViewInv, ViewKnown, GoneInv, FormInv, PopupInv, query, view, boxes
<1>5. CallTypes'
  BY Zenon DEF IndInv, CallsInv, CallTypes
<1>6. ASSUME NEW c \in Calls PROVE CallInv(c)'
  <2>1. CallInv(c)
    BY Zenon DEF IndInv, CallsInv
  <2>2. /\ call'[c].id = call[c].id /\ call'[c].of = call[c].of
        /\ call'[c].op \in {call[c].op, "test-target"}
        /\ call[c].st # "free" => call'[c].st # "free"
        /\ call'[c].op = "delete" /\ call'[c].st = "ok" => call[c].st = "ok" \/ call[c].id \notin rows'
    BY Zenon
  <2>3. call'[c].op = "delete" => /\ call'[c].id # None
                                  /\ call'[c].st = "ok" => call'[c].id \notin rows'
    <3> SUFFICES ASSUME call'[c].op = "delete"
                 PROVE  call'[c].id # None /\ (call'[c].st = "ok" => call'[c].id \notin rows')
      BY Zenon
    <3>1. call[c].op = "delete"
      BY <2>2, Zenon
    <3>2. call[c].id \in used /\ (call[c].st = "ok" => call[c].id \notin rows)
      BY <2>1, <3>1, Zenon DEF CallInv
    <3>. QED  BY <2>1, <2>2, <3>1, <3>2, Zenon DEF CallInv
  <2>4. call'[c].op = "update" => call'[c].id \in {call'[c].of, None}
    BY <2>1, <2>2, Zenon DEF CallInv
  <2>. QED  BY <2>1, <2>2, <2>3, <2>4, Zenon DEF CallInv
<1>. QED  BY <1>1, <1>2, <1>3, <1>4, <1>5, <1>6 DEF IndInv, ViewInv, CallsInv

(* What a reply changes of a request.                                      *)
LEMMA ReplyFacts ==
  ASSUME call \in [Calls -> Calling], NEW c \in Calls, NEW e \in {"ok", "failed"}, Reply(c, e)
  PROVE  /\ call' \in [Calls -> Calling]
         /\ \A d \in Calls : /\ call'[d].id = call[d].id /\ call'[d].of = call[d].of /\ call'[d].op = call[d].op
                             /\ d = c => call'[d].st = e
                             /\ d # c => call'[d].st = call[d].st
<1>1. call[c] \in Calling /\ call' = [call EXCEPT ![c] = [call[c] EXCEPT !.st = e]]
  BY Zenon DEF Reply
<1>2. [call[c] EXCEPT !.st = e] \in Calling
  BY <1>1, Zenon DEF Calling
<1>3. LET q == [call[c] EXCEPT !.st = e]
      IN  q.id = call[c].id /\ q.of = call[c].of /\ q.op = call[c].op /\ q.st = e
  BY <1>1, SMT DEF Calling
<1>. DEFINE q == [call[c] EXCEPT !.st = e]
<1>4. q.id = call[c].id /\ q.of = call[c].of /\ q.op = call[c].op /\ q.st = e
  BY <1>3
<1>5. call' = [call EXCEPT ![c] = q] /\ q \in Calling
  BY <1>1, <1>2
<1>. HIDE DEF q
<1>6. call'[c] = q /\ \A d \in Calls \ {c} : call'[d] = call[d]
  BY <1>5, Zenon
<1>. QED  BY <1>4, <1>5, <1>6, Zenon

LEMMA ReplyStepInv ==
  ASSUME IndInv, UNCHANGED <<page, query, refreshing, view, boxes, pending, gone>>,
         TableTypes', TableKnown', OwnValues', used \subseteq used', rows' \cap used \subseteq rows,
         NEW c \in Calls, NEW e \in {"ok", "failed"}, Reply(c, e),
         call[c].op = "delete" /\ e = "ok" => call[c].id \notin rows'
  PROVE  IndInv'
<1>1. call \in [Calls -> Calling]
  BY Zenon DEF IndInv, CallsInv, CallTypes
<1>2. /\ call' \in [Calls -> Calling]
      /\ \A d \in Calls : /\ call'[d].id = call[d].id /\ call'[d].of = call[d].of /\ call'[d].op = call[d].op
                          /\ d = c => call'[d].st = e
                          /\ d # c => call'[d].st = call[d].st
  BY <1>1, ReplyFacts, Zenon
<1>3. ASSUME NEW d \in Calls
      PROVE  /\ call'[d].id = call[d].id /\ call'[d].of = call[d].of
             /\ call'[d].op \in {call[d].op, "test-target"}
             /\ call[d].st # "free" => call'[d].st # "free"
             /\ call'[d].op = "delete" /\ call'[d].st = "ok" =>
                  call[d].st = "ok" \/ call[d].id \notin rows'
  BY <1>2, Zenon
<1>. QED  BY <1>2, <1>3, TableStepInv, Zenon

LEMMA TableStays ==
  ASSUME IndInv
  PROVE  TableTypes /\ TableKnown /\ OwnValues /\ rows \in SUBSET Ids /\ used \in SUBSET Ids /\ rows \subseteq used
  BY Zenon DEF IndInv, TableInv, TableTypes, TableKnown

LEMMA DeletedInv ==
  ASSUME IndInv, NEW c \in Calls, Deleted(c), UNCHANGED <<page, query, refreshing, view, boxes, pending, gone>>
  PROVE  IndInv'
<1>. DEFINE e == IF call[c].id \in rows \/ page.lenient THEN "ok" ELSE "failed"
<1>1. e \in {"ok", "failed"} /\ Reply(c, e)
  BY Zenon DEF Deleted
<1>. HIDE DEF e
<1>2. rows' = rows \ {call[c].id} /\ UNCHANGED <<used, owner>>
  BY Zenon DEF Deleted
<1>3. TableTypes' /\ TableKnown' /\ OwnValues'
  BY <1>2, TableStays, Zenon DEF TableTypes, TableKnown, Numbered, OwnValues
<1>. QED  BY <1>1, <1>2, <1>3, ReplyStepInv, Zenon

(* A new row has its own values.                                           *)
LEMMA NewRowTable ==
  ASSUME IndInv, used # Ids, page' = page, NEW i, i = Cardinality(used) + 1,
         rows' = rows \cup {i}, used' = used \cup {i}, owner' = [owner EXCEPT ![i] = i]
  PROVE  TableTypes' /\ TableKnown' /\ OwnValues' /\ used \subseteq used' /\ rows' \cap used \subseteq rows
<1>1. i \in Ids \ used /\ used \cup {i} = 1..i
  BY NewRow, TableStays, Zenon DEF TableKnown
<1>2. i \in 0..MaxId
  BY <1>1, ListAssumption, SMT DEF Ids
<1>3. TableTypes'
  BY <1>1, TableStays, Zenon DEF TableTypes
<1>4. TableKnown'
  BY <1>1, <1>2, TableStays, Zenon DEF TableKnown, Numbered
<1>5. ASSUME NEW j \in used' PROVE owner'[j] = j
  <2>1. j \in Ids /\ owner \in [Ids -> Ids \cup {None}]
    BY <1>1, TableStays, Zenon DEF TableTypes
  <2>2. CASE j = i
    BY <2>1, <2>2, Zenon
  <2>3. CASE j # i
    BY <2>1, <2>3, TableStays, Zenon DEF OwnValues
  <2>. QED  BY <2>2, <2>3
<1>6. used \subseteq used' /\ rows' \cap used \subseteq rows
  BY <1>1, Zenon
<1>. QED  BY <1>3, <1>4, <1>5, <1>6 DEF OwnValues

LEMMA CreatedInv ==
  ASSUME IndInv, NEW c \in Calls, Created(c), UNCHANGED <<page, query, refreshing, view, boxes, pending, gone>>
  PROVE  IndInv'
<1>. DEFINE i == Cardinality(used) + 1
<1>1. rows' = rows \cup {i} /\ used' = used \cup {i} /\ owner' = [owner EXCEPT ![i] = i] /\ used # Ids
  BY Zenon DEF Created
<1>2. TableTypes' /\ TableKnown' /\ OwnValues' /\ used \subseteq used' /\ rows' \cap used \subseteq rows
  BY <1>1, NewRowTable, Zenon
<1>3. Reply(c, "ok") /\ call[c].op # "delete"
  BY Zenon DEF Created
<1>. QED  BY <1>2, <1>3, ReplyStepInv, Zenon

(* An update writes the values of the row that it is addressed to.         *)
LEMMA UpdatedInv ==
  ASSUME IndInv, NEW c \in Calls, Updated(c), UNCHANGED <<page, query, refreshing, view, boxes, pending, gone>>
  PROVE  IndInv'
<1>. DEFINE e == IF call[c].id \in rows \/ page.lenient THEN "ok" ELSE "failed"
<1>1. e \in {"ok", "failed"} /\ Reply(c, e)
  BY Zenon DEF Updated
<1>. HIDE DEF e
<1>2. call[c].op = "update" /\ UNCHANGED <<rows, used>>
      /\ owner' = [i \in Ids |-> IF i = call[c].id /\ i \in rows THEN call[c].of ELSE owner[i]]
  BY Zenon DEF Updated
<1>3. call[c].of \in Ids \cup {None}
  <2>1. call[c] \in Calling
    BY Zenon DEF IndInv, CallsInv, CallTypes
  <2>. QED  BY <2>1, SMT DEF Calling
<1>4. call[c].id \in {call[c].of, None}
  BY <1>2, Zenon DEF IndInv, CallsInv, CallInv
<1>5. TableTypes'
  <2>1. ASSUME NEW i \in Ids
        PROVE  (IF i = call[c].id /\ i \in rows THEN call[c].of ELSE owner[i]) \in Ids \cup {None}
    BY <1>3, TableStays, Zenon DEF TableTypes
  <2>2. owner' \in [Ids -> Ids \cup {None}]
    BY <1>2, <2>1, Zenon
  <2>. QED  BY <1>2, <2>2, TableStays, Zenon DEF TableTypes
<1>6. TableKnown'
  BY <1>2, TableStays, Zenon DEF TableKnown, Numbered
<1>7. ASSUME NEW i \in used' PROVE owner'[i] = i
  <2>1. i \in Ids /\ i \in used /\ i # None /\ owner[i] = i
    BY <1>2, TableStays, ListAssumption, Zenon DEF OwnValues
  <2>2. owner'[i] = IF i = call[c].id /\ i \in rows THEN call[c].of ELSE owner[i]
    BY <1>2, <2>1, Zenon
  <2>. QED  BY <1>4, <2>1, <2>2, Zenon
<1>8. OwnValues'
  BY <1>7 DEF OwnValues
<1>. QED  BY <1>1, <1>2, <1>5, <1>6, <1>8, ReplyStepInv, Zenon

LEMMA PerformedInv ==
  ASSUME IndInv, NEW c \in Calls, Performed(c), UNCHANGED <<page, query, refreshing, view, boxes, pending, gone>>
  PROVE  IndInv'
<1>1. Reply(c, "ok") /\ call[c].op # "delete" /\ UNCHANGED table
  BY Zenon DEF Performed
<1>2. TableTypes' /\ TableKnown' /\ OwnValues'
  BY <1>1, TableStays, Zenon DEF table, TableTypes, TableKnown, Numbered, OwnValues
<1>. QED  BY <1>1, <1>2, ReplyStepInv, Zenon DEF table

LEMMA ServeInv == ASSUME IndInv, NEW c \in Calls, Serve(c) PROVE IndInv'
  BY DeletedInv, CreatedInv, UpdatedInv, PerformedInv, Zenon DEF Serve

LEMMA CallFailsInv == ASSUME IndInv, NEW c \in Calls, CallFails(c) PROVE IndInv'
<1>1. Reply(c, "failed") /\ UNCHANGED table
  BY Zenon DEF CallFails
<1>2. TableTypes' /\ TableKnown' /\ OwnValues'
  BY <1>1, TableStays, Zenon DEF CallFails, table, TableTypes, TableKnown, Numbered, OwnValues
<1>. QED  BY <1>1, <1>2, ReplyStepInv, Zenon DEF CallFails, table

LEMMA OthersChangeInv == ASSUME IndInv, OthersChange PROVE IndInv'
<1>1. TableTypes' /\ TableKnown' /\ OwnValues' /\ used \subseteq used' /\ rows' \cap used \subseteq rows
  <2>. DEFINE i == Cardinality(used) + 1
  <2>1. CASE used # Ids /\ rows' = rows \cup {i} /\ used' = used \cup {i} /\ owner' = [owner EXCEPT ![i] = i]
    BY <2>1, NewRowTable, Zenon DEF OthersChange
  <2>2. ASSUME NEW j \in rows, rows' = rows \ {j}, UNCHANGED <<used, owner>>
        PROVE  TableTypes' /\ TableKnown' /\ OwnValues' /\ used \subseteq used' /\ rows' \cap used \subseteq rows
    BY <2>2, TableStays, Zenon DEF OthersChange, TableTypes, TableKnown, Numbered, OwnValues
  <2>. QED  BY <2>1, <2>2, Zenon DEF OthersChange
<1>2. call' = call /\ call \in [Calls -> Calling]
  BY Zenon DEF OthersChange, IndInv, CallsInv, CallTypes
<1>3. \A c \in Calls : /\ call'[c].id = call[c].id /\ call'[c].of = call[c].of
                       /\ call'[c].op \in {call[c].op, "test-target"}
                       /\ call[c].st # "free" => call'[c].st # "free"
                       /\ call'[c].op = "delete" /\ call'[c].st = "ok" =>
                            call[c].st = "ok" \/ call[c].id \notin rows'
  BY <1>2, Zenon
<1>. QED  BY <1>1, <1>2, <1>3, TableStepInv, Zenon DEF OthersChange

(* The second half of a quick test.                                        *)
LEMMA TestGoesOnInv == ASSUME IndInv, NEW c \in Calls, TestGoesOn(c) PROVE IndInv'
<1>. DEFINE q == [call[c] EXCEPT !.op = "test-target", !.st = "sent"]
<1>1. call \in [Calls -> Calling] /\ call[c] \in Calling
  BY Zenon DEF IndInv, CallsInv, CallTypes
<1>2. call' = [call EXCEPT ![c] = q]
  BY Zenon DEF TestGoesOn
<1>3. q \in Calling
  BY <1>1, Zenon DEF Calling, Ops
<1>4. q.id = call[c].id /\ q.of = call[c].of /\ q.op = "test-target" /\ q.st = "sent"
  BY <1>1, SMT DEF Calling
<1>. HIDE DEF q
<1>5. call'[c] = q /\ \A d \in Calls \ {c} : call'[d] = call[d]
  BY <1>1, <1>2, Zenon
<1>6. call' \in [Calls -> Calling]
  BY <1>1, <1>2, <1>3, Zenon
<1>7. ASSUME NEW d \in Calls
      PROVE  /\ call'[d].id = call[d].id /\ call'[d].of = call[d].of
             /\ call'[d].op \in {call[d].op, "test-target"}
             /\ call[d].st # "free" => call'[d].st # "free"
             /\ call'[d].op = "delete" /\ call'[d].st = "ok" =>
                  call[d].st = "ok" \/ call[d].id \notin rows'
  BY <1>4, <1>5, Zenon
<1>8. TableTypes' /\ TableKnown' /\ OwnValues'
  BY TableStays, Zenon DEF TestGoesOn, table, TableTypes, TableKnown, Numbered, OwnValues
<1>. QED  BY <1>6, <1>7, <1>8, TableStepInv, Zenon DEF TestGoesOn, table

-----------------------------------------------------------------------------
(* The answers.  They move the selection to no row only.                   *)
LEMMA DoneCalls ==
  ASSUME IndInv, UNCHANGED <<page, table>>, NEW c \in Calls, Done(c) PROVE CallsInv'
<1>1. call \in [Calls -> Calling] /\ pending \in SUBSET Calls
  BY Zenon DEF IndInv, CallsInv, CallTypes
<1>2. Free \in Calling /\ Free.op = "none" /\ Free.id = None
  <2>1. Free \in Calling
    BY Zenon DEF Free, Calling, Ops
  <2>. QED  BY <2>1, SMT DEF Free
<1>3. call'[c] = Free /\ \A d \in Calls \ {c} : call'[d] = call[d]
  BY <1>1, Zenon DEF Done
<1>4. CallTypes'
  BY <1>1, <1>2, Zenon DEF Done, CallTypes
<1>5. ASSUME NEW d \in Calls PROVE CallInv(d)'
  <2>1. CallInv(d)
    BY Zenon DEF IndInv, CallsInv
  <2>2. CASE d = c
    BY <1>2, <1>3, <2>2, Zenon DEF CallInv, Done
  <2>3. CASE d # c
    <3>1. call'[d] = call[d] /\ used' = used /\ rows' = rows /\ (d \in pending' => d \in pending)
      BY <1>3, <2>3, Zenon DEF Done, table
    <3>. QED  BY <2>1, <3>1, Zenon DEF CallInv
  <2>. QED  BY <2>2, <2>3
<1>. QED  BY <1>4, <1>5 DEF CallsInv

LEMMA AnswerInv ==
  ASSUME IndInv, NEW c \in Calls, Done(c),
         UNCHANGED <<page, table, list, known, refreshing, on, match, current>>,
         stale' \in BOOLEAN, fetch' \in {fetch, "asked"}, answer' \in {answer, {}},
         selected' \in {selected, None}, popup' \in {popup, NoPopup, Note}, deleting' \in BOOLEAN,
         \/ modal' = modal /\ formOf' = formOf
         \/ modal' = "none" /\ formOf' = None,
         \/ gone' = gone
         \/ gone' = gone \cup {call[c].id} /\ fetch' = "asked" /\ call[c].id \in used \ rows
  PROVE  IndInv'
<1>1. TableInv'
  BY TableFrame, Zenon
<1>2. CallsInv'
  BY DoneCalls, Zenon
<1>3. used \subseteq Ids
  BY TableStays
<1>4. ViewTypes'
  <2>1. gone' \in SUBSET Ids
    <3>1. gone \in SUBSET Ids
      BY Zenon DEF IndInv, ViewInv, ViewTypes
    <3>2. CASE gone' = gone
      BY <3>1, <3>2
    <3>3. CASE gone' = gone \cup {call[c].id} /\ call[c].id \in used \ rows
      BY <1>3, <3>1, <3>3, Zenon
    <3>. QED  BY <3>2, <3>3, Zenon
  <2>2. modal' \in Modals /\ formOf' \in Ids \cup {None}
    BY Zenon DEF IndInv, ViewInv, ViewTypes, Modals
  <2>3. fetch' \in {"no", "asked", "served"} /\ answer' \in SUBSET Ids /\ selected' \in Ids \cup {None}
    BY Zenon DEF IndInv, ViewInv, ViewTypes
  <2>4. popup' \in Popup
    BY PopupFacts, Zenon DEF IndInv, ViewInv, ViewTypes
  <2>. QED  BY <2>1, <2>2, <2>3, <2>4, Zenon DEF IndInv, ViewInv, ViewTypes
<1>5. ViewKnown'
  BY PopupFacts, Zenon DEF IndInv, ViewInv, ViewKnown, table
<1>6. GoneInv'
  BY Zenon DEF IndInv, ViewInv, GoneInv, table
<1>7. FormInv' /\ PopupInv'
  BY PopupFacts, Zenon DEF IndInv, ViewInv, FormInv, PopupInv
<1>. QED  BY <1>1, <1>2, <1>4, <1>5, <1>6, <1>7 DEF IndInv, ViewInv

LEMMA InvalidateFacts ==
  ASSUME IndInv, Invalidate
  PROVE  /\ stale' \in BOOLEAN /\ fetch' \in {fetch, "asked"} /\ answer' \in {answer, {}}
         /\ UNCHANGED <<list, known>> /\ (on => fetch' = "asked")
  BY Zenon DEF Invalidate, IndInv, ViewInv, ViewTypes

(* The row is gone, and so is the request that might have seen it.         *)
LEMMA DeleteSucceedsInv == ASSUME IndInv, NEW c \in Calls, DeleteSucceeds(c) PROVE IndInv'
<1>1. call[c].id \in used \ rows
  BY Zenon DEF DeleteSucceeds, IndInv, CallsInv, CallInv
<1>2. /\ stale' \in BOOLEAN /\ fetch' \in {fetch, "asked"} /\ answer' \in {answer, {}}
      /\ UNCHANGED <<list, known>> /\ (on => fetch' = "asked")
  BY InvalidateFacts, Zenon DEF DeleteSucceeds
<1>3. gone' = gone \/ (gone' = gone \cup {call[c].id} /\ fetch' = "asked" /\ call[c].id \in used \ rows)
  <2>1. CASE on
    BY <1>1, <1>2, <2>1, Zenon DEF DeleteSucceeds
  <2>2. CASE ~on
    BY <2>2, Zenon DEF DeleteSucceeds
  <2>. QED  BY <2>1, <2>2
<1>. QED  BY <1>2, <1>3, AnswerInv, Zenon DEF DeleteSucceeds

LEMMA JobActionSucceedsInv == ASSUME IndInv, NEW c \in Calls, JobActionSucceeds(c) PROVE IndInv'
  BY AnswerInv, UserFacts, Zenon DEF JobActionSucceeds, query, view

LEMMA SaveSucceedsInv == ASSUME IndInv, NEW c \in Calls, SaveSucceeds(c) PROVE IndInv'
<1>1. /\ stale' \in BOOLEAN /\ fetch' \in {fetch, "asked"} /\ answer' \in {answer, {}}
      /\ UNCHANGED <<list, known>>
  BY InvalidateFacts, Zenon DEF SaveSucceeds
<1>. QED  BY <1>1, AnswerInv, UserFacts, Zenon DEF SaveSucceeds, view

LEMMA TestEndsInv == ASSUME IndInv, NEW c \in Calls, TestEnds(c) PROVE IndInv'
  BY AnswerInv, UserFacts, Zenon DEF TestEnds, query, view

LEMMA ActionFailsInv == ASSUME IndInv, NEW c \in Calls, ActionFails(c) PROVE IndInv'
<1>1. popup' \in {popup, NoPopup, Note}
  BY Zenon DEF ActionFails
<1>2. deleting' \in BOOLEAN
  BY UserFacts, Zenon DEF ActionFails
<1>. QED  BY <1>1, <1>2, AnswerInv, UserFacts, Zenon DEF ActionFails, query, view

-----------------------------------------------------------------------------
LEMMA NextInv == IndInv /\ [Next]_vars => IndInv'
<1> SUFFICES ASSUME IndInv, [Next]_vars PROVE IndInv'
  OBVIOUS
<1>1. CASE UserStep
  <2>1. ASSUME NEW S \in Terms, Search(S) PROVE IndInv'
    BY <2>1, SearchInv
  <2>2. ASSUME NEW i \in Ids, SelectRow(i) PROVE IndInv'
    BY <2>2, SelectRowInv
  <2>3. ASSUME NEW op \in Ops, Ask(op) PROVE IndInv'
    BY <2>3, AskInv
  <2>4. ASSUME NEW m \in Modals, OpenModal(m) PROVE IndInv'
    BY <2>4, OpenModalInv
  <2>. QED  BY <1>1, <2>1, <2>2, <2>3, <2>4, ReturnInv, LeaveInv, TurnPageInv, RefreshInv, CancelBoxInv, DismissInv,
               OpenFormInv, CloseModalInv, InformInv, Zenon DEF UserStep
<1>2. CASE QueryStep
  BY <1>2, PollInv, ServeListInv, ListArrivesInv, ListFailsInv, RefreshToastInv, Zenon DEF QueryStep
<1>3. ASSUME NEW c \in Calls, UserCall(c) PROVE IndInv'
  BY <1>3, ActInv, ConfirmInv, ConfirmBoxInv, SubmitFormInv, SubmitInv, QuickTestInv, Zenon DEF UserCall
<1>4. ASSUME NEW c \in Calls, ServerStep(c) PROVE IndInv'
  BY <1>4, ServeInv, CallFailsInv, Zenon DEF ServerStep
<1>5. ASSUME NEW c \in Calls, AnswerStep(c) PROVE IndInv'
  BY <1>5, DeleteSucceedsInv, JobActionSucceedsInv, SaveSucceedsInv, TestGoesOnInv, TestEndsInv, ActionFailsInv,
     Zenon DEF AnswerStep
<1>6. CASE UNCHANGED vars
  <2>1. UNCHANGED <<page, table, query, refreshing, view, boxes, call, pending, gone>>
    BY <1>6, Zenon DEF vars
  <2>2. TableInv' /\ CallsInv'
    BY <2>1, TableFrame, CallsFrame, Zenon
  <2>3. ViewInv'
    <3>1. ViewTypes'
      BY <2>1, Zenon DEF query, view, boxes, IndInv, ViewInv, ViewTypes
    <3>2. ViewKnown'
      BY <2>1, Zenon DEF query, view, boxes, table, IndInv, ViewInv, ViewKnown
    <3>3. GoneInv' /\ FormInv' /\ PopupInv'
      BY <2>1, Zenon DEF query, view, boxes, table, IndInv, ViewInv, GoneInv, FormInv, PopupInv
    <3>. QED  BY <3>1, <3>2, <3>3 DEF ViewInv
  <2>. QED  BY <2>2, <2>3 DEF IndInv
<1>. QED  BY <1>1, <1>2, <1>3, <1>4, <1>5, <1>6, OthersChangeInv, Zenon DEF Next

(* The inductive invariant holds in every reachable state.                 *)
THEOREM IndInvHolds == Spec => []IndInv
  BY InitInv, NextInv, PTL DEF Spec

(* Types, and a mutation that is pending has a request under way.          *)
THEOREM TypeCorrect == Spec => []TypeOK
<1>1. IndInv => TypeOK
  BY Zenon DEF IndInv, TableInv, TableTypes, ViewInv, ViewTypes, PopupInv, CallsInv, CallTypes, CallInv, TypeOK,
     Calling, Popup
<1>. QED  BY <1>1, IndInvHolds, PTL

(* handleSubmit never writes the values of one row over another one.       *)
THEOREM ValuesStayOwn == Spec => []OwnValues
<1>1. IndInv => OwnValues
  BY DEF IndInv, TableInv
<1>. QED  BY <1>1, IndInvHolds, PTL

(* A row that was reported deleted does not come back into the list.       *)
THEOREM DeletedStaysAway == Spec => NoGhosts
<1>1. IndInv /\ [Next]_vars => [list' # list => list' \cap gone = {}]_vars
  <2> SUFFICES ASSUME IndInv, Next, list' # list PROVE list' \cap gone = {}
    BY Zenon DEF vars, query
  <2>1. ListArrives
    BY Zenon DEF Next, UserStep, QueryStep, UserCall, ServerStep, AnswerStep, query,
       Return, Leave, TurnPage, Refresh, Search, SelectRow, Ask, OpenModal, CancelBox, Dismiss, OpenForm, CloseModal,
       Inform, Poll, ServeList, ListFails, RefreshToast, Act, Confirm, ConfirmBox, SubmitForm, Submit, QuickTest,
       Serve, CallFails, OthersChange, DeleteSucceeds, JobActionSucceeds, SaveSucceeds, TestGoesOn, TestEnds,
       ActionFails, Invalidate
  <2>. QED  BY <2>1, Zenon DEF ListArrives, IndInv, ViewInv, GoneInv
<1>. QED  BY <1>1, IndInvHolds, PTL DEF Spec, NoGhosts

(* Pagination shows every matching row on one page, and on one only.       *)
THEOREM PagesCorrect == Spec => []PagesCover
<1>1. IndInv => PagesCover
  BY CoverLemma, Zenon DEF IndInv, ViewInv, ViewTypes
<1>. QED  BY <1>1, IndInvHolds, PTL
=============================================================================
