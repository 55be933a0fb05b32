--------------------------- MODULE ScreensProofs ---------------------------
(***************************************************************************)
(* Proofs about the pages of Screens, for every number of rows, requests,  *)
(* clicks and changes: their types, and what a page never shows.           *)
(*                                                                         *)
(* Most of the seventy actions differ only in their guards.  What they do  *)
(* to a page is one of eight kinds (Step, below), and the invariant        *)
(* is proved for each kind.                                                *)
(***************************************************************************)
EXTENDS Screens, TLAPS

-----------------------------------------------------------------------------
(* The shapes of the variables. *)

(* The pages that show what they were asked about, or nothing.             *)
Selective == Reports \cup {"card"}

Request == [step : {"free", "asked", "served"}, about : Subjects,
            rows : [Rows -> RowType], first : BOOLEAN]

Action == [step : {"idle", "sent", "done", "reload"}, kind : Kinds \cup {None},
           row : Rows \cup {None}, about : Subjects, to : Subjects,
           draft : RowStatuses \cup {None}, result : RowType, slot : Slots \cup {0}]

Dialog == [kind : Kinds \cup {None}, row : Rows \cup {None}, about : Subjects,
           draft : RowStatuses \cup {None}]

VisitShaped ==
    /\ role \in Roles \cup {None} /\ page \in PageNames \cup {None}
    /\ page # None => role # None /\ page \in Route[role]
    /\ about \in Subjects /\ clicks \in 0..MaxClicks

ListShaped ==
    /\ list \in [about : Subjects, rows : [Rows -> RowType]]
    /\ loading \in BOOLEAN /\ failed \in BOOLEAN

NetShaped ==
    /\ loads \in [Slots -> Request]
    /\ newest \in Slots \cup {0} /\ held \in Slots \cup {0}

(* A dialog is about a row, and the form of an item holds its status.      *)
DialogFits(d) ==
    /\ d \in Dialog
    /\ d # NoDialog => d.row \in Rows /\ d.kind \in Kinds
    /\ d.kind = "edit" => d.draft \in RowStatuses

(* An action is about a row, and what it sends to the server is a status.  *)
ActFits(a) ==
    /\ a \in Action
    /\ a.step # "idle" => a.row \in Rows
    /\ a.step = "reload" <=> a.slot # 0
    /\ a.step = "sent" /\ (a.kind = "edit" \/ (a.kind = "create" /\ page = "promos"))
          => a.draft \in RowStatuses

ServerShaped ==
    /\ own \in [Rows -> 0..MaxChanges]
    /\ table \in [Rows -> RowType] /\ clock \in 0..MaxChanges

Shaped ==
    VisitShaped /\ ListShaped /\ NetShaped /\ DialogFits(dialog) /\ ActFits(act) /\ ServerShaped

(* Between two visits nothing is left of the former one.                   *)
Vacant ==
    page = None =>
        /\ list = Blank /\ loads = [s \in Slots |-> Free] /\ newest = 0
        /\ dialog = NoDialog /\ act = Idle /\ own = [r \in Rows |-> 0]

(* What a page has, was on the server before.                              *)
Dated ==
    /\ \A r \in Rows : table[r].at <= clock /\ own[r] <= table[r].at
    /\ \A r \in Rows : list.rows[r].at <= table[r].at
    /\ \A s \in Slots, r \in Rows : loads[s].rows[r].at <= table[r].at
    /\ act.step = "done" => act.result.at <= table[act.row].at

(* What a page shows, and the answer it listens to, hold the own changes.  *)
Served == newest # 0 /\ loads[newest].step = "served"

OwnKept ==
    page \in {"orders", "stock"} =>
        /\ \A r \in Rows : list.rows[r] # Absent => own[r] <= list.rows[r].at
        /\ Served => \A r \in Rows : loads[newest].rows[r] # Absent =>
                                         own[r] <= loads[newest].rows[r].at

(* The answer a page listens to is no older than what it shows.            *)
Newer ==
    page \in Numbered /\ Served =>
        \A r \in Rows : list.rows[r] # Absent /\ loads[newest].rows[r] # Absent =>
                            list.rows[r].at <= loads[newest].rows[r].at

(* It is about what the page is about, as is what it shows.                *)
AskedFor ==
    page \in Selective =>
        /\ list # Blank => list.about = about
        /\ newest # 0 => loads[newest].about = about

Inv == Shaped /\ Vacant /\ Dated /\ OwnKept /\ Newer /\ AskedFor

-----------------------------------------------------------------------------
(* The constants of the shapes. *)

(* What the operators of the pages are about is what the types say.        *)
LEMMA Names ==
  /\ None \in Subjects /\ None \notin Kinds /\ None \notin Rows
  /\ Rows \subseteq Subjects /\ Filters \subseteq Subjects
  /\ Periods \subseteq Subjects /\ Stores \subseteq Subjects
  /\ Absent \in RowType /\ Nothing \in [Rows -> RowType]
  /\ Slots \subseteq Nat /\ 1 \in Slots /\ 0 \notin Slots
  /\ MaxChanges \in Nat \ {0} /\ MaxClicks \in Nat
  <1>1. MaxChanges \in Nat \ {0} /\ MaxClicks \in Nat /\ MaxLoads \in Nat \ {0}
    BY PagesAssumption
  <1>2. Slots \subseteq Nat /\ 1 \in Slots /\ 0 \notin Slots
    BY <1>1 DEF Slots
  <1>3. Absent \in RowType
    BY <1>1 DEF Absent, RowType, RowStatuses
  <1>4. Nothing \in [Rows -> RowType]
    BY <1>3 DEF Nothing
  <1> QED BY <1>1, <1>2, <1>3, <1>4, NoneIsApart DEF Subjects

(* Nothing, nobody and nobody's request have the shape of the variables.   *)
LEMMA Blanks ==
  /\ Blank \in [about : Subjects, rows : [Rows -> RowType]]
  /\ Free \in Request /\ DialogFits(NoDialog) /\ ActFits(Idle)
  <1>1. Blank \in [about : Subjects, rows : [Rows -> RowType]]
    BY Names DEF Blank
  <1>2. Free \in Request
    BY Names DEF Free, Request
  <1>3. DialogFits(NoDialog)
    <2>1. NoDialog \in Dialog
      BY Names DEF NoDialog, Dialog
    <2>2. NoDialog.kind # "edit"
      BY NoneIsApart DEF NoDialog, Kinds, ProductDialogs
    <2> QED BY <2>1, <2>2 DEF DialogFits
  <1>4. ActFits(Idle)
    <2>1. Idle \in Action
      BY Names DEF Idle, Action
    <2> QED BY <2>1 DEF ActFits, Idle
  <1> QED BY <1>1, <1>2, <1>3, <1>4

(* The pages of a role, and the roles, have names.                         *)
LEMMA Routes ==
  /\ Roles = {"store_operator", "admin_catalog", "admin_customers", "admin_operations",
              "customer"}
  /\ \A r \in Roles : Route[r] \subseteq PageNames
  /\ None \notin Roles /\ None \notin PageNames
  /\ Manager \cup Reports \subseteq PageNames
  /\ {"stores", "products", "inventory", "promos", "customers", "card", "shop", "history",
      "details", "profile"} \subseteq PageNames
  <1>1. Roles = {"store_operator", "admin_catalog", "admin_customers", "admin_operations",
                 "customer"}
    BY DEF Roles, Route
  <1>2. \A r \in Roles : Route[r] \subseteq PageNames
    BY DEF PageNames
  <1>3. /\ Route["store_operator"] = Manager
        /\ Route["admin_catalog"] = {"stores", "products", "inventory", "promos"}
        /\ Route["admin_customers"] = {"customers", "card"}
        /\ Route["admin_operations"] = Reports
        /\ Route["customer"] = {"shop", "history", "details", "profile"}
    BY DEF Route
  <1> QED BY <1>1, <1>2, <1>3, NoneIsApart

(* The opening: nobody is there.                                           *)
LEMMA InvInit == Init => Inv
  <1> SUFFICES ASSUME Init PROVE Inv
    OBVIOUS
  <1> USE Names, Blanks, Routes
  <1>1. VisitShaped
    BY DEF Init, VisitShaped
  <1>2. ListShaped
    BY DEF Init, ListShaped
  <1>3. NetShaped
    BY DEF Init, NetShaped
  <1>4. DialogFits(dialog) /\ ActFits(act)
    BY DEF Init
  <1>5. ServerShaped
    BY DEF Init, ServerShaped
  <1>6. Vacant
    BY DEF Init, Vacant
  <1>7. Dated
    BY DEF Init, Dated, Blank, Free, Idle, Nothing, Absent
  <1>8. page = None /\ None \notin {"orders", "stock"} /\ None \notin Numbered /\ None \notin Selective
    BY DEF Init, Manager, Numbered, Reports, Selective
  <1> QED BY <1>1, <1>2, <1>3, <1>4, <1>5, <1>6, <1>7, <1>8
             DEF Shaped, OwnKept, Newer, AskedFor, Inv

-----------------------------------------------------------------------------
(* A step of the first kind: the page asks for something, gives up, opens  *)
(* or closes a dialog, starts or ends an action; nothing is listed.        *)

Asking(r) == \E a \in Subjects, first \in BOOLEAN : r = Asked(a, first)

VisitGoesOn ==
    /\ page # None /\ UNCHANGED <<role, page>>
    /\ about' \in Subjects /\ clicks' \in 0..MaxClicks

ListLeft ==
    /\ \/ list' = list \/ list' = Blank
       \/ page = "details" /\ \E a \in Subjects : list' = [list EXCEPT !.about = a]
    /\ loading' \in BOOLEAN /\ failed' \in BOOLEAN

NetAsks ==
    /\ loads' = [s \in Slots |-> loads'[s]]
    /\ \A s \in Slots : loads'[s] = loads[s] \/ loads'[s] = Free \/ Asking(loads'[s])
    /\ newest' = 0 \/ newest' = newest \/ (newest' \in Slots /\ Asking(loads'[newest']))
    /\ held' \in Slots \cup {0}

(* A page where own changes are kept in the list does that by merging.     *)
OwnTold ==
    \/ own' = own
    \/ /\ page \notin {"orders", "stock"} /\ act.step = "done"
       /\ own' = [own EXCEPT ![act.row] = act.result.at]

AsksOnly ==
    page \in Selective =>
        /\ list' = Blank \/ (list' = list /\ about' = about)
        /\ \/ newest' = 0
           \/ newest' = newest /\ about' = about /\ loads'[newest'] = loads[newest']
           \/ loads'[newest'].about = about'

ActsOn ==
    /\ DialogFits(dialog') /\ ActFits(act)'
    /\ act' = act \/ act'.step # "done"

Quiet ==
    /\ VisitGoesOn /\ ListLeft /\ NetAsks /\ OwnTold /\ AsksOnly /\ ActsOn
    /\ UNCHANGED server

(* A request that was just sent has the shape of one and lists nothing.    *)
LEMMA AskingFits ==
  ASSUME NEW r, Asking(r)
  PROVE  r \in Request /\ r.step = "asked" /\ r.rows = Nothing
  BY Names DEF Asking, Asked, Request

(* Nothing is older than the beginning.                                    *)
LEMMA NothingAt == \A r \in Rows : Nothing[r] = Absent /\ Absent.at = 0
  BY DEF Nothing, Absent

(* A page that is not told anything keeps the invariant.                   *)
LEMMA QuietShaped == Inv /\ Quiet => Shaped' /\ Vacant'
  <1> SUFFICES ASSUME Inv, Quiet PROVE Shaped' /\ Vacant'
    OBVIOUS
  <1>1. VisitShaped'
    BY DEF Inv, Shaped, VisitShaped, Quiet, VisitGoesOn
  <1>2. ListShaped'
    <2>1. list' \in [about : Subjects, rows : [Rows -> RowType]]
      BY Blanks DEF Inv, Shaped, ListShaped, Quiet, ListLeft
    <2> QED BY <2>1 DEF ListShaped, Quiet, ListLeft
  <1>3. NetShaped'
    <2>1. \A s \in Slots : loads'[s] \in Request
      BY Blanks, AskingFits DEF Inv, Shaped, NetShaped, Quiet, NetAsks
    <2>2. loads' \in [Slots -> Request]
      BY <2>1 DEF Quiet, NetAsks
    <2> QED BY <2>2 DEF Inv, Shaped, NetShaped, Quiet, NetAsks
  <1>4. DialogFits(dialog)' /\ ActFits(act)'
    BY DEF Quiet, ActsOn, DialogFits
  <1>5. ServerShaped'
    <2>1. own' \in [Rows -> 0..MaxChanges]
      <3>1. own \in [Rows -> 0..MaxChanges] /\ act \in Action
        BY DEF Inv, Shaped, ServerShaped, ActFits
      <3>2. act.result.at \in 0..MaxChanges
        BY <3>1 DEF Action, RowType
      <3> QED BY <3>1, <3>2 DEF Quiet, OwnTold
    <2> QED BY <2>1 DEF Inv, Shaped, ServerShaped, Quiet, server
  <1>6. Vacant'
    BY DEF Vacant, Quiet, VisitGoesOn
  <1> QED BY <1>1, <1>2, <1>3, <1>4, <1>5, <1>6 DEF Shaped

(* What it asks for is not there yet, so nothing is newer than the server. *)
LEMMA QuietDated == Inv /\ Quiet => Dated'
  <1> SUFFICES ASSUME Inv, Quiet PROVE Dated'
    OBVIOUS
  <1>0. UNCHANGED <<table, clock>>
    BY DEF Quiet, server
  <1>1. Dated /\ Shaped
    BY DEF Inv
  <1>2. table \in [Rows -> RowType]
    BY <1>1 DEF Shaped, ServerShaped
  <1>3. \A r \in Rows : table[r].at \in Nat /\ 0 <= table[r].at
    BY <1>2, Names DEF RowType
  <1>4. ASSUME NEW r \in Rows PROVE own'[r] <= table'[r].at
    <2>1. CASE own' = own
      BY <1>0, <1>1, <2>1 DEF Dated
    <2>2. CASE act.step = "done" /\ own' = [own EXCEPT ![act.row] = act.result.at]
      <3>1. own \in [Rows -> 0..MaxChanges]
        BY <1>1 DEF Shaped, ServerShaped
      <3>2. own'[r] = IF r = act.row THEN act.result.at ELSE own[r]
        BY <2>2, <3>1
      <3> QED BY <1>0, <1>1, <2>2, <3>2 DEF Dated
    <2> QED BY <2>1, <2>2 DEF Quiet, OwnTold
  <1>5. ASSUME NEW r \in Rows PROVE list'.rows[r].at <= table'[r].at
    <2>1. CASE list' = Blank
      BY <1>0, <1>3, <2>1, NothingAt DEF Blank
    <2>2. CASE list'.rows = list.rows
      BY <1>0, <1>1, <2>2 DEF Dated
    <2>3. list' = Blank \/ list'.rows = list.rows
      BY <1>1 DEF Quiet, ListLeft, Shaped, ListShaped
    <2> QED BY <2>1, <2>2, <2>3
  <1>6. ASSUME NEW s \in Slots, NEW r \in Rows PROVE loads'[s].rows[r].at <= table'[r].at
    <2>1. CASE loads'[s] = loads[s]
      BY <1>0, <1>1, <2>1 DEF Dated
    <2>2. CASE loads'[s].rows = Nothing
      BY <1>0, <1>3, <2>2, NothingAt
    <2>3. loads'[s] = loads[s] \/ loads'[s].rows = Nothing
      BY AskingFits DEF Quiet, NetAsks, Free
    <2> QED BY <2>1, <2>2, <2>3
  <1>7. act'.step = "done" => act'.result.at <= table'[act'.row].at
    BY <1>0, <1>1 DEF Quiet, ActsOn, Dated
  <1>8. \A r \in Rows : table'[r].at <= clock'
    BY <1>0, <1>1 DEF Dated
  <1> QED BY <1>4, <1>5, <1>6, <1>7, <1>8 DEF Dated

(* Only a request that was served before is still served.                  *)
LEMMA QuietServed ==
  ASSUME Inv, Quiet, Served'
  PROVE  Served /\ newest' = newest /\ loads'[newest'] = loads[newest]
  <1>1. newest' \in Slots
    BY DEF Served, Quiet, NetAsks, Inv, Shaped, NetShaped
  <1>2. ~Asking(loads'[newest']) /\ loads'[newest'] # Free
    BY AskingFits DEF Served, Free
  <1> QED BY <1>1, <1>2 DEF Served, Quiet, NetAsks

(* It shows what it showed or nothing, and listens to what it listened to  *)
(* or to a request that was just sent.                                     *)
LEMMA QuietTrue == Inv /\ Quiet => OwnKept' /\ Newer' /\ AskedFor'
  <1> SUFFICES ASSUME Inv, Quiet PROVE OwnKept' /\ Newer' /\ AskedFor'
    OBVIOUS
  <1>0. page' = page
    BY DEF Quiet, VisitGoesOn
  <1>1. \/ list' = list \/ \A r \in Rows : list'.rows[r] = Absent
        \/ page = "details"
    BY NothingAt DEF Quiet, ListLeft, Blank
  <1>2. OwnKept'
    <2> SUFFICES ASSUME page \in {"orders", "stock"}
                 PROVE  OwnKept'
      BY <1>0 DEF OwnKept
    <2>1. own' = own
      BY DEF Quiet, OwnTold
    <2>2. \A r \in Rows : list'.rows[r] # Absent => own'[r] <= list'.rows[r].at
      BY <1>1, <2>1 DEF Inv, OwnKept
    <2>3. Served' => \A r \in Rows : loads'[newest'].rows[r] # Absent =>
                                         own'[r] <= loads'[newest'].rows[r].at
      BY <2>1, QuietServed DEF Inv, OwnKept
    <2> QED BY <2>2, <2>3 DEF OwnKept
  <1>3. Newer'
    <2> SUFFICES ASSUME page \in Numbered, Served' PROVE Newer'
      BY <1>0 DEF Newer, Served
    <2>1. page # "details"
      BY DEF Numbered, Manager, Reports
    <2> QED BY <1>0, <1>1, <2>1, QuietServed DEF Inv, Newer
  <1>4. AskedFor'
    <2> SUFFICES ASSUME page \in Selective PROVE AskedFor'
      BY <1>0 DEF AskedFor
    <2>1. list' # Blank => list'.about = about'
      BY DEF Inv, AskedFor, Quiet, AsksOnly
    <2>2. newest' # 0 => loads'[newest'].about = about'
      BY DEF Inv, AskedFor, Quiet, AsksOnly
    <2> QED BY <2>1, <2>2 DEF AskedFor
  <1> QED BY <1>2, <1>3, <1>4

(* So the invariant holds after a step of the first kind.                  *)
LEMMA QuietKeeps == Inv /\ Quiet => Inv'
  BY QuietShaped, QuietDated, QuietTrue DEF Inv

-----------------------------------------------------------------------------
(* The second kind: the server reads the rows for a request.               *)

Listing(s) ==
    /\ loads[s].step = "asked"
    /\ loads'[s].rows \in [Rows -> RowType]
    /\ \A r \in Rows : loads'[s].rows[r] \in {table[r], Absent}
    /\ loads' = [loads EXCEPT ![s].step = "served", ![s].rows = loads'[s].rows]
    /\ UNCHANGED <<user, shown, newest, held, dialog, act, own, server>>

(* A listing changes nothing but its request.                              *)
LEMMA ListingKeeps == ASSUME Inv, NEW s \in Slots, Listing(s) PROVE Inv'
  <1> DEFINE rows == loads'[s].rows
  <1>0. /\ loads[s].step = "asked" /\ UNCHANGED <<role, page, about, clicks, list, loading, failed>>
        /\ UNCHANGED <<newest, held, dialog, act, own, table, clock>>
        /\ loads' = [loads EXCEPT ![s].step = "served", ![s].rows = rows]
        /\ rows \in [Rows -> RowType] /\ \A r \in Rows : rows[r] \in {table[r], Absent}
    BY DEF Listing, user, shown, server
  <1> HIDE DEF rows
  <1>1. loads \in [Slots -> Request] /\ newest \in Slots \cup {0}
    BY DEF Inv, Shaped, NetShaped
  <1>2. /\ loads' \in [Slots -> Request]
        /\ \A t \in Slots \ {s} : loads'[t] = loads[t]
        /\ loads'[s].rows = rows /\ loads'[s].about = loads[s].about
    BY <1>0, <1>1 DEF Request
  <1>3. Shaped'
    BY <1>0, <1>2 DEF Inv, Shaped, VisitShaped, ListShaped, NetShaped, ServerShaped, DialogFits,
                      ActFits
  <1>4. page # None
    BY <1>0 DEF Inv, Vacant, Free
  <1>5. \A r \in Rows : rows[r] # Absent => rows[r] = table[r]
    BY <1>0
  <1>6. \A r \in Rows : rows[r].at <= table[r].at
    <2>1. table \in [Rows -> RowType]
      BY DEF Inv, Shaped, ServerShaped
    <2>2. \A r \in Rows : table[r].at \in Nat
      BY <2>1, Names DEF RowType
    <2> QED BY <1>0, <2>2 DEF Absent
  <1>7. Dated'
    <2>1. \A t \in Slots, r \in Rows : loads'[t].rows[r].at <= table'[r].at
      BY <1>0, <1>2, <1>6 DEF Inv, Dated
    <2> QED BY <1>0, <2>1 DEF Inv, Dated
  <1>8. OwnKept'
    <2>1. CASE newest = s
      BY <1>0, <1>2, <1>5, <2>1 DEF Inv, OwnKept, Dated
    <2>2. CASE newest # s
      BY <1>0, <1>1, <1>2, <2>2 DEF Inv, OwnKept, Served
    <2> QED BY <2>1, <2>2
  <1>9. Newer'
    <2>1. CASE newest = s
      BY <1>0, <1>2, <1>5, <2>1 DEF Inv, Newer, Dated
    <2>2. CASE newest # s
      BY <1>0, <1>1, <1>2, <2>2 DEF Inv, Newer, Served
    <2> QED BY <2>1, <2>2
  <1>10. AskedFor'
    BY <1>0, <1>1, <1>2 DEF Inv, AskedFor
  <1>11. Vacant'
    BY <1>0, <1>4 DEF Vacant
  <1> QED BY <1>3, <1>7, <1>8, <1>9, <1>10, <1>11 DEF Inv

-----------------------------------------------------------------------------
(* The third kind: a row of the table changes, by the action of the page   *)
(* or elsewhere.                                                           *)

TableMoves(r, status) ==
    /\ page # None /\ clock < MaxChanges /\ clock' = clock + 1
    /\ table' = [table EXCEPT ![r] = Changed(status)]
    /\ UNCHANGED <<user, shown, net, dialog, own>>
    /\ \/ act' = act
       \/ /\ act.step = "sent" /\ r = act.row
          /\ act' = [act EXCEPT !.step = "done", !.result = Changed(status)]

(* The server only moves ahead of what the page shows, and an own change is*)
(* not counted as told before its answer is.                               *)
LEMMA TableMovesKeeps ==
  ASSUME Inv, NEW r \in Rows, NEW status \in RowStatuses, TableMoves(r, status)
  PROVE  Inv'
  <1>0. /\ clock < MaxChanges /\ clock' = clock + 1
        /\ table' = [table EXCEPT ![r] = Changed(status)]
        /\ UNCHANGED <<role, page, about, clicks, list, loading, failed>>
        /\ UNCHANGED <<loads, newest, held, dialog, own>>
    BY DEF TableMoves, user, shown, net
  <1>1. clock \in 0..MaxChanges /\ table \in [Rows -> RowType] /\ act \in Action
        /\ own \in [Rows -> 0..MaxChanges]
    BY DEF Inv, Shaped, ServerShaped, ActFits
  <1>2. Changed(status) \in RowType /\ Changed(status).at = clock + 1
    BY <1>0, <1>1, Names DEF Changed, RowType
  <1>3. table' \in [Rows -> RowType] /\ clock' \in 0..MaxChanges
    BY <1>0, <1>1, <1>2, Names
  <1>4. \A x \in Rows : table[x].at <= table'[x].at /\ table'[x].at <= clock' /\ table[x].at \in Nat
    <2> SUFFICES ASSUME NEW x \in Rows
                 PROVE  table[x].at <= table'[x].at /\ table'[x].at <= clock' /\ table[x].at \in Nat
      OBVIOUS
    <2>1. table[x].at <= clock /\ table[x].at \in Nat /\ clock \in Nat
      BY <1>1, Names DEF Inv, Dated, RowType
    <2>2. CASE x = r
      BY <1>0, <1>1, <1>2, <2>1, <2>2
    <2>3. CASE x # r
      BY <1>0, <1>1, <2>1, <2>3
    <2> QED BY <2>2, <2>3
  <1>5. ActFits(act)'
    <2>1. CASE act' = act
      BY <1>0, <2>1 DEF Inv, Shaped, ActFits
    <2>2. CASE /\ act.step = "sent"
               /\ act' = [act EXCEPT !.step = "done", !.result = Changed(status)]
      <3>1. act' \in Action /\ act'.row = act.row /\ act'.slot = act.slot /\ act'.step = "done"
        BY <1>1, <1>2, <2>2 DEF Action
      <3> QED BY <2>2, <3>1 DEF Inv, Shaped, ActFits
    <2> QED BY <2>1, <2>2 DEF TableMoves
  <1>6. Shaped'
    <2>1. VisitShaped' /\ ListShaped' /\ NetShaped' /\ DialogFits(dialog)'
      BY <1>0 DEF Inv, Shaped, VisitShaped, ListShaped, NetShaped, DialogFits
    <2> QED BY <1>0, <1>1, <1>3, <1>5, <2>1 DEF Shaped, ServerShaped
  <1>7. Vacant'
    BY <1>0 DEF Vacant, TableMoves
  <1>8. Dated'
    <2>1. ASSUME NEW x \in Rows PROVE own'[x] <= table'[x].at
      <3>1. own[x] <= table[x].at /\ own[x] \in Nat
        BY <1>1, Names DEF Inv, Dated
      <3>2. table'[x].at \in Nat
        BY <1>3, Names DEF RowType
      <3> QED BY <1>0, <1>4, <3>1, <3>2
    <2>2. ASSUME NEW x \in Rows PROVE list'.rows[x].at <= table'[x].at
      <3>1. list.rows[x].at <= table[x].at /\ list.rows[x].at \in Nat
        BY Names DEF Inv, Dated, Shaped, ListShaped, RowType
      <3>2. table'[x].at \in Nat
        BY <1>3, Names DEF RowType
      <3> QED BY <1>0, <1>4, <3>1, <3>2
    <2>3. ASSUME NEW t \in Slots, NEW x \in Rows PROVE loads'[t].rows[x].at <= table'[x].at
      <3>1. loads[t] \in Request
        BY DEF Inv, Shaped, NetShaped
      <3>2. loads[t].rows[x].at <= table[x].at /\ loads[t].rows[x].at \in Nat
        BY <3>1, Names DEF Inv, Dated, Request, RowType
      <3>3. table'[x].at \in Nat
        BY <1>3, Names DEF RowType
      <3> QED BY <1>0, <1>4, <3>2, <3>3
    <2>4. ASSUME act'.step = "done" PROVE act'.result.at <= table'[act'.row].at
      <3>1. CASE act' = act
        <4>1. act.row \in Rows /\ act.result.at <= table[act.row].at /\ act.result.at \in Nat
          BY <2>4, <3>1, <1>1, Names DEF Inv, Shaped, ActFits, Dated, Action, RowType
        <4>2. table'[act.row].at \in Nat
          BY <1>3, <4>1, Names DEF RowType
        <4> QED BY <1>4, <3>1, <4>1, <4>2
      <3>2. CASE /\ r = act.row
                 /\ act' = [act EXCEPT !.step = "done", !.result = Changed(status)]
        <4>1. act'.result = Changed(status) /\ act'.row = r
          BY <1>1, <3>2 DEF Action
        <4>2. table'[r] = Changed(status)
          BY <1>0, <1>1
        <4> QED BY <1>1, <1>2, <4>1, <4>2
      <3> QED BY <3>1, <3>2 DEF TableMoves
    <2> QED BY <1>4, <2>1, <2>2, <2>3, <2>4 DEF Dated
  <1>9. OwnKept' /\ Newer' /\ AskedFor'
    BY <1>0 DEF Inv, OwnKept, Newer, AskedFor, Served
  <1> QED BY <1>6, <1>7, <1>8, <1>9 DEF Inv

-----------------------------------------------------------------------------
(* The fourth kind: a visit begins, with or without a request.             *)

Entering(p, a, status) ==
    /\ Mount(p, a, status)
    /\ \/ Issue(1, a, TRUE, {}) /\ loading' = TRUE
       \/ UNCHANGED <<loads, newest, loading>>

(* The page starts blank, with a request of its own or none.               *)
LEMMA EnteringKeeps ==
  ASSUME Inv, NEW p, NEW a \in Subjects, NEW status \in RowStatuses, Entering(p, a, status)
  PROVE  Inv'
  <1>0. /\ page = None /\ Admitted(p) /\ page' = p /\ about' = a /\ clock' = 1
        /\ UNCHANGED <<role, clicks, list, failed, held, dialog, act, own>>
    BY DEF Entering, Mount
  <1>1. /\ list = Blank /\ loads = [s \in Slots |-> Free] /\ newest = 0
        /\ dialog = NoDialog /\ act = Idle /\ own = [r \in Rows |-> 0]
    BY <1>0 DEF Inv, Vacant
  <1>2. p \in PageNames /\ p # None /\ role # None /\ role \in Roles /\ p \in Route[role]
    <2>1. role # None /\ role \in Roles /\ p \in Route[role]
      BY <1>0 DEF Admitted, Inv, Shaped, VisitShaped
    <2> QED BY <2>1, Routes
  <1>3. VisitShaped'
    BY <1>0, <1>2 DEF Inv, Shaped, VisitShaped
  <1>4. ListShaped'
    BY <1>0 DEF Inv, Shaped, ListShaped, Entering
  <1>5. /\ loads' = [s \in Slots |-> loads'[s]]
        /\ \A s \in Slots : loads'[s] = Free \/ (s = newest' /\ Asking(loads'[s]) /\ loads'[s].about = a)
        /\ newest' \in {0, 1}
    <2>1. CASE Issue(1, a, TRUE, {})
      <3>1. loads' = [[s \in Slots |-> Free] EXCEPT ![1] = Asked(a, TRUE)] /\ newest' = 1
        BY <2>1 DEF Issue, Kept
      <3>2. Asked(a, TRUE).about = a /\ Asking(Asked(a, TRUE))
        BY DEF Asked, Asking
      <3> QED BY <3>1, <3>2
    <2>2. CASE UNCHANGED <<loads, newest, loading>>
      BY <1>1, <2>2
    <2> QED BY <2>1, <2>2 DEF Entering
  <1>6. NetShaped'
    <2>1. \A s \in Slots : loads'[s] \in Request
      BY <1>5, Blanks, AskingFits
    <2>2. loads' \in [Slots -> Request]
      BY <1>5, <2>1
    <2> QED BY <1>0, <1>5, <2>2, Names DEF Inv, Shaped, NetShaped
  <1>7. DialogFits(dialog)' /\ ActFits(act)'
    BY <1>0, <1>1, Blanks DEF ActFits, DialogFits, Idle
  <1>8. /\ table' \in [Rows -> RowType] /\ \A r \in Rows : table'[r].at \in {0, 1}
    <2>1. PICK present \in SUBSET Rows :
             table' = [r \in Rows |-> IF r \in present THEN [at |-> 1, status |-> status] ELSE Absent]
      BY DEF Entering, Mount
    <2>2. [at |-> 1, status |-> status] \in RowType
      BY Names DEF RowType
    <2> QED BY <2>1, <2>2, Names DEF Absent
  <1>9. ServerShaped'
    BY <1>0, <1>8, Names DEF Inv, Shaped, ServerShaped
  <1>10. Vacant'
    BY <1>0, <1>2 DEF Vacant
  <1>11. Dated'
    <2>1. \A r \in Rows : table'[r].at <= clock' /\ own'[r] <= table'[r].at
      BY <1>0, <1>1, <1>8
    <2>2. \A r \in Rows : list'.rows[r].at <= table'[r].at
      BY <1>0, <1>1, <1>8, NothingAt DEF Blank
    <2>3. \A s \in Slots : loads'[s].rows = Nothing
      BY <1>5, AskingFits DEF Free
    <2>4. \A s \in Slots, r \in Rows : loads'[s].rows[r].at <= table'[r].at
      BY <1>8, <2>3, NothingAt
    <2> QED BY <1>0, <1>1, <2>1, <2>2, <2>4 DEF Dated, Idle
  <1>12. ~Served' /\ list' = Blank /\ (newest' # 0 => loads'[newest'].about = about')
    <2>1. ASSUME newest' # 0 PROVE loads'[newest'].about = about' /\ loads'[newest'].step # "served"
      <3>1. newest' \in Slots
        BY <1>5, <2>1, Names
      <3>2. loads'[newest'] # Free
        <4>1. CASE Issue(1, a, TRUE, {})
          <5>1. loads' = [[s \in Slots |-> Free] EXCEPT ![1] = Asked(a, TRUE)] /\ newest' = 1
            BY <4>1 DEF Issue, Kept
          <5> QED BY <3>1, <5>1 DEF Asked, Free
        <4>2. CASE UNCHANGED <<loads, newest, loading>>
          BY <1>1, <2>1, <4>2
        <4> QED BY <4>1, <4>2 DEF Entering
      <3> QED BY <1>0, <1>5, <3>1, <3>2, AskingFits
    <2> QED BY <1>0, <1>1, <2>1 DEF Served
  <1>13. OwnKept' /\ Newer' /\ AskedFor'
    BY <1>12, NothingAt DEF OwnKept, Newer, AskedFor, Blank
  <1> QED BY <1>3, <1>4, <1>6, <1>7, <1>9, <1>10, <1>11, <1>13 DEF Shaped, Inv

(* The fifth kind: a visit ends, or somebody signs in.                     *)
LEMMA LeftKeeps ==
  ASSUME Inv, Left, role' \in {role, None}
  PROVE  Inv'
  <1>1. VisitShaped'
    BY Names DEF Inv, Shaped, VisitShaped, Left
  <1>2. ListShaped' /\ NetShaped' /\ DialogFits(dialog)' /\ ServerShaped'
    <2>1. ListShaped'
      BY Blanks DEF Left, ListShaped
    <2>2. NetShaped'
      BY Blanks DEF Left, NetShaped
    <2>3. DialogFits(dialog)'
      BY Blanks DEF Left, DialogFits
    <2>4. 0 \in 0..MaxChanges
      BY Names
    <2>5. ServerShaped'
      BY <2>4, Names DEF Left, ServerShaped
    <2> QED BY <2>1, <2>2, <2>3, <2>5
  <1>3. ActFits(act)'
    BY Blanks DEF Left, ActFits, Idle
  <1>4. Vacant'
    BY DEF Left, Vacant
  <1>5. Dated'
    BY NothingAt DEF Left, Dated, Blank, Free, Idle
  <1>6. page' \notin {"orders", "stock"} \cup Numbered \cup Selective
    BY Routes DEF Left, Manager, Numbered, Reports, Selective, PageNames
  <1> QED BY <1>1, <1>2, <1>3, <1>4, <1>5, <1>6 DEF Shaped, OwnKept, Newer, AskedFor, Inv

(* Who signs in finds no page open.                                        *)
LEMMA SignInKeeps ==
  ASSUME Inv, NEW r \in Roles, SignIn(r)
  PROVE  Inv'
  <1>1. role = None /\ role' = r /\ UNCHANGED <<page, about, clicks, list, loading, failed>>
        /\ UNCHANGED <<loads, newest, held, dialog, act, own, table, clock>>
    BY DEF SignIn, shown, net, server
  <1>2. page = None
    BY <1>1 DEF Inv, Shaped, VisitShaped
  <1>3. VisitShaped'
    BY <1>1, <1>2, Routes DEF Inv, Shaped, VisitShaped
  <1>4. Shaped'
    BY <1>1, <1>3 DEF Inv, Shaped, ListShaped, NetShaped, DialogFits, ActFits, ServerShaped
  <1> QED BY <1>1, <1>4 DEF Inv, Vacant, Dated, OwnKept, Newer, AskedFor, Served

-----------------------------------------------------------------------------
(* The sixth kind: an answer is shown, or not listened to. *)

(* The end of a request: somebody may have waited for it.                  *)
LEMMA EndedNet ==
  ASSUME Inv, NEW s \in Slots, NEW answered, Ended(s, answered)
  PROVE  /\ loads' \in [Slots -> Request]
         /\ loads'[s] = Free /\ \A t \in Slots \ {s} : loads'[t] = loads[t]
         /\ newest' \in {newest, 0} /\ newest' # s
         /\ held' \in Slots \cup {0} /\ loading' \in BOOLEAN
  <1>1. NetShaped /\ ListShaped
    BY DEF Inv, Shaped
  <1>2. loads' = [loads EXCEPT ![s] = Free] /\ held' \in {held, 0} /\ loading' \in BOOLEAN
    BY DEF Ended
  <1>3. newest' \in {newest, 0} /\ newest' # s
    BY Names DEF Ended
  <1>4. loads' \in [Slots -> Request]
    BY <1>1, <1>2, Blanks DEF NetShaped
  <1> QED BY <1>1, <1>2, <1>3, <1>4 DEF NetShaped

(* It ends the action that waited for it, and closes its dialog.           *)
LEMMA EndedActs ==
  ASSUME Inv, NEW s \in Slots, NEW answered, Ended(s, answered), page' = page
  PROVE  ActsOn
  <1>1. DialogFits(dialog) /\ ActFits(act)
    BY DEF Inv, Shaped
  <1>2. DialogFits(dialog')
    BY <1>1, Blanks DEF Ended
  <1>3. CASE act' = act
    BY <1>1, <1>2, <1>3 DEF ActsOn, ActFits
  <1>4. CASE act' = Idle
    BY <1>2, <1>4, Blanks DEF ActsOn, ActFits, Idle
  <1> QED BY <1>3, <1>4 DEF Ended

(* What was heard is what the page shows.                                  *)
LEMMA AnswerKeeps ==
  ASSUME Inv, NEW s \in Slots, Answer(s)
  PROVE  Inv'
  <1>0. /\ loads[s].step = "served" /\ Ended(s, TRUE)
        /\ UNCHANGED <<role, page, about, clicks, own, table, clock>>
    BY DEF Answer, user, server
  <1>1. page # None
    BY <1>0 DEF Inv, Vacant, Free
  <1>2. loads[s] \in Request
    BY DEF Inv, Shaped, NetShaped
  <1>3. \/ Heard(s) /\ list' = [about |-> loads[s].about, rows |-> loads[s].rows]
        \/ list' = list
    BY DEF Answer
  <1>4. ListShaped'
    <2>1. list' \in [about : Subjects, rows : [Rows -> RowType]]
      BY <1>2, <1>3 DEF Inv, Shaped, ListShaped, Request
    <2>2. failed' \in BOOLEAN
      BY DEF Inv, Shaped, ListShaped, Answer
    <2> QED BY <1>0, <2>1, <2>2, EndedNet DEF ListShaped
  <1>5. ActsOn
    BY <1>0, EndedActs
  <1>6. Shaped'
    <2>1. VisitShaped' /\ ServerShaped'
      BY <1>0 DEF Inv, Shaped, VisitShaped, ServerShaped
    <2>2. NetShaped'
      BY <1>0, EndedNet DEF NetShaped, Inv, Shaped
    <2>3. DialogFits(dialog)' /\ ActFits(act)'
      BY <1>5 DEF ActsOn, DialogFits
    <2> QED BY <1>4, <2>1, <2>2, <2>3 DEF Shaped
  <1>7. Vacant'
    BY <1>0, <1>1 DEF Vacant
  <1>8. Dated'
    <2>1. \A r \in Rows : list'.rows[r].at <= table'[r].at
      BY <1>0, <1>3 DEF Inv, Dated
    <2>2. ASSUME NEW t \in Slots, NEW r \in Rows PROVE loads'[t].rows[r].at <= table'[r].at
      <3>1. CASE t = s
        <4>0. loads'[t] = Free
          BY <1>0, <3>1, EndedNet
        <4>1. loads'[t].rows = Nothing
          BY <4>0 DEF Free
        <4>2. table[r] \in RowType
          BY DEF Inv, Shaped, ServerShaped
        <4>3. table[r].at \in Nat
          BY <4>2, Names DEF RowType
        <4>4. Nothing[r].at = 0
          BY NothingAt
        <4>5. loads'[t].rows[r].at = 0
          BY <4>1, <4>4
        <4>6. 0 <= table[r].at
          BY <4>3
        <4> QED BY <1>0, <4>5, <4>6
      <3>2. CASE t # s
        <4>1. loads'[t] = loads[t]
          BY <1>0, <3>2, EndedNet
        <4> QED BY <1>0, <4>1 DEF Inv, Dated
      <3> QED BY <3>1, <3>2
    <2>3. act'.step = "done" => act'.result.at <= table'[act'.row].at
      BY <1>0, <1>5 DEF ActsOn, Inv, Dated
    <2>4. \A r \in Rows : table'[r].at <= clock' /\ own'[r] <= table'[r].at
      BY <1>0 DEF Inv, Dated
    <2> QED BY <2>1, <2>2, <2>3, <2>4 DEF Dated
  <1>9. Served' => Served /\ newest' = newest /\ loads'[newest'] = loads[newest] /\ newest # s
    BY <1>0, EndedNet DEF Served, Inv, Shaped, NetShaped
  <1>10. page \in Numbered /\ list' # list => newest = s /\ Served /\ ~Served'
    <2> SUFFICES ASSUME page \in Numbered, list' # list PROVE newest = s /\ Served /\ ~Served'
      OBVIOUS
    <2>1. newest = s
      BY <1>3 DEF Heard
    <2>2. Served
      BY <1>0, <2>1, Names DEF Served
    <2> QED BY <1>9, <2>1, <2>2
  <1>11. OwnKept'
    <2> SUFFICES ASSUME page \in {"orders", "stock"} PROVE OwnKept'
      BY <1>0 DEF OwnKept
    <2>1. page \in Numbered
      BY DEF Numbered, Manager
    <2>2. CASE list' = list
      BY <1>0, <1>9, <2>2 DEF Inv, OwnKept
    <2>3. CASE list' # list
      BY <1>0, <1>3, <1>10, <2>1, <2>3 DEF Inv, OwnKept
    <2> QED BY <2>2, <2>3
  <1>12. Newer'
    BY <1>0, <1>9, <1>10 DEF Inv, Newer
  <1>13. AskedFor'
    <2> SUFFICES ASSUME page \in Selective PROVE AskedFor'
      BY <1>0 DEF AskedFor
    <2>1. page \in Numbered
      BY DEF Selective, Numbered
    <2>2. list' # Blank => list'.about = about'
      BY <1>0, <1>3, <1>10, <2>1 DEF Inv, AskedFor, Served
    <2>3. newest' # 0 => loads'[newest'].about = about'
      BY <1>0, EndedNet DEF Inv, AskedFor, Shaped, NetShaped
    <2> QED BY <2>2, <2>3 DEF AskedFor
  <1> QED BY <1>6, <1>7, <1>8, <1>11, <1>12, <1>13 DEF Inv

-----------------------------------------------------------------------------
(* A request that is sent. *)

(* It is the newest, and lists nothing yet.                                *)
LEMMA IssuedNet ==
  ASSUME Inv, NEW s \in Slots, NEW a \in Subjects, NEW first \in BOOLEAN, NEW keep,
         Issue(s, a, first, keep)
  PROVE  /\ loads' \in [Slots -> Request]
         /\ \A t \in Slots : loads'[t] = loads[t] \/ loads'[t] = Free \/ Asking(loads'[t])
         /\ newest' = s /\ Asking(loads'[s]) /\ loads'[s].about = a
  <1>1. /\ loads' = [[t \in Slots |-> IF t \in keep THEN loads[t] ELSE Free] EXCEPT ![s] = Asked(a, first)]
        /\ newest' = s
    BY DEF Issue, Kept
  <1>2. Asking(Asked(a, first)) /\ Asked(a, first).about = a /\ Asked(a, first) \in Request
    <2>1. Asking(Asked(a, first)) /\ Asked(a, first).about = a
      BY DEF Asking, Asked
    <2> QED BY <2>1, AskingFits
  <1>3. loads \in [Slots -> Request]
    BY DEF Inv, Shaped, NetShaped
  <1> QED BY <1>1, <1>2, <1>3, Blanks

(* The seventh kind: the answer of an action on an order or an item of the *)
(* stock is merged into its row, and the list is asked for again.          *)
MergeDone(s, a) ==
    /\ page \in {"orders", "stock"} /\ act.step = "done"
    /\ list' = Merged /\ Acknowledge /\ dialog' \in {dialog, NoDialog}
    /\ Issue(s, a, FALSE, {}) /\ held' = s /\ Reloading(s)
    /\ UNCHANGED <<user, loading, failed, server>>

(* The merged row is as new as what the page was told; the requests that   *)
(* were older are not listened to any more.                                *)
LEMMA MergeDoneKeeps ==
  ASSUME Inv, NEW s \in Slots, NEW a \in Subjects, MergeDone(s, a)
  PROVE  Inv'
  <1>0. /\ page \in {"orders", "stock"} /\ act.step = "done" /\ held' = s
        /\ UNCHANGED <<role, page, about, clicks, loading, failed, table, clock>>
        /\ act' = [act EXCEPT !.step = "reload", !.slot = s]
        /\ own' = [own EXCEPT ![act.row] = act.result.at]
    BY DEF MergeDone, user, server, Reloading, Acknowledge
  <1>1. act \in Action /\ act.row \in Rows
    BY <1>0 DEF Inv, Shaped, ActFits
  <1>2. act.result \in RowType /\ act.result.at \in 0..MaxChanges
    BY <1>1 DEF Action, RowType
  <1>3. list \in [about : Subjects, rows : [Rows -> RowType]] /\ own \in [Rows -> 0..MaxChanges]
    BY DEF Inv, Shaped, ListShaped, ServerShaped
  <1>4. /\ list' \in [about : Subjects, rows : [Rows -> RowType]]
        /\ \A r \in Rows : \/ list'.rows[r] = list.rows[r] /\ r # act.row
                           \/ list'.rows[r] = Absent /\ list.rows[r] = Absent
                           \/ list'.rows[r] = act.result /\ r = act.row
    <2>1. CASE list.rows[act.row] = Absent
      BY <1>3, <2>1 DEF MergeDone, Merged
    <2>2. CASE list.rows[act.row] # Absent
      <3>1. list' = [list EXCEPT !.rows[act.row] = act.result]
        BY <2>2 DEF MergeDone, Merged
      <3>2. list'.rows = [list.rows EXCEPT ![act.row] = act.result]
        BY <1>3, <3>1
      <3> QED BY <1>1, <1>2, <1>3, <3>1, <3>2
    <2> QED BY <2>1, <2>2
  <1>5. /\ own' \in [Rows -> 0..MaxChanges]
        /\ \A r \in Rows : own'[r] = IF r = act.row THEN act.result.at ELSE own[r]
    BY <1>0, <1>2, <1>3
  <1>6. /\ loads' \in [Slots -> Request]
        /\ \A t \in Slots : loads'[t] = loads[t] \/ loads'[t] = Free \/ Asking(loads'[t])
        /\ newest' = s /\ Asking(loads'[s])
    BY IssuedNet DEF MergeDone
  <1>7. Shaped'
    <2>1. VisitShaped' /\ ListShaped' /\ ServerShaped'
      BY <1>0, <1>4, <1>5 DEF Inv, Shaped, VisitShaped, ListShaped, ServerShaped
    <2>2. NetShaped'
      BY <1>0, <1>6 DEF NetShaped
    <2>3. DialogFits(dialog)'
      <3>1. DialogFits(dialog')
        BY Blanks DEF Inv, Shaped, MergeDone
      <3> QED BY <3>1 DEF DialogFits
    <2>4. ActFits(act)'
      <3>1. act' \in Action /\ act'.row = act.row /\ act'.step = "reload" /\ act'.slot = s
        BY <1>0, <1>1 DEF Action
      <3> QED BY <1>1, <3>1, Names DEF ActFits
    <2> QED BY <2>1, <2>2, <2>3, <2>4 DEF Shaped
  <1>8. Vacant'
    <2>1. page # None
      BY <1>0, Routes DEF Manager
    <2> QED BY <1>0, <2>1 DEF Vacant
  <1>9. Dated'
    <2>0. Dated /\ act.result.at <= table[act.row].at
      BY <1>0 DEF Inv, Dated
    <2>1. \A r \in Rows : table'[r].at <= clock' /\ own'[r] <= table'[r].at
      BY <1>0, <1>5, <2>0 DEF Dated
    <2>2. \A r \in Rows : list'.rows[r].at <= table'[r].at
      BY <1>0, <1>4, <2>0 DEF Dated
    <2>3. ASSUME NEW t \in Slots, NEW r \in Rows PROVE loads'[t].rows[r].at <= table'[r].at
      <3>1. CASE loads'[t] = loads[t]
        BY <1>0, <2>0, <3>1 DEF Dated
      <3>2. CASE loads'[t] # loads[t]
        <4>1. loads'[t].rows = Nothing
          BY <1>6, <3>2, AskingFits DEF Free
        <4>2. table[r].at \in Nat
          BY Names DEF Inv, Shaped, ServerShaped, RowType
        <4> QED BY <1>0, <4>1, <4>2, NothingAt
      <3> QED BY <3>1, <3>2
    <2>4. act'.step # "done"
      BY <1>0, <1>1 DEF Action
    <2> QED BY <2>1, <2>2, <2>3, <2>4 DEF Dated
  <1>10. ~Served'
    BY <1>6, AskingFits DEF Served
  <1>11. OwnKept'
    <2>1. ASSUME NEW r \in Rows, list'.rows[r] # Absent PROVE own'[r] <= list'.rows[r].at
      <3>1. CASE r = act.row
        BY <1>2, <1>4, <1>5, <2>1, <3>1
      <3>2. CASE r # act.row
        BY <1>0, <1>4, <1>5, <2>1, <3>2 DEF Inv, OwnKept
      <3> QED BY <3>1, <3>2
    <2> QED BY <1>10, <2>1 DEF OwnKept
  <1>12. Newer' /\ AskedFor'
    <2>1. page' \notin Selective
      BY <1>0 DEF Selective, Reports
    <2> QED BY <1>10, <2>1 DEF Newer, AskedFor
  <1> QED BY <1>7, <1>8, <1>9, <1>11, <1>12 DEF Inv

-----------------------------------------------------------------------------
(* The eighth kind: the details of an order are added to those there are.  *)

(* They are as new as the server.                                          *)
LEMMA DetailsShownKeeps ==
  ASSUME Inv, NEW s \in Slots, DetailsShown(s)
  PROVE  Inv'
  <1>0. /\ page = "details"
        /\ UNCHANGED <<role, page, about, clicks, loading, failed, newest, held>>
        /\ UNCHANGED <<dialog, act, own, table, clock>>
        /\ loads' = [loads EXCEPT ![s] = Free]
        /\ list' = [about |-> None,
                    rows |-> [list.rows EXCEPT ![loads[s].about] = table[loads[s].about]]]
    BY DEF DetailsShown, user, server
  <1>1. /\ list \in [about : Subjects, rows : [Rows -> RowType]] /\ loads \in [Slots -> Request]
        /\ table \in [Rows -> RowType]
    BY DEF Inv, Shaped, ListShaped, NetShaped, ServerShaped
  <1>2. /\ list'.rows \in [Rows -> RowType]
        /\ \A r \in Rows : list'.rows[r] \in {list.rows[r], table[r]}
    <2>1. list.rows \in [Rows -> RowType]
      BY <1>1
    <2>2. list'.rows = [list.rows EXCEPT ![loads[s].about] = table[loads[s].about]]
      BY <1>0
    <2> QED BY <1>1, <2>1, <2>2
  <1>3. loads' \in [Slots -> Request] /\ \A t \in Slots : loads'[t] \in {loads[t], Free}
    BY <1>0, <1>1, Blanks
  <1>4. Shaped'
    <2>1. VisitShaped' /\ ServerShaped' /\ DialogFits(dialog)' /\ ActFits(act)'
      BY <1>0 DEF Inv, Shaped, VisitShaped, ServerShaped, DialogFits, ActFits
    <2>2. list' \in [about : Subjects, rows : [Rows -> RowType]]
      BY <1>0, <1>2, Names
    <2>3. ListShaped' /\ NetShaped'
      BY <1>0, <1>3, <2>2 DEF Inv, Shaped, ListShaped, NetShaped
    <2> QED BY <2>1, <2>3 DEF Shaped
  <1>5. Dated'
    <2>0. \A r \in Rows : table[r].at \in Nat
      BY <1>1, Names DEF RowType
    <2>1. \A r \in Rows : list'.rows[r].at <= table'[r].at
      BY <1>0, <1>2, <2>0 DEF Inv, Dated
    <2>2. \A t \in Slots, r \in Rows : loads'[t].rows[r].at <= table'[r].at
      BY <1>0, <1>3, <2>0, NothingAt DEF Inv, Dated, Free
    <2> QED BY <1>0, <2>1, <2>2 DEF Inv, Dated
  <1>6. page # None /\ page \notin {"orders", "stock"} \cup Numbered \cup Selective
    BY <1>0, Routes DEF Numbered, Manager, Reports, Selective
  <1> QED BY <1>0, <1>4, <1>5, <1>6 DEF Vacant, OwnKept, Newer, AskedFor, Inv

-----------------------------------------------------------------------------
(* What the actions of the first kind have in common. *)

(* A page has a name.                                                      *)
LEMMA Open == ASSUME page \in PageNames PROVE page # None
  BY Routes

(* The visit goes on, with a click or without.                             *)
LEMMA Stays ==
  ASSUME Inv, page # None, UNCHANGED <<role, page>>, about' \in Subjects,
         clicks' = clicks \/ Click
  PROVE  VisitGoesOn
  <1>1. clicks \in 0..MaxClicks /\ MaxClicks \in Nat
    BY Names DEF Inv, Shaped, VisitShaped
  <1>2. clicks' \in 0..MaxClicks
    BY <1>1 DEF Click
  <1> QED BY <1>2 DEF VisitGoesOn

(* The action in progress is left alone.                                   *)
LEMMA ActsAsBefore ==
  ASSUME Inv, page' = page, act' = act, dialog' \in {dialog, NoDialog}
  PROVE  ActsOn
  BY Blanks DEF Inv, Shaped, ActsOn, ActFits

(* An action that was told its outcome waits for the list.                 *)
LEMMA DoneActs ==
  ASSUME Inv, NEW s \in Slots, act.step = "done", Reloading(s),
         dialog' \in {dialog, NoDialog}, page' = page
  PROVE  ActsOn
  <1>1. DialogFits(dialog')
    BY Blanks DEF Inv, Shaped
  <1>2. act \in Action /\ act.row \in Rows
    BY DEF Inv, Shaped, ActFits
  <1>3. act' = [act EXCEPT !.step = "reload", !.slot = s]
    BY DEF Reloading
  <1>4. act' \in Action /\ act'.row = act.row /\ act'.step = "reload" /\ act'.slot = s
    BY <1>2, <1>3 DEF Action
  <1>5. ActFits(act)'
    BY <1>2, <1>4, Names DEF ActFits
  <1> QED BY <1>1, <1>4, <1>5 DEF ActsOn

(* A request is sent.                                                      *)
LEMMA AskedQuiet ==
  ASSUME Inv, NEW s \in Slots, NEW a \in Subjects, NEW first \in BOOLEAN, NEW keep,
         Issue(s, a, first, keep),
         VisitGoesOn, ListLeft, held' \in Slots \cup {0}, OwnTold, ActsOn, UNCHANGED server,
         page \in Selective =>
             about' = a /\ (list' = Blank \/ (list' = list /\ about' = about))
  PROVE  Quiet
  <1>1. /\ loads' \in [Slots -> Request]
        /\ \A t \in Slots : loads'[t] = loads[t] \/ loads'[t] = Free \/ Asking(loads'[t])
        /\ newest' = s /\ Asking(loads'[s]) /\ loads'[s].about = a
    BY IssuedNet
  <1>2. NetAsks
    BY <1>1 DEF NetAsks
  <1>3. AsksOnly
    BY <1>1 DEF AsksOnly
  <1> QED BY <1>2, <1>3 DEF Quiet

(* The requests are left alone.                                            *)
LEMMA StillQuiet ==
  ASSUME Inv, UNCHANGED <<loads, newest>>,
         VisitGoesOn, ListLeft, held' \in Slots \cup {0}, OwnTold, ActsOn, UNCHANGED server,
         page \in Selective => (list' = Blank \/ list' = list) /\ about' = about
  PROVE  Quiet
  <1>1. NetAsks
    BY DEF NetAsks, Inv, Shaped, NetShaped
  <1>2. AsksOnly
    BY DEF AsksOnly
  <1> QED BY <1>1, <1>2 DEF Quiet

(* The requests that were sent before are superseded.                      *)
LEMMA SupersedeQuiet ==
  ASSUME Inv, Supersede,
         VisitGoesOn, ListLeft, held' \in Slots \cup {0}, OwnTold, ActsOn, UNCHANGED server,
         page \in Selective => list' = Blank \/ (list' = list /\ about' = about)
  PROVE  Quiet
  <1>1. NetAsks
    BY DEF NetAsks, Supersede, Kept
  <1>2. AsksOnly
    BY DEF AsksOnly, Supersede
  <1> QED BY <1>1, <1>2 DEF Quiet

(* A dialog is opened.                                                     *)
LEMMA ChooseQuiet ==
  ASSUME Inv, page # None, NEW r \in Rows, NEW kind \in Kinds, Choose(r, kind)
  PROVE  Quiet
  <1>1. /\ UNCHANGED <<role, page, about, clicks, list, loading, failed, loads, newest, held>>
        /\ UNCHANGED <<act, own>> /\ UNCHANGED server
    BY DEF Choose, user, shown, net
  <1>2. VisitGoesOn
    BY <1>1, Stays DEF Inv, Shaped, VisitShaped
  <1>3. about \in Subjects /\ list.rows[r].status \in RowStatuses
    BY DEF Inv, Shaped, VisitShaped, ListShaped, RowType
  <1>4. DialogFits(dialog')
    BY <1>3, Names DEF Choose, DialogFits, Dialog
  <1>5. ActsOn
    BY <1>1, <1>4 DEF Inv, Shaped, ActsOn, ActFits
  <1>6. ListLeft /\ OwnTold /\ held' \in Slots \cup {0}
    BY <1>1 DEF ListLeft, OwnTold, Inv, Shaped, ListShaped, NetShaped
  <1> QED BY <1>1, <1>2, <1>5, <1>6, StillQuiet

(* An action is sent.                                                      *)
LEMMA StartQuiet ==
  ASSUME Inv, page # None, NEW kind \in Kinds, NEW r \in Rows,
         NEW draft \in RowStatuses \cup {None}, NEW a \in Subjects, NEW to \in Subjects,
         kind = "edit" \/ (kind = "create" /\ page = "promos") => draft \in RowStatuses,
         Start(kind, r, draft, a, to),
         Supersede \/ UNCHANGED <<loads, newest>>
  PROVE  Quiet
  <1>1. /\ UNCHANGED <<role, page, about, list, loading, failed, held>>
        /\ UNCHANGED <<dialog, own>> /\ UNCHANGED server /\ Click
    BY DEF Start, shown
  <1>2. VisitGoesOn
    BY <1>1, Stays DEF Inv, Shaped, VisitShaped
  <1>3. act' = [step |-> "sent", kind |-> kind, row |-> r, about |-> a,
                to |-> to, draft |-> draft, result |-> Absent, slot |-> 0]
    BY DEF Start, Idle
  <1>4. act' \in Action
    BY <1>3, Names DEF Action
  <1>5. ActFits(act)'
    BY <1>1, <1>3, <1>4 DEF ActFits
  <1>6. ActsOn
    BY <1>1, <1>3, <1>5 DEF Inv, Shaped, ActsOn
  <1>7. ListLeft /\ OwnTold /\ held' \in Slots \cup {0}
    BY <1>1 DEF ListLeft, OwnTold, Inv, Shaped, ListShaped, NetShaped
  <1> QED BY <1>1, <1>2, <1>6, <1>7, StillQuiet, SupersedeQuiet

(* The action of the dialog is sent.                                       *)
LEMMA SubmitQuiet ==
  ASSUME Inv, page # None, dialog # NoDialog, NEW a \in Subjects, NEW to \in Subjects,
         ~(dialog.kind = "create" /\ page = "promos"),
         Submit(a, to),
         Supersede \/ UNCHANGED <<loads, newest>>
  PROVE  Quiet
  <1>1. DialogFits(dialog)
    BY DEF Inv, Shaped
  <1>2. /\ dialog.kind \in Kinds /\ dialog.row \in Rows
        /\ dialog.draft \in RowStatuses \cup {None}
        /\ dialog.kind = "edit" => dialog.draft \in RowStatuses
    BY <1>1 DEF DialogFits, Dialog
  <1>3. Start(dialog.kind, dialog.row, dialog.draft, a, to)
    BY DEF Submit
  <1> QED BY <1>2, <1>3, StartQuiet

(* The server carries out the action of the page.                          *)
LEMMA ChangeMoves ==
  ASSUME Inv, NEW p, NEW kind, NEW status \in RowStatuses, Change(p, kind, Changed(status))
  PROVE  act.row \in Rows /\ TableMoves(act.row, status)
  <1>1. act.step = "sent" /\ act # Idle
    BY DEF Change, Idle
  <1>2. page # None /\ act.row \in Rows
    BY <1>1 DEF Inv, Vacant, Shaped, ActFits
  <1>3. act' = [act EXCEPT !.step = "done", !.result = Changed(status)]
    BY DEF Change
  <1> QED BY <1>1, <1>2, <1>3 DEF Change, TableMoves

(* What is listed comes from the table.                                    *)
LEMMA ReadLists ==
  ASSUME Inv, NEW s \in Slots, NEW p, NEW rows, Read(p, s, rows),
         \A r \in Rows : rows[r] \in {table[r], Absent}, rows \in [Rows -> RowType]
  PROVE  Listing(s)
  <1>1. loads \in [Slots -> Request]
    BY DEF Inv, Shaped, NetShaped
  <1>2. loads' = [loads EXCEPT ![s].step = "served", ![s].rows = rows]
    BY DEF Read
  <1>3. loads'[s].rows = rows
    BY <1>1, <1>2 DEF Request
  <1> QED BY <1>2, <1>3 DEF Listing, Read

(* The whole table is listed.                                              *)
LEMMA ReadsAll ==
  ASSUME Inv, NEW s \in Slots, NEW p, Read(p, s, table)
  PROVE  Listing(s)
  <1>1. table \in [Rows -> RowType]
    BY DEF Inv, Shaped, ServerShaped
  <1> QED BY <1>1, ReadLists

(* Every step is of one of the kinds.                                      *)
Step ==
    \/ Quiet
    \/ \E s \in Slots :
          \/ Listing(s) \/ Answer(s) \/ DetailsShown(s)
          \/ \E a \in Subjects : MergeDone(s, a)
    \/ \E r \in Rows, status \in RowStatuses : TableMoves(r, status)
    \/ \E p \in PageNames, a \in Subjects, status \in RowStatuses : Entering(p, a, status)
    \/ Left /\ role' \in {role, None}
    \/ \E r \in Roles : SignIn(r)

(* A visit begins.                                                         *)
LEMMA Enters ==
  ASSUME NEW p \in PageNames, NEW a \in Subjects, NEW status \in RowStatuses,
         MountLoading(p, a, status) \/ MountIdle(p, a, status)
  PROVE  Step
  BY DEF MountLoading, MountIdle, Entering, Step

-----------------------------------------------------------------------------
(* The pages of the manager. *)

(* The list of the orders or of the stock is asked for.                    *)
LEMMA LoadsQuiet ==
  ASSUME Inv, NEW s \in Slots, NEW a \in Subjects, NEW keep,
         page \in Manager, LoadOrders(s, a, keep), failed' \in BOOLEAN,
         VisitGoesOn, held' \in Slots \cup {0}, own' = own, ActsOn, UNCHANGED server
  PROVE  Quiet
  <1> DEFINE first == list = Blank
  <1>1. Issue(s, a, first, keep) /\ list' = list /\ loading' \in BOOLEAN
    BY DEF LoadOrders
  <1>2. page \notin Selective
    BY DEF Manager, Selective, Reports
  <1>3. ListLeft /\ OwnTold
    BY <1>1 DEF ListLeft, OwnTold
  <1>4. first \in BOOLEAN
    OBVIOUS
  <1> HIDE DEF first
  <1> QED BY <1>1, <1>2, <1>3, <1>4, AskedQuiet

(* An action of a dialog supersedes what was asked before.                 *)
LEMMA WorkQuiet ==
  ASSUME Inv, NEW p \in Manager, NEW a \in Subjects, Work(p, a)
  PROVE  Quiet
  <1>1. page = p /\ dialog # NoDialog /\ Submit(a, None) /\ Supersede
    BY DEF Work, Uncovered
  <1>2. page # None /\ page # "promos"
    BY <1>1, Routes DEF Manager
  <1> QED BY <1>1, <1>2, Names, SubmitQuiet

(* Every action of the manager is of one of the kinds.                     *)
LEMMA ManagerSteps == ASSUME Inv, ManagerNext PROVE Step
  <1> USE Names
  <1>0. /\ page \in Manager => page # None
        /\ about \in Subjects /\ list \in [about : Subjects, rows : [Rows -> RowType]]
        /\ held \in Slots \cup {0} /\ loads \in [Slots -> Request]
        /\ table \in [Rows -> RowType]
    BY Routes DEF Inv, Shaped, VisitShaped, ListShaped, NetShaped, ServerShaped, Manager
  <1>1. CASE OpenOrders \/ OpenStock \/ OpenDashboard
    <2>1. Manager \subseteq PageNames /\ {"orders", "stock", "dashboard"} = Manager
      BY Routes DEF Manager
    <2>2. "all" \in Subjects /\ {"new", "active"} \subseteq RowStatuses
      BY DEF Filters, RowStatuses, Statuses
    <2> QED BY <1>1, <2>1, <2>2, Enters DEF OpenOrders, OpenStock, OpenDashboard
  <1>2. ASSUME NEW s \in Slots, ListOrders(s) \/ ListStock(s) \/ GetAnalytics(s) PROVE Step
    <2>1. CASE ListOrders(s)
      <3> DEFINE rows == [r \in Rows |-> IF loads[s].about \in {"all", table[r].status}
                                         THEN table[r] ELSE Absent]
      <3>1. Read("orders", s, rows)
        BY <2>1 DEF ListOrders, Where
      <3>2. rows \in [Rows -> RowType] /\ \A r \in Rows : rows[r] \in {table[r], Absent}
        BY <1>0
      <3> HIDE DEF rows
      <3> QED BY <3>1, <3>2, ReadLists DEF Step
    <2>2. CASE ListStock(s) \/ GetAnalytics(s)
      BY <2>2, ReadsAll DEF ListStock, GetAnalytics, Step
    <2> QED BY <1>2, <2>1, <2>2
  <1>3. ASSUME NEW s \in Slots, Tick(s) PROVE Step
    <2>1. /\ page = "orders" /\ held' = s /\ LoadOrders(s, about, {act.slot}) /\ failed' = failed
          /\ UNCHANGED <<role, page, about, clicks, dialog, act, own>> /\ UNCHANGED server
      BY <1>3 DEF Tick, user
    <2>2. VisitGoesOn /\ ActsOn /\ failed' \in BOOLEAN /\ page \in Manager
      BY <1>0, <2>1, Stays, ActsAsBefore DEF Manager, Inv, Shaped, ListShaped
    <2>3. Quiet
      BY <1>0, <2>1, <2>2, LoadsQuiet
    <2> QED BY <2>3 DEF Step
  <1>4. ASSUME NEW s \in Slots, RetryOrders(s) \/ RetryStock(s) PROVE Step
    <2>1. /\ page \in {"orders", "stock"} /\ held' = held /\ failed' = FALSE
          /\ UNCHANGED <<role, page, about, clicks, dialog, act, own>> /\ UNCHANGED server
          /\ \/ LoadOrders(s, about, {held, act.slot})
             \/ LoadOrders(s, None, {held, act.slot})
      BY <1>4 DEF RetryOrders, RetryStock, LoadInventory, user
    <2>2. VisitGoesOn /\ ActsOn /\ failed' \in BOOLEAN /\ page \in Manager
      BY <1>0, <2>1, Stays, ActsAsBefore DEF Manager
    <2>3. Quiet
      BY <1>0, <2>1, <2>2, LoadsQuiet
    <2> QED BY <2>3 DEF Step
  <1>5. ASSUME NEW s \in Slots, OrderDone(s) \/ ItemDone(s) PROVE Step
    <2>1. act.about \in Subjects /\ None \in Subjects
      BY DEF Inv, Shaped, ActFits, Action
    <2>2. MergeDone(s, act.about) \/ MergeDone(s, None)
      BY <1>5 DEF OrderDone, ItemDone, MergeDone
    <2> QED BY <2>1, <2>2 DEF Step
  <1>6. ASSUME NEW s \in Slots, NEW a \in Filters, SetFilter(a, s) PROVE Step
    <2>1. /\ page = "orders" /\ held' = 0 /\ LoadOrders(s, a, {act.slot}) /\ failed' = FALSE
          /\ about' = a /\ Click
          /\ UNCHANGED <<role, page, dialog, act, own>> /\ UNCHANGED server
      BY <1>6 DEF SetFilter
    <2>2. VisitGoesOn /\ ActsOn /\ failed' \in BOOLEAN /\ page \in Manager
      BY <1>0, <2>1, Stays, ActsAsBefore DEF Manager
    <2>3. Quiet
      BY <1>0, <2>1, <2>2, LoadsQuiet
    <2> QED BY <2>3 DEF Step
  <1>7. ASSUME NEW s \in Slots, RetryDashboard(s) PROVE Step
    <2>1. /\ page = "dashboard" /\ Issue(s, None, TRUE, {}) /\ loading' = TRUE /\ failed' = FALSE
          /\ UNCHANGED <<role, page, about, clicks, list, held, dialog, act, own>>
          /\ UNCHANGED server
      BY <1>7 DEF RetryDashboard, user
    <2>2. VisitGoesOn /\ ActsOn /\ ListLeft /\ OwnTold
      BY <1>0, <2>1, Stays, ActsAsBefore DEF Manager, ListLeft, OwnTold
    <2>3. page \notin Selective
      BY <2>1 DEF Selective, Reports
    <2>4. Quiet
      BY <1>0, <2>1, <2>2, <2>3, AskedQuiet
    <2> QED BY <2>4 DEF Step
  <1>8. ASSUME NEW r \in Rows, NEW kind \in OrderDialogs, ChooseOrder(r, kind) PROVE Step
    <2>1. kind \in Kinds /\ page = "orders" /\ Choose(r, kind)
      BY <1>8 DEF Kinds, ChooseOrder
    <2> QED BY <1>0, <2>1, ChooseQuiet DEF Step, Manager
  <1>9. ASSUME NEW r \in Rows, SendOut(r) \/ UpdateInventory(r) PROVE Step
    <2>1. /\ page \in {"orders", "stock"} /\ Supersede
          /\ Start("in_delivery", r, None, about, None) \/ Start("set", r, None, None, None)
      BY <1>9 DEF SendOut, UpdateInventory
    <2>2. page # None
      BY <1>0, <2>1 DEF Manager
    <2>3. "in_delivery" \in Kinds /\ "set" \in Kinds
      BY DEF Kinds
    <2>4. Quiet
      BY <1>0, <2>1, <2>2, <2>3, StartQuiet
    <2> QED BY <2>4 DEF Step
  <1>10. ASSUME NEW r \in Rows, ChooseIncoming(r) PROVE Step
    <2>1. page = "stock" /\ Choose(r, "receive") /\ "receive" \in Kinds
      BY <1>10 DEF ChooseIncoming, Kinds
    <2> QED BY <1>0, <2>1, ChooseQuiet DEF Step, Manager
  <1>11. CASE UpdateStatus \/ PickOrder \/ SubmitWeight \/ SubmitIncoming
    <2>1. dialog.about \in Subjects
      BY DEF Inv, Shaped, DialogFits, Dialog
    <2>2. Quiet
      BY <1>0, <1>11, <2>1, WorkQuiet
         DEF UpdateStatus, PickOrder, SubmitWeight, SubmitIncoming, Manager
    <2> QED BY <2>2 DEF Step
  <1>12. CASE Moved \/ Weighed \/ ItemSet \/ ItemReceived
    <2>1. {"picked", "in_delivery", "delivered", "failed", "cancelled", "active"} \subseteq RowStatuses
      BY DEF RowStatuses, Statuses
    <2>2. CASE Moved
      <3>1. PICK to \in RowStatuses : Change("orders", to, Changed(to))
        BY <2>1, <2>2 DEF Moved
      <3> QED BY <3>1, ChangeMoves DEF Step
    <2>3. CASE Weighed
      BY <2>1, <2>3, ChangeMoves DEF Weighed, Step
    <2>4. CASE ItemSet \/ ItemReceived
      BY <2>1, <2>4, ChangeMoves DEF ItemSet, ItemReceived, Step
    <2> QED BY <1>12, <2>2, <2>3, <2>4
  <1> QED BY <1>1, <1>2, <1>3, <1>4, <1>5, <1>6, <1>7, <1>8, <1>9, <1>10, <1>11, <1>12
             DEF ManagerNext

-----------------------------------------------------------------------------
(* The server behind the pages of the administrators. *)

(* Every request and every change there is of one of the kinds.            *)
LEMMA CatalogSteps == ASSUME Inv, CatalogNext PROVE Step
  <1>1. table \in [Rows -> RowType]
    BY DEF Inv, Shaped, ServerShaped
  <1>2. ASSUME NEW s \in Slots, NEW p, Read(p, s, table) PROVE Step
    BY <1>2, ReadsAll DEF Step
  <1>3. ASSUME NEW s \in Slots, GetCustomer(s) PROVE Step
    <2> DEFINE x == loads[s].about
               rows == [Nothing EXCEPT ![x] = table[x]]
    <2>1. Read("card", s, rows)
      BY <1>3 DEF GetCustomer
    <2>2. rows \in [Rows -> RowType]
      BY <1>1, Names
    <2>3. \A r \in Rows : rows[r] \in {table[r], Absent}
      BY Names, NothingAt
    <2> HIDE DEF x, rows
    <2> QED BY <2>1, <2>2, <2>3, ReadLists DEF Step
  <1>4. ASSUME NEW status \in RowStatuses, NEW p, NEW kind, Change(p, kind, Changed(status))
        PROVE  Step
    BY <1>4, ChangeMoves DEF Step
  <1>5. {"active", "inactive"} \subseteq RowStatuses
    BY DEF RowStatuses
  <1>6. CASE \/ StoreCreated \/ ProductCreated \/ ProductDeleted \/ InventoryUpserted
             \/ PromoActivated \/ PromoDeleted \/ SubscriptionChanged
    BY <1>4, <1>5, <1>6 DEF StoreCreated, ProductCreated, Inserted, ProductDeleted, SoftDeleted,
                            InventoryUpserted, PromoActivated, PromoDeleted, SubscriptionChanged
  <1>7. CASE CoverageUpserted \/ SettingsUpserted
    <2>1. act.step = "sent"
      BY <1>7 DEF CoverageUpserted, SettingsUpserted, Change
    <2>2. act.row \in Rows
      BY <2>1 DEF Inv, Shaped, ActFits
    <2>3. table[act.row].status \in RowStatuses
      BY <1>1, <2>2 DEF RowType
    <2> QED BY <1>4, <1>7, <2>3 DEF CoverageUpserted, SettingsUpserted
  <1>8. CASE ProductUpdated \/ PromoCreated \/ PromoUpdated
    <2>1. /\ act.step = "sent"
          /\ act.kind = "edit" \/ (act.kind = "create" /\ page = "promos")
      BY <1>8 DEF ProductUpdated, PromoCreated, PromoUpdated, Change
    <2>2. act.draft \in RowStatuses
      BY <2>1 DEF Inv, Shaped, ActFits
    <2> QED BY <1>4, <1>8, <2>2 DEF ProductUpdated, PromoCreated, PromoUpdated, Updated
  <1>9. ASSUME NEW s \in Slots,
               \/ ListStores(s) \/ ListProducts(s) \/ ListStoreInventory(s) \/ ListPromoCodes(s)
               \/ ListCustomers(s) \/ GetStoreReport(s) \/ GetRevenueAnalytics(s)
               \/ GetDeliveryAnalytics(s) \/ ListPayments(s)
        PROVE  Step
    BY <1>2, <1>9 DEF ListStores, ListProducts, ListStoreInventory, ListPromoCodes, ListCustomers,
                      GetStoreReport, GetRevenueAnalytics, GetDeliveryAnalytics, ListPayments
  <1> QED BY <1>3, <1>6, <1>7, <1>8, <1>9 DEF CatalogNext

-----------------------------------------------------------------------------
(* The pages of the customer. *)

(* Every action of the customer is of one of the kinds.                    *)
LEMMA ClientSteps == ASSUME Inv, ClientNext PROVE Step
  <1> USE Names
  <1>0. /\ {"shop", "history", "details", "profile"} \subseteq PageNames /\ None \notin PageNames
        /\ about \in Subjects /\ list \in [about : Subjects, rows : [Rows -> RowType]]
        /\ loading \in BOOLEAN /\ failed \in BOOLEAN
        /\ held \in Slots \cup {0} /\ loads \in [Slots -> Request]
        /\ newest \in Slots \cup {0} /\ table \in [Rows -> RowType]
    BY Routes DEF Inv, Shaped, VisitShaped, ListShaped, NetShaped, ServerShaped
  <1>1. CASE OpenShop \/ OpenHistory \/ OpenProfile \/ OpenToggle
    <2>1. {"new", "active"} \subseteq RowStatuses
      BY DEF RowStatuses, Statuses
    <2> QED BY <1>0, <1>1, <2>1, Enters DEF OpenShop, OpenHistory, OpenProfile, OpenToggle
  <1>2. CASE DeleteAddress
    <2>1. /\ page = "profile" /\ dialog # NoDialog /\ Submit(None, None)
          /\ UNCHANGED <<loads, newest>>
      BY <1>2 DEF DeleteAddress, Uncovered
    <2>2. page # None /\ page # "promos"
      BY <1>0, <2>1
    <2>3. Quiet
      BY <2>1, <2>2, SubmitQuiet
    <2> QED BY <2>3 DEF Step
  <1>3. CASE AddressDeleted
    <2>1. "absent" \in RowStatuses
      BY DEF RowStatuses
    <2> QED BY <1>3, <2>1, ChangeMoves DEF AddressDeleted, Step
  <1>4. ASSUME NEW r \in Rows, ChooseAddress(r) PROVE Step
    <2>1. page = "profile" /\ Choose(r, "remove") /\ "remove" \in Kinds
      BY <1>4 DEF ChooseAddress, Kinds
    <2> QED BY <1>0, <2>1, ChooseQuiet DEF Step
  <1>5. ASSUME NEW s \in Slots, NEW r \in Rows, ToggleDetails(r, s) PROVE Step
    <2>1. /\ page = "details" /\ Click /\ about' \in Subjects
          /\ UNCHANGED <<role, page, loading, failed, held, dialog, act, own>> /\ UNCHANGED server
      BY <1>5 DEF ToggleDetails
    <2>2. VisitGoesOn /\ ActsOn /\ OwnTold
      BY <1>0, <2>1, Stays, ActsAsBefore DEF OwnTold
    <2>3. page \notin Selective
      BY <2>1 DEF Selective, Reports
    <2>4. CASE Issue(s, r, FALSE, Slots) /\ list' = [list EXCEPT !.about = r]
      <3>1. ListLeft
        BY <1>0, <2>1, <2>4 DEF ListLeft
      <3>2. Quiet
        BY <1>0, <2>1, <2>2, <2>3, <2>4, <3>1, AskedQuiet
      <3> QED BY <3>2 DEF Step
    <2>5. CASE UNCHANGED <<loads, newest, list>>
      <3>1. ListLeft
        BY <1>0, <2>1, <2>5 DEF ListLeft
      <3>2. Quiet
        BY <1>0, <2>1, <2>2, <2>3, <2>5, <3>1, StillQuiet
      <3> QED BY <3>2 DEF Step
    <2> QED BY <1>5, <2>4, <2>5 DEF ToggleDetails
  <1>6. ASSUME NEW s \in Slots, StoreProducts(s) PROVE Step
    <2> DEFINE rows == [r \in Rows |-> IF table[r].status = "active" THEN table[r] ELSE Absent]
    <2>1. Read("shop", s, rows)
      BY <1>6 DEF StoreProducts, Where
    <2>2. rows \in [Rows -> RowType] /\ \A r \in Rows : rows[r] \in {table[r], Absent}
      BY <1>0
    <2> HIDE DEF rows
    <2> QED BY <2>1, <2>2, ReadLists DEF Step
  <1>7. ASSUME NEW s \in Slots, MyOrders(s) \/ MyProfile(s) PROVE Step
    BY <1>7, ReadsAll DEF MyOrders, MyProfile, Step
  <1>8. ASSUME NEW s \in Slots, DetailsLost(s) PROVE Step
    <2>1. /\ page = "details" /\ about' = None /\ list' = [list EXCEPT !.about = None]
          /\ loads' = [loads EXCEPT ![s] = Free]
          /\ UNCHANGED <<role, page, clicks, loading, failed, newest, held, dialog, act, own>>
          /\ UNCHANGED server
      BY <1>8 DEF DetailsLost
    <2>2. VisitGoesOn /\ ActsOn /\ OwnTold
      BY <1>0, <2>1, Stays, ActsAsBefore DEF OwnTold
    <2>3. ListLeft
      BY <1>0, <2>1 DEF ListLeft
    <2>4. NetAsks /\ AsksOnly
      BY <1>0, <2>1 DEF NetAsks, AsksOnly, Selective, Reports
    <2>5. Quiet
      BY <2>1, <2>2, <2>3, <2>4 DEF Quiet
    <2> QED BY <2>5 DEF Step
  <1>9. ASSUME NEW s \in Slots, AddressDone(s) PROVE Step
    <2>1. /\ page = "profile" /\ act.step = "done" /\ Acknowledge
          /\ Issue(s, None, FALSE, Slots) /\ Reloading(s)
          /\ UNCHANGED <<role, page, about, clicks, list, loading, failed, held, dialog>>
          /\ UNCHANGED server
      BY <1>9 DEF AddressDone, user, shown
    <2>2. VisitGoesOn /\ ActsOn
      BY <1>0, <2>1, Stays, DoneActs
    <2>3. OwnTold /\ ListLeft
      BY <1>0, <2>1 DEF OwnTold, ListLeft, Acknowledge
    <2>4. page \notin Selective
      BY <2>1 DEF Selective, Reports
    <2>5. Quiet
      BY <1>0, <2>1, <2>2, <2>3, <2>4, AskedQuiet
    <2> QED BY <2>5 DEF Step
  <1> QED BY <1>1, <1>2, <1>3, <1>4, <1>5, <1>6, <1>7, <1>8, <1>9 DEF ClientNext, Step

-----------------------------------------------------------------------------
(* The pages of the administrators. *)

(* A request that shows the loader, over what is listed or over a blank    *)
(* page.                                                                   *)
LEMMA ShowsLoader ==
  ASSUME Inv, NEW s \in Slots, NEW a \in Subjects, NEW keep, Issue(s, a, TRUE, keep),
         list' = list \/ list' = Blank, loading' = TRUE, failed' = FALSE,
         VisitGoesOn, held' = held, OwnTold, ActsOn, UNCHANGED server,
         page \in Selective => list' = Blank /\ about' = a
  PROVE  Step
  <1>1. ListLeft /\ held' \in Slots \cup {0}
    BY DEF ListLeft, Inv, Shaped, NetShaped
  <1>2. Quiet
    BY <1>1, AskedQuiet
  <1> QED BY <1>2 DEF Step

(* A request of the page alone.                                            *)
LEMMA Loads ==
  ASSUME Inv, page # None, NEW s \in Slots, NEW a \in Subjects, NEW keep, Issue(s, a, TRUE, keep),
         list' = list \/ list' = Blank, loading' = TRUE, failed' = FALSE,
         UNCHANGED <<role, page>>, about' \in Subjects, clicks' = clicks \/ Click,
         UNCHANGED <<held, dialog, act, own>>, UNCHANGED server,
         page \in Selective => list' = Blank /\ about' = a
  PROVE  Step
  <1>1. VisitGoesOn /\ ActsOn /\ OwnTold
    BY Stays, ActsAsBefore DEF OwnTold
  <1> QED BY <1>1, ShowsLoader

(* The reports.                                                            *)
LEMMA ReportSteps ==
  ASSUME Inv,
         \/ \E s \in Slots : \/ LoadStoreReport(s) \/ LoadRevenue(s)
                             \/ LoadDelivery(s) \/ LoadPayments(s)
         \/ \E a \in Periods : SetPeriod(a)
         \/ \E a \in Periods, p \in Reports : OpenReports(p, a)
  PROVE  Step
  <1> USE Names
  <1>0. /\ \A p \in Reports : p \in PageNames /\ p # None
        /\ about \in Subjects /\ held \in Slots \cup {0}
    BY Routes DEF Inv, Shaped, VisitShaped, NetShaped
  <1>1. ASSUME NEW s \in Slots,
               LoadStoreReport(s) \/ LoadRevenue(s) \/ LoadDelivery(s) \/ LoadPayments(s)
        PROVE  Step
    <2>1. /\ page \in Reports /\ Click /\ Issue(s, about, TRUE, {})
          /\ list' = Blank /\ loading' = TRUE /\ failed' = FALSE
          /\ UNCHANGED <<role, page, about, held, dialog, act, own>> /\ UNCHANGED server
      BY <1>1 DEF LoadStoreReport, LoadRevenue, LoadDelivery, LoadPayments, LoadBlank, Reports
    <2> QED BY <1>0, <2>1, Loads
  <1>2. ASSUME NEW a \in Periods, SetPeriod(a) PROVE Step
    <2>1. /\ page \in Reports /\ about' = a /\ Click /\ Supersede
          /\ list' = Blank /\ loading' = FALSE /\ failed' = FALSE
          /\ UNCHANGED <<role, page, held, dialog, act, own>> /\ UNCHANGED server
      BY <1>2 DEF SetPeriod, Reset
    <2>2. VisitGoesOn /\ ActsOn /\ OwnTold /\ ListLeft
      BY <1>0, <2>1, Stays, ActsAsBefore DEF OwnTold, ListLeft
    <2>3. Quiet
      BY <1>0, <2>1, <2>2, SupersedeQuiet
    <2> QED BY <2>3 DEF Step
  <1>3. ASSUME NEW a \in Periods, NEW p \in Reports, OpenReports(p, a) PROVE Step
    <2>1. "active" \in RowStatuses
      BY DEF RowStatuses
    <2> QED BY <1>0, <1>3, <2>1, Enters DEF OpenReports
  <1> QED BY <1>1, <1>2, <1>3

(* The customers and their cards.                                          *)
LEMMA CustomerSteps ==
  ASSUME Inv,
         \/ \E a \in Periods : OpenCustomers(a)
         \/ OpenCards \/ CloseDetails \/ RunSubscriptionAction
         \/ \E s \in Slots : \/ RetryCustomers(s) \/ RetryDetails(s) \/ SubscriptionDone(s)
                             \/ \E a \in Periods : ApplyFilters(a, s)
                             \/ \E r \in Rows : OpenDetails(r, s)
         \/ \E r \in Rows : ChooseAction(r)
  PROVE  Step
  <1> USE Names
  <1>0. /\ {"customers", "card"} \subseteq PageNames /\ None \notin PageNames
        /\ about \in Subjects /\ held \in Slots \cup {0}
        /\ loading \in BOOLEAN /\ failed \in BOOLEAN
    BY Routes DEF Inv, Shaped, VisitShaped, NetShaped, ListShaped
  <1>1. ASSUME OpenCards \/ \E a \in Periods : OpenCustomers(a) PROVE Step
    <2>1. "active" \in RowStatuses
      BY DEF RowStatuses
    <2> QED BY <1>0, <1>1, <2>1, Enters DEF OpenCards, OpenCustomers
  <1>2. ASSUME CloseDetails PROVE Step
    <2>1. /\ page = "card" /\ about' = None /\ Supersede /\ list' = Blank /\ failed' = FALSE
          /\ UNCHANGED <<role, page, clicks, loading, held, dialog, act, own>> /\ UNCHANGED server
      BY <1>2 DEF CloseDetails
    <2>2. VisitGoesOn /\ ActsOn /\ OwnTold /\ ListLeft
      BY <1>0, <2>1, Stays, ActsAsBefore DEF OwnTold, ListLeft
    <2>3. Quiet
      BY <1>0, <2>1, <2>2, SupersedeQuiet
    <2> QED BY <2>3 DEF Step
  <1>3. ASSUME RunSubscriptionAction PROVE Step
    <2>1. /\ page \in {"customers", "card"} /\ dialog # NoDialog /\ Submit(about, None)
          /\ UNCHANGED <<loads, newest>>
      BY <1>3 DEF RunSubscriptionAction, Uncovered
    <2>2. Quiet
      BY <1>0, <2>1, SubmitQuiet
    <2> QED BY <2>2 DEF Step
  <1>4. ASSUME NEW r \in Rows, ChooseAction(r) PROVE Step
    <2>1. page \in {"customers", "card"} /\ Choose(r, "subscription") /\ "subscription" \in Kinds
      BY <1>4 DEF ChooseAction, Kinds
    <2>2. Quiet
      BY <1>0, <2>1, ChooseQuiet
    <2> QED BY <2>2 DEF Step
  <1>5. ASSUME NEW s \in Slots, NEW a \in Periods, ApplyFilters(a, s) PROVE Step
    <2>1. /\ page = "customers" /\ about' = a /\ Click /\ Issue(s, a, TRUE, {act.slot})
          /\ list' = list /\ loading' = TRUE /\ failed' = FALSE
          /\ UNCHANGED <<role, page, held, dialog, act, own>> /\ UNCHANGED server
      BY <1>5 DEF ApplyFilters, LoadCustomers
    <2> QED BY <1>0, <2>1, Loads DEF Selective, Reports
  <1>6. ASSUME NEW s \in Slots, RetryCustomers(s) PROVE Step
    <2>1. /\ page = "customers" /\ Issue(s, about, TRUE, {act.slot})
          /\ list' = list /\ loading' = TRUE /\ failed' = FALSE
          /\ UNCHANGED <<role, page, about, clicks, held, dialog, act, own>> /\ UNCHANGED server
      BY <1>6 DEF RetryCustomers, LoadCustomers, user
    <2> QED BY <1>0, <2>1, Loads DEF Selective, Reports
  <1>7. ASSUME NEW s \in Slots, NEW r \in Rows, OpenDetails(r, s) PROVE Step
    <2>1. /\ page = "card" /\ about' = r /\ Click /\ Issue(s, r, TRUE, {act.slot})
          /\ list' = Blank /\ loading' = TRUE /\ failed' = FALSE
          /\ UNCHANGED <<role, page, held, dialog, act, own>> /\ UNCHANGED server
      BY <1>7 DEF OpenDetails
    <2> QED BY <1>0, <2>1, Loads
  <1>8. ASSUME NEW s \in Slots, RetryDetails(s) PROVE Step
    <2>1. /\ page = "card" /\ Issue(s, about, TRUE, {act.slot})
          /\ list' = Blank /\ loading' = TRUE /\ failed' = FALSE
          /\ UNCHANGED <<role, page, about, clicks, held, dialog, act, own>> /\ UNCHANGED server
      BY <1>8 DEF RetryDetails, user
    <2> QED BY <1>0, <2>1, Loads
  <1>9. ASSUME NEW s \in Slots, SubscriptionDone(s) PROVE Step
    <2>1. /\ act.step = "done" /\ Acknowledge /\ dialog' = NoDialog /\ Reloading(s)
          /\ UNCHANGED <<role, page, clicks, held>> /\ UNCHANGED server
      BY <1>9 DEF SubscriptionDone, Close
    <2>2. act.about \in Subjects /\ act.row \in Rows
      BY <2>1 DEF Inv, Shaped, ActFits, Action
    <2>3. CASE page = "customers" /\ LoadCustomers(s, act.about) /\ UNCHANGED about
      <3>1. VisitGoesOn /\ ActsOn
        BY <1>0, <2>1, <2>3, Stays, DoneActs
      <3>2. OwnTold
        BY <2>1, <2>3 DEF OwnTold, Acknowledge
      <3> QED BY <2>1, <2>2, <2>3, <3>1, <3>2, ShowsLoader DEF LoadCustomers, Selective, Reports
    <2>4. CASE /\ page = "card" /\ about' = act.row /\ Issue(s, act.row, TRUE, {})
               /\ list' = Blank /\ loading' = TRUE /\ failed' = FALSE
      <3>1. VisitGoesOn /\ ActsOn
        BY <1>0, <2>1, <2>2, <2>4, Stays, DoneActs
      <3>2. OwnTold
        BY <2>1, <2>4 DEF OwnTold, Acknowledge
      <3> QED BY <2>1, <2>2, <2>4, <3>1, <3>2, ShowsLoader
    <2> QED BY <1>9, <2>3, <2>4 DEF SubscriptionDone
  <1> QED BY <1>1, <1>2, <1>3, <1>4, <1>5, <1>6, <1>7, <1>8, <1>9

(* The stores, the goods and the promo codes.                              *)
LEMMA ListedSteps ==
  ASSUME Inv,
         \/ OpenStores \/ OpenProducts \/ OpenPromos
         \/ \E s \in Slots : RetryStores(s) \/ RetryProducts(s) \/ RetryPromos(s) \/ CatalogDone(s)
         \/ \E r \in Rows :
               \/ NewStore(r) \/ NewProduct(r) \/ NewPromo(r)
               \/ \E kind \in StoreDialogs \ {"create"} : ChooseStore(r, kind)
               \/ \E kind \in ProductDialogs \ {"create"} : ChooseProduct(r, kind)
               \/ \E kind \in PromoDialogs \ {"create"} : ChoosePromo(r, kind)
               \/ ActivatePromocode(r)
         \/ SubmitStore \/ SubmitCoverage \/ SubmitSettings
         \/ SubmitProduct \/ SubmitProductEdit \/ ConfirmDeactivation
         \/ SubmitPromo \/ SubmitPromoEdit \/ DeactivatePromocode
  PROVE  Step
  <1> USE Names
  <1> DEFINE Here == {"stores", "products", "promos"}
  <1>0. /\ Here \subseteq PageNames /\ None \notin PageNames
        /\ about \in Subjects /\ held \in Slots \cup {0}
        /\ {"create", "cover", "settle", "edit", "deactivate", "activate"} \subseteq Kinds
        /\ {"active", "inactive"} \subseteq RowStatuses
        /\ Here \cap Selective = {}
    BY Routes DEF Inv, Shaped, VisitShaped, NetShaped, Kinds, StoreDialogs, ProductDialogs,
                  PromoDialogs, RowStatuses, Selective, Reports
  <1>1. ASSUME OpenStores \/ OpenProducts \/ OpenPromos PROVE Step
    BY <1>0, <1>1, Enters DEF OpenStores, OpenProducts, OpenPromos
  <1>2. ASSUME NEW s \in Slots, RetryStores(s) \/ RetryProducts(s) \/ RetryPromos(s) PROVE Step
    <2>1. /\ page \in Here /\ Issue(s, about, TRUE, Slots)
          /\ list' = list /\ loading' = TRUE /\ failed' = FALSE
          /\ UNCHANGED <<role, page, about, clicks, held, dialog, act, own>> /\ UNCHANGED server
      BY <1>2 DEF RetryStores, RetryProducts, RetryPromos, RetryAny, LoadAny, user
    <2> QED BY <1>0, <2>1, Loads
  <1>3. ASSUME NEW s \in Slots, CatalogDone(s) PROVE Step
    <2>1. /\ page \in Here /\ act.step = "done" /\ Acknowledge /\ dialog' = NoDialog
          /\ Reloading(s) /\ Issue(s, None, TRUE, Slots)
          /\ list' = list /\ loading' = TRUE /\ failed' = FALSE
          /\ UNCHANGED <<role, page, about, clicks, held>> /\ UNCHANGED server
      BY <1>3 DEF CatalogDone, Close, LoadAny, user
    <2>2. VisitGoesOn /\ ActsOn
      BY <1>0, <2>1, Stays, DoneActs
    <2>3. OwnTold
      BY <2>1 DEF OwnTold, Acknowledge
    <2> QED BY <1>0, <2>1, <2>2, <2>3, ShowsLoader
  <1>4. ASSUME NEW r \in Rows, NEW kind \in Kinds, page \in Here, Choose(r, kind) PROVE Step
    <2>1. Quiet
      BY <1>0, <1>4, ChooseQuiet
    <2> QED BY <2>1 DEF Step
  <1>5. ASSUME NEW r \in Rows, NewStore(r) \/ NewProduct(r) \/ NewPromo(r) PROVE Step
    BY <1>0, <1>4, <1>5 DEF NewStore, NewProduct, NewPromo, ChooseNew
  <1>6. ASSUME NEW r \in Rows,
               \/ \E kind \in StoreDialogs \ {"create"} : ChooseStore(r, kind)
               \/ \E kind \in ProductDialogs \ {"create"} : ChooseProduct(r, kind)
               \/ \E kind \in PromoDialogs \ {"create"} : ChoosePromo(r, kind)
        PROVE  Step
    <2>1. \E kind \in Kinds : page \in Here /\ Choose(r, kind)
      BY <1>0, <1>6 DEF ChooseStore, ChooseProduct, ChoosePromo, StoreDialogs, ProductDialogs,
                        PromoDialogs
    <2> QED BY <1>4, <2>1
  <1>7. ASSUME NEW r \in Rows, ActivatePromocode(r) PROVE Step
    <2>1. /\ page = "promos" /\ Start("activate", r, None, None, None)
          /\ UNCHANGED <<loads, newest>>
      BY <1>7 DEF ActivatePromocode
    <2>2. Quiet
      BY <1>0, <2>1, StartQuiet
    <2> QED BY <2>2 DEF Step
  <1>8. ASSUME NEW p \in Here, NEW kind \in Kinds, NEW draft \in RowStatuses \cup {None},
               SubmitDraft(p, kind, draft),
               kind = "edit" \/ (kind = "create" /\ p = "promos") => draft \in RowStatuses
        PROVE  Step
    <2>1. /\ page = p /\ dialog.kind = kind /\ Start(kind, dialog.row, draft, None, None)
          /\ UNCHANGED <<loads, newest>>
      BY <1>8 DEF SubmitDraft
    <2>2. dialog # NoDialog
      BY <2>1 DEF NoDialog
    <2>3. dialog.row \in Rows
      BY <2>2 DEF Inv, Shaped, DialogFits
    <2>4. Quiet
      BY <1>0, <1>8, <2>1, <2>3, StartQuiet
    <2> QED BY <2>4 DEF Step
  <1>9. ASSUME NEW p \in Here, NEW kind \in Kinds, SubmitShown(p, kind),
               ~(kind = "create" /\ p = "promos")
        PROVE  Step
    <2>1. dialog.kind = kind /\ SubmitDraft(p, kind, dialog.draft)
      BY <1>9 DEF SubmitShown, SubmitDraft
    <2>2. /\ dialog.draft \in RowStatuses \cup {None}
          /\ dialog.kind = "edit" => dialog.draft \in RowStatuses
      BY DEF Inv, Shaped, DialogFits, Dialog
    <2> QED BY <1>8, <1>9, <2>1, <2>2
  <1>10. CASE SubmitPromo \/ SubmitPromoEdit
    BY <1>0, <1>8, <1>10 DEF SubmitPromo, SubmitPromoEdit, PromoForm
  <1>11. CASE \/ SubmitStore \/ SubmitCoverage \/ SubmitSettings
              \/ SubmitProduct \/ SubmitProductEdit \/ ConfirmDeactivation
              \/ DeactivatePromocode
    BY <1>0, <1>9, <1>11 DEF SubmitStore, SubmitCoverage, SubmitSettings, SubmitProduct,
                             SubmitProductEdit, ConfirmDeactivation, DeactivatePromocode
  <1> QED BY <1>1, <1>2, <1>3, <1>5, <1>6, <1>7, <1>10, <1>11

(* The goods of a store.                                                   *)
LEMMA InventorySteps ==
  ASSUME Inv,
         \/ OpenInventory \/ DeselectStore
         \/ \E s \in Slots : \/ RetryInventory(s) \/ InventoryDone(s)
                             \/ \E a \in Stores : SelectStore(a, s)
         \/ \E r \in Rows : ChooseInventory(r)
         \/ \E a \in Stores : SubmitInventory(a)
  PROVE  Step
  <1> USE Names
  <1>0. /\ "inventory" \in PageNames /\ None \notin PageNames
        /\ about \in Subjects /\ held \in Slots \cup {0}
        /\ loading \in BOOLEAN /\ failed \in BOOLEAN
        /\ "inventory" \notin Selective /\ "attach" \in Kinds /\ "active" \in RowStatuses
    BY Routes DEF Inv, Shaped, VisitShaped, NetShaped, ListShaped, Kinds, RowStatuses, Selective,
                  Reports
  <1>1. CASE OpenInventory
    BY <1>0, <1>1, Enters DEF OpenInventory
  <1>2. ASSUME NEW s \in Slots, RetryInventory(s) PROVE Step
    <2>1. /\ page = "inventory" /\ Issue(s, about, TRUE, Slots)
          /\ list' = list /\ loading' = TRUE /\ failed' = FALSE
          /\ UNCHANGED <<role, page, about, clicks, held, dialog, act, own>> /\ UNCHANGED server
      BY <1>2 DEF RetryInventory, RetryAny, LoadAny, user
    <2> QED BY <1>0, <2>1, Loads
  <1>3. ASSUME NEW s \in Slots, NEW a \in Stores, SelectStore(a, s) PROVE Step
    <2>1. /\ page = "inventory" /\ about' = a /\ Click /\ Issue(s, a, TRUE, Slots)
          /\ list' = list /\ loading' = TRUE /\ failed' = FALSE
          /\ UNCHANGED <<role, page, held, dialog, act, own>> /\ UNCHANGED server
      BY <1>3 DEF SelectStore, LoadAny
    <2> QED BY <1>0, <2>1, Loads
  <1>4. CASE DeselectStore
    <2>1. /\ page = "inventory" /\ about' = None /\ list' = Blank
          /\ UNCHANGED <<role, page, clicks, loading, failed, loads, newest, held>>
          /\ UNCHANGED <<dialog, act, own>> /\ UNCHANGED server
      BY <1>4 DEF DeselectStore, net
    <2>2. VisitGoesOn /\ ActsOn /\ OwnTold /\ ListLeft
      BY <1>0, <2>1, Stays, ActsAsBefore DEF OwnTold, ListLeft
    <2>3. Quiet
      BY <1>0, <2>1, <2>2, StillQuiet
    <2> QED BY <2>3 DEF Step
  <1>5. ASSUME NEW r \in Rows, ChooseInventory(r) PROVE Step
    <2>1. page = "inventory" /\ Choose(r, "attach")
      BY <1>5 DEF ChooseInventory
    <2>2. Quiet
      BY <1>0, <2>1, ChooseQuiet
    <2> QED BY <2>2 DEF Step
  <1>6. ASSUME NEW a \in Stores, SubmitInventory(a) PROVE Step
    <2>1. /\ page = "inventory" /\ dialog # NoDialog /\ Submit(about, a)
          /\ UNCHANGED <<loads, newest>>
      BY <1>6 DEF SubmitInventory, Uncovered
    <2>2. Quiet
      BY <1>0, <2>1, SubmitQuiet
    <2> QED BY <2>2 DEF Step
  <1>7. ASSUME NEW s \in Slots, InventoryDone(s) PROVE Step
    <2>1. /\ page = "inventory" /\ act.step = "done" /\ Acknowledge /\ dialog' = NoDialog
          /\ UNCHANGED <<role, page, clicks, held>> /\ UNCHANGED server
      BY <1>7 DEF InventoryDone, Close
    <2>2. act.to \in Subjects
      BY DEF Inv, Shaped, ActFits, Action
    <2>3. OwnTold
      BY <2>1 DEF OwnTold, Acknowledge
    <2>4. CASE LoadAny(s, act.to) /\ Reloading(s) /\ UNCHANGED about
      <3>1. VisitGoesOn /\ ActsOn
        BY <1>0, <2>1, <2>4, Stays, DoneActs
      <3> QED BY <1>0, <2>1, <2>2, <2>3, <2>4, <3>1, ShowsLoader DEF LoadAny
    <2>5. ASSUME act' = Idle, about' = act.to PROVE VisitGoesOn /\ ActsOn
      <3>1. VisitGoesOn
        BY <1>0, <2>1, <2>2, <2>5, Stays
      <3>2. ActFits(act)' /\ DialogFits(dialog')
        BY <2>1, <2>5, Blanks DEF ActFits, Idle
      <3> QED BY <2>5, <3>1, <3>2 DEF ActsOn, Idle
    <2>6. CASE act' = Idle /\ about' = act.to /\ LoadAny(s, act.to)
      BY <1>0, <2>1, <2>2, <2>3, <2>5, <2>6, ShowsLoader DEF LoadAny
    <2>7. CASE act' = Idle /\ about' = act.to /\ UNCHANGED <<loads, newest, shown>>
      <3>1. ListLeft
        BY <1>0, <2>7 DEF shown, ListLeft
      <3>2. Quiet
        BY <1>0, <2>1, <2>3, <2>5, <2>7, <3>1, StillQuiet
      <3> QED BY <3>2 DEF Step
    <2> QED BY <1>7, <2>4, <2>6, <2>7 DEF InventoryDone
  <1> QED BY <1>1, <1>2, <1>3, <1>4, <1>5, <1>6, <1>7

(* Every action of the administrators is of one of the kinds.              *)
LEMMA AdminSteps == ASSUME Inv, AdminNext PROVE Step
  <1>1. CASE CatalogNext
    BY <1>1, CatalogSteps
  <1>2. CASE ~CatalogNext
    BY <1>2, ReportSteps, CustomerSteps, ListedSteps, InventorySteps DEF AdminNext
  <1> QED BY <1>1, <1>2

-----------------------------------------------------------------------------
(* The theorems. *)

(* What a lost request ends is ended; nothing is shown.                    *)
LEMMA LoseQuiet == ASSUME Inv, NEW s \in Slots, Lose(s) PROVE Quiet
  <1>1. /\ loads[s] # Free /\ Ended(s, FALSE) /\ failed' \in BOOLEAN
        /\ UNCHANGED <<role, page, about, clicks, list, own>> /\ UNCHANGED server
    BY DEF Lose, user, Inv, Shaped, ListShaped
  <1>2. page # None /\ about \in Subjects
    BY <1>1 DEF Inv, Vacant, Shaped, VisitShaped
  <1>3. /\ loads' \in [Slots -> Request]
        /\ loads'[s] = Free /\ \A t \in Slots \ {s} : loads'[t] = loads[t]
        /\ newest' \in {newest, 0} /\ newest' # s
        /\ held' \in Slots \cup {0} /\ loading' \in BOOLEAN
    BY <1>1, EndedNet
  <1>4. VisitGoesOn /\ ActsOn
    BY <1>1, <1>2, Stays, EndedActs
  <1>5. ListLeft /\ OwnTold /\ NetAsks
    BY <1>1, <1>3 DEF ListLeft, OwnTold, NetAsks
  <1>6. AsksOnly
    BY <1>1, <1>3 DEF AsksOnly, Inv, Shaped, NetShaped
  <1> QED BY <1>1, <1>4, <1>5, <1>6 DEF Quiet

(* Every step is of one of the kinds, whoever takes it.                    *)
LEMMA NextSteps == ASSUME Inv, Next PROVE Step
  <1>0. about \in Subjects
    BY DEF Inv, Shaped, VisitShaped
  <1>1. ASSUME NEW r \in Roles, SignIn(r) PROVE Step
    BY <1>1 DEF Step
  <1>2. CASE Leave \/ SignOut
    BY <1>2 DEF Leave, SignOut, Step
  <1>3. CASE Dismiss
    <2>1. /\ dialog # NoDialog /\ dialog' = NoDialog
          /\ UNCHANGED <<role, page, about, clicks, list, loading, failed, loads, newest, held>>
          /\ UNCHANGED <<act, own>> /\ UNCHANGED server
      BY <1>3 DEF Dismiss, Uncovered, user, shown, net
    <2>2. page # None
      BY <2>1 DEF Inv, Vacant
    <2>3. VisitGoesOn /\ ActsOn
      BY <1>0, <2>1, <2>2, Stays, ActsAsBefore
    <2>4. ListLeft /\ OwnTold /\ held' \in Slots \cup {0}
      BY <2>1 DEF ListLeft, OwnTold, Inv, Shaped, ListShaped, NetShaped
    <2>5. Quiet
      BY <2>1, <2>3, <2>4, StillQuiet
    <2> QED BY <2>5 DEF Step
  <1>4. CASE Fail
    <2>1. /\ act.step \in {"sent", "done"} /\ act' = Idle
          /\ UNCHANGED <<role, page, about, clicks, list, loading, failed, loads, newest, held>>
          /\ UNCHANGED <<dialog, own>> /\ UNCHANGED server
      BY <1>4 DEF Fail, user, shown, net
    <2>2. page # None
      BY <2>1 DEF Inv, Vacant, Idle
    <2>3. VisitGoesOn
      BY <1>0, <2>1, <2>2, Stays
    <2>4. DialogFits(dialog') /\ ActFits(act)'
      BY <2>1, Blanks DEF Inv, Shaped, ActFits, Idle
    <2>5. ActsOn
      BY <2>1, <2>4 DEF ActsOn, Idle
    <2>6. ListLeft /\ OwnTold /\ held' \in Slots \cup {0}
      BY <2>1 DEF ListLeft, OwnTold, Inv, Shaped, ListShaped, NetShaped
    <2>7. Quiet
      BY <2>1, <2>3, <2>5, <2>6, StillQuiet
    <2> QED BY <2>7 DEF Step
  <1>5. ASSUME NEW s \in Slots, Answer(s) \/ Lose(s) PROVE Step
    BY <1>5, LoseQuiet DEF Step
  <1>6. ASSUME NEW r \in Rows, Elsewhere(r) PROVE Step
    <2>1. PICK status \in RowStatuses :
              /\ page # None /\ clock < MaxChanges /\ clock' = clock + 1
              /\ table' = [table EXCEPT ![r] = Changed(status)]
              /\ UNCHANGED <<user, shown, net, dialog, act, own>>
      BY <1>6 DEF Elsewhere, RowStatuses, Statuses
    <2>2. TableMoves(r, status)
      BY <2>1 DEF TableMoves
    <2> QED BY <2>2 DEF Step
  <1> QED BY <1>1, <1>2, <1>3, <1>4, <1>5, <1>6, ManagerSteps, AdminSteps, ClientSteps DEF Next

(* The invariant is inductive.                                             *)
LEMMA InvNext == Inv /\ [Next]_vars => Inv'
  <1> SUFFICES ASSUME Inv, [Next]_vars PROVE Inv'
    OBVIOUS
  <1>1. CASE Next
    <2>1. Step
      BY <1>1, NextSteps
    <2>2. CASE Quiet
      BY <2>2, QuietKeeps
    <2>3. ASSUME NEW s \in Slots,
                 \/ Listing(s) \/ Answer(s) \/ DetailsShown(s)
                 \/ \E a \in Subjects : MergeDone(s, a)
          PROVE  Inv'
      BY <2>3, ListingKeeps, AnswerKeeps, DetailsShownKeeps, MergeDoneKeeps
    <2>4. ASSUME NEW r \in Rows, NEW status \in RowStatuses, TableMoves(r, status) PROVE Inv'
      BY <2>4, TableMovesKeeps
    <2>5. ASSUME NEW p \in PageNames, NEW a \in Subjects, NEW status \in RowStatuses,
                 Entering(p, a, status)
          PROVE  Inv'
      BY <2>5, EnteringKeeps
    <2>6. CASE Left /\ role' \in {role, None}
      BY <2>6, LeftKeeps
    <2>7. ASSUME NEW r \in Roles, SignIn(r) PROVE Inv'
      BY <2>7, SignInKeeps
    <2> QED BY <2>1, <2>2, <2>3, <2>4, <2>5, <2>6, <2>7 DEF Step
  <1>2. CASE UNCHANGED vars
    <2>1. /\ UNCHANGED <<role, page, about, clicks, list, loading, failed, loads, newest, held>>
          /\ UNCHANGED <<dialog, act, own, table, clock>>
      BY <1>2 DEF vars, user, shown, net, server
    <2>2. Shaped'
      BY <2>1 DEF Inv, Shaped, VisitShaped, ListShaped, NetShaped, DialogFits, ActFits,
                  ServerShaped
    <2> QED BY <2>1, <2>2 DEF Inv, Vacant, Dated, OwnKept, Newer, AskedFor, Served
  <1> QED BY <1>1, <1>2

(* In every behaviour of the pages the state is shaped, a closed page      *)
(* leaves nothing behind, nothing is newer than the server, and what a     *)
(* page shows or is about to show is no older than what it was told.       *)
THEOREM ScreensInductive == Spec => []Inv
  <1>1. Init => Inv
    BY InvInit
  <1>2. Inv /\ [Next]_vars => Inv'
    BY InvNext
  <1> QED BY <1>1, <1>2, PTL DEF Spec

(* Every variable of the pages keeps its type.                             *)
THEOREM ScreensTyped == Spec => []TypeOK
  <1>1. Inv => TypeOK
    <2> SUFFICES ASSUME Inv PROVE TypeOK
      OBVIOUS
    <2>1. VisitShaped /\ ListShaped /\ NetShaped /\ ServerShaped
      BY DEF Inv, Shaped
    <2>2. act \in Action /\ ((act.step = "reload") = (act.slot # 0))
      BY DEF Inv, Shaped, ActFits
    <2>3. dialog \in Dialog
      BY DEF Inv, Shaped, DialogFits
    <2>4. \A s \in Slots :
             /\ loads[s].step \in {"free", "asked", "served"}
             /\ loads[s].about \in Subjects /\ loads[s].first \in BOOLEAN
             /\ \A r \in Rows : loads[s].rows[r].at <= table[r].at
      BY <2>1 DEF Inv, Dated, NetShaped, Request
    <2>5. list.about \in Subjects /\ list.rows \in [Rows -> RowType]
      BY <2>1 DEF ListShaped
    <2>6. \A r \in Rows : list.rows[r].at <= table[r].at
      BY DEF Inv, Dated
    <2>7. /\ act.step \in {"idle", "sent", "done", "reload"} /\ act.kind \in Kinds \cup {None}
          /\ act.slot \in Slots \cup {0} /\ dialog.kind \in Kinds \cup {None}
      BY <2>2, <2>3 DEF Action, Dialog
    <2> QED BY <2>1, <2>2, <2>4, <2>5, <2>6, <2>7
               DEF TypeOK, VisitShaped, ListShaped, NetShaped, ServerShaped
  <1> QED BY <1>1, ScreensInductive, PTL

(* A manager who was told that his action succeeded never sees that row as *)
(* it was before, however late the older lists arrive.                     *)
THEOREM OwnWorkIsShown == Spec => []OwnWorkShown
  <1>1. Inv => OwnWorkShown
    <2> SUFFICES ASSUME Inv, page \in {"orders", "stock"}, NEW r \in Rows, list.rows[r] # Absent
                 PROVE  list.rows[r].at >= own[r]
      BY DEF OwnWorkShown
    <2>1. own[r] <= list.rows[r].at
      BY DEF Inv, OwnKept
    <2>2. own[r] \in Nat /\ list.rows[r] \in RowType
      BY Names DEF Inv, Shaped, ServerShaped, ListShaped
    <2>3. list.rows[r].at \in Nat
      BY <2>2, Names DEF RowType
    <2> QED BY <2>1, <2>2, <2>3
  <1> QED BY <1>1, ScreensInductive, PTL

(* A report and the card of a customer show what they were asked about.    *)
THEOREM ShownIsWhatWasAsked == Spec => []ShownIsAsked
  <1>1. Inv => ShownIsAsked
    BY DEF Inv, AskedFor, ShownIsAsked, Selective
  <1> QED BY <1>1, ScreensInductive, PTL

(* A step of a page that numbers its requests never shows an older state   *)
(* of a row; only an answer merged into its row may be overtaken.          *)
RowsNotOlder ==
    (page \in Numbered /\ page' = page) =>
        \A r \in Rows :
           \/ list.rows[r] = Absent \/ list'.rows[r] = Absent
           \/ list'.rows[r].at >= list.rows[r].at
           \/ act.step = "done" /\ act'.step = "reload" /\ r = act.row

(* It is enough that the row is the same, or was not there.                *)
LEMMA StepsNotOlder == ASSUME Inv, Next PROVE RowsNotOlder
  <1> SUFFICES ASSUME page \in Numbered, page' = page, NEW r \in Rows,
                      list.rows[r] # Absent, list'.rows[r] # Absent
               PROVE  \/ list'.rows[r].at >= list.rows[r].at
                      \/ act.step = "done" /\ act'.step = "reload" /\ r = act.row
    BY DEF RowsNotOlder
  <1>0. list \in [about : Subjects, rows : [Rows -> RowType]]
    BY DEF Inv, Shaped, ListShaped
  <1>1. list.rows[r].at \in Nat
    BY <1>0, Names DEF RowType
  <1>2. page # None /\ page # "details"
    BY Routes DEF Numbered, Manager, Reports
  <1>3. Step
    BY NextSteps
  <1>4. CASE list' = list
    BY <1>1, <1>4
  <1>5. CASE Quiet
    <2>1. list' = list \/ list' = Blank
      BY <1>2, <1>5 DEF Quiet, ListLeft
    <2>2. list' = list
      BY <2>1, NothingAt DEF Blank
    <2> QED BY <1>4, <2>2
  <1>6. ASSUME NEW s \in Slots, Answer(s), list' # list PROVE list'.rows[r].at >= list.rows[r].at
    <2>1. /\ loads[s].step = "served" /\ newest = s /\ list'.rows = loads[s].rows
      BY <1>6 DEF Answer, Heard
    <2>2. list.rows[r].at <= loads[s].rows[r].at
      BY <2>1, Names DEF Inv, Newer, Served
    <2>3. loads[s] \in Request
      BY DEF Inv, Shaped, NetShaped
    <2>4. loads[s].rows[r].at \in Nat
      BY <2>3, Names DEF Request, RowType
    <2> QED BY <1>1, <2>1, <2>2, <2>4
  <1>7. ASSUME NEW s \in Slots, NEW a \in Subjects, MergeDone(s, a)
        PROVE  list'.rows[r] = list.rows[r] \/ (act.step = "done" /\ act'.step = "reload" /\ r = act.row)
    <2>1. act.step = "done" /\ list' = Merged /\ act' = [act EXCEPT !.step = "reload", !.slot = s]
      BY <1>7 DEF MergeDone, Reloading
    <2>2. act \in Action
      BY DEF Inv, Shaped, ActFits
    <2>3. act'.step = "reload"
      BY <2>1, <2>2 DEF Action
    <2>4. CASE r # act.row
      BY <1>0, <2>1, <2>4 DEF Merged
    <2> QED BY <2>1, <2>3, <2>4
  <1>8. ~Left /\ \A p, a, status : ~Entering(p, a, status)
    BY <1>2 DEF Left, Entering, Mount
  <1>9. \A s \in Slots : Listing(s) => list' = list
    BY DEF Listing, shown
  <1>10. \A s \in Slots : ~DetailsShown(s)
    BY <1>2 DEF DetailsShown
  <1>11. \A x \in Rows, status \in RowStatuses : TableMoves(x, status) => list' = list
    BY DEF TableMoves, shown
  <1>12. \A x \in Roles : SignIn(x) => list' = list
    BY DEF SignIn, shown
  <1> QED BY <1>1, <1>3, <1>4, <1>5, <1>6, <1>7, <1>8, <1>9, <1>10, <1>11, <1>12 DEF Step

(* A page that numbers its requests never replaces what it shows by an     *)
(* older state of the server.                                              *)
THEOREM NeverOlderShown == Spec => NeverOlder
  <1>1. Inv /\ [Next]_vars => [RowsNotOlder]_vars
    BY StepsNotOlder
  <1>2. Inv /\ [Next]_vars =>
          [(page \in Numbered /\ page' = page) =>
             \A r \in Rows :
                \/ list.rows[r] = Absent \/ list'.rows[r] = Absent
                \/ list'.rows[r].at >= list.rows[r].at
                \/ act.step = "done" /\ act'.step = "reload" /\ r = act.row]_vars
    BY <1>1 DEF RowsNotOlder
  <1> QED BY <1>2, ScreensInductive, PTL DEF Spec, NeverOlder

=============================================================================
