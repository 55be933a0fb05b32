------------------------------- MODULE Pages -------------------------------
(***************************************************************************)
(* What the pages of the two applications have in common: a list loaded    *)
(* from the server, requests whose answers come in any order or not at all,*)
(* and one action at a time that changes a row and loads the list again.   *)
(* A page that numbers its requests listens only to the newest one; the    *)
(* others take whatever comes.                                             *)
(*                                                                         *)
(* The sections of a page share no state, so a section is a page here.  A  *)
(* visit starts with a table of its own; the rows of a table are what the  *)
(* page lists - orders, goods, stores, promo codes, customers.  Of a row   *)
(* the number of its last change and its status are kept.  A request       *)
(* nobody waits for any more is forgotten; the changes it makes are among  *)
(* those made elsewhere.                                                   *)
(***************************************************************************)
EXTENDS Naturals, FiniteSets

CONSTANTS
    Rows,
    MaxChanges,   \* bound of the changes made to the table in a visit
    MaxClicks,    \* bound of the clicks that start or redirect something
    MaxLoads,     \* bound of the requests in progress
    None

ASSUME PagesAssumption ==
    /\ IsFiniteSet(Rows)
    /\ MaxChanges \in Nat \ {0} /\ MaxClicks \in Nat /\ MaxLoads \in Nat \ {0}

VARIABLES
    role,         \* of the one who signed in
    page,
    about,        \* what the page is asked about: a filter, a store, a row
    clicks,
    list,         \* what it shows, and what that is about
    loading, failed,
    loads,        \* the requests for the list
    newest,       \* the one the page listens to; 0: none
    held,         \* the one that keeps the timer from sending another
    dialog,       \* what the manager or the administrator is about to do
    act,          \* the action in progress
    own,          \* for each row its last change this page was told about
    table, clock  \* the server

user == <<role, page, about, clicks>>
shown == <<list, loading, failed>>
net == <<loads, newest, held>>
server == <<table, clock>>
vars == <<user, shown, net, dialog, act, own, server>>

Slots == 1..MaxLoads

Absent == [at |-> 0, status |-> "absent"]
Nothing == [r \in Rows |-> Absent]
Blank == [about |-> None, rows |-> Nothing]
Free == [step |-> "free", about |-> None, rows |-> Nothing, first |-> FALSE]
NoDialog == [kind |-> None, row |-> None, about |-> None, draft |-> None]
Idle == [step |-> "idle", kind |-> None, row |-> None, about |-> None,
         to |-> None, draft |-> None, result |-> Absent, slot |-> 0]

Manager == {"orders", "stock", "dashboard"}
Reports == {"report", "revenue", "delivery", "payments"}
Numbered == Manager \cup Reports \cup {"customers", "card"}

-----------------------------------------------------------------------------
(* A request for the list.                                                 *)

(* first: its end takes the loader away.                                   *)
Asked(a, first) ==
    [step |-> "asked", about |-> a, rows |-> Nothing, first |-> first]

Kept(keep) == [s \in Slots |-> IF s \in keep THEN loads[s] ELSE Free]

Issue(s, a, first, keep) ==
    /\ loads[s] = Free /\ \A x \in 1..(s - 1) : loads[x] # Free
    /\ loads' = [Kept(keep) EXCEPT ![s] = Asked(a, first)]
    /\ newest' = s

(* The requests whose end somebody still waits for.                        *)
Waited == {s \in Slots : page \in Numbered => s \in {held, act.slot}}

Supersede ==
    /\ newest' = 0
    /\ loads' = Kept(Waited)

(* The server reads what it lists for page p.                              *)
Read(p, s, rows) ==
    /\ page = p /\ loads[s].step = "asked"
    /\ loads' = [loads EXCEPT ![s].step = "served", ![s].rows = rows]
    /\ UNCHANGED <<user, shown, newest, held, dialog, act, own, server>>

(* Those rows of the table for which a condition holds.                    *)
Where(Wanted(_)) == [r \in Rows |-> IF Wanted(table[r]) THEN table[r] ELSE Absent]

(* Mutant: every answer is listened to.                                    *)
HeardAny(s) == loads[s] # Free

Heard(s) == page \in Numbered => newest = s

(* Whether the dialog of an action is closed by the end of its list: also  *)
(* by a failure, but for the customer's own addresses.                     *)
Closing(answered) == page \in Manager \/ (page = "profile" /\ answered)

(* Mutant: the timer is released by the newest request only.               *)
EndedHolding(s, answered) ==
    /\ loads' = [loads EXCEPT ![s] = Free]
    /\ newest' = IF newest = s THEN 0 ELSE newest
    /\ held' = IF held = s /\ Heard(s) THEN 0 ELSE held
    /\ act' = IF act.slot = s THEN Idle ELSE act
    /\ dialog' = IF act.slot = s /\ Closing(answered) THEN NoDialog ELSE dialog
    /\ loading' = (loading /\ ~(Heard(s) /\ loads[s].first))

(* Mutant: a superseded request does not end the action that waits for it. *)
EndedWaiting(s, answered) ==
    /\ loads' = [loads EXCEPT ![s] = Free]
    /\ newest' = IF newest = s THEN 0 ELSE newest
    /\ held' = IF held = s THEN 0 ELSE held
    /\ act' = IF act.slot = s /\ Heard(s) THEN Idle ELSE act
    /\ dialog' = IF act.slot = s /\ Closing(answered) THEN NoDialog ELSE dialog
    /\ loading' = (loading /\ ~(Heard(s) /\ loads[s].first))

(* finally: also of the action that waits for its list.                    *)
Ended(s, answered) ==
    /\ loads' = [loads EXCEPT ![s] = Free]
    /\ newest' = IF newest = s THEN 0 ELSE newest
    /\ held' = IF held = s THEN 0 ELSE held
    /\ act' = IF act.slot = s THEN Idle ELSE act
    /\ dialog' = IF act.slot = s /\ Closing(answered) THEN NoDialog ELSE dialog
    /\ loading' = (loading /\ ~(Heard(s) /\ loads[s].first))

Answer(s) ==
    /\ loads[s].step = "served" /\ page # "details" /\ Ended(s, TRUE)
    /\ IF Heard(s)
       THEN /\ list' = [about |-> loads[s].about, rows |-> loads[s].rows]
            /\ failed' = (failed /\ page \notin {"orders", "stock"})
       ELSE UNCHANGED <<list, failed>>
    /\ UNCHANGED <<user, own, server>>

(* An error, or no answer in time.                                         *)
Lose(s) ==
    /\ loads[s] # Free /\ page # "details" /\ Ended(s, FALSE)
    /\ failed' = (failed \/ Heard(s))
    /\ UNCHANGED <<user, list, own, server>>

-----------------------------------------------------------------------------
(* An action of the page.                                                  *)

Click ==
    /\ clicks < MaxClicks
    /\ clicks' = clicks + 1

(* A dialog is about the row as it was shown when it was opened, and      *)
(* covers the page; the draft of a form holds the status of that moment.   *)
Choose(r, kind) ==
    /\ dialog' = [kind |-> kind, row |-> r, about |-> about,
                  draft |-> IF kind = "edit" THEN list.rows[r].status ELSE None]
    /\ UNCHANGED <<user, shown, net, act, own, server>>

Uncovered == dialog = NoDialog

(* The manager and the customer wait for the action of the dialog.         *)
MayDismiss == page \in Manager \cup {"profile"} => act = Idle

Dismiss ==
    /\ ~Uncovered /\ MayDismiss
    /\ dialog' = NoDialog
    /\ UNCHANGED <<user, shown, net, act, own, server>>

Start(kind, r, draft, a, to) ==
    /\ Click
    /\ act' = [Idle EXCEPT !.step = "sent", !.kind = kind, !.row = r,
                 !.draft = draft, !.about = a, !.to = to]
    /\ UNCHANGED <<role, page, about, shown, held, dialog, own, server>>

Submit(a, to) == Start(dialog.kind, dialog.row, dialog.draft, a, to)

(* The server carries it out: row is what it becomes.                      *)
Change(p, kind, row) ==
    /\ page = p /\ act.step = "sent" /\ act.kind = kind
    /\ clock < MaxChanges
    /\ clock' = clock + 1
    /\ table' = [table EXCEPT ![act.row] = row]
    /\ act' = [act EXCEPT !.step = "done", !.result = row]
    /\ UNCHANGED <<user, shown, net, dialog, own>>

(* A row after its next change.                                            *)
Changed(status) == [at |-> clock + 1, status |-> status]

(* Refused, or its answer is lost: nothing is loaded.                      *)
Fail ==
    /\ act.step \in {"sent", "done"}
    /\ act' = Idle
    /\ UNCHANGED <<user, shown, net, dialog, own, server>>

Acknowledge == own' = [own EXCEPT ![act.row] = act.result.at]

Close == dialog' = NoDialog

Reloading(s) == act' = [act EXCEPT !.step = "reload", !.slot = s]

-----------------------------------------------------------------------------
(* A visit.                                                                *)

Route ==
    [store_operator |-> Manager,
     admin_catalog |-> {"stores", "products", "inventory", "promos"},
     admin_customers |-> {"customers", "card"},
     admin_operations |-> Reports,
     customer |-> {"shop", "history", "details", "profile"}]

(* RequireManager, RequireAdmin: a page of another role is not mounted.    *)
Admitted(p) == role # None /\ p \in Route[role]

Mount(p, a, status) ==
    /\ page = None /\ Admitted(p) /\ page' = p /\ about' = a
    /\ \E present \in SUBSET Rows :
          table' = [r \in Rows |-> IF r \in present
                                   THEN [at |-> 1, status |-> status]
                                   ELSE Absent]
    /\ clock' = 1
    /\ UNCHANGED <<role, clicks, list, failed, held, dialog, act, own>>

MountLoading(p, a, status) ==
    /\ Mount(p, a, status)
    /\ Issue(1, a, TRUE, {}) /\ loading' = TRUE

MountIdle(p, a, status) ==
    /\ Mount(p, a, status)
    /\ UNCHANGED <<loads, newest, loading>>

(* Mutant: the requests of the page that was left are still listened to.   *)
LeftListening ==
    /\ page' = None /\ about' = None /\ clicks' = 0
    /\ list' = Blank /\ loading' = FALSE /\ failed' = FALSE
    /\ held' = 0 /\ UNCHANGED <<loads, newest>>
    /\ dialog' = NoDialog /\ act' = Idle /\ own' = [r \in Rows |-> 0]
    /\ table' = Nothing /\ clock' = 0

(* Unmounting: nobody listens to what is still to come.                    *)
Left ==
    /\ page' = None /\ about' = None /\ clicks' = 0
    /\ list' = Blank /\ loading' = FALSE /\ failed' = FALSE
    /\ loads' = [s \in Slots |-> Free] /\ newest' = 0 /\ held' = 0
    /\ dialog' = NoDialog /\ act' = Idle /\ own' = [r \in Rows |-> 0]
    /\ table' = Nothing /\ clock' = 0

Init ==
    /\ role = None /\ page = None /\ about = None /\ clicks = 0
    /\ list = Blank /\ loading = FALSE /\ failed = FALSE
    /\ loads = [s \in Slots |-> Free] /\ newest = 0 /\ held = 0
    /\ dialog = NoDialog /\ act = Idle /\ own = [r \in Rows |-> 0]
    /\ table = Nothing /\ clock = 0
=============================================================================
