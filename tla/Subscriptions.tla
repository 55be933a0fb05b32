---------------------------- MODULE Subscriptions ----------------------------
(***************************************************************************)
(* The subscriptions of one customer in the Node backend: the requests of  *)
(* the customer (the paywall and the profile of the client application)    *)
(* and of the customers' administrator.  A request runs in a transaction   *)
(* that first locks one row of subscriptions and then writes that row and  *)
(* the customer's own row, which repeats the state orders are gated by.    *)
(* Row locks are held to the commit and always taken in that order, so the *)
(* writes of a request are one step; what precedes the lock - the read a   *)
(* renewal computes its date from, and the choice of the row - is not.     *)
(* Dates are days; of rows that expire on the same day the newest counts   *)
(* as the latest.                                                          *)
(***************************************************************************)
EXTENDS Integers, Sequences, FiniteSets, SequencesExt

CONSTANTS
    MaxRows,    \* bound of the table of subscriptions
    Sessions,   \* requests in progress at a time
    None,
    Periods,    \* the lengths, in days, of the periods on offer
    Monthly,    \* the default one, which the paywall asks for
    LastDay,    \* bound of the calendar
    Horizon     \* bound of the time sold: nothing is asked for beyond it

ASSUME PeriodsAssumption ==
    /\ MaxRows \in Nat /\ IsFiniteSet(Sessions)
    /\ Periods \subseteq Nat \ {0} /\ Monthly \in Periods
    /\ LastDay \in Nat /\ Horizon \in Nat

VARIABLES
    now,        \* today
    rows,       \* the table subscriptions
    account,    \* the columns subscription_* of the customer's row
    job,        \* the request each session serves
    tab,        \* the customer's tab: its paywall and what it was told
    granted     \* history: the day that the periods sold one after another reach

vars == <<now, rows, account, job, tab, granted>>

Selling == {"create", "renew"}
Kinds == Selling \cup {"pause", "cancel", "stop"}

NoRow == [status |-> "absent", expires |-> 0, renew |-> FALSE, period |-> 0]
NewRow(expires, period) ==
    [status |-> "active", expires |-> expires, renew |-> TRUE, period |-> period]
Resting == [pc |-> "idle", kind |-> "create", period |-> 0, expires |-> 0,
            at |-> 0, queue |-> <<>>]

Rows == 1..MaxRows      \* in the order of their creation
Later(a, b) == IF a > b THEN a ELSE b
Stored == {r \in Rows : rows[r].status # "absent"}

(* ORDER BY expires_at DESC, created_at DESC.                              *)
Precedes(a, b) ==
    \/ rows[a].expires > rows[b].expires
    \/ rows[a].expires = rows[b].expires /\ a > b

(* The one order in which the rows S are read.                             *)
LatestFirst(S) ==
    {q \in SetToSeqs(S) : \A i, j \in DOMAIN q : i < j => Precedes(q[i], q[j])}

-----------------------------------------------------------------------------
Init ==
    /\ now = 0
    /\ rows = [r \in Rows |-> NoRow]
    /\ account = [status |-> "expired", ends |-> 0, renew |-> FALSE]
    /\ job = [s \in Sessions |-> Resting]
    /\ tab = [screen |-> "closed", waits |-> None, told |-> "nothing"]
    /\ granted = 0

NextDay ==
    /\ now < LastDay
    /\ now' = now + 1
    /\ UNCHANGED <<rows, account, job, tab, granted>>

(* The bounds: a request is only made while its row would fit.             *)
Room ==
    /\ granted < Horizon
    /\ Cardinality(Stored) + Cardinality({s \in Sessions : job[s].pc # "idle"})
        < MaxRows

Ask(s, kind, period) ==
    /\ job[s].pc = "idle"
    /\ Room
    /\ job' = [job EXCEPT ![s] =
                  [Resting EXCEPT !.pc = IF kind \in Selling THEN "plan" ELSE "select",
                                  !.kind = kind, !.period = period]]
    /\ UNCHANGED <<now, rows, account, granted>>

-----------------------------------------------------------------------------
(* The paywall of the client application.                                  *)

OpenPaywall ==
    /\ tab.screen = "closed"
    /\ tab' = [tab EXCEPT !.screen = "open", !.told = "nothing"]
    /\ UNCHANGED <<now, rows, account, job, granted>>

ClosePaywall ==
    /\ tab.screen = "open"
    /\ tab' = [tab EXCEPT !.screen = "closed", !.told = "nothing"]
    /\ UNCHANGED <<now, rows, account, job, granted>>

Subscribe(s) ==
    /\ tab.screen = "open"
    /\ tab' = [screen |-> "loading", waits |-> s, told |-> "nothing"]
    /\ Ask(s, "create", Monthly)

(* Every other caller: the profile, the administrator, a second tab.       *)
Request(s) ==
    /\ \E kind \in Kinds, period \in Periods :
          (kind # "create" => period = Monthly) /\ Ask(s, kind, period)
    /\ UNCHANGED tab

(* Mutant: only success and failure end the spinner.                       *)
TellLoading(s, outcome) ==
    tab' = IF tab.waits # s THEN tab
           ELSE [screen |-> CASE outcome = "failed" -> "open"
                              [] outcome = "activated" -> "closed"
                              [] OTHER -> "loading",
                 waits  |-> None,
                 told   |-> outcome]

(* The answer of request s reaches the tab if the tab still waits for it.  *)
Tell(s, outcome) ==
    tab' = IF tab.waits # s THEN tab
           ELSE [screen |-> IF outcome = "failed" THEN "open" ELSE "closed",
                 waits  |-> None,
                 told   |-> outcome]

(* The client gives up waiting; the server does not notice.                *)
Timeout ==
    /\ tab.screen = "loading"
    /\ tab' = [screen |-> "open", waits |-> None, told |-> "failed"]
    /\ UNCHANGED <<now, rows, account, job, granted>>

-----------------------------------------------------------------------------
(* Before the transaction: the date the request will write.                *)

(* Mutant: the period is subtracted.                                       *)
PlanBackwards(s) ==
    /\ job[s].pc = "plan"
    /\ job' = [job EXCEPT ![s].pc = "select", ![s].expires = now - job[s].period]
    /\ UNCHANGED <<now, rows, account, tab, granted>>

Plan(s) ==
    /\ job[s].pc = "plan"
    /\ \E known \in LatestFirst(Stored) :
       LET fresh  == job[s].kind = "create" \/ known = <<>>
           latest == rows[Head(known)]
           period == IF fresh THEN job[s].period ELSE latest.period
           base   == IF fresh THEN now ELSE Later(latest.expires, now) IN
       job' = [job EXCEPT ![s].pc = "select", ![s].period = period,
                          ![s].expires = base + period]
    /\ UNCHANGED <<now, rows, account, tab, granted>>

(* The condition of the SELECT ... FOR UPDATE of the request, which takes  *)
(* NOW() from the start of its transaction.                                *)
Matches(kind, r, at) ==
    CASE kind = "create" -> rows[r].status = "active" /\ rows[r].expires > at
      [] kind \in {"cancel", "stop"} -> rows[r].status = "active"
      [] OTHER -> TRUE

(* It finds the rows of its snapshot in order, and locks the first.        *)
Select(s) ==
    /\ job[s].pc = "select"
    /\ LET found == {r \in Stored : Matches(job[s].kind, r, now)} IN
       \E queue \in IF job[s].kind = "create" THEN SetToSeqs(found)
                                              ELSE LatestFirst(found) :
          job' = [job EXCEPT ![s].pc = "finish", ![s].at = now, ![s].queue = queue]
    /\ UNCHANGED <<now, rows, account, tab, granted>>

(* A row that changed while the lock was waited for and no longer matches  *)
(* is passed over.                                                         *)
PassOver(s) ==
    /\ job[s].pc = "finish" /\ job[s].queue # <<>>
    /\ ~Matches(job[s].kind, Head(job[s].queue), job[s].at)
    /\ job' = [job EXCEPT ![s].queue = Tail(@)]
    /\ UNCHANGED <<now, rows, account, tab, granted>>

-----------------------------------------------------------------------------
(* With the row locked: the writes, the commit, and the answer.            *)

Close(s, outcome) ==
    /\ job' = [job EXCEPT ![s] = Resting]
    /\ Tell(s, outcome)
    /\ UNCHANGED now

Locked(s, kinds) ==
    /\ job[s].pc = "finish" /\ job[s].kind \in kinds
    /\ job[s].queue # <<>>
    /\ Matches(job[s].kind, Head(job[s].queue), job[s].at)

NothingFound(s, kinds) ==
    /\ job[s].pc = "finish" /\ job[s].kind \in kinds
    /\ job[s].queue = <<>>

ActiveUntil(expires) ==
    [status |-> "active", ends |-> expires, renew |-> TRUE]

(* A period is sold: rows and account get the date planned.                *)
Sell(s, r, row) ==
    /\ rows' = [rows EXCEPT ![r] = row]
    /\ account' = ActiveUntil(row.expires)
    /\ granted' = Later(granted, now) + job[s].period
    /\ Close(s, "activated")

AlreadyActive(s) ==
    /\ Locked(s, {"create"})
    /\ Close(s, "already")
    /\ UNCHANGED <<rows, account, granted>>

Create(s) ==
    /\ NothingFound(s, Selling)
    /\ Sell(s, Cardinality(Stored) + 1, NewRow(job[s].expires, job[s].period))

(* Mutant: the period is added to the date planned.                        *)
RenewTwice(s) ==
    /\ Locked(s, {"renew"})
    /\ LET r == Head(job[s].queue) IN
       Sell(s, r, NewRow(job[s].expires + rows[r].period, rows[r].period))

Renew(s) ==
    /\ Locked(s, {"renew"})
    /\ LET r == Head(job[s].queue) IN
       Sell(s, r, NewRow(job[s].expires, rows[r].period))

(* Mutant: the customer's own row is left as it was.                       *)
PauseRow(s) ==
    /\ Locked(s, {"pause"})
    /\ LET r == Head(job[s].queue) IN
       rows' = [rows EXCEPT ![r].status = "paused", ![r].renew = FALSE]
    /\ Close(s, "done")
    /\ UNCHANGED <<account, granted>>

Pause(s) ==
    /\ Locked(s, {"pause"})
    /\ LET r == Head(job[s].queue) IN
       rows' = [rows EXCEPT ![r].status = "paused", ![r].renew = FALSE]
    /\ account' = [account EXCEPT !.status = "paused", !.renew = FALSE]
    /\ Close(s, "done")
    /\ UNCHANGED granted

(* A cancellation takes effect at once, if its caller asks for that ...    *)
Cancel(s) ==
    /\ Locked(s, {"cancel"})
    /\ LET r == Head(job[s].queue) IN
       rows' = [rows EXCEPT ![r].status = "cancelled", ![r].expires = job[s].at,
                            ![r].renew = FALSE]
    /\ account' = [status |-> "cancelled", ends |-> job[s].at, renew |-> FALSE]
    /\ Close(s, "done")
    /\ UNCHANGED granted

(* ... and only stops the renewal otherwise, as both applications have it. *)
Stop(s) ==
    /\ Locked(s, {"stop"})
    /\ LET r == Head(job[s].queue) IN rows' = [rows EXCEPT ![r].renew = FALSE]
    /\ account' = [account EXCEPT !.renew = FALSE]
    /\ Close(s, "done")
    /\ UNCHANGED granted

NotFound(s) ==
    /\ NothingFound(s, Kinds \ Selling)
    /\ Close(s, "failed")
    /\ UNCHANGED <<rows, account, granted>>

(* A lost connection rolls the transaction back.                           *)
Abort(s) ==
    /\ job[s].pc = "finish"
    /\ Close(s, "failed")
    /\ UNCHANGED <<rows, account, granted>>

Serve(s) ==
    \/ Plan(s) \/ Select(s) \/ PassOver(s) \/ AlreadyActive(s) \/ Create(s)
    \/ Renew(s) \/ Pause(s) \/ Cancel(s) \/ Stop(s) \/ NotFound(s)

Next ==
    \/ NextDay \/ OpenPaywall \/ ClosePaywall \/ Timeout
    \/ \E s \in Sessions : Subscribe(s) \/ Request(s) \/ Serve(s) \/ Abort(s)

Spec == Init /\ [][Next]_vars

(* The server goes on with every request it has taken.                     *)
FairSpec == Spec /\ \A s \in Sessions : WF_vars(Serve(s))

-----------------------------------------------------------------------------
(* The gate of an order in the Node backend.                               *)
Admits == account.status = "active"

TypeOK ==
    /\ now \in 0..LastDay /\ granted \in Nat
    /\ rows \in [Rows -> [status : {"absent", "active", "paused", "cancelled"},
                          expires : Nat, renew : BOOLEAN, period : Periods \cup {0}]]
    /\ account \in [status : {"expired", "active", "paused", "cancelled"},
                    ends : Nat, renew : BOOLEAN]
    /\ job \in [Sessions -> [pc : {"idle", "plan", "select", "finish"}, kind : Kinds,
                             period : Periods \cup {0}, expires : Nat,
                             at : 0..LastDay, queue : Seq(Rows)]]
    /\ tab \in [screen : {"closed", "open", "loading"}, waits : Sessions \cup {None},
                told : {"nothing", "activated", "already", "done", "failed"}]

(* The account that admits orders is backed by a subscription: whichever   *)
(* requests overlapped, some active row has the account's last day, and    *)
(* renews itself if the account says so.                                   *)
AccountBacked ==
    Admits => \E r \in Stored :
        /\ rows[r].status = "active" /\ rows[r].expires = account.ends
        /\ account.renew => rows[r].renew

(* No request gives away time: however renewals and new subscriptions      *)
(* overlap, and however old the date a renewal was computed from, no row   *)
(* and no date still to be written lies beyond the periods sold, the one   *)
(* being sold included, laid end to end.                                   *)
NoFreeTime ==
    /\ \A r \in Rows : rows[r].expires <= Later(granted, now)
    /\ \A s \in Sessions : job[s].pc \in {"select", "finish"} =>
          job[s].expires <= Later(granted, now) + job[s].period

(* The paywall never stays on its spinner: the answer, an error or the     *)
(* timeout returns it, since the server ends every request it took.        *)
PaywallReturns == tab.screen = "loading" ~> tab.screen # "loading"

(* "A repeated subscription -> 409", and the client then shows that the    *)
(* subscription is already active: a customer told so may order.           *)
AlreadyActiveAdmits == [][tab'.told = "already" /\ tab.told # "already" => Admits]_vars
=============================================================================
