--------------------------- MODULE AccountsProofs ---------------------------
(***************************************************************************)
(* The invariants of Accounts, proved for every number of tabs, requests,  *)
(* codes and tokens.  The inductive invariant says what each request in    *)
(* progress is entitled to: a spent code belongs to one request or one     *)
(* line of sessions, a locked session to one refresh, and an awaited       *)
(* request to one tab.                                                     *)
(***************************************************************************)
EXTENDS Accounts, TLAPS

JobRow == [pc : {"idle", "verify", "account", "issue", "rotate", "reply"},
           kind : {"login", "register", "refresh"},
           given : Nat, result : 0..MaxTokens]
TabRow == [flow : {"none", "login", "register"}, memory : 0..MaxTokens,
           shown : 0..MaxTokens, waits : Jobs \cup {None},
           refreshes : Jobs \cup {None},
           call : {"none", "unauthorized", "blocked", "refused"}]
StoreRow == [access : 0..MaxTokens, refresh : 0..MaxTokens]

ServerTyped ==
    /\ sent \in 0..MaxCodes /\ otp \in 0..sent /\ late \in BOOLEAN
    /\ registered \in Nat /\ issued \in 0..MaxTokens
    /\ session \in [Tokens -> {"none", "live", "revoked", "over"}]
    /\ origin \in [Tokens -> 0..MaxCodes]
    /\ holder \in [Tokens -> Jobs \cup {None}]
    /\ expired \in 0..issued

Typed ==
    /\ ServerTyped
    /\ job \in [Jobs -> JobRow]
    /\ store \in StoreRow
    /\ tab \in [Tabs -> TabRow]

(* What a request works on.                                                *)
Phases ==
    \A j \in Jobs :
        /\ job[j].pc \in {"account", "issue"} => job[j].kind # "refresh"
        /\ job[j].pc = "rotate" => job[j].kind = "refresh"
        /\ job[j].pc = "verify" /\ job[j].kind = "refresh" => job[j].given \in Tokens
        /\ job[j].pc = "verify" /\ job[j].kind # "refresh" => job[j].given \in 1..sent

(* Locks and their holders name each other, and the row is still live.     *)
Locked ==
    /\ \A n \in Tokens : holder[n] # None =>
          job[holder[n]].pc = "rotate" /\ job[holder[n]].given = n
    /\ \A j \in Jobs : job[j].pc = "rotate" =>
          /\ job[j].given \in Tokens
          /\ holder[job[j].given] = j /\ session[job[j].given] = "live"

Redeems(j) == job[j].pc \in {"account", "issue"}

(* A matched code is gone from the storage, and is some request's or some  *)
(* session's alone.                                                        *)
Spent ==
    /\ \A n \in Tokens : n > issued => session[n] = "none"
    /\ \A n \in 1..issued : origin[n] \in 1..sent /\ origin[n] # otp
    /\ \A j \in Jobs : Redeems(j) =>
          /\ job[j].given \in 1..sent /\ job[j].given # otp
          /\ \A n \in 1..issued : origin[n] # job[j].given
    /\ \A i, j \in Jobs : Redeems(i) /\ Redeems(j) /\ job[i].given = job[j].given => i = j

(* Nobody is given a session before the customer exists.                   *)
Welcomed ==
    /\ OneWelcome
    /\ \A j \in Jobs : job[j].pc = "issue" => registered = 1

(* A request that some tab awaits is busy, of the right kind, and awaited  *)
(* by that tab only.                                                       *)
Awaited ==
    /\ \A t \in Tabs : tab[t].waits # None =>
          job[tab[t].waits].pc # "idle" /\ job[tab[t].waits].kind # "refresh"
    /\ \A t \in Tabs : tab[t].refreshes # None =>
          job[tab[t].refreshes].pc # "idle" /\ job[tab[t].refreshes].kind = "refresh"
    /\ \A t, u \in Tabs, j \in Jobs : Awaits(t, j) /\ Awaits(u, j) => t = u
    /\ \A t \in Tabs : tab[t].call = "blocked" => tab[t].refreshes # None

IInv ==
    /\ Typed /\ Phases /\ Locked /\ Spent /\ Welcomed /\ Awaited
    /\ OneLiveSession /\ StoredPairAgrees

-----------------------------------------------------------------------------
(* What the helpers do to the requests.                                    *)

(* A request at rest has the shape of one.                                 *)
LEMMA RestingFacts ==
  /\ Resting \in JobRow /\ Resting.pc = "idle"
  BY AccountsAssumption DEF Resting, JobRow

(* An idle worker takes a request.                                         *)
LEMMA StartFacts ==
  ASSUME job \in [Jobs -> JobRow], NEW j \in Jobs, NEW k \in {"login", "register", "refresh"},
         NEW g \in Nat, Start(j, k, g)
  PROVE  /\ job' \in [Jobs -> JobRow]
         /\ job[j].pc = "idle"
         /\ job'[j].pc = "verify" /\ job'[j].kind = k /\ job'[j].given = g
         /\ \A i \in Jobs \ {j} : job'[i] = job[i]
  <1>0. PICK r \in JobRow : r = Resting
    BY RestingFacts
  <1> DEFINE row == [r EXCEPT !.pc = "verify", !.kind = k, !.given = g]
  <1>1. job[j].pc = "idle" /\ job' = [job EXCEPT ![j] = row]
    BY <1>0 DEF Start
  <1>2. row \in JobRow /\ row.pc = "verify" /\ row.kind = k /\ row.given = g
    BY DEF JobRow
  <1> HIDE DEF row
  <1> QED BY <1>1, <1>2

(* A request that is answered is no longer at work.                        *)
LEMMA AnswerFacts ==
  ASSUME job \in [Jobs -> JobRow], NEW j \in Jobs, NEW n \in 0..MaxTokens, Answer(j, n)
  PROVE  /\ job' \in [Jobs -> JobRow]
         /\ job'[j].pc \in {"reply", "idle"}
         /\ (\E t \in Tabs : Awaits(t, j)) =>
               job'[j].pc = "reply" /\ job'[j].kind = job[j].kind
         /\ \A i \in Jobs \ {j} : job'[i] = job[i]
  <1> DEFINE told == [job[j] EXCEPT !.pc = "reply", !.given = 0, !.result = n]
  <1>1. told \in JobRow /\ told.pc = "reply" /\ told.kind = job[j].kind
    BY DEF JobRow
  <1>2. job' = [job EXCEPT ![j] = IF \E t \in Tabs : Awaits(t, j) THEN told ELSE Resting]
    BY DEF Answer
  <1> HIDE DEF told
  <1> QED BY <1>1, <1>2, RestingFacts

(* A request that goes on keeps everything but its place.                  *)
LEMMA GoFacts ==
  ASSUME job \in [Jobs -> JobRow], NEW j \in Jobs,
         NEW p \in {"account", "issue", "rotate"}, Go(j, p)
  PROVE  /\ job' \in [Jobs -> JobRow]
         /\ job'[j].pc = p /\ job'[j].kind = job[j].kind /\ job'[j].given = job[j].given
         /\ \A i \in Jobs \ {j} : job'[i] = job[i]
  BY DEF Go, JobRow

(* A request whose answer was heard is free.                               *)
LEMMA DoneFacts ==
  ASSUME job \in [Jobs -> JobRow], NEW j \in Jobs, Done(j)
  PROVE  /\ job' \in [Jobs -> JobRow]
         /\ job'[j].pc = "idle"
         /\ \A i \in Jobs \ {j} : job'[i] = job[i]
  BY RestingFacts DEF Done

-----------------------------------------------------------------------------
(* What the helpers do to a tab and to localStorage.                       *)

(* A freshly loaded page awaits nothing.                                   *)
LEMMA OpenedFacts ==
  ASSUME store \in StoreRow
  PROVE  /\ Opened \in TabRow
         /\ Opened.waits = None /\ Opened.refreshes = None /\ Opened.call = "none"
  BY AccountsAssumption DEF StoreRow, Opened, TabRow

(* A page that was sent to the sign-in page awaits nothing, and nothing is *)
(* stored.                                                                 *)
LEMMA ForcedOutFacts ==
  ASSUME Typed, NEW t \in Tabs, ForcedOut(t)
  PROVE  /\ store' \in StoreRow /\ store'.access = store'.refresh
         /\ tab' \in [Tabs -> TabRow]
         /\ tab'[t].waits = None /\ tab'[t].refreshes = None /\ tab'[t].call = "none"
         /\ \A u \in Tabs \ {t} : tab'[u] = tab[u]
  <1>1. store' \in StoreRow /\ store'.access = store'.refresh
    BY AccountsAssumption DEF ForcedOut, Forget, Nothing, StoreRow
  <1>2. PICK r \in TabRow : r = Opened
    BY OpenedFacts DEF Typed
  <1> DEFINE row == [r EXCEPT !.shown = 0]
  <1>3. tab' = [tab EXCEPT ![t] = row]
    BY <1>2 DEF ForcedOut
  <1>4. row \in TabRow /\ row.waits = None /\ row.refreshes = None /\ row.call = "none"
    BY <1>2, OpenedFacts, AccountsAssumption DEF TabRow, Typed
  <1> HIDE DEF row
  <1> QED BY <1>1, <1>3, <1>4 DEF Typed

(* Both tokens are stored, and the tab is as given otherwise.              *)
LEMMA SetTokenFacts ==
  ASSUME Typed, NEW t \in Tabs, NEW n \in 0..MaxTokens, NEW r \in TabRow, SetToken(t, n, r)
  PROVE  /\ store' \in StoreRow /\ store'.access = store'.refresh
         /\ tab' \in [Tabs -> TabRow]
         /\ tab'[t].waits = r.waits /\ tab'[t].refreshes = r.refreshes
         /\ tab'[t].call = r.call
         /\ \A u \in Tabs \ {t} : tab'[u] = tab[u]
  <1>1. store' \in StoreRow /\ store'.access = store'.refresh
    BY DEF SetToken, StoreRow
  <1> DEFINE row == [r EXCEPT !.memory = n, !.shown = n]
  <1>2. row \in TabRow /\ row.waits = r.waits /\ row.refreshes = r.refreshes
          /\ row.call = r.call
    BY DEF TabRow
  <1>3. tab' = [tab EXCEPT ![t] = row]
    BY DEF SetToken
  <1> HIDE DEF row
  <1> QED BY <1>1, <1>2, <1>3 DEF Typed

-----------------------------------------------------------------------------
(* The steps of a tab are of three kinds: they leave the requests alone,   *)
(* begin one, or take the answer of one.                                   *)

KeepsShape(t) ==
    /\ tab' \in [Tabs -> TabRow] /\ store' \in StoreRow
    /\ StoredPairAgrees => StoredPairAgrees'
    /\ \A u \in Tabs \ {t} : tab'[u] = tab[u]
    /\ tab'[t].call = "blocked" => tab'[t].refreshes # None

Quiet(t) ==
    /\ KeepsShape(t) /\ UNCHANGED job
    /\ tab'[t].waits \in {None, tab[t].waits}
    /\ tab'[t].refreshes \in {None, tab[t].refreshes}

Asks(t, j) ==
    /\ KeepsShape(t) /\ job' \in [Jobs -> JobRow]
    /\ job[j].pc = "idle" /\ job'[j].pc = "verify"
    /\ \A i \in Jobs \ {j} : job'[i] = job[i]
    /\ \/ /\ job'[j].kind # "refresh" /\ job'[j].given \in 1..sent
          /\ tab'[t].waits = j /\ tab'[t].refreshes = tab[t].refreshes
       \/ /\ job'[j].kind = "refresh" /\ job'[j].given \in Tokens
          /\ tab'[t].refreshes = j /\ tab'[t].waits = tab[t].waits

Hears(t, j) ==
    /\ KeepsShape(t) /\ job' \in [Jobs -> JobRow]
    /\ job[j].pc = "reply" /\ job'[j].pc = "idle"
    /\ \A i \in Jobs \ {j} : job'[i] = job[i]
    /\ j \in {tab[t].waits, tab[t].refreshes}
    /\ j \notin {tab'[t].waits, tab'[t].refreshes}
    /\ tab'[t].waits \in {None, tab[t].waits}
    /\ tab'[t].refreshes \in {None, tab[t].refreshes}

Leaves(t) ==
    Resend(t) \/ SubmitLogin(t) \/ SubmitRegistration(t) \/ Back(t) \/ Logout(t)
        \/ Reload(t) \/ Call(t) \/ Join(t) \/ Dismiss(t) \/ Timeout(t)

(* What a tab does by itself.                                              *)
LEMMA LeavesFacts ==
  ASSUME Typed, Awaited, NEW t \in Tabs, Leaves(t)
  PROVE  Quiet(t)
  <1> USE DEF Quiet, KeepsShape, Typed, StoredPairAgrees, Awaited
  <1>1. ASSUME Resend(t) PROVE Quiet(t)
    BY <1>1 DEF Resend, Send
  <1>2. ASSUME SubmitLogin(t) \/ SubmitRegistration(t) PROVE Quiet(t)
    BY <1>2 DEF SubmitLogin, SubmitRegistration, SendOtp, Send, TabRow
  <1>3. ASSUME Back(t) PROVE Quiet(t)
    BY <1>3 DEF Back, TabRow
  <1>4. ASSUME Logout(t) PROVE Quiet(t)
    BY <1>4, AccountsAssumption DEF Logout, Forget, Nothing, StoreRow, TabRow
  <1>5. ASSUME Reload(t) PROVE Quiet(t)
    <2>1. PICK r \in TabRow : r = Opened
      BY OpenedFacts DEF Typed
    <2> DEFINE new == [r EXCEPT !.flow = tab[t].flow]
    <2>2. tab' = [tab EXCEPT ![t] = new] /\ UNCHANGED <<job, store>>
      BY <1>5, <2>1 DEF Reload
    <2>3. new \in TabRow /\ new.waits = None /\ new.refreshes = None /\ new.call = "none"
      BY <2>1, OpenedFacts DEF TabRow, Typed
    <2> HIDE DEF new
    <2> QED BY <2>2, <2>3
  <1>6. ASSUME Call(t) PROVE Quiet(t)
    BY <1>6 DEF Call, Settle, TabRow
  <1>7. ASSUME Join(t) PROVE Quiet(t)
    BY <1>7 DEF Join, Settle, TabRow
  <1>8. ASSUME Dismiss(t) PROVE Quiet(t)
    BY <1>8 DEF Dismiss, Settle, TabRow
  <1>9. ASSUME Timeout(t) PROVE Quiet(t)
    <2>1. CASE ForcedOut(t)
      BY <1>9, <2>1, ForcedOutFacts DEF Timeout
    <2>2. CASE ~ForcedOut(t)
      BY <1>9, <2>2 DEF Timeout, TabRow
    <2> QED BY <2>1, <2>2
  <1> QED BY <1>1, <1>2, <1>3, <1>4, <1>5, <1>6, <1>7, <1>8, <1>9 DEF Leaves


(* What a tab asks the server for.                                         *)
LEMMA SubmitCodeFacts ==
  ASSUME Typed, Awaited, NEW t \in Tabs, NEW j \in Jobs, NEW c \in 1..sent, SubmitCode(t, j, c)
  PROVE  Asks(t, j)
  <1>1. tab[t].flow \in {"login", "register"} /\ c \in Nat
    BY DEF SubmitCode, MaySubmitCode, Typed, TabRow
  <1>2. Start(j, tab[t].flow, c)
    BY DEF SubmitCode
  <1>3. job[j].pc = "idle" /\ job' \in [Jobs -> JobRow] /\ job'[j].pc = "verify"
          /\ job'[j].kind = tab[t].flow /\ job'[j].given = c
          /\ \A i \in Jobs \ {j} : job'[i] = job[i]
    BY <1>1, <1>2, StartFacts DEF Typed
  <1>4. /\ tab' = [tab EXCEPT ![t].waits = j] /\ UNCHANGED store
    BY DEF SubmitCode
  <1>5. /\ tab' \in [Tabs -> TabRow]
        /\ \A u \in Tabs \ {t} : tab'[u] = tab[u]
        /\ tab'[t].waits = j /\ tab'[t].refreshes = tab[t].refreshes
        /\ tab'[t].call = tab[t].call
    BY <1>4 DEF Typed, TabRow
  <1>6. KeepsShape(t)
    BY <1>4, <1>5 DEF KeepsShape, Typed, StoredPairAgrees, Awaited
  <1> QED BY <1>1, <1>3, <1>5, <1>6 DEF Asks

(* A refresh begins, or the tab leaves.                                    *)
LEMMA RefreshOrLeaveFacts ==
  ASSUME Typed, NEW t \in Tabs, NEW j \in Jobs, NEW r \in TabRow,
         r.waits = tab[t].waits, RefreshOrLeave(t, j, r)
  PROVE  Quiet(t) \/ Asks(t, j)
  <1>1. CASE ForcedOut(t) /\ UNCHANGED job
    <2>1. Quiet(t)
      BY <1>1, ForcedOutFacts DEF Quiet, KeepsShape, StoredPairAgrees
    <2> QED BY <2>1
  <1>2. CASE ~(ForcedOut(t) /\ UNCHANGED job)
    <2>1. /\ store.refresh # 0 /\ Start(j, "refresh", store.refresh)
          /\ tab' = [tab EXCEPT ![t] = [r EXCEPT !.refreshes = j]]
          /\ UNCHANGED store
      BY <1>2 DEF RefreshOrLeave
    <2>2. store.refresh \in Tokens /\ store.refresh \in Nat
      BY <2>1, AccountsAssumption DEF Typed, StoreRow, Tokens
    <2>3. job[j].pc = "idle" /\ job' \in [Jobs -> JobRow] /\ job'[j].pc = "verify"
            /\ job'[j].kind = "refresh" /\ job'[j].given = store.refresh
            /\ \A i \in Jobs \ {j} : job'[i] = job[i]
      BY <2>1, <2>2, StartFacts DEF Typed
    <2>4. /\ tab' \in [Tabs -> TabRow]
          /\ \A u \in Tabs \ {t} : tab'[u] = tab[u]
          /\ tab'[t].waits = tab[t].waits /\ tab'[t].refreshes = j
      BY <2>1 DEF Typed, TabRow
    <2>5. KeepsShape(t)
      BY <2>1, <2>4, AccountsAssumption DEF KeepsShape, Typed, StoredPairAgrees
    <2> QED BY <2>2, <2>3, <2>4, <2>5 DEF Asks
  <1> QED BY <1>1, <1>2

(* Both callers of refresh() do nothing else to the requests.              *)
LEMMA RenewFacts ==
  ASSUME Typed, NEW t \in Tabs, NEW j \in Jobs, Renew(t, j) \/ Refresh(t, j)
  PROVE  Quiet(t) \/ Asks(t, j)
  <1>1. CASE Renew(t, j)
    <2> DEFINE r == [tab[t] EXCEPT !.call = "blocked"]
    <2>1. r \in TabRow /\ r.waits = tab[t].waits
      BY DEF Typed, TabRow
    <2>2. RefreshOrLeave(t, j, r)
      BY <1>1 DEF Renew
    <2> HIDE DEF r
    <2> QED BY <2>1, <2>2, RefreshOrLeaveFacts
  <1>2. CASE Refresh(t, j)
    <2>1. tab[t] \in TabRow /\ RefreshOrLeave(t, j, tab[t])
      BY <1>2 DEF Refresh, Typed
    <2> QED BY <2>1, RefreshOrLeaveFacts
  <1> QED BY <1>1, <1>2

(* The answer is the last a tab hears of a request.                        *)
LEMMA HearFacts ==
  ASSUME Typed, Awaited, NEW t \in Tabs, NEW j \in Jobs, Hear(t, j)
  PROVE  Hears(t, j)
  <1>1. /\ job[j].pc = "reply" /\ Done(j) /\ job[j].result \in 0..MaxTokens
        /\ j \in {tab[t].waits, tab[t].refreshes}
    BY DEF Hear, SignedIn, CodeRefused, Refreshed, RefreshRefused, Typed, JobRow
  <1>2. job' \in [Jobs -> JobRow] /\ job'[j].pc = "idle"
          /\ \A i \in Jobs \ {j} : job'[i] = job[i]
    BY <1>1, DoneFacts DEF Typed
  <1>3. tab[t] \in TabRow /\ j # None /\ ~(tab[t].waits = j /\ tab[t].refreshes = j)
    BY AccountsAssumption DEF Typed, Awaited
  <1> DEFINE Ok == /\ KeepsShape(t)
                   /\ j \notin {tab'[t].waits, tab'[t].refreshes}
                   /\ tab'[t].waits \in {None, tab[t].waits}
                   /\ tab'[t].refreshes \in {None, tab[t].refreshes}
  <1> SUFFICES Ok
    BY <1>1, <1>2 DEF Hears
  <1>4. CASE SignedIn(t, j)
    <2> DEFINE r == [tab[t] EXCEPT !.flow = "none", !.waits = None]
    <2>1. r \in TabRow /\ r.waits = None /\ r.refreshes = tab[t].refreshes
            /\ r.call = tab[t].call
      BY <1>3 DEF TabRow
    <2>2. SetToken(t, job[j].result, r) /\ tab[t].waits = j
      BY <1>4 DEF SignedIn
    <2> HIDE DEF r
    <2>3. /\ store' \in StoreRow /\ store'.access = store'.refresh
          /\ tab' \in [Tabs -> TabRow]
          /\ tab'[t].waits = r.waits /\ tab'[t].refreshes = r.refreshes
          /\ tab'[t].call = r.call
          /\ \A u \in Tabs \ {t} : tab'[u] = tab[u]
      BY <1>1, <2>1, <2>2, SetTokenFacts
    <2> QED BY <1>3, <2>1, <2>2, <2>3 DEF KeepsShape, StoredPairAgrees, Awaited
  <1>5. CASE CodeRefused(t, j)
    <2>1. /\ tab' \in [Tabs -> TabRow] /\ UNCHANGED store /\ tab[t].waits = j
          /\ tab'[t].waits = None /\ tab'[t].refreshes = tab[t].refreshes
          /\ tab'[t].call = tab[t].call
          /\ \A u \in Tabs \ {t} : tab'[u] = tab[u]
      BY <1>3, <1>5 DEF CodeRefused, Typed, TabRow
    <2> QED BY <1>3, <2>1 DEF KeepsShape, StoredPairAgrees, Awaited, Typed
  <1>6. CASE Refreshed(t, j)
    <2> DEFINE r == [tab[t] EXCEPT !.refreshes = None,
                                   !.call = IF @ = "blocked" THEN "none" ELSE @]
    <2>1. r \in TabRow /\ r.waits = tab[t].waits /\ r.refreshes = None
            /\ r.call # "blocked"
      BY <1>3 DEF TabRow
    <2>2. SetToken(t, job[j].result, r) /\ tab[t].refreshes = j
      BY <1>6 DEF Refreshed
    <2> HIDE DEF r
    <2>3. /\ store' \in StoreRow /\ store'.access = store'.refresh
          /\ tab' \in [Tabs -> TabRow]
          /\ tab'[t].waits = r.waits /\ tab'[t].refreshes = r.refreshes
          /\ tab'[t].call = r.call
          /\ \A u \in Tabs \ {t} : tab'[u] = tab[u]
      BY <1>1, <2>1, <2>2, SetTokenFacts
    <2> QED BY <1>3, <2>1, <2>2, <2>3 DEF KeepsShape, StoredPairAgrees
  <1>7. CASE RefreshRefused(t, j)
    <2>1. ForcedOut(t)
      BY <1>7 DEF RefreshRefused
    <2> QED BY <1>3, <2>1, ForcedOutFacts DEF KeepsShape, StoredPairAgrees
  <1> QED BY <1>4, <1>5, <1>6, <1>7 DEF Hear


-----------------------------------------------------------------------------
(* The steps of the server.                                                *)

Works(j) ==
    /\ UNCHANGED <<store, tab>>
    /\ job' \in [Jobs -> JobRow]
    /\ \A i \in Jobs \ {j} : job'[i] = job[i]
    /\ (\E t \in Tabs : Awaits(t, j)) =>
          job'[j].pc # "idle" /\ job'[j].kind = job[j].kind

ServerInv == ServerTyped /\ Phases /\ Locked /\ Spent /\ Welcomed /\ OneLiveSession

(* An answer tells the request nothing the invariant asks about.           *)
LEMMA AnswerWorks ==
  ASSUME Typed, NEW j \in Jobs, NEW n \in 0..MaxTokens, Answer(j, n), UNCHANGED <<store, tab>>
  PROVE  Works(j) /\ job'[j].pc \in {"reply", "idle"}
  BY AnswerFacts DEF Works, Typed

(* A request that goes on keeps its tab waiting.                           *)
LEMMA GoWorks ==
  ASSUME Typed, NEW j \in Jobs, NEW p \in {"account", "issue", "rotate"}, Go(j, p),
         UNCHANGED <<store, tab>>
  PROVE  /\ Works(j)
         /\ job'[j].pc = p /\ job'[j].kind = job[j].kind /\ job'[j].given = job[j].given
  BY GoFacts DEF Works, Typed

(* A request that ends without a session leaves the server's promises.     *)
LEMMA Ends ==
  ASSUME Typed, ServerInv, NEW j \in Jobs, Works(j), job'[j].pc \in {"reply", "idle"},
         job[j].pc # "rotate", UNCHANGED server
  PROVE  ServerInv'
  <1> USE DEF ServerInv, server
  <1>1. ServerTyped' /\ OneLiveSession'
    BY DEF ServerTyped, OneLiveSession
  <1>2. Phases'
    BY DEF Phases, Works
  <1>3. Locked'
    BY AccountsAssumption DEF Locked, Works, ServerTyped
  <1>4. Spent'
    BY DEF Spent, Redeems, Works
  <1>5. Welcomed'
    BY DEF Welcomed, OneWelcome, Works
  <1> QED BY <1>1, <1>2, <1>3, <1>4, <1>5

(* The code is looked at.                                                  *)
LEMMA VerifyStep ==
  ASSUME Typed, ServerInv, NEW j \in Jobs, Verify(j)
  PROVE  Works(j) /\ ServerInv'
  <1> DEFINE matches == otp = job[j].given /\ ~late
  <1>0. /\ job[j].pc = "verify" /\ job[j].kind # "refresh" /\ job[j].given \in 1..sent
        /\ otp' \in {otp, 0} /\ (matches => otp' = 0)
        /\ UNCHANGED <<sent, late, registered, issued, session, origin, holder, expired,
                       store, tab>>
        /\ 0 \in 0..MaxTokens
    BY AccountsAssumption DEF Verify, ServerInv, Phases
  <1>1. CASE matches
    <2>1. Go(j, "account")
      BY <1>1 DEF Verify
    <2>2. /\ Works(j)
          /\ job'[j].pc = "account" /\ job'[j].kind = job[j].kind
          /\ job'[j].given = job[j].given
      BY <1>0, <2>1, GoWorks
    <2>3. ServerTyped' /\ OneLiveSession'
      BY <1>0 DEF ServerInv, ServerTyped, OneLiveSession
    <2>4. Phases'
      BY <1>0, <2>2 DEF ServerInv, Phases, Works
    <2>5. Locked'
      BY <1>0, <2>2, AccountsAssumption DEF ServerInv, Locked, Works, ServerTyped
    <2>6. Spent'
      BY <1>0, <1>1, <2>2, AccountsAssumption
      DEF ServerInv, Spent, Redeems, Works, ServerTyped
    <2>7. Welcomed'
      BY <1>0, <2>2 DEF ServerInv, Welcomed, OneWelcome, Works
    <2> QED BY <2>2, <2>3, <2>4, <2>5, <2>6, <2>7 DEF ServerInv
  <1>2. CASE ~matches
    <2>1. Answer(j, 0)
      BY <1>2 DEF Verify
    <2>2. Works(j) /\ job'[j].pc \in {"reply", "idle"}
      BY <1>0, <2>1, AnswerWorks
    <2>3. ServerTyped' /\ OneLiveSession'
      BY <1>0 DEF ServerInv, ServerTyped, OneLiveSession
    <2>4. Phases'
      BY <1>0, <2>2 DEF ServerInv, Phases, Works
    <2>5. Locked'
      BY <1>0, <2>2, AccountsAssumption DEF ServerInv, Locked, Works, ServerTyped
    <2>6. Spent'
      BY <1>0, <2>2, AccountsAssumption DEF ServerInv, Spent, Redeems, Works, ServerTyped
    <2>7. Welcomed'
      BY <1>0, <2>2 DEF ServerInv, Welcomed, OneWelcome, Works
    <2> QED BY <2>2, <2>3, <2>4, <2>5, <2>6, <2>7 DEF ServerInv
  <1> QED BY <1>1, <1>2

(* The customer is found or made.                                          *)
LEMMA FindAccountStep ==
  ASSUME Typed, ServerInv, NEW j \in Jobs, FindAccount(j)
  PROVE  Works(j) /\ ServerInv'
  <1>0. /\ job[j].pc = "account" /\ job[j].kind # "refresh"
        /\ UNCHANGED <<sent, otp, late, issued, session, origin, holder, expired, store, tab>>
        /\ 0 \in 0..MaxTokens
    BY AccountsAssumption DEF FindAccount, ServerInv, Phases
  <1>1. CASE Answer(j, 0) /\ UNCHANGED registered
    BY <1>0, <1>1, AnswerWorks, Ends DEF server
  <1>2. CASE Go(j, "issue") /\ registered' \in {0 + 1, registered} /\ registered' # 0
               /\ (registered' = registered \/ registered = 0)
    <2>2. /\ Works(j)
          /\ job'[j].pc = "issue" /\ job'[j].kind = job[j].kind
          /\ job'[j].given = job[j].given
      BY <1>0, <1>2, GoWorks
    <2>3. ServerTyped' /\ OneLiveSession'
      BY <1>0, <1>2 DEF ServerInv, ServerTyped, OneLiveSession
    <2>4. Phases'
      BY <1>0, <2>2 DEF ServerInv, Phases, Works
    <2>5. Locked'
      BY <1>0, <2>2, AccountsAssumption DEF ServerInv, Locked, Works, ServerTyped
    <2>6. Spent'
      BY <1>0, <2>2 DEF ServerInv, Spent, Redeems, Works
    <2>7. Welcomed'
      BY <1>0, <1>2, <2>2 DEF ServerInv, ServerTyped, Welcomed, OneWelcome, Works
    <2> QED BY <2>2, <2>3, <2>4, <2>5, <2>6, <2>7 DEF ServerInv
  <1> QED BY <1>1, <1>2 DEF FindAccount, ServerInv, ServerTyped


(* A session begins: the redeemed code becomes its origin.                 *)
LEMMA IssueStep ==
  ASSUME Typed, ServerInv, NEW j \in Jobs, Issue(j)
  PROVE  Works(j) /\ ServerInv'
  <1> DEFINE new == issued + 1
  <1>0. /\ job[j].pc = "issue" /\ Answer(j, new)
        /\ issued' = new /\ new \in Tokens /\ new \in 0..MaxTokens
        /\ origin' = [origin EXCEPT ![new] = job[j].given]
        /\ session' = [session EXCEPT ![new] = "live"]
        /\ UNCHANGED <<sent, otp, late, registered, holder, expired, store, tab>>
    BY AccountsAssumption DEF Issue, NewSession, ServerInv, ServerTyped, Tokens
  <1>1. Works(j) /\ job'[j].pc \in {"reply", "idle"}
    BY <1>0, AnswerWorks
  <1>2. /\ job[j].given \in 1..sent /\ job[j].given # otp /\ registered = 1
        /\ \A n \in 1..issued : origin[n] # job[j].given
    BY <1>0 DEF ServerInv, Spent, Redeems, Welcomed
  <1> HIDE DEF new
  <1>3. new = issued + 1
    BY DEF new
  <1>4. ServerTyped'
    BY <1>0, <1>2, <1>3, AccountsAssumption DEF ServerInv, ServerTyped
  <1>5. Phases'
    BY <1>0, <1>1 DEF ServerInv, Phases, Works
  <1>6. Locked'
    BY <1>0, <1>1, <1>3, AccountsAssumption
    DEF ServerInv, Locked, Works, ServerTyped, Spent
  <1>7. Spent'
    <2>1. \A n \in Tokens : n > issued' => session'[n] = "none"
      BY <1>0, <1>3 DEF ServerInv, Spent, ServerTyped, Tokens
    <2>2. \A n \in 1..issued' : origin'[n] \in 1..sent' /\ origin'[n] # otp'
      BY <1>0, <1>2, <1>3, AccountsAssumption DEF ServerInv, Spent, ServerTyped, Tokens
    <2>3. \A i \in Jobs : Redeems(i)' => i # j /\ Redeems(i) /\ job'[i] = job[i]
      BY <1>1 DEF Redeems, Works
    <2>4. ASSUME NEW i \in Jobs, Redeems(i)', NEW n \in 1..issued'
          PROVE  origin'[n] # job'[i].given
      <3>1. /\ i # j /\ job'[i] = job[i] /\ Redeems(i)
            /\ \A k \in 1..issued : origin[k] # job[i].given
        BY <2>3, <2>4 DEF ServerInv, Spent
      <3>2. job[i].given # job[j].given
        BY <1>0, <3>1 DEF ServerInv, Spent, Redeems
      <3>3. CASE n = new
        BY <1>0, <3>1, <3>2, <3>3 DEF ServerInv, ServerTyped
      <3>4. CASE n # new
        <4>1. n \in 1..issued
          BY <1>0, <1>3, <3>4 DEF ServerInv, ServerTyped
        <4>2. origin'[n] = origin[n]
          BY <1>0, <3>4 DEF ServerInv, ServerTyped
        <4> QED BY <3>1, <4>1, <4>2
      <3> QED BY <3>3, <3>4
    <2>5. \A i \in Jobs : Redeems(i)' => job'[i].given \in 1..sent' /\ job'[i].given # otp'
      BY <1>0, <2>3 DEF ServerInv, Spent
    <2>6. \A h, i \in Jobs : Redeems(h)' /\ Redeems(i)' /\ job'[h].given = job'[i].given
              => h = i
      BY <2>3 DEF ServerInv, Spent
    <2> QED BY <2>1, <2>2, <2>4, <2>5, <2>6 DEF Spent
  <1>8. Welcomed'
    BY <1>0, <1>1, <1>2 DEF ServerInv, Welcomed, OneWelcome, Works
  <1>9. OneLiveSession'
    <2>1. \A n \in Tokens : session[n] = "live" => n \in 1..issued
      BY DEF ServerInv, Spent, ServerTyped, Tokens
    <2> QED BY <1>0, <1>2, <1>3, <2>1 DEF ServerInv, OneLiveSession, ServerTyped
  <1> QED BY <1>1, <1>4, <1>5, <1>6, <1>7, <1>8, <1>9 DEF ServerInv

(* A refresh takes the row of its session, or is refused.                  *)
LEMMA LockSessionStep ==
  ASSUME Typed, ServerInv, NEW j \in Jobs, LockSession(j)
  PROVE  Works(j) /\ ServerInv'
  <1> DEFINE n == job[j].given
  <1>0. /\ job[j].pc = "verify" /\ job[j].kind = "refresh" /\ n \in Tokens
        /\ holder[n] = None
        /\ UNCHANGED <<sent, otp, late, registered, issued, session, origin, expired,
                       store, tab>>
        /\ 0 \in 0..MaxTokens
    BY AccountsAssumption DEF LockSession, ServerInv, Phases
  <1>1. CASE Answer(j, 0) /\ UNCHANGED holder
    BY <1>0, <1>1, AnswerWorks, Ends DEF server
  <1>2. CASE /\ session[n] = "live" /\ Go(j, "rotate")
             /\ holder' = [holder EXCEPT ![n] = j]
    <2>2. /\ Works(j)
          /\ job'[j].pc = "rotate" /\ job'[j].kind = job[j].kind
          /\ job'[j].given = job[j].given
      BY <1>0, <1>2, GoWorks
    <2>3. ServerTyped' /\ OneLiveSession'
      BY <1>0, <1>2 DEF ServerInv, ServerTyped, OneLiveSession
    <2>4. Phases'
      BY <1>0, <2>2 DEF ServerInv, Phases, Works
    <2>5. Locked'
      BY <1>0, <1>2, <2>2, AccountsAssumption DEF ServerInv, Locked, Works, ServerTyped
    <2>6. Spent'
      BY <1>0, <2>2 DEF ServerInv, Spent, Redeems, Works
    <2>7. Welcomed'
      BY <1>0, <2>2 DEF ServerInv, Welcomed, OneWelcome, Works
    <2> QED BY <2>2, <2>3, <2>4, <2>5, <2>6, <2>7 DEF ServerInv
  <1> QED BY <1>0, <1>1, <1>2 DEF LockSession

(* A session that lapsed is not renewed.                                   *)
LEMMA LapsedStep ==
  ASSUME Typed, ServerInv, NEW j \in Jobs, Lapsed(j)
  PROVE  Works(j) /\ ServerInv'
  <1> DEFINE n == job[j].given
  <1>0. /\ job[j].pc = "verify" /\ job[j].kind = "refresh" /\ n \in Tokens
        /\ holder[n] = None /\ Answer(j, 0)
        /\ session[n] = "live" /\ session' = [session EXCEPT ![n] = "over"]
        /\ UNCHANGED <<sent, otp, late, registered, issued, origin, holder, expired,
                       store, tab>>
        /\ 0 \in 0..MaxTokens
    BY AccountsAssumption DEF Lapsed, ServerInv, Phases
  <1>1. Works(j) /\ job'[j].pc \in {"reply", "idle"}
    BY <1>0, AnswerWorks
  <1> HIDE DEF n
  <1>2. ServerTyped' /\ OneLiveSession'
    BY <1>0 DEF ServerInv, ServerTyped, OneLiveSession
  <1>3. Phases'
    BY <1>0, <1>1 DEF ServerInv, Phases, Works
  <1>4. Locked'
    BY <1>0, <1>1, AccountsAssumption DEF ServerInv, Locked, Works, ServerTyped
  <1>5. Spent'
    BY <1>0, <1>1 DEF ServerInv, Spent, Redeems, Works, ServerTyped
  <1>6. Welcomed'
    BY <1>0, <1>1 DEF ServerInv, Welcomed, OneWelcome, Works
  <1> QED BY <1>1, <1>2, <1>3, <1>4, <1>5, <1>6 DEF ServerInv

(* The session is replaced by one of the same origin.                      *)
LEMMA RotateStep ==
  ASSUME Typed, ServerInv, NEW j \in Jobs, Rotate(j)
  PROVE  Works(j) /\ ServerInv'
  <1> DEFINE new == issued + 1
             n == job[j].given
  <1>0. /\ job[j].pc = "rotate" /\ Answer(j, new)
        /\ issued' = new /\ new \in Tokens /\ new \in 0..MaxTokens
        /\ origin' = [origin EXCEPT ![new] = origin[n]]
        /\ session' = [session EXCEPT ![n] = "revoked", ![new] = "live"]
        /\ holder' = [holder EXCEPT ![n] = None]
        /\ UNCHANGED <<sent, otp, late, registered, expired, store, tab>>
    BY AccountsAssumption DEF Rotate, NewSession, ServerInv, ServerTyped, Tokens
  <1>1. Works(j) /\ job'[j].pc \in {"reply", "idle"}
    BY <1>0, AnswerWorks
  <1>2. /\ n \in Tokens /\ holder[n] = j /\ session[n] = "live" /\ n \in 1..issued
    BY <1>0 DEF ServerInv, Locked, Spent, ServerTyped, Tokens
  <1>3. new = issued + 1 /\ n # new /\ session[new] = "none" /\ issued >= 1
    BY <1>0, <1>2 DEF ServerInv, ServerTyped, Spent
  <1>a. /\ \A i \in Jobs : job[i].pc = "rotate" /\ job[i].given = n => i = j
        /\ \A m \in Tokens : session[m] = "live" => m \in 1..issued
    <2> HIDE DEF new, n
    <2>1. ASSUME NEW i \in Jobs, job[i].pc = "rotate", job[i].given = n PROVE i = j
      BY <1>2, <2>1 DEF ServerInv, Locked
    <2>2. ASSUME NEW m \in Tokens, session[m] = "live" PROVE m \in 1..issued
      <3>1. m \in Nat /\ m > 0 /\ issued \in Nat
        BY AccountsAssumption DEF ServerInv, ServerTyped, Tokens
      <3>2. ~(m > issued)
        BY <2>2 DEF ServerInv, Spent
      <3> QED BY <3>1, <3>2
    <2> QED BY <2>1, <2>2
  <1> HIDE DEF new, n
  <1>4. ServerTyped'
    BY <1>0, <1>2, <1>3, AccountsAssumption DEF ServerInv, ServerTyped
  <1>5. Phases'
    BY <1>0, <1>1 DEF ServerInv, Phases, Works
  <1>6. Locked'
    <2>1. ASSUME NEW m \in Tokens, holder'[m] # None
          PROVE  job'[holder'[m]].pc = "rotate" /\ job'[holder'[m]].given = m
      <3>1. m # n /\ holder'[m] = holder[m]
        BY <1>0, <1>2, <2>1 DEF ServerInv, ServerTyped
      <3>2. job[holder[m]].pc = "rotate" /\ job[holder[m]].given = m /\ holder[m] \in Jobs
        BY <2>1, <3>1 DEF ServerInv, Locked, ServerTyped
      <3>3. holder[m] # j
        BY <3>1, <3>2 DEF n
      <3> QED BY <1>1, <3>1, <3>2, <3>3 DEF Works
    <2>2. ASSUME NEW i \in Jobs, job'[i].pc = "rotate"
          PROVE  /\ job'[i].given \in Tokens /\ holder'[job'[i].given] = i
                 /\ session'[job'[i].given] = "live"
      <3>1. i # j /\ job'[i] = job[i]
        BY <1>1, <2>2 DEF Works
      <3>2. /\ job[i].given \in Tokens /\ holder[job[i].given] = i
            /\ session[job[i].given] = "live"
        BY <2>2, <3>1 DEF ServerInv, Locked
      <3>3. job[i].given # n
        BY <1>a, <2>2, <3>1
      <3> QED BY <1>0, <3>1, <3>2, <3>3 DEF ServerInv, ServerTyped
    <2> QED BY <2>1, <2>2 DEF Locked
  <1>7. Spent'
    <2>1. \A m \in Tokens : m > issued' => session'[m] = "none"
      BY <1>0, <1>2, <1>3 DEF ServerInv, Spent, ServerTyped, Tokens
    <2>2. \A m \in 1..issued' : origin'[m] \in 1..sent' /\ origin'[m] # otp'
      BY <1>0, <1>2, <1>3, AccountsAssumption DEF ServerInv, Spent, ServerTyped, Tokens
    <2>3. \A i \in Jobs : Redeems(i)' => i # j /\ Redeems(i) /\ job'[i] = job[i]
      BY <1>1 DEF Redeems, Works
    <2>4. ASSUME NEW i \in Jobs, Redeems(i)', NEW m \in 1..issued'
          PROVE  origin'[m] # job'[i].given
      <3>1. job'[i] = job[i] /\ \A k \in 1..issued : origin[k] # job[i].given
        BY <2>3, <2>4 DEF ServerInv, Spent
      <3>2. m = new \/ m \in 1..issued
        BY <1>0, <1>3 DEF ServerInv, ServerTyped
      <3>3. CASE m = new
        <4>1. origin'[m] = origin[n]
          BY <1>0, <3>3 DEF ServerInv, ServerTyped
        <4> QED BY <1>2, <3>1, <4>1
      <3>4. CASE m # new
        <4>1. origin'[m] = origin[m]
          BY <1>0, <3>4 DEF ServerInv, ServerTyped
        <4> QED BY <3>1, <3>2, <3>4, <4>1
      <3> QED BY <3>3, <3>4
    <2>5. \A i \in Jobs : Redeems(i)' => job'[i].given \in 1..sent' /\ job'[i].given # otp'
      BY <1>0, <2>3 DEF ServerInv, Spent
    <2>6. \A h, i \in Jobs : Redeems(h)' /\ Redeems(i)' /\ job'[h].given = job'[i].given
              => h = i
      BY <2>3 DEF ServerInv, Spent
    <2> QED BY <2>1, <2>2, <2>4, <2>5, <2>6 DEF Spent
  <1>8. Welcomed'
    BY <1>0, <1>1, <1>3 DEF ServerInv, Welcomed, OneWelcome, Works, ServerTyped
  <1>9. OneLiveSession'
    <2>1. \A m \in Tokens \ {n, new} : session'[m] = session[m] /\ origin'[m] = origin[m]
      BY <1>0 DEF ServerInv, ServerTyped
    <2>2. session'[n] = "revoked" /\ origin'[new] = origin[n]
      BY <1>0, <1>2, <1>3 DEF ServerInv, ServerTyped
    <2>3. \A m \in Tokens \ {n} : session[m] = "live" => origin[m] # origin[n]
      BY <1>2 DEF ServerInv, OneLiveSession
    <2>4. ASSUME NEW a \in Tokens, NEW b \in Tokens, a # b,
                 session'[a] = "live", session'[b] = "live"
          PROVE  origin'[a] # origin'[b]
      <3>1. a # n /\ b # n
        BY <2>2, <2>4
      <3>2. CASE a = new
        BY <2>1, <2>2, <2>3, <2>4, <3>1, <3>2
      <3>3. CASE b = new
        BY <2>1, <2>2, <2>3, <2>4, <3>1, <3>3
      <3>4. CASE a # new /\ b # new
        <4>1. /\ session[a] = "live" /\ session[b] = "live"
              /\ origin'[a] = origin[a] /\ origin'[b] = origin[b]
          BY <2>1, <2>4, <3>1, <3>4
        <4> QED BY <2>4, <4>1 DEF ServerInv, OneLiveSession
      <3> QED BY <3>2, <3>3, <3>4
    <2> QED BY <2>4 DEF OneLiveSession
  <1> QED BY <1>1, <1>4, <1>5, <1>6, <1>7, <1>8, <1>9 DEF ServerInv

(* A failure gives back the locks of the request.                          *)
LEMMA FailStep ==
  ASSUME Typed, ServerInv, NEW j \in Jobs, Fail(j)
  PROVE  Works(j) /\ ServerInv'
  <1>0. /\ Answer(j, 0)
        /\ holder' = [n \in Tokens |-> IF holder[n] = j THEN None ELSE holder[n]]
        /\ UNCHANGED <<sent, otp, late, registered, issued, session, origin, expired,
                       store, tab>>
        /\ 0 \in 0..MaxTokens
    BY AccountsAssumption DEF Fail
  <1>1. Works(j) /\ job'[j].pc \in {"reply", "idle"}
    BY <1>0, AnswerWorks
  <1>2. ServerTyped' /\ OneLiveSession'
    BY <1>0 DEF ServerInv, ServerTyped, OneLiveSession
  <1>3. Phases'
    BY <1>0, <1>1 DEF ServerInv, Phases, Works
  <1>4. Locked'
    BY <1>0, <1>1, AccountsAssumption DEF ServerInv, Locked, Works, ServerTyped
  <1>5. Spent'
    BY <1>0, <1>1 DEF ServerInv, Spent, Redeems, Works
  <1>6. Welcomed'
    BY <1>0, <1>1 DEF ServerInv, Welcomed, OneWelcome, Works
  <1> QED BY <1>1, <1>2, <1>3, <1>4, <1>5, <1>6 DEF ServerInv


(* A request that nobody awaits is forgotten.                              *)
LEMMA UnheardStep ==
  ASSUME Typed, ServerInv, NEW j \in Jobs, Unheard(j)
  PROVE  Works(j) /\ ServerInv'
  <1>1. /\ job[j].pc = "reply" /\ Done(j) /\ UNCHANGED <<server, store, tab>>
        /\ ~\E t \in Tabs : Awaits(t, j)
    BY DEF Unheard
  <1>2. Works(j) /\ job'[j].pc = "idle"
    BY <1>1, DoneFacts DEF Works, Typed
  <1> QED BY <1>1, <1>2, Ends

-----------------------------------------------------------------------------
(* What one side keeps of the other's.                                     *)

(* Work of the server leaves every tab with the request it awaits.         *)
LEMMA WorksKeeps ==
  ASSUME Typed, Awaited, StoredPairAgrees, NEW j \in Jobs, Works(j)
  PROVE  /\ Awaited' /\ StoredPairAgrees'
         /\ job' \in [Jobs -> JobRow] /\ store' \in StoreRow /\ tab' \in [Tabs -> TabRow]
  <1>1. \A t \in Tabs : tab[t].waits \in Jobs \cup {None}
                          /\ tab[t].refreshes \in Jobs \cup {None}
    BY DEF Typed, TabRow
  <1>2. Awaited'
    BY <1>1 DEF Awaited, Works, Awaits
  <1> QED BY <1>2 DEF Works, Typed, StoredPairAgrees

(* A tab that asks for nothing keeps what it and the others await.         *)
LEMMA QuietKeeps ==
  ASSUME Typed, Awaited, StoredPairAgrees, NEW t \in Tabs, Quiet(t)
  PROVE  /\ Awaited' /\ StoredPairAgrees'
         /\ job' \in [Jobs -> JobRow] /\ store' \in StoreRow /\ tab' \in [Tabs -> TabRow]
  <1>1. Awaited'
    BY AccountsAssumption DEF Awaited, Quiet, KeepsShape, Awaits
  <1> QED BY <1>1 DEF Quiet, KeepsShape, Typed

(* A request begins with one tab that awaits it.                           *)
LEMMA AsksKeeps ==
  ASSUME Typed, Awaited, StoredPairAgrees, NEW t \in Tabs, NEW j \in Jobs, Asks(t, j)
  PROVE  /\ Awaited' /\ StoredPairAgrees'
         /\ job' \in [Jobs -> JobRow] /\ store' \in StoreRow /\ tab' \in [Tabs -> TabRow]
  <1>1. j # None /\ \A u \in Tabs : ~Awaits(u, j)
    BY AccountsAssumption DEF Awaited, Asks, Awaits
  <1>2. \A u \in Tabs : tab[u].waits \in Jobs \cup {None}
                          /\ tab[u].refreshes \in Jobs \cup {None}
    BY DEF Typed, TabRow
  <1>3. \A u \in Tabs : tab'[u].waits # None =>
            job'[tab'[u].waits].pc # "idle" /\ job'[tab'[u].waits].kind # "refresh"
    BY <1>1, <1>2 DEF Awaited, Asks, KeepsShape, Awaits
  <1>4. \A u \in Tabs : tab'[u].refreshes # None =>
            job'[tab'[u].refreshes].pc # "idle" /\ job'[tab'[u].refreshes].kind = "refresh"
    BY <1>1, <1>2 DEF Awaited, Asks, KeepsShape, Awaits
  <1>5. \A u \in Tabs, i \in Jobs \ {j} : Awaits(u, i)' => Awaits(u, i)
    BY DEF Asks, KeepsShape, Awaits
  <1>6. \A u \in Tabs : Awaits(u, j)' => u = t
    BY <1>1 DEF Asks, KeepsShape, Awaits
  <1>7. Awaited'
    BY <1>3, <1>4, <1>5, <1>6 DEF Awaited, Asks, KeepsShape
  <1> QED BY <1>7 DEF Asks, KeepsShape

(* A request ends with the tab that heard its answer.                      *)
LEMMA HearsKeeps ==
  ASSUME Typed, Awaited, StoredPairAgrees, NEW t \in Tabs, NEW j \in Jobs, Hears(t, j)
  PROVE  /\ Awaited' /\ StoredPairAgrees'
         /\ job' \in [Jobs -> JobRow] /\ store' \in StoreRow /\ tab' \in [Tabs -> TabRow]
  <1>1. \A u \in Tabs : Awaits(u, j) => u = t
    BY DEF Awaited, Hears, Awaits
  <1>2. \A u \in Tabs : tab[u].waits \in Jobs \cup {None}
                          /\ tab[u].refreshes \in Jobs \cup {None}
    BY DEF Typed, TabRow
  <1>3. \A u \in Tabs : tab'[u].waits # None =>
            job'[tab'[u].waits].pc # "idle" /\ job'[tab'[u].waits].kind # "refresh"
    BY <1>1, <1>2 DEF Awaited, Hears, KeepsShape, Awaits
  <1>4. \A u \in Tabs : tab'[u].refreshes # None =>
            job'[tab'[u].refreshes].pc # "idle" /\ job'[tab'[u].refreshes].kind = "refresh"
    BY <1>1, <1>2 DEF Awaited, Hears, KeepsShape, Awaits
  <1>5. \A u \in Tabs, i \in Jobs : Awaits(u, i)' => Awaits(u, i)
    BY AccountsAssumption DEF Hears, KeepsShape, Awaits
  <1>6. Awaited'
    BY <1>3, <1>4, <1>5 DEF Awaited, Hears, KeepsShape
  <1> QED BY <1>6 DEF Hears, KeepsShape

(* The server promises the same while requests begin and answers are       *)
(* heard.                                                                  *)
LEMMA BrowserServer ==
  ASSUME Typed, ServerInv, UNCHANGED server, NEW t \in Tabs,
         \/ Quiet(t)
         \/ \E j \in Jobs : Asks(t, j) \/ Hears(t, j)
  PROVE  ServerInv'
  <1>1. CASE Quiet(t)
    BY <1>1 DEF Quiet, ServerInv, server, ServerTyped, Phases, Locked, Spent, Redeems,
                Welcomed, OneWelcome, OneLiveSession
  <1>2. ASSUME NEW j \in Jobs, Asks(t, j) \/ Hears(t, j)
        PROVE  ServerInv'
    <2>1. /\ \A i \in Jobs \ {j} : job'[i] = job[i]
          /\ job[j].pc \in {"idle", "reply"} /\ job'[j].pc \in {"verify", "idle"}
          /\ job'[j].pc = "verify" =>
                \/ job'[j].kind # "refresh" /\ job'[j].given \in 1..sent
                \/ job'[j].kind = "refresh" /\ job'[j].given \in Tokens
      BY <1>2 DEF Asks, Hears
    <2>2. ServerTyped' /\ OneLiveSession'
      BY DEF ServerInv, server, ServerTyped, OneLiveSession
    <2>3. Phases'
      BY <2>1 DEF ServerInv, server, Phases
    <2>4. Locked'
      BY <2>1, AccountsAssumption DEF ServerInv, server, Locked, ServerTyped
    <2>5. Spent'
      BY <2>1 DEF ServerInv, server, Spent, Redeems
    <2>6. Welcomed'
      BY <2>1 DEF ServerInv, server, Welcomed, OneWelcome
    <2> QED BY <2>2, <2>3, <2>4, <2>5, <2>6 DEF ServerInv
  <1> QED BY <1>1, <1>2

(* A new code is nobody's yet.                                             *)
LEMMA SendServer ==
  ASSUME Typed, ServerInv, Send
  PROVE  ServerInv'
  <1>0. /\ sent' = sent + 1 /\ otp' = sent + 1 /\ late' = FALSE /\ sent < MaxCodes
        /\ UNCHANGED <<registered, issued, session, origin, holder, expired, job, store>>
    BY DEF Send
  <1>1. OneLiveSession'
    BY <1>0 DEF ServerInv, OneLiveSession
  <1>a. ServerTyped'
    <2>0. late' \in BOOLEAN
      BY <1>0
    <2>1. sent' \in 0..MaxCodes /\ otp' \in 0..sent'
      <3>1. sent \in Int /\ 0 <= sent
        BY DEF ServerInv, ServerTyped
      <3> QED BY <1>0, <3>1, AccountsAssumption
    <2>2. /\ registered \in Nat /\ issued \in 0..MaxTokens
          /\ session \in [Tokens -> {"none", "live", "revoked", "over"}]
          /\ origin \in [Tokens -> 0..MaxCodes]
          /\ holder \in [Tokens -> Jobs \cup {None}]
          /\ expired \in 0..issued
      BY DEF ServerInv, ServerTyped
    <2> QED BY <1>0, <2>0, <2>1, <2>2 DEF ServerTyped
  <1>2. Phases' /\ Locked' /\ Welcomed'
    BY <1>0 DEF ServerInv, ServerTyped, Phases, Locked, Welcomed, OneWelcome
  <1>3. Spent'
    BY <1>0 DEF ServerInv, ServerTyped, Spent, Redeems
  <1> QED BY <1>1, <1>a, <1>2, <1>3 DEF ServerInv


-----------------------------------------------------------------------------
(* The inductive invariant.                                                *)

(* IInv is the server's promises and the browser's.                        *)
LEMMA Split ==
  IInv <=> /\ ServerInv /\ Awaited /\ StoredPairAgrees
           /\ job \in [Jobs -> JobRow] /\ store \in StoreRow /\ tab \in [Tabs -> TabRow]
  BY DEF IInv, Typed, ServerInv

(* It holds of an empty server and freshly opened tabs.                    *)
LEMMA Starts ==
  ASSUME Init
  PROVE  IInv
  <1> USE AccountsAssumption DEF Init
  <1>0. StoredPairAgrees /\ store \in StoreRow
    BY DEF StoredPairAgrees, Nothing, StoreRow
  <1>1. ServerTyped
    <2>1. sent \in 0..MaxCodes /\ otp \in 0..sent /\ issued \in 0..MaxTokens /\ expired \in 0..issued
      OBVIOUS
    <2>2. 0 \in 0..MaxCodes
      OBVIOUS
    <2> QED BY <2>1, <2>2 DEF ServerTyped
  <1>2. job \in [Jobs -> JobRow] /\ \A j \in Jobs : job[j].pc = "idle"
    BY RestingFacts
  <1>3. /\ tab \in [Tabs -> TabRow]
        /\ \A t \in Tabs : /\ tab[t].waits = None /\ tab[t].refreshes = None
                           /\ tab[t].call = "none"
    BY <1>0, OpenedFacts
  <1>4. Phases /\ Locked
    BY <1>2 DEF Phases, Locked
  <1>5. Spent /\ OneLiveSession /\ Welcomed
    BY <1>2 DEF Spent, Redeems, OneLiveSession, Welcomed, OneWelcome, Tokens
  <1>6. Awaited
    BY <1>3 DEF Awaited, Awaits
  <1> QED BY <1>0, <1>1, <1>2, <1>3, <1>4, <1>5, <1>6 DEF IInv, Typed

(* Every step of a tab keeps it.                                           *)
LEMMA TabStep ==
  ASSUME IInv, NEW t \in Tabs,
         Leaves(t) \/ \E j \in Jobs : \/ \E code \in 1..sent : SubmitCode(t, j, code)
                                      \/ Renew(t, j) \/ Refresh(t, j) \/ Hear(t, j)
  PROVE  IInv'
  <1>1. Typed /\ Awaited /\ ServerInv /\ StoredPairAgrees
    BY DEF IInv, ServerInv, Typed
  <1>2. Quiet(t) \/ \E j \in Jobs : Asks(t, j) \/ Hears(t, j)
    BY <1>1, LeavesFacts, SubmitCodeFacts, RenewFacts, HearFacts
  <1>3. /\ Awaited' /\ StoredPairAgrees'
        /\ job' \in [Jobs -> JobRow] /\ store' \in StoreRow /\ tab' \in [Tabs -> TabRow]
    BY <1>1, <1>2, QuietKeeps, AsksKeeps, HearsKeeps
  <1>4. Send \/ UNCHANGED server
    BY DEF Leaves, Resend, SubmitLogin, SubmitRegistration, SendOtp, Back, Logout, Reload,
           Call, Join, Dismiss, Timeout, SubmitCode, Renew, Refresh, Hear, SignedIn,
           CodeRefused, Refreshed, RefreshRefused
  <1>5. ServerInv'
    BY <1>1, <1>2, <1>4, SendServer, BrowserServer
  <1> QED BY <1>3, <1>5, Split DEF IInv, Typed, ServerInv

(* Every step of the server keeps it.                                      *)
LEMMA JobStep ==
  ASSUME IInv, NEW j \in Jobs, Serve(j) \/ Fail(j) \/ Unheard(j)
  PROVE  IInv'
  <1>1. Typed /\ Awaited /\ ServerInv /\ StoredPairAgrees
    BY DEF IInv, ServerInv, Typed
  <1>2. Works(j) /\ ServerInv'
    BY <1>1, VerifyStep, FindAccountStep, IssueStep, LockSessionStep, LapsedStep,
       RotateStep, FailStep, UnheardStep DEF Serve
  <1> QED BY <1>1, <1>2, WorksKeeps DEF IInv, Typed, ServerInv

(* The passing of time keeps it.                                           *)
LEMMA TimeStep ==
  ASSUME IInv, CodeExpires \/ AccessExpires \/ UNCHANGED vars
  PROVE  IInv'
  <1>1. /\ UNCHANGED <<sent, otp, registered, issued, session, origin, holder, job, store, tab>>
        /\ late' \in {late, TRUE} /\ expired' \in {expired, expired + 1}
        /\ expired' = expired \/ expired < issued
    BY DEF CodeExpires, AccessExpires, vars, server
  <1>2. ServerTyped'
    <2>1. ServerTyped
      BY DEF IInv, Typed
    <2>2. expired' \in 0..issued'
      BY <1>1, <2>1, AccountsAssumption DEF ServerTyped
    <2>3. late' \in BOOLEAN
      BY <1>1, <2>1 DEF ServerTyped
    <2> QED BY <1>1, <2>1, <2>2, <2>3 DEF ServerTyped
  <1>3. /\ Phases' /\ Locked' /\ Spent' /\ Welcomed' /\ OneLiveSession' /\ StoredPairAgrees'
    BY <1>1 DEF IInv, Phases, Locked, Spent, Redeems, Welcomed, OneWelcome, OneLiveSession,
                StoredPairAgrees
  <1>4. Awaited'
    BY <1>1 DEF IInv, Awaited, Awaits
  <1> QED BY <1>1, <1>2, <1>3, <1>4 DEF IInv, Typed

(* Every step of a tab, of the server or of time keeps the inductive       *)
(* invariant, whatever the number of each.                                 *)
THEOREM AccountsInductive == Spec => []IInv
  <1>1. Init => IInv
    BY Starts
  <1>2. IInv /\ [Next]_vars => IInv'
    <2> SUFFICES ASSUME IInv, [Next]_vars PROVE IInv'
      OBVIOUS
    <2>1. CASE \E t \in Tabs :
                  \/ Leaves(t)
                  \/ \E j \in Jobs : \/ \E code \in 1..sent : SubmitCode(t, j, code)
                                     \/ Renew(t, j) \/ Refresh(t, j) \/ Hear(t, j)
      BY <2>1, TabStep
    <2>2. CASE \E j \in Jobs : Serve(j) \/ Fail(j) \/ Unheard(j)
      BY <2>2, JobStep
    <2>3. CASE CodeExpires \/ AccessExpires \/ UNCHANGED vars
      BY <2>3, TimeStep
    <2> QED BY <2>1, <2>2, <2>3 DEF Next, Leaves
  <1> QED BY <1>1, <1>2, PTL DEF Spec

(* The variables of Accounts keep their shapes, and a locked session is    *)
(* locked by the refresh that rotates it.                                  *)
THEOREM AccountsTyped == Spec => []TypeOK
  <1>1. IInv => TypeOK
    BY DEF IInv, Typed, ServerTyped, Locked, TypeOK, JobRow, TabRow, StoreRow
  <1> QED BY <1>1, AccountsInductive, PTL

(* However many sign-ins and refreshes overlap and fail, a code lives on   *)
(* in at most one refresh session.                                         *)
THEOREM OneSessionPerCode == Spec => []OneLiveSession
  <1>1. IInv => OneLiveSession
    BY DEF IInv
  <1> QED BY <1>1, AccountsInductive, PTL

(* However many tabs register a telephone, it gets one welcome discount,   *)
(* and nobody is signed in before it.                                      *)
THEOREM OneWelcomeEver == Spec => []OneWelcome
  <1>1. IInv => OneWelcome
    BY DEF IInv, Welcomed
  <1> QED BY <1>1, AccountsInductive, PTL

(* However many tabs share it, localStorage holds two tokens issued        *)
(* together.                                                               *)
THEOREM PairsStayPaired == Spec => []StoredPairAgrees
  <1>1. IInv => StoredPairAgrees
    BY DEF IInv
  <1> QED BY <1>1, AccountsInductive, PTL

(* A call that waits for a refresh always has one under way.               *)
THEOREM NoCallStranded == Spec => []BlockedAwaitsRefresh
  <1>1. IInv => BlockedAwaitsRefresh
    BY DEF IInv, Awaited, BlockedAwaitsRefresh
  <1> QED BY <1>1, AccountsInductive, PTL

=============================================================================
