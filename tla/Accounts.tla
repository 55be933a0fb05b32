------------------------------ MODULE Accounts ------------------------------
(***************************************************************************)
(* Signing in: one-time codes, registration and refresh sessions in the    *)
(* Node backend, and the tabs of a customer's browser with their           *)
(* AuthManager, which share the localStorage of the client application     *)
(* and each keep a token of their own in memory.  There is one customer,   *)
(* one telephone; a pair of tokens is the number it was issued under.      *)
(***************************************************************************)
EXTENDS Integers, FiniteSets

CONSTANTS
    Tabs,        \* the tabs of the client application
    Jobs,        \* requests the server works on at a time
    None,
    Offered,     \* {"refresh"}, if applications call refresh() themselves
    MaxCodes,    \* bound of the codes sent
    MaxTokens,   \* bound of the token pairs issued
    MaxExpired   \* bound of the access tokens that expire

ASSUME AccountsAssumption ==
    /\ MaxCodes \in Nat /\ MaxTokens \in Nat /\ MaxExpired \in Nat
    /\ Offered \subseteq {"refresh"}
    /\ None \notin Jobs

VARIABLES
    sent,        \* codes sent to the telephone
    otp,         \* the entry of the telephone in otpStorage; 0: none
    late,        \* whether the last code sent is older than five minutes
    registered,  \* welcome discounts given to customers of this telephone
    issued,      \* token pairs issued so far
    session,     \* user_sessions, by the number of their refresh token
    origin,      \* history: the code whose sign-in a session descends from
    holder,      \* the job that has a session's row locked
    expired,     \* the access tokens up to this one are older than fifteen minutes
    job,         \* what the server is working on
    store,       \* localStorage
    tab          \* the browser tabs

server == <<sent, otp, late, registered, issued, session, origin, holder, expired>>
vars == <<server, job, store, tab>>

Tokens == 1..MaxTokens

Resting == [pc |-> "idle", kind |-> "login", given |-> 0, result |-> 0]
Nothing == [access |-> 0, refresh |-> 0]
Opened ==
    [flow |-> "none",
     memory |-> 0, shown |-> store.access,
     waits |-> None, refreshes |-> None, call |-> "none"]

Init ==
    /\ sent = 0 /\ otp = 0 /\ late = FALSE /\ registered = 0 /\ issued = 0
    /\ session = [n \in Tokens |-> "none"]
    /\ origin = [n \in Tokens |-> 0]
    /\ holder = [n \in Tokens |-> None]
    /\ expired = 0
    /\ job = [j \in Jobs |-> Resting]
    /\ store = Nothing
    /\ tab = [t \in Tabs |-> Opened]

-----------------------------------------------------------------------------
(* What a tab does with its tokens.                                        *)

(* MirroredStorage: memory first, then localStorage.                       *)
AccessToken(t) ==
    IF tab[t].memory # 0 THEN tab[t].memory ELSE store.access

(* Mutant: the refresh token of before is kept.                            *)
SetAccessToken(t, n, after) ==
    /\ store' = [store EXCEPT !.access = n]
    /\ tab' = [tab EXCEPT ![t] = [after EXCEPT !.memory = n, !.shown = n]]

SetToken(t, n, after) ==
    /\ store' = [access |-> n, refresh |-> n]
    /\ tab' = [tab EXCEPT ![t] = [after EXCEPT !.memory = n, !.shown = n]]

Forget == store' = Nothing

(* Mutant: the page is not loaded anew.                                    *)
ForcedOutStaying(t) ==
    /\ Forget
    /\ tab' = [tab EXCEPT ![t].memory = 0, ![t].shown = 0, ![t].refreshes = None]

(* logout() with its redirect: the page is loaded anew and whatever it     *)
(* waited for is dropped.                                                  *)
ForcedOut(t) ==
    /\ Forget
    /\ tab' = [tab EXCEPT ![t] = [Opened EXCEPT !.shown = 0]]

(* Any free worker will do.                                                *)
Start(j, kind, given) ==
    /\ job[j].pc = "idle" /\ j = CHOOSE i \in Jobs : job[i].pc = "idle"
    /\ job' = [job EXCEPT ![j] = [Resting EXCEPT !.pc = "verify", !.kind = kind,
                                                 !.given = given]]

-----------------------------------------------------------------------------
(* The sign-in pages.                                                      *)

(* A new code replaces the one before.                                     *)
Send ==
    /\ sent < MaxCodes
    /\ sent' = sent + 1 /\ otp' = sent + 1 /\ late' = FALSE
    /\ UNCHANGED <<registered, issued, session, origin, holder, expired, job, store>>

SendOtp(t, intent) ==
    /\ tab[t].flow = "none" /\ tab[t].shown = 0
    /\ Send
    /\ tab' = [tab EXCEPT ![t].flow = intent]

SubmitLogin(t) == SendOtp(t, "login")
SubmitRegistration(t) == SendOtp(t, "register")

(* Offered once the countdown of the code is over.                         *)
MayResend(t) == tab[t].flow # "none" /\ late

Resend(t) == MayResend(t) /\ Send /\ UNCHANGED tab

MaySubmitCode(t) == tab[t].flow # "none" /\ tab[t].waits = None

Back(t) ==
    /\ MaySubmitCode(t)
    /\ tab' = [tab EXCEPT ![t].flow = "none"]
    /\ UNCHANGED <<server, job, store>>

SubmitCode(t, j, code) ==
    /\ MaySubmitCode(t)
    /\ Start(j, tab[t].flow, code)
    /\ tab' = [tab EXCEPT ![t].waits = j]
    /\ UNCHANGED <<server, store>>

(* The customer leaves by the profile page, without a redirect.            *)
Logout(t) ==
    /\ tab[t].shown # 0
    /\ Forget
    /\ tab' = [tab EXCEPT ![t].memory = 0, ![t].shown = 0]
    /\ UNCHANGED <<server, job>>

(* The page of the code survives a reload in sessionStorage.               *)
Reload(t) ==
    /\ tab' = [tab EXCEPT ![t] =
          [Opened EXCEPT !.flow = tab[t].flow]]
    /\ UNCHANGED <<server, job, store>>

-----------------------------------------------------------------------------
(* Requests of a signed-in page, and what AuthManager does about a 401.    *)

(* authenticateToken: no token is a 401, an expired one a 403.             *)
Status(n) == CASE n = 0 -> 401 [] n <= expired -> 403 [] OTHER -> 200

Settle(t, call) == tab' = [tab EXCEPT ![t].call = call]

(* A request goes out with the token of the moment and is judged by it;    *)
(* a 200 changes nothing here.                                             *)
Call(t) ==
    /\ tab[t].shown # 0 /\ tab[t].flow = "none" /\ tab[t].call = "none"
    /\ \/ Status(AccessToken(t)) = 401 /\ Settle(t, "unauthorized")
       \/ Status(AccessToken(t)) = 403 /\ Settle(t, "refused")
    /\ UNCHANGED <<server, job, store>>

(* refresh(): the second caller joins the first one's promise.             *)
Join(t) ==
    /\ tab[t].call = "unauthorized" /\ tab[t].refreshes # None
    /\ Settle(t, "blocked")
    /\ UNCHANGED <<server, job, store>>

RefreshOrLeave(t, j, after) ==
    /\ tab[t].refreshes = None
    /\ \/ /\ store.refresh # 0
          /\ Start(j, "refresh", store.refresh)
          /\ tab' = [tab EXCEPT ![t] = [after EXCEPT !.refreshes = j]]
          /\ UNCHANGED store
       \/ store.refresh = 0 /\ ForcedOut(t) /\ UNCHANGED job

Renew(t, j) ==
    /\ tab[t].call = "unauthorized"
    /\ RefreshOrLeave(t, j, [tab[t] EXCEPT !.call = "blocked"])
    /\ UNCHANGED server

(* refresh() called by the application itself.                             *)
Refresh(t, j) ==
    /\ "refresh" \in Offered /\ tab[t].shown # 0
    /\ RefreshOrLeave(t, j, tab[t])
    /\ UNCHANGED server

(* The page shows the error of a refused call.                             *)
Dismiss(t) ==
    /\ tab[t].call = "refused"
    /\ Settle(t, "none")
    /\ UNCHANGED <<server, job, store>>

-----------------------------------------------------------------------------
(* The server.  A refused request answers 0.                               *)

Awaits(t, j) == j \in {tab[t].waits, tab[t].refreshes}
Answer(j, n) ==
    job' = [job EXCEPT ![j] =
               IF \E t \in Tabs : Awaits(t, j)
               THEN [@ EXCEPT !.pc = "reply", !.given = 0, !.result = n]
               ELSE Resting]
Go(j, pc) == job' = [job EXCEPT ![j].pc = pc]

(* verifyOtpCode: an expired entry is deleted, and so is a matched one.    *)
Verify(j) ==
    /\ job[j].pc = "verify" /\ job[j].kind \in {"login", "register"}
    /\ LET matches == otp = job[j].given /\ ~late IN
       /\ otp' = IF matches \/ late THEN 0 ELSE otp
       /\ IF matches THEN Go(j, "account") ELSE Answer(j, 0)
    /\ UNCHANGED <<sent, late, registered, issued, session, origin, holder, expired,
                   store, tab>>

(* Mutant: the telephone is not looked up.                                 *)
FindAccountUnchecked(j) ==
    /\ job[j].pc = "account"
    /\ Go(j, "issue")
    /\ registered' = IF job[j].kind = "login" THEN registered ELSE registered + 1
    /\ UNCHANGED <<sent, otp, late, issued, session, origin, holder, expired, store, tab>>

(* The customer's row is found, or made with its welcome discount in one   *)
(* transaction unless the telephone already has one.                       *)
FindAccount(j) ==
    /\ job[j].pc = "account"
    /\ IF job[j].kind = "login"
       THEN /\ IF registered = 0 THEN Answer(j, 0) ELSE Go(j, "issue")
            /\ UNCHANGED registered
       ELSE IF registered # 0 THEN Answer(j, 0) /\ UNCHANGED registered
            ELSE Go(j, "issue") /\ registered' = registered + 1
    /\ UNCHANGED <<sent, otp, late, issued, session, origin, holder, expired, store, tab>>

NewSession(code) ==
    /\ issued < MaxTokens
    /\ issued' = issued + 1
    /\ origin' = [origin EXCEPT ![issued + 1] = code]

Issue(j) ==
    /\ job[j].pc = "issue"
    /\ NewSession(job[j].given)
    /\ session' = [session EXCEPT ![issued + 1] = "live"]
    /\ Answer(j, issued + 1)
    /\ UNCHANGED <<sent, otp, late, registered, holder, expired, store, tab>>

(* SELECT ... FOR UPDATE OF s: waits for the row, then looks at it again.  *)
LockSession(j) ==
    /\ job[j].pc = "verify" /\ job[j].kind = "refresh"
    /\ LET n == job[j].given IN
       /\ holder[n] = None
       /\ IF session[n] = "live"
          THEN Go(j, "rotate") /\ holder' = [holder EXCEPT ![n] = j]
          ELSE Answer(j, 0) /\ UNCHANGED holder
    /\ UNCHANGED <<sent, otp, late, registered, issued, session, origin, expired,
                   store, tab>>

(* The thirty days of a session are over by the time it is looked up.      *)
Lapsed(j) ==
    /\ job[j].pc = "verify" /\ job[j].kind = "refresh"
    /\ LET n == job[j].given IN
       /\ holder[n] = None /\ session[n] = "live" /\ n <= expired
       /\ session' = [session EXCEPT ![n] = "over"]
    /\ Answer(j, 0)
    /\ UNCHANGED <<sent, otp, late, registered, issued, origin, holder, expired,
                   store, tab>>

(* Mutant: the session of the old token is not revoked.                    *)
RotateKeeping(j) ==
    /\ job[j].pc = "rotate"
    /\ LET n == job[j].given IN
       /\ NewSession(origin[n])
       /\ session' = [session EXCEPT ![issued + 1] = "live"]
       /\ holder' = [holder EXCEPT ![n] = None]
    /\ Answer(j, issued + 1)
    /\ UNCHANGED <<sent, otp, late, registered, expired, store, tab>>

Rotate(j) ==
    /\ job[j].pc = "rotate"
    /\ LET n == job[j].given IN
       /\ NewSession(origin[n])
       /\ session' = [session EXCEPT ![n] = "revoked", ![issued + 1] = "live"]
       /\ holder' = [holder EXCEPT ![n] = None]
    /\ Answer(j, issued + 1)
    /\ UNCHANGED <<sent, otp, late, registered, expired, store, tab>>

(* Mutant: the transaction is left open.                                   *)
FailHolding(j) ==
    /\ job[j].pc \in {"account", "issue", "rotate"}
    /\ Answer(j, 0)
    /\ UNCHANGED <<server, store, tab>>

(* A step of the database fails: what it began is rolled back, what was    *)
(* done before - the code, the customer - stays.                           *)
Fail(j) ==
    /\ job[j].pc \in {"account", "issue", "rotate"}
    /\ Answer(j, 0)
    /\ holder' = [n \in Tokens |-> IF holder[n] = j THEN None ELSE holder[n]]
    /\ UNCHANGED <<sent, otp, late, registered, issued, session, origin, expired,
                   store, tab>>

-----------------------------------------------------------------------------
(* The answer arrives.                                                     *)

Done(j) == job' = [job EXCEPT ![j] = Resting]

SignedIn(t, j) ==
    /\ job[j].pc = "reply" /\ tab[t].waits = j /\ job[j].result # 0
    /\ SetToken(t, job[j].result, [tab[t] EXCEPT !.flow = "none", !.waits = None])
    /\ Done(j)
    /\ UNCHANGED server

(* A refused code leaves the page as it is.                                *)
CodeRefused(t, j) ==
    /\ job[j].pc = "reply" /\ tab[t].waits = j /\ job[j].result = 0
    /\ tab' = [tab EXCEPT ![t].waits = None]
    /\ Done(j)
    /\ UNCHANGED <<server, store>>

(* The calls that waited for the refresh are sent once more ...            *)
Refreshed(t, j) ==
    /\ job[j].pc = "reply" /\ tab[t].refreshes = j /\ job[j].result # 0
    /\ SetToken(t, job[j].result,
                [tab[t] EXCEPT !.refreshes = None,
                               !.call = IF @ = "blocked" THEN "none" ELSE @])
    /\ Done(j)
    /\ UNCHANGED server

(* ... and a refused refresh ends the session.                             *)
RefreshRefused(t, j) ==
    /\ job[j].pc = "reply" /\ tab[t].refreshes = j /\ job[j].result = 0
    /\ ForcedOut(t)
    /\ Done(j)
    /\ UNCHANGED server

(* The client stops waiting, or the answer is lost.                        *)
Timeout(t) ==
    /\ \/ /\ tab[t].waits # None
          /\ tab' = [tab EXCEPT ![t].waits = None]
          /\ UNCHANGED store
       \/ tab[t].refreshes # None /\ ForcedOut(t)
    /\ UNCHANGED <<server, job>>

Unheard(j) ==
    /\ job[j].pc = "reply" /\ \A t \in Tabs : ~Awaits(t, j)
    /\ Done(j)
    /\ UNCHANGED <<server, store, tab>>

-----------------------------------------------------------------------------
(* Time passes.                                                            *)

CodeExpires ==
    /\ otp # 0 /\ ~late /\ late' = TRUE
    /\ UNCHANGED <<sent, otp, registered, issued, session, origin, holder, expired,
                   job, store, tab>>

AccessExpires ==
    /\ expired < issued /\ expired < MaxExpired /\ expired' = expired + 1
    /\ UNCHANGED <<sent, otp, late, registered, issued, session, origin, holder,
                   job, store, tab>>

Serve(j) ==
    Verify(j) \/ FindAccount(j) \/ Issue(j) \/ LockSession(j)
        \/ Lapsed(j) \/ Rotate(j)

Hear(t, j) ==
    SignedIn(t, j) \/ CodeRefused(t, j) \/ Refreshed(t, j) \/ RefreshRefused(t, j)

Next ==
    \/ \E t \in Tabs :
        \/ SubmitLogin(t) \/ SubmitRegistration(t)
        \/ Resend(t) \/ Back(t) \/ Logout(t) \/ Reload(t) \/ Call(t) \/ Join(t)
        \/ Dismiss(t) \/ Timeout(t)
        \/ \E j \in Jobs :
              \/ \E code \in 1..sent : SubmitCode(t, j, code)
              \/ Renew(t, j) \/ Refresh(t, j) \/ Hear(t, j)
    \/ \E j \in Jobs : Serve(j) \/ Fail(j) \/ Unheard(j)
    \/ CodeExpires \/ AccessExpires

Spec == Init /\ [][Next]_vars

-----------------------------------------------------------------------------
(* Every variable keeps its shape, and a locked session is locked by the   *)
(* refresh that rotates it.                                                *)
TypeOK ==
    /\ sent \in 0..MaxCodes /\ otp \in 0..sent /\ late \in BOOLEAN
    /\ registered \in Nat /\ issued \in 0..MaxTokens
    /\ session \in [Tokens -> {"none", "live", "revoked", "over"}]
    /\ origin \in [Tokens -> 0..MaxCodes]
    /\ holder \in [Tokens -> Jobs \cup {None}]
    /\ \A n \in Tokens : holder[n] # None =>
          job[holder[n]].pc = "rotate" /\ job[holder[n]].given = n
    /\ expired \in 0..issued
    /\ job \in [Jobs -> [pc : {"idle", "verify", "account", "issue", "rotate", "reply"},
                         kind : {"login", "register", "refresh"},
                         given : Nat, result : 0..MaxTokens]]
    /\ store \in [access : 0..MaxTokens, refresh : 0..MaxTokens]
    /\ tab \in [Tabs -> [flow : {"none", "login", "register"}, memory : 0..MaxTokens,
                            shown : 0..MaxTokens, waits : Jobs \cup {None},
                            refreshes : Jobs \cup {None},
                            call : {"none", "unauthorized", "blocked", "refused"}]]

(* However many tabs, registrations, logins and refreshes overlap, and     *)
(* whichever of them fail half way: a sign-in by one code lives on in at   *)
(* most one refresh session, so a code opens the account once and a        *)
(* rotated token is never worth anything again.                            *)
OneLiveSession ==
    \A m, n \in Tokens :
        session[m] = "live" /\ session[n] = "live" /\ origin[m] = origin[n] => m = n

(* A telephone gets one welcome discount, although two tabs may register   *)
(* it with two codes, and although a registration may fail after its       *)
(* customer was made.                                                      *)
OneWelcome == registered <= 1 /\ (issued > 0 => registered = 1)

(* What a reload finds in localStorage was issued together, whatever other *)
(* tabs of the application did.                                            *)
StoredPairAgrees == store.access = store.refresh

(* No call of a page is stranded: one that waits for a refresh waits for a *)
(* request that is still awaited, even if another call began it, so that   *)
(* its answer or its timeout ends every call that joined.                  *)
BlockedAwaitsRefresh ==
    \A t \in Tabs :
        tab[t].call = "blocked" =>
            /\ tab[t].refreshes # None
            /\ job[tab[t].refreshes].kind = "refresh"

(* "On 401 - an attempt to refresh; on its failure - logout and redirect": *)
(* a page is not left with a refused call while the application holds a    *)
(* refresh token that the server would still accept.                       *)
ExpiredIsRefreshed ==
    \A t \in Tabs :
        tab[t].call = "refused" =>
            LET n == store.refresh IN n = 0 \/ session[n] # "live"
=============================================================================
