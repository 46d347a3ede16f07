------------------------------ MODULE Session ------------------------------
(* The session of a user in the three web fronts: the page of FlyMail and    *)
(* the two pages of mail2im, written with React and with Vue.  Each sends    *)
(* its requests with an access token, renews it with a refresh token when a  *)
(* request is answered with 401, lets the requests that met a 401 at the     *)
(* same time share one renewal, and sends them once more.  The fronts differ *)
(* in where a window takes its tokens from, in what a loss of the session    *)
(* does to the page, and in their servers: that of mail2im revokes a refresh *)
(* token when it is used.                                                    *)
(*                                                                           *)
(* A session is the pair of tokens of one issue and is numbered; 0 is none.  *)
(* Saving the profile, which issues a pair too, is left out.                 *)
EXTENDS Naturals, FiniteSets

CONSTANTS
    Windows,
    Slots,          \* requests of a window, by slot
    MaxPairs,       \* bound on the pairs issued
    MaxFails        \* bound on the renewals that the network loses

\* What the model takes for granted of its constants.
SessionAssumptions == MaxPairs \in Nat /\ MaxFails \in Nat

VARIABLES
    front,          \* "flymail", "react" or "vue"
    at,             \* what each window shows: closed, opening, login, app
    memory,         \* the session each window holds (auth store)
    stored,         \* the session in localStorage, which all windows share
    requests,       \* by window and slot
    renewals,       \* calls of /auth/refresh under way
    server,         \* sessions issued, access tokens that are good, refresh
                    \* tokens that are good
    fails,
    signedIn,       \* history: a login, and no logout since
    disturbed       \* history: see Disturbs

page == <<at, memory, stored>>
history == <<fails, signedIn, disturbed>>
sessionVars == <<front, page, requests, renewals, server, history>>

Sessions == 0..MaxPairs
NoRequest == [stage |-> "none", session |-> 0, retried |-> FALSE]
Attempt(stage, n, retried) == [stage |-> stage, session |-> n, retried |-> retried]

\* The server of mail2im revokes the refresh token that is used.
Rotates == front # "flymail"

\* Where a request takes its access token from, and a renewal its refresh token.
AccessOf(w) == IF front = "vue" THEN memory[w] ELSE stored
RefreshOf(w) == IF front = "flymail" THEN stored ELSE memory[w]

\* accessExpired, by the clock of the client.
Expired(w) == memory[w] # 0 /\ memory[w] \notin server.live

Renewal(w, n, waiting) == [win |-> w, session |-> n, stage |-> "sent", got |-> 0, waiting |-> waiting]

RenewalsOf(w) == {r \in renewals : r.win = w}

\* The server with one more pair issued and some refresh tokens revoked.
Issued(n, spent) ==
    [issued |-> n, live |-> server.live \cup {n}, valid |-> (server.valid \cup {n}) \ spent]

SessionInit ==
    /\ front \in {"flymail", "react", "vue"}
    /\ at = [w \in Windows |-> "closed"]
    /\ memory = [w \in Windows |-> 0] /\ stored = 0
    /\ requests = [w \in Windows |-> [s \in Slots |-> NoRequest]]
    /\ renewals = {}
    /\ server = [issued |-> 0, live |-> {}, valid |-> {}]
    /\ fails = 0 /\ signedIn = FALSE /\ disturbed = FALSE

----------------------------------------------------------------------------
(* The store *)

SetSession(w, n) ==
    /\ stored' = n
    /\ memory' = [memory EXCEPT ![w] = n]

ClearSession(w) ==
    /\ stored' = 0
    /\ memory' = [memory EXCEPT ![w] = 0]

\* What a window shows when it has lost its session: the page of FlyMail is
\* loaded anew at /login, ProtectedRoute shows the login, and the Vue page
\* stays as it is until the next navigation.
Lost(w) == IF front = "vue" THEN at ELSE [at EXCEPT ![w] = "login"]

\* What it shows when a renewal has brought one, also after a logout.
Renewed(w) == IF front = "react" THEN [at EXCEPT ![w] = "app"] ELSE at

\* A page that is loaded anew forgets its requests.
Forget(w) == [requests EXCEPT ![w] = [s \in Slots |-> NoRequest]]

----------------------------------------------------------------------------
(* Windows *)

\* ensureSession: a navigation of the Vue page renews an access token that has
\* expired, whatever the interceptor is doing.
GuardRenewal(w, n) == IF n # 0 /\ n \notin server.live THEN {Renewal(w, n, {})} ELSE {}

\* A window is opened or loaded anew: loadFromStorage.  With rotation, an
\* answer that is lost with the page and a second window both cost a session.
Load(w) ==
    LET guard == IF front = "vue" THEN GuardRenewal(w, stored) ELSE {}
    IN  /\ memory' = [memory EXCEPT ![w] = stored]
        /\ at' = [at EXCEPT ![w] =
             IF guard # {} THEN "opening" ELSE IF stored = 0 THEN "login" ELSE "app"]
        /\ requests' = Forget(w)
        /\ renewals' = (renewals \ RenewalsOf(w)) \cup guard
        /\ disturbed' = (disturbed
             \/ (Rotates /\ (RenewalsOf(w) # {} \/ \E v \in Windows \ {w} : at[v] # "closed")))
        /\ UNCHANGED <<front, stored, server, fails, signedIn>>

\* router.beforeEach of the Vue page.
Navigate(w) ==
    /\ front = "vue" /\ at[w] \in {"app", "login"}
    /\ \A r \in RenewalsOf(w) : r.waiting # {}
    /\ LET guard == GuardRenewal(w, memory[w])
       IN  /\ renewals' = renewals \cup guard
           /\ at' = [at EXCEPT ![w] = IF guard # {} THEN @ ELSE IF memory[w] = 0 THEN "login" ELSE "app"]
           /\ disturbed' = (disturbed \/ (guard # {} /\ RenewalsOf(w) # {}))
    /\ UNCHANGED <<front, memory, stored, requests, server, fails, signedIn>>

\* The answer to login arrives.
Login(w) ==
    /\ at[w] = "login" /\ server.issued < MaxPairs
    /\ server' = Issued(server.issued + 1, {})
    /\ SetSession(w, server.issued + 1)
    /\ at' = [at EXCEPT ![w] = "app"]
    /\ signedIn' = TRUE
    /\ UNCHANGED <<front, requests, renewals, fails, disturbed>>

\* The session is forgotten; no server is told.  Only FlyMail loads the page
\* anew, so that a renewal under way is forgotten too.
Logout(w) ==
    /\ at[w] = "app"
    /\ ClearSession(w)
    /\ at' = [at EXCEPT ![w] = "login"]
    /\ IF front = "flymail" THEN requests' = Forget(w) /\ renewals' = renewals \ RenewalsOf(w)
                            ELSE UNCHANGED <<requests, renewals>>
    /\ signedIn' = FALSE
    /\ UNCHANGED <<front, server, fails, disturbed>>

----------------------------------------------------------------------------
(* Requests *)

SendRequest(w, s) ==
    /\ at[w] = "app" /\ requests[w][s] = NoRequest
    /\ requests' = [requests EXCEPT ![w][s] = Attempt("sent", AccessOf(w), FALSE)]
    /\ UNCHANGED <<front, page, renewals, server, history>>

Serve(w, s) ==
    /\ requests[w][s].stage = "sent"
    /\ requests' = [requests EXCEPT ![w][s] =
                       IF @.session \in server.live THEN NoRequest ELSE [@ EXCEPT !.stage = "refused"]]
    /\ UNCHANGED <<front, page, renewals, server, history>>

\* Mutant of Shared: each 401 renews by itself.
SharedNever(w) == {}

\* refreshPromise, refreshing: the renewal that a 401 joins.
Shared(w) == {r \in RenewalsOf(w) : r.waiting # {}}

JoinedRenewal(r, s) == [r EXCEPT !.waiting = @ \cup {s}]

\* The interceptor.  A request that was sent twice is rejected, one without a
\* refresh token costs the session at once.
Unauthorized(w, s) ==
    /\ requests[w][s].stage = "refused"
    /\ IF requests[w][s].retried
         THEN /\ requests' = [requests EXCEPT ![w][s] = NoRequest]
              /\ UNCHANGED <<page, renewals, disturbed>>
         ELSE IF Shared(w) # {}
         THEN /\ requests' = [requests EXCEPT ![w][s].stage = "waiting"]
              /\ renewals' = (renewals \ Shared(w)) \cup {JoinedRenewal(r, s) : r \in Shared(w)}
              /\ UNCHANGED <<page, disturbed>>
         ELSE IF RefreshOf(w) # 0
         THEN /\ requests' = [requests EXCEPT ![w][s].stage = "waiting"]
              /\ renewals' = renewals \cup {Renewal(w, RefreshOf(w), {s})}
              /\ disturbed' = (disturbed \/ (Rotates /\ \E r \in RenewalsOf(w) : r.waiting = {}))
              /\ UNCHANGED page
         ELSE /\ ClearSession(w) /\ at' = Lost(w)
              /\ requests' = IF front = "flymail" THEN Forget(w) ELSE [requests EXCEPT ![w][s] = NoRequest]
              /\ renewals' = IF front = "flymail" THEN renewals \ RenewalsOf(w) ELSE renewals
              /\ UNCHANGED disturbed
    /\ UNCHANGED <<front, server, fails, signedIn>>

----------------------------------------------------------------------------
(* Renewals *)

\* Mutant of Spent: every refresh token is used once, in FlyMail too.
SpentAlways(r) == {r.session}

\* The refresh tokens that a renewal uses up.
Spent(r) == IF Rotates THEN {r.session} ELSE {}

Granted(r, n) ==
    [win |-> r.win, session |-> r.session, stage |-> "granted", got |-> n, waiting |-> r.waiting]

\* The server answers /auth/refresh.
RenewalServed(r) ==
    /\ r \in renewals /\ r.stage = "sent"
    /\ IF r.session \in server.valid
         THEN /\ server.issued < MaxPairs
              /\ LET n == server.issued + 1
                 IN  /\ server' = Issued(n, Spent(r))
                     /\ renewals' = (renewals \ {r}) \cup {Granted(r, n)}
         ELSE /\ renewals' = (renewals \ {r}) \cup {[r EXCEPT !.stage = "denied"]}
              /\ UNCHANGED server
    /\ UNCHANGED <<front, page, requests, history>>

\* The call or its answer is lost: an error like any other.
RenewalFails(r) ==
    /\ r \in renewals /\ r.stage # "denied" /\ fails < MaxFails
    /\ renewals' = (renewals \ {r}) \cup {[r EXCEPT !.stage = "denied"]}
    /\ fails' = fails + 1 /\ disturbed' = TRUE
    /\ UNCHANGED <<front, page, requests, server, signedIn>>

\* A window that was being opened, or was navigating, shows what it may.
Shows(r, m) ==
    IF r.waiting = {} THEN [at EXCEPT ![r.win] = IF m = 0 THEN "login" ELSE "app"]
    ELSE IF m = 0 THEN Lost(r.win) ELSE Renewed(r.win)

\* The new tokens are kept and what waited for them is sent again.
RenewalGranted(r) ==
    /\ r \in renewals /\ r.stage = "granted"
    /\ SetSession(r.win, r.got)
    /\ at' = Shows(r, r.got)
    /\ requests' = [requests EXCEPT ![r.win] =
                       [s \in Slots |-> IF s \in r.waiting THEN Attempt("sent", r.got, TRUE) ELSE @[s]]]
    /\ renewals' = renewals \ {r}
    /\ UNCHANGED <<front, server, history>>

\* Everything is cleared, whatever else has been stored in the meantime.
RenewalDenied(r) ==
    /\ r \in renewals /\ r.stage = "denied"
    /\ ClearSession(r.win)
    /\ at' = Shows(r, 0)
    /\ requests' = IF front = "flymail" THEN Forget(r.win)
                   ELSE [requests EXCEPT ![r.win] =
                            [s \in Slots |-> IF s \in r.waiting THEN NoRequest ELSE @[s]]]
    /\ renewals' = IF front = "flymail" THEN renewals \ RenewalsOf(r.win) ELSE renewals \ {r}
    /\ UNCHANGED <<front, server, history>>

----------------------------------------------------------------------------
(* Time *)

\* All access tokens live equally long.
Expire(n) ==
    /\ n \in server.live /\ \A k \in server.live : n <= k
    /\ server' = [server EXCEPT !.live = @ \ {n}]
    /\ UNCHANGED <<front, page, requests, renewals, history>>

SessionNext ==
    \/ \E w \in Windows : Load(w) \/ Navigate(w) \/ Login(w) \/ Logout(w)
    \/ \E w \in Windows, s \in Slots : SendRequest(w, s) \/ Serve(w, s) \/ Unauthorized(w, s)
    \/ \E r \in renewals : RenewalServed(r) \/ RenewalFails(r) \/ RenewalGranted(r) \/ RenewalDenied(r)
    \/ \E n \in server.live : Expire(n)

SessionSpec == SessionInit /\ [][SessionNext]_sessionVars

----------------------------------------------------------------------------
(* Properties *)

SessionTypeOK ==
    /\ at \in [Windows -> {"closed", "opening", "login", "app"}]
    /\ memory \in [Windows -> Sessions] /\ stored \in Sessions
    /\ \A w \in Windows, s \in Slots : requests[w][s].stage \in {"none", "sent", "refused", "waiting"}
    /\ server.live \subseteq 1..server.issued /\ server.valid \subseteq 1..server.issued
    /\ \A r \in renewals : r.win \in Windows /\ r.waiting \subseteq Slots /\ r.session \in Sessions

\* A user who signed in stays signed in, however many requests meet an expired
\* token at once, in FlyMail with any number of windows: the session is lost to
\* a logout, to the network and, where refresh tokens are used once, to a second
\* window, to a page loaded anew during a renewal and to the guard of the Vue
\* router, which does not share the renewal of the interceptor.
StaysSignedIn == signedIn /\ ~disturbed => stored # 0
=============================================================================
