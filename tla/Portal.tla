-------------------------------- MODULE Portal --------------------------------
(***************************************************************************)
(* The single-page portal in the tabs of one browser: portal-fe/src/auth.ts  *)
(* and the boot of App.tsx.  The provider is external: one use of a code or *)
(* refresh token, a second use ends its lineage (OidcStore has it in full).  *)
(*                                                                         *)
(* A tab keeps its tokens and the state of the login it went to in its      *)
(* sessionStorage, which a duplicated tab copies; the guards against a      *)
(* second login() and a second refresh are variables of the page.  PKCE goes *)
(* with the state.  A login, its code and the lineage of its tokens have one *)
(* number.                                                                  *)
(*                                                                         *)
(* Left out: other methods of sign-in than the SSO session, the page that    *)
(* stops a loop of logins, the fallback to /oidc/logout.                    *)
(***************************************************************************)
EXTENDS Naturals, FiniteSets

CONSTANTS
  Tabs, None,                       \* tabs are numbered as they are opened
  MaxCalls, MaxLogins, MaxRefreshes  \* bounds

VARIABLES
  page,      \* tab -> "closed", "app", "leaving" (location.href is set),
             \*        "away" (at the provider), "callback"
  store,     \* tab -> sessionStorage: [at, rt, state, used]
  url,       \* tab -> the login it left for or comes back from
  calls,     \* tab, login -> calls of the API in flight with its access token
  asked,     \* tab -> requests to the token endpoint: [kind, of, gen, reply]
  logins,    \* logins begun so far
  lineage,   \* login -> [gen, dead, revoked]; gen 0: no code, 1: code, n + 1: nth refresh token
  forked,    \* history: lineages whose answer was lost or whose tab was copied
  wiped,     \* history: tabs whose state was cleared after login() had set it
  needless   \* history: a new login nobody asked for and nothing explains

vars == <<page, store, url, calls, asked, logins, lineage, forked, wiped, needless>>

Logins == 1 .. MaxLogins
Gens   == 0 .. MaxRefreshes + 2
Blank  == [at |-> None, rt |-> None, state |-> None, used |-> None]
Fresh  == [gen |-> 0, dead |-> FALSE, revoked |-> FALSE]

TypeOK ==
  /\ page \in [Tabs -> {"closed", "app", "leaving", "away", "callback"}]
  /\ store \in [Tabs -> [at: {None} \cup [of: Logins, fresh: BOOLEAN],
                         rt: {None} \cup [of: Logins, gen: Gens],
                         state: {None} \cup Logins, used: {None} \cup Logins]]
  /\ url \in [Tabs -> {None} \cup Logins]
  /\ calls \in [Tabs -> [Logins -> 0 .. MaxCalls]]
  /\ \A i \in Tabs : asked[i] \subseteq
       [kind: {"code", "refresh"}, of: Logins, gen: Gens, reply: {"none", "bad", "ok"}]
  /\ logins \in 0 .. MaxLogins
  /\ lineage \in [Logins -> [gen: Gens, dead: BOOLEAN, revoked: BOOLEAN]]
  /\ forked \subseteq Logins /\ wiped \subseteq Tabs /\ needless \in BOOLEAN

Init ==
  /\ page = [i \in Tabs |-> "closed"] /\ store = [i \in Tabs |-> Blank]
  /\ url = [i \in Tabs |-> None]
  /\ calls = [i \in Tabs |-> [g \in Logins |-> 0]]
  /\ asked = [i \in Tabs |-> {}]
  /\ logins = 0 /\ lineage = [g \in Logins |-> Fresh]
  /\ forked = {} /\ wiped = {} /\ needless = FALSE
-----------------------------------------------------------------------------
Running(i) == page[i] \in {"app", "leaving", "callback"}

\* login(), which the flag loginInFlight lets through once in a page; and clear()
\* before it, which also removes the state an earlier login() stored.
Go(i, kept) ==   \* after MaxLogins logins the tab is closed
  IF logins = MaxLogins
  THEN /\ page' = [page EXCEPT ![i] = "closed"] /\ store' = [store EXCEPT ![i] = Blank]
       /\ wiped' = wiped \ {i}
       /\ UNCHANGED <<url, logins>>
  ELSE /\ logins' = logins + 1
       /\ store' = [store EXCEPT ![i] = [kept EXCEPT !.state = logins + 1]]
       /\ url' = [url EXCEPT ![i] = logins + 1]
       /\ page' = [page EXCEPT ![i] = "leaving"]
       /\ wiped' = wiped \ {i}
ClearAndLogin(i) ==
  IF page[i] = "leaving"
  THEN /\ store' = [store EXCEPT ![i] = Blank]
       /\ wiped' = wiped \cup {i}
       /\ UNCHANGED <<page, url, logins>>
  ELSE Go(i, Blank)

\* A request to the token endpoint whose answer nobody will read.
Dropped(i) == {e.of : e \in asked[i]}
Unload(i) ==
  /\ calls' = [calls EXCEPT ![i] = [g \in Logins |-> 0]]
  /\ asked' = [asked EXCEPT ![i] = {}]

Opens(i) == page[i] = "closed" /\ \A j \in Tabs : j < i => page[j] # "closed"
\* boot: a tab that has no access token goes to log in.
Open(i) ==
  /\ Opens(i) /\ logins < MaxLogins
  /\ Go(i, Blank)
  /\ UNCHANGED <<calls, asked, lineage, forked, needless>>
\* The user reloads, goes back to "/", or is sent there from a dead interaction.
Reload(i) ==
  /\ page[i] # "closed"
  /\ forked' = forked \cup Dropped(i)
  /\ Unload(i)
  /\ IF store[i].at # None
     THEN page' = [page EXCEPT ![i] = "app"] /\ UNCHANGED <<store, url, logins, wiped>>
     ELSE Go(i, store[i])
  /\ UNCHANGED <<lineage, needless>>
Duplicate(i, j) ==
  /\ page[i] = "app" /\ Opens(j)
  /\ page' = [page EXCEPT ![j] = "app"]
  /\ store' = [store EXCEPT ![j] = store[i]]
  /\ forked' = IF store[i].rt = None THEN forked ELSE forked \cup {store[i].rt.of}
  /\ UNCHANGED <<url, calls, asked, logins, lineage, wiped, needless>>
Close(i) ==
  /\ page[i] # "closed"
  /\ page' = [page EXCEPT ![i] = "closed"] /\ store' = [store EXCEPT ![i] = Blank]
  /\ wiped' = wiped \ {i}
  /\ Unload(i)
  /\ UNCHANGED <<url, logins, lineage, forked, needless>>

\* The page is gone; the provider knows the user and sends the tab back.
Leave(i) ==
  /\ page[i] = "leaving" /\ page' = [page EXCEPT ![i] = "away"]
  /\ forked' = forked \cup Dropped(i)
  /\ Unload(i)
  /\ UNCHANGED <<store, url, logins, lineage, wiped, needless>>
Authorize(i) ==
  /\ page[i] = "away" /\ lineage[url[i]].gen = 0
  /\ page' = [page EXCEPT ![i] = "callback"]
  /\ lineage' = [lineage EXCEPT ![url[i]].gen = 1]
  /\ UNCHANGED <<store, url, calls, asked, logins, forked, wiped, needless>>

\* handleCallback: the code is marked used before the first await.
HandleCallback(i) ==
  /\ page[i] = "callback" /\ store[i].used # url[i]
  /\ IF store[i].state = url[i]
     THEN /\ store' = [store EXCEPT ![i].used = url[i]]
          /\ asked' = [asked EXCEPT ![i] = @ \cup
               {[kind |-> "code", of |-> url[i], gen |-> 1, reply |-> "none"]}]
          /\ UNCHANGED <<page, url, logins, wiped, needless>>
     ELSE /\ needless' = (needless \/ i \notin wiped)
          /\ ClearAndLogin(i)
          /\ UNCHANGED asked
  /\ UNCHANGED <<calls, lineage, forked>>
-----------------------------------------------------------------------------
\* accessToken: the token is used while it is fresh; one refresh at a time.
MayRefreshAgain(i) == TRUE   \* (mutation)
MayRefresh(i)      == asked[i] = {}
Call(i) ==
  /\ page[i] = "app"
  /\ store[i].at # None /\ store[i].at.fresh
  /\ calls[i][store[i].at.of] < MaxCalls
  /\ calls' = [calls EXCEPT ![i][store[i].at.of] = @ + 1]
  /\ UNCHANGED <<page, store, url, asked, logins, lineage, forked, wiped, needless>>
Refresh(i) ==
  /\ page[i] = "app" /\ MayRefresh(i)
  /\ store[i].at # None /\ ~store[i].at.fresh /\ store[i].rt.gen <= MaxRefreshes + 1
  /\ asked' = [asked EXCEPT ![i] = @ \cup
       {[kind |-> "refresh", of |-> store[i].rt.of, gen |-> store[i].rt.gen, reply |-> "none"]}]
  /\ UNCHANGED <<page, store, url, calls, logins, lineage, forked, wiped, needless>>
Expire(i) ==
  /\ page[i] = "app" /\ store[i].at # None /\ store[i].at.fresh
  /\ store' = [store EXCEPT ![i].at.fresh = FALSE]
  /\ UNCHANGED <<page, url, calls, asked, logins, lineage, forked, wiped, needless>>

\* api: 401 clears the tokens and goes to log in; every other answer does not.
Answer(i, g) ==
  /\ Running(i) /\ calls[i][g] > 0
  /\ calls' = [calls EXCEPT ![i][g] = @ - 1]
  /\ IF lineage[g].revoked THEN ClearAndLogin(i)
     ELSE UNCHANGED <<page, store, url, logins, wiped>>
  /\ UNCHANGED <<asked, lineage, forked, needless>>

\* The token endpoint: the newest token of a living lineage, once.
TokenEndpoint(i, e) ==
  /\ Running(i) /\ e \in asked[i] /\ e.reply = "none"
  /\ LET l  == lineage[e.of]
         ok == ~l.dead /\ e.gen = l.gen
     IN /\ asked' = [asked EXCEPT ![i] = (@ \ {e}) \cup
                       {[e EXCEPT !.reply = IF ok THEN "ok" ELSE "bad"]}]
        /\ lineage' = [lineage EXCEPT ![e.of] =
                         IF ok THEN [@ EXCEPT !.gen = e.gen + 1] ELSE [@ EXCEPT !.dead = TRUE]]
        /\ needless' = (needless \/ (~l.dead /\ e.gen < l.gen /\ e.of \notin forked))
  /\ UNCHANGED <<page, store, url, calls, logins, forked, wiped>>
TokenAnswer(i, e) ==
  /\ Running(i) /\ e \in asked[i] /\ e.reply # "none"
  /\ asked' = [asked EXCEPT ![i] = @ \ {e}]
  /\ IF e.reply = "ok"
     THEN /\ store' = [store EXCEPT ![i].at = [of |-> e.of, fresh |-> TRUE],
                                    ![i].rt = [of |-> e.of, gen |-> e.gen + 1],
                                    ![i].state = IF e.kind = "code" THEN None ELSE @,
                                    ![i].used = IF e.kind = "code" THEN None ELSE @]
          /\ page' = IF e.kind = "code" THEN [page EXCEPT ![i] = "app"] ELSE page
          /\ UNCHANGED <<url, logins, wiped>>
     ELSE ClearAndLogin(i)
  /\ UNCHANGED <<calls, lineage, forked, needless>>
\* The network fails: the token stays where it is and is presented again.
TokenLost(i, e) ==
  /\ Running(i) /\ e \in asked[i]
  /\ asked' = [asked EXCEPT ![i] = @ \ {e}]
  /\ forked' = forked \cup {e.of}
  /\ UNCHANGED <<page, store, url, calls, logins, lineage, wiped, needless>>

\* Everything of the user is revoked: by an administrator, or by logout(),
\* which clears the tab and reloads it.
Revoked == [g \in Logins |-> IF lineage[g].gen = 0 THEN lineage[g]
                             ELSE [lineage[g] EXCEPT !.dead = TRUE, !.revoked = TRUE]]
RevokeAll ==
  /\ lineage' = Revoked
  /\ UNCHANGED <<page, store, url, calls, asked, logins, forked, wiped, needless>>
Logout(i) ==
  /\ page[i] = "app" /\ store[i].at # None /\ store[i].at.fresh
  /\ ~lineage[store[i].at.of].revoked
  /\ lineage' = Revoked
  /\ Unload(i)
  /\ ClearAndLogin(i)
  /\ UNCHANGED <<forked, needless>>

Next ==
  \/ \E i \in Tabs : \/ Open(i) \/ Reload(i) \/ Close(i) \/ Leave(i) \/ Authorize(i)
                     \/ HandleCallback(i) \/ Refresh(i) \/ Expire(i) \/ Logout(i)
  \/ \E i, j \in Tabs : Duplicate(i, j)
  \/ \E i \in Tabs : Call(i) \/ \E g \in Logins : Answer(i, g)
  \/ \E i \in Tabs : \E e \in asked[i] : TokenEndpoint(i, e) \/ TokenAnswer(i, e) \/ TokenLost(i, e)
  \/ RevokeAll
-----------------------------------------------------------------------------
\* No token is presented a second time (which ends the lineage and sends the user
\* to log in again), and no login comes back to a tab that does not know its
\* state, however many calls run and fail together, but for the reasons named: an
\* answer that was lost or a tab that was duplicated; a second 401 that cleared
\* the state the first one's login() had just stored.
NoNeedlessLogin == ~needless
=============================================================================
