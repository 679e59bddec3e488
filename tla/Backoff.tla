-------------------------------- MODULE Backoff --------------------------------
(***************************************************************************)
(* The wait after wrong passwords: modules/auth-oidc/rate-limit.service.ts   *)
(* and the handlers that ask it first and record the outcome afterwards:     *)
(* submitLogin, whose key is the e-mail address, submitMfa (the key of a     *)
(* user's second factor) and /oidc/token in main.ts (of a client at an       *)
(* address).  All of them record the address the request came from; only     *)
(* submitLogin asks how long that address has to wait.                       *)
(*                                                                         *)
(* Rows of login_attempts carry their age in place of created_at; one older  *)
(* than the window no longer matters to any query and is forgotten.  All     *)
(* attempts come from one address; the keys are called accounts.             *)
(***************************************************************************)
EXTENDS Integers, FiniteSets, Sequences

CONSTANTS
  Reqs, Accounts,
  Emails,                  \* the accounts of submitLogin
  Threshold, IpThreshold,  \* bruteforce_account_threshold, bruteforce_ip_threshold
  MaxDelay,                \* bruteforce_backoff_seconds
  Window,                  \* 15 minutes
  Cap                      \* bound: rows in the window (the query reads 100)

VARIABLES
  attempts,   \* rows of login_attempts within the window, the newest last
  trying,     \* requests: the account they are about, or {}
  halfway     \* requests that were let through for the address only as yet

vars == <<attempts, trying, halfway>>

TypeOK ==
  /\ attempts \in Seq([who: Accounts, ok: BOOLEAN, age: 0..Window - 1]) /\ Len(attempts) <= Cap
  /\ trying \in [Reqs -> {{}} \cup {{a} : a \in Accounts}]
  /\ halfway \subseteq Reqs

Init == attempts = <<>> /\ trying = [r \in Reqs |-> {}] /\ halfway = {}
-----------------------------------------------------------------------------
\* Rows are named by their places in attempts.  The failures of an address; the
\* failures of an account since its newest success.
Failures == {i \in DOMAIN attempts : ~attempts[i].ok}
Consecutive(a) ==
  {i \in Failures : /\ attempts[i].who = a
                    /\ \A j \in DOMAIN attempts : i < j /\ attempts[j].who = a => ~attempts[j].ok}

Delay(n, threshold) ==
  IF n < threshold THEN 0 ELSE IF MaxDelay < 2^(n - threshold) THEN MaxDelay ELSE 2^(n - threshold)
Newest(rows) == CHOOSE i \in rows : \A j \in rows : j <= i
Oldest(rows) == CHOOSE i \in rows : \A j \in rows : i <= j   \* (mutation)

\* Nothing to wait for: the delay for so many failures has passed since the newest.
PassesByOldest(rows, threshold) ==   \* (mutation) the wait runs from the first failure
  rows # {} => Delay(Cardinality(rows), threshold) <= attempts[Oldest(rows)].age
Passes(rows, threshold) ==
  rows # {} => Delay(Cardinality(rows), threshold) <= attempts[Newest(rows)].age

\* submitLogin asks for the address first.
AskAddress(r, a) ==
  /\ a \in Emails /\ trying[r] = {}
  /\ Passes(Failures, IpThreshold)
  /\ trying' = [trying EXCEPT ![r] = {a}] /\ halfway' = halfway \cup {r}
  /\ UNCHANGED attempts

\* The wait of the key itself; submitMfa and /oidc/token ask no other.
AskAccount(r, a) ==
  /\ IF a \in Emails THEN r \in halfway /\ a \in trying[r] ELSE trying[r] = {}
  /\ Passes(Consecutive(a), Threshold)
  /\ trying' = [trying EXCEPT ![r] = {a}] /\ halfway' = halfway \ {r}
  /\ UNCHANGED attempts

\* The answer is known and recorded, after whatever others recorded meanwhile.
Record(r, ok) ==
  /\ r \notin halfway /\ Len(attempts) < Cap
  /\ \E a \in trying[r] : attempts' = Append(attempts, [who |-> a, ok |-> ok, age |-> 0])
  /\ trying' = [trying EXCEPT ![r] = {}]
  /\ UNCHANGED halfway

\* 429 for the account, or an error before anything was recorded.
Drop(r) ==
  /\ trying[r] # {}
  /\ trying' = [trying EXCEPT ![r] = {}] /\ halfway' = halfway \ {r}
  /\ UNCHANGED attempts

\* A second passes: the rows are in order of time, and the oldest leave the window.
Tick ==
  /\ attempts # <<>>
  /\ \E n \in 0..Len(attempts) :
       /\ \A i \in DOMAIN attempts : i <= n <=> attempts[i].age + 1 >= Window
       /\ attempts' = [i \in 1..Len(attempts) - n |-> [attempts[n + i] EXCEPT !.age = @ + 1]]
  /\ UNCHANGED <<trying, halfway>>

Next ==
  \/ \E r \in Reqs : \/ \E a \in Accounts : AskAddress(r, a) \/ AskAccount(r, a)
                   \/ \E ok \in BOOLEAN : Record(r, ok)
                   \/ Drop(r)
  \/ Tick

Spec == Init /\ [][Next]_vars
-----------------------------------------------------------------------------
\* As many requests as can be in flight may pass one check together, but then the
\* wait was waited: between a failure and the one a batch later, within a window,
\* lies the delay for the failures there were with the first of them.
UpTo(rows, i)       == {k \in rows : k <= i}
Between(rows, i, j) == {k \in rows : i < k /\ k <= j}
Spaced(rows, counted, threshold) ==
  \A i, j \in rows :
    Cardinality(Between(rows, i, j)) >= Cardinality(Reqs) =>
      attempts[i].age - attempts[j].age >= Delay(Cardinality(UpTo(counted, i)), threshold)

\* Once the delay is as long as the window, one more batch is all: by the defaults of
\* the settings, at one account, in a quarter of an hour 14 and as many as can be in flight.
Few(rows, counted, threshold) ==
  \A n \in 1..Cap :
    Delay(n, threshold) >= Window =>
      Cardinality({i \in rows : Cardinality(UpTo(counted, i)) >= n}) <= Cardinality(Reqs)

\* Nobody gets more wrong guesses at one account, or at the passwords of all from one
\* address, into a quarter of an hour than the growing waits leave room for, although
\* requests in flight together do not see each other's failures.  What an address does
\* wrong anywhere makes its wrong passwords wait; wrong codes and secrets wait for their
\* own failures alone.  Guesses count that were recorded: an error here lets them through.
Passwords == {i \in Failures : attempts[i].who \in Emails}
GuessesBounded ==
  /\ \A a \in Accounts : /\ Spaced(Consecutive(a), Consecutive(a), Threshold)
                        /\ Few(Consecutive(a), Consecutive(a), Threshold)
  /\ Spaced(Passwords, Failures, IpThreshold) /\ Few(Passwords, Failures, IpThreshold)
=============================================================================
