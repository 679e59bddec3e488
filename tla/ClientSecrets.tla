---------------------------- MODULE ClientSecrets ----------------------------
(***************************************************************************)
(* The secrets of one client: modules/clients/clients.service.ts (create,   *)
(* rotate, revoke, disable, M2M, delete), the check of the secret in front  *)
(* of /oidc/token (main.ts), oidc/client-secret.util.ts and the hourly purge. *)
(*                                                                         *)
(* A rotation is a transaction under READ COMMITTED: its UPDATE works on the *)
(* rows it saw when it began, waits for those another transaction holds, and *)
(* takes those that still match.  Secrets are numbered in order of insertion. *)
(*                                                                         *)
(* Left out: the values of the secrets and their hashes, the other columns   *)
(* of the client (name, URIs, webhook), the audit rows.                     *)
(***************************************************************************)
EXTENDS Naturals, Sequences, FiniteSets

CONSTANTS
  Reqs,         \* requests in flight at once
  Grace,        \* client_secret_grace_hours
  MaxSecrets,   \* bound
  None

VARIABLES
  secrets,      \* committed rows of client_secrets: [status, left]
  client,       \* the row of clients
  work,         \* request -> None or what it has done so far
  byHand,       \* history: secrets an administrator revoked
  overlapped,   \* history: two rotations were in flight at once
  misused       \* history: a token for a secret that was dead at the start

vars == <<secrets, client, work, byHand, overlapped, misused>>

Nrs      == 1 .. Len(secrets)
Statuses == {"active", "retiring", "revoked"}
Work == [step: {"rotate", "update", "insert"}, rows: SUBSET (1 .. MaxSecrets)]
        \cup [step: {"ask", "verified"}, secret: 1 .. MaxSecrets, dead: SUBSET (1 .. MaxSecrets)]

TypeOK ==
  /\ secrets \in Seq([status: Statuses, left: 0 .. Grace]) /\ Len(secrets) <= MaxSecrets
  /\ client \in [here: BOOLEAN, disabled: BOOLEAN, m2m: BOOLEAN]
  /\ work \in [Reqs -> Work \cup {None}]
  /\ byHand \subseteq 1 .. MaxSecrets
  /\ overlapped \in BOOLEAN /\ misused \in BOOLEAN

\* create: the client and its first secret, in one transaction.
Init ==
  /\ secrets = <<[status |-> "active", left |-> 0]>>
  /\ client = [here |-> TRUE, disabled |-> FALSE, m2m |-> FALSE]
  /\ work = [r \in Reqs |-> None]
  /\ byHand = {} /\ overlapped = FALSE /\ misused = FALSE
-----------------------------------------------------------------------------
Active == {i \in Nrs : secrets[i].status = "active"}
AnyUnrevoked == {i \in Nrs : secrets[i].status # "revoked"}   \* (mutation)
Valid  == {i \in Nrs : \/ secrets[i].status = "active"
                       \/ secrets[i].status = "retiring" /\ secrets[i].left > 0}
Held   == UNION {work[r].rows : r \in {q \in Reqs : work[q] # None /\ work[q].step = "insert"}}

Set(r, w) == work' = [work EXCEPT ![r] = w]
Served == client.here /\ ~client.disabled
Rows   == <<secrets, client, byHand, overlapped, misused>>

\* rotateSecret, up to BEGIN: getScoped, the grace, a new secret and its hash.
Rotating == {q \in Reqs : work[q] # None /\ work[q].step \in {"rotate", "update", "insert"}}
Rotate(r) ==
  /\ work[r] = None /\ client.here
  /\ Len(secrets) + Cardinality(Rotating) < MaxSecrets
  /\ Set(r, [step |-> "rotate", rows |-> {}])
  /\ overlapped' = (overlapped \/ Rotating # {})
  /\ UNCHANGED <<secrets, client, byHand, misused>>

\* The UPDATE sees the rows that are active ...
Look(r) ==
  /\ work[r] # None /\ work[r].step = "rotate"
  /\ Set(r, [step |-> "update", rows |-> Active])
  /\ UNCHANGED Rows

\* ... waits for those that are held, and takes those that are active still.
Take(r) ==
  /\ work[r] # None /\ work[r].step = "update"
  /\ work[r].rows \cap Held = {}
  /\ Set(r, [step |-> "insert", rows |-> work[r].rows \cap Active])
  /\ UNCHANGED Rows

Longer(rows) ==   \* (mutation)
  [i \in Nrs |-> IF i \in rows THEN [status |-> "retiring", left |-> Grace + 1] ELSE secrets[i]]
RetireAll(rows) ==   \* (mutation)
  [i \in Nrs |-> [status |-> "retiring", left |-> Grace]]
Retire(rows) ==
  [i \in Nrs |-> IF i \in rows THEN [status |-> "retiring", left |-> Grace] ELSE secrets[i]]

\* INSERT of the new secret, COMMIT.  The client may be gone by then.
Commit(r) ==
  /\ work[r] # None /\ work[r].step = "insert"
  /\ Set(r, None)
  /\ \/ /\ client.here
        /\ secrets' = Append(Retire(work[r].rows), [status |-> "active", left |-> 0])
     \/ ~client.here /\ UNCHANGED secrets
  /\ UNCHANGED <<client, byHand, overlapped, misused>>

\* A statement fails: ROLLBACK; or the server stops.
Abort(r) == work[r] # None /\ Set(r, None) /\ UNCHANGED Rows

\* revokeSecret: one UPDATE, of a row nobody holds.
RevokeSecret(i) ==
  /\ client.here /\ i \in Nrs \ Held /\ secrets[i].status # "revoked"
  /\ secrets' = [secrets EXCEPT ![i] = [status |-> "revoked", left |-> 0]]
  /\ byHand' = byHand \cup {i}
  /\ UNCHANGED <<client, work, overlapped, misused>>

SetDisabled(b) == client.here /\ client' = [client EXCEPT !.disabled = b]
SetM2m(b)      == client.here /\ client' = [client EXCEPT !.m2m = b]
\* DELETE takes the secrets with it: they are as good as revoked.
Delete == /\ client.here /\ Held = {}
          /\ client' = [client EXCEPT !.here = FALSE]
Administer ==
  /\ \/ Delete
     \/ \E b \in BOOLEAN : SetDisabled(b) \/ SetM2m(b)
  /\ UNCHANGED <<secrets, work, byHand, overlapped, misused>>

\* An hour of grace passes; the purge revokes what is past it.
Hour ==
  /\ \E i \in Nrs : secrets[i].left > 0
  /\ secrets' = [i \in Nrs |-> IF secrets[i].left > 0
                               THEN [secrets[i] EXCEPT !.left = @ - 1] ELSE secrets[i]]
  /\ UNCHANGED <<client, work, byHand, overlapped, misused>>
Purge ==
  /\ secrets' = [i \in Nrs |-> IF secrets[i].status = "retiring" /\ secrets[i].left = 0
                               THEN [secrets[i] EXCEPT !.status = "revoked"] ELSE secrets[i]]
  /\ UNCHANGED <<client, work, byHand, overlapped, misused>>
-----------------------------------------------------------------------------
(* POST /oidc/token with secret i.                                          *)

Ask(r, i) ==
  /\ work[r] = None
  /\ Set(r, [step |-> "ask", secret |-> i, dead |-> Nrs \ Valid])
  /\ UNCHANGED Rows

\* The middleware: the client, then its valid secrets; a match is replaced by
\* the secret the provider knows.  No match: the provider refuses.
Verify(r) ==
  /\ work[r] # None /\ work[r].step = "ask"
  /\ Set(r, IF Served /\ work[r].secret \in Valid THEN [work[r] EXCEPT !.step = "verified"] ELSE None)
  /\ UNCHANGED Rows

\* The provider looks the client up and grants; client_credentials needs m2m.
Grant(r) ==
  /\ work[r] # None /\ work[r].step = "verified"
  /\ Set(r, None)
  /\ \E m2m \in BOOLEAN :
       misused' = (misused \/ (Served /\ (m2m => client.m2m) /\ work[r].secret \in work[r].dead))
  /\ UNCHANGED <<secrets, client, byHand, overlapped>>

Next ==
  \/ \E r \in Reqs : Rotate(r) \/ Look(r) \/ Take(r) \/ Commit(r) \/ Abort(r)
  \/ \E r \in Reqs : (\E i \in Nrs : Ask(r, i)) \/ Verify(r) \/ Grant(r)
  \/ \E i \in Nrs : RevokeSecret(i)
  \/ Administer \/ Hour \/ Purge
-----------------------------------------------------------------------------
\* AD-12: whatever administrators rotate, revoke and purge at the same time,
\* the newest secret works until somebody revokes it by hand, another one is
\* active beside it only if two rotations overlapped, and a secret that was
\* revoked or past its grace when a request came in never gets a token.
NewestWorks  == Len(secrets) \in Active \cup byHand
OneCurrent   == Active \subseteq {Len(secrets)} \/ overlapped
SecretsSound == NewestWorks /\ OneCurrent /\ ~misused
=============================================================================
