------------------------------ MODULE SigningKeys ------------------------------
(***************************************************************************)
(* Who can check an access token: the key file and its rotation             *)
(* (oidc/keys.service.ts, scripts/rotate-key.js), the instances that load    *)
(* it when they start, the offline check of common/admin/access-token        *)
(* .service.ts, the cut-off tokens_valid_from of admin.guard.ts and          *)
(* session-revocation.service.ts, and an application that caches the JWKS.   *)
(*                                                                         *)
(* The first key of the file signs, all of them check.  rotate-key reads the *)
(* file and replaces it atomically, one command at a time; an instance that  *)
(* finds a file in plaintext encrypts it in place, which a crash may cut     *)
(* short.                                                                   *)
(* The clock counts half seconds: iat is cut off to a second, the cut-off    *)
(* rounded to one.  Moments are ages, and forgotten when they are too old to *)
(* matter.  One token at a time is looked at, and the last revocation.       *)
(*                                                                         *)
(* Left out: the key material and its encryption, issuer and audience,       *)
(* tokens of machines, the signature itself (a token is of one of the keys). *)
(***************************************************************************)
EXTENDS Naturals, Sequences, FiniteSets

CONSTANTS
  Instances, None,
  TTL,         \* access_token_ttl_seconds, in half seconds
  MaxAge,      \* how long the application keeps the JWKS
  MaxKeys      \* bound

VARIABLES
  file,       \* [keys, plain, cut]
  made,       \* keys generated so far
  loaded,     \* instance -> the keys it started with, <<>>: it is down
  jwks,       \* [keys, age]: what the application has cached
  half,       \* the half of the second it is
  token,      \* a token that has not expired: None or [kid, age]
  cutoff,     \* the moment of the last revocation, or None
  shown,      \* history: key -> since when the instances that are up have it, or None
  silent,     \* history: key -> since when no instance signs with it, or None
  rushed      \* history: the procedure was not kept

vars == <<file, made, loaded, jwks, half, token, cutoff, shown, silent, rushed>>

Kids == 1 .. MaxKeys
Lists == UNION {[1 .. n -> Kids] : n \in 0 .. MaxKeys}
Elems(s) == {s[i] : i \in DOMAIN s}
Commands == {"add", "promote", "retire", "emergency"}

TypeOK ==
  /\ file \in [keys: Lists, plain: BOOLEAN, cut: BOOLEAN] /\ made \in Kids
  /\ loaded \in [Instances -> Lists]
  /\ jwks \in [keys: SUBSET Kids, age: 0 .. MaxAge]
  /\ half \in {0, 1} /\ token \in {None} \cup [kid: Kids, age: 0 .. TTL]
  /\ cutoff \in 0 .. TTL + 1 \cup {None}
  /\ shown \in [Kids -> 0 .. MaxAge + 1 \cup {None}] /\ silent \in [Kids -> 0 .. TTL + 1 \cup {None}]
  /\ rushed \in BOOLEAN

\* init has made the first key; the instances run with it.
Init ==
  /\ \E plain \in BOOLEAN : file = [keys |-> <<1>>, plain |-> plain, cut |-> FALSE]
  /\ made = 1
  /\ loaded = [i \in Instances |-> <<1>>]
  /\ jwks = [keys |-> {1}, age |-> 0]
  /\ half = 0 /\ token = None /\ cutoff = None
  /\ shown = [k \in Kids |-> IF k = 1 THEN 0 ELSE None]
  /\ silent = [k \in Kids |-> IF k = 1 THEN None ELSE 0]
  /\ rushed = FALSE
-----------------------------------------------------------------------------
Up(i)     == loaded[i] # <<>>
Signer(i) == Head(loaded[i])
\* filter: a key is in the list once at most.
Without(s, k) ==
  IF k \notin Elems(s) THEN s
  ELSE LET p == CHOOSE p \in DOMAIN s : s[p] = k
       IN  [i \in 1 .. Len(s) - 1 |-> IF i < p THEN s[i] ELSE s[i + 1]]

\* A change of what the instances have loaded, as the procedure looks at it.
Mark(l) ==
  /\ loaded' = l
  /\ LET up == {i \in Instances : l[i] # <<>>}
         everywhere(k) == up # {} /\ \A i \in up : k \in Elems(l[i])
     IN shown' = [k \in Kids |-> IF ~everywhere(k) THEN None
                                 ELSE IF shown[k] = None THEN 0 ELSE shown[k]]
  /\ silent' = [k \in Kids |-> IF \E i \in Instances : l[i] # <<>> /\ Head(l[i]) = k THEN None
                               ELSE IF silent[k] = None THEN 0 ELSE silent[k]]

Stop(i) ==
  /\ Up(i)
  /\ Mark([loaded EXCEPT ![i] = <<>>])
  /\ UNCHANGED <<file, made, jwks, half, token, cutoff, rushed>>

\* loadOrCreate: no file or an empty one ends the start.
Start(i) ==
  /\ ~Up(i) /\ ~file.cut /\ file.keys # <<>>
  /\ Mark([loaded EXCEPT ![i] = file.keys])
  /\ file' = [file EXCEPT !.plain = FALSE]
  /\ UNCHANGED <<made, jwks, half, token, cutoff, rushed>>
\* writeEncrypted is not atomic: the start is cut off in the middle of it.
StartCutOff(i) ==
  /\ ~Up(i) /\ ~file.cut /\ file.plain
  /\ file' = [file EXCEPT !.cut = TRUE]
  /\ UNCHANGED <<made, loaded, jwks, half, token, cutoff, shown, silent, rushed>>

\* The last command ended long enough before this one.
Waited(age, time) == age # None /\ age > time
TooEarly(cmd, k) ==
  \/ cmd = "promote" /\ ~Waited(shown[k], MaxAge)
  \/ cmd = "retire"  /\ ~Waited(silent[k], TTL)
  \/ cmd = "emergency"

\* rotate-key: load(), the new list, save() (a backup, a temporary file, rename).
\* add goes last, promote and emergency first; retire leaves the key that signs
\* alone.  emergency need not name a key that leaked: k is then not in the list.
AddFirst(cmd, keys, k) ==   \* (mutation)
  CASE cmd = "add"       -> <<made + 1>> \o keys
    [] cmd = "promote"   -> <<k>> \o Without(keys, k)
    [] cmd = "retire"    -> Without(keys, k)
    [] cmd = "emergency" -> <<made + 1>> \o Without(keys, k)
Changed(cmd, keys, k) ==
  CASE cmd = "add"       -> Append(keys, made + 1)
    [] cmd = "promote"   -> <<k>> \o Without(keys, k)
    [] cmd = "retire"    -> Without(keys, k)
    [] cmd = "emergency" -> <<made + 1>> \o Without(keys, k)
Command(cmd, k) ==
  /\ ~file.cut
  /\ cmd \in {"add", "emergency"} => made < MaxKeys
  /\ cmd \in {"promote", "retire"} => k \in Elems(file.keys)
  /\ cmd = "retire" => k # file.keys[1]
  /\ file' = [keys |-> Changed(cmd, file.keys, k), plain |-> FALSE, cut |-> FALSE]
  /\ made' = IF cmd \in {"add", "emergency"} THEN made + 1 ELSE made
  /\ rushed' = (rushed \/ TooEarly(cmd, k))
  /\ UNCHANGED <<loaded, jwks, half, token, cutoff, shown, silent>>
-----------------------------------------------------------------------------
\* The application gets the JWKS of any instance, at the latest when it is old.
Fetch ==
  /\ \E i \in Instances : Up(i) /\ jwks' = [keys |-> Elems(loaded[i]), age |-> 0]
  /\ UNCHANGED <<file, made, loaded, half, token, cutoff, shown, silent, rushed>>
Older(age, top) == IF age = None \/ age = top THEN age ELSE age + 1
Tick ==
  /\ jwks.age < MaxAge
  /\ half' = 1 - half /\ jwks' = [jwks EXCEPT !.age = @ + 1]
  /\ token' = IF token = None \/ token.age = TTL THEN None ELSE [token EXCEPT !.age = @ + 1]
  /\ cutoff' = IF cutoff = TTL + 1 THEN None ELSE Older(cutoff, TTL + 1)
  /\ shown' = [k \in Kids |-> Older(shown[k], MaxAge + 1)]
  /\ silent' = [k \in Kids |-> Older(silent[k], TTL + 1)]
  /\ UNCHANGED <<file, made, loaded, rushed>>

Issue(i) ==
  /\ Up(i) /\ token = None /\ token' = [kid |-> Signer(i), age |-> 0]
  /\ UNCHANGED <<file, made, loaded, jwks, half, cutoff, shown, silent, rushed>>
\* revokeAllForUser.
RevokeTokens ==
  /\ cutoff' = 0
  /\ UNCHANGED <<file, made, loaded, jwks, half, token, shown, silent, rushed>>

\* verifyCore: the key is one of those loaded at the start.
Checks(i) == token.kid \in Elems(loaded[i])
\* iat is cut off, tvf = EXTRACT(EPOCH FROM tokens_valid_from)::bigint rounds: the
\* half seconds since an even one that is early enough.
Moment(age) == 2 * (TTL + 2) + half - age
Second(age)  == Moment(age) \div 2
Down(age)    == Moment(age) \div 2   \* (mutation)
Rounded(age) == (Moment(age) + 1) \div 2
CutOff == cutoff # None /\ Second(token.age) < Rounded(cutoff)

Next ==
  \/ \E i \in Instances : Stop(i) \/ Start(i) \/ StartCutOff(i) \/ Issue(i)
  \/ \E cmd \in Commands, k \in Kids : Command(cmd, k)
  \/ Fetch \/ Tick \/ RevokeTokens
-----------------------------------------------------------------------------
\* AD-8: "publish before signing" works.  As long as the procedure is kept (all
\* instances restarted between two commands, the lifetime of the cached JWKS
\* waited before promote, that of a token before retire), every live token can be
\* checked by every instance and by the application, however the instances stop
\* and start in between.  And the cut-off is off by less than a second: a token
\* from before it passes only if both fall into the first half of one second, a
\* token from after it is refused only if both fall into the second half.
VerdictHasCause ==
  token # None =>
    /\ rushed \/ (token.kid \in jwks.keys /\ \A i \in Instances : Up(i) => Checks(i))
    /\ cutoff # None =>
         /\ token.age > cutoff /\ ~CutOff =>
              Second(token.age) = Second(cutoff) /\ Moment(cutoff) % 2 = 0
         /\ token.age <= cutoff /\ CutOff =>
              Second(token.age) = Second(cutoff) /\ Moment(cutoff) % 2 = 1
=============================================================================
