------------------------------- MODULE Settings -------------------------------
(***************************************************************************)
(* The run-time parameters: config/settings.service.ts, the page that       *)
(* writes them (modules/settings-admin), the seed of the egress allowlist   *)
(* at boot (main.ts), and what reads that list: the registration of a       *)
(* webhook in clients.service.ts and its delivery (webhook-worker.service,   *)
(* egress.util.ts).                                                         *)
(*                                                                         *)
(* One row of the table settings.  Each instance caches it: a set() writes   *)
(* the row, then its own cache; the others see it with their next reload, a  *)
(* SELECT followed by the replacement of the whole cache.  A reload takes    *)
(* less than its period of 30 s (statements are cut off after 10 s), so an   *)
(* instance has one at a time.  The value is the set of internal addresses   *)
(* a delivery may go to; a parameter of the page is written by Put, the      *)
(* allowlist, which the page refuses, by the boot of an instance.            *)
(*                                                                         *)
(* Left out: the other rows (a reload replaces all of them at once), the    *)
(* encryption and masking of the SMTP password, the addresses' notation.    *)
(***************************************************************************)
EXTENDS Naturals, FiniteSets

CONSTANTS
  Instances, Writers, None,
  Internal, External,   \* addresses
  MaxWrites, MaxFaults  \* bounds

VARIABLES
  db,        \* the row
  env,       \* instance -> what its environment says of the row, or None
  cache,     \* instance -> the cached row, None: not loaded
  seeded,    \* instances that are past the seed
  reload,    \* instance -> None or the rows a SELECT returned
  setting,   \* writer -> None or the set() between its two steps
  hook,      \* a client has a webhook
  recent,    \* history: what the row was since the SELECT the cache is from
  overtaken, \* history: a reload ended between the two steps of a set()
  strayed,   \* history: a POST went to an address no recent row allowed
  writes, faults

vars == <<db, env, cache, seeded, reload, setting, hook, recent, overtaken, strayed, writes, faults>>

Addresses == Internal \cup External
Rows      == SUBSET Internal
Reload    == [rows: Rows, since: SUBSET Rows]
Setting   == [at: Instances, value: Rows]

TypeOK ==
  /\ db \in Rows /\ env \in [Instances -> Rows \cup {None}]
  /\ cache \in [Instances -> Rows \cup {None}] /\ seeded \subseteq Instances
  /\ reload \in [Instances -> {None} \cup Reload]
  /\ setting \in [Writers -> {None} \cup Setting]
  /\ hook \in BOOLEAN
  /\ recent \in [Instances -> SUBSET Rows]
  /\ overtaken \subseteq Instances /\ strayed \in BOOLEAN
  /\ writes \in 0 .. MaxWrites /\ faults \in 0 .. MaxFaults

\* The migration has inserted the row; the instances start.
Init ==
  /\ db = {}
  /\ \/ env = [i \in Instances |-> None]
     \/ env \in [Instances -> Rows]
  /\ cache = [i \in Instances |-> None] /\ seeded = {}
  /\ reload = [i \in Instances |-> None]
  /\ setting = [r \in Writers |-> None]
  /\ hook = FALSE
  /\ recent = [i \in Instances |-> {}] /\ overtaken = {} /\ strayed = FALSE
  /\ writes = 0 /\ faults = 0
-----------------------------------------------------------------------------
Loaded(i) == cache[i] # None
Up(i)     == Loaded(i) /\ i \in seeded
Here(i)   == {r \in Writers : setting[r] # None /\ setting[r].at = i}

\* ensureLoaded at boot and the periodic reload: SELECT ...
Select(i) ==
  /\ reload[i] = None
  /\ reload' = [reload EXCEPT ![i] = [rows |-> db, since |-> {db}]]
  /\ UNCHANGED <<db, env, cache, seeded, setting, hook, recent, overtaken, strayed, writes, faults>>
\* ... and the new cache, or at boot the first one.
KeepLoaded(i) ==   \* (mutation)
  /\ reload[i] # None
  /\ cache' = [cache EXCEPT ![i] = IF Loaded(i) THEN @ ELSE reload[i].rows]
  /\ recent' = [recent EXCEPT ![i] = reload[i].since]
  /\ seeded' = IF env[i] = None THEN seeded \cup {i} ELSE seeded
  /\ overtaken' = IF Here(i) = {} THEN overtaken \ {i} ELSE overtaken \cup {i}
  /\ reload' = [reload EXCEPT ![i] = None]
  /\ UNCHANGED <<db, env, setting, hook, strayed, writes, faults>>
Replace(i) ==
  /\ reload[i] # None
  /\ cache' = [cache EXCEPT ![i] = reload[i].rows]
  /\ recent' = [recent EXCEPT ![i] = reload[i].since]
  /\ seeded' = IF env[i] = None THEN seeded \cup {i} ELSE seeded
  /\ overtaken' = IF Here(i) = {} THEN overtaken \ {i} ELSE overtaken \cup {i}
  /\ reload' = [reload EXCEPT ![i] = None]
  /\ UNCHANGED <<db, env, setting, hook, strayed, writes, faults>>
\* The SELECT of a reload fails: logged, the cache stays.
ReloadFails(i) ==
  /\ reload[i] # None /\ Loaded(i) /\ faults < MaxFaults
  /\ reload' = [reload EXCEPT ![i] = None]
  /\ faults' = faults + 1
  /\ UNCHANGED <<db, env, cache, seeded, setting, hook, recent, overtaken, strayed, writes>>

\* set: the row, and once that is done the cache of this instance.
Write(r, i, v) ==
  /\ setting[r] = None /\ Loaded(i)
  /\ db' = v
  /\ setting' = [setting EXCEPT ![r] = [at |-> i, value |-> v]]
  /\ recent' = [j \in Instances |-> recent[j] \cup {v}]
  /\ reload' = [j \in Instances |-> IF reload[j] = None THEN None
                                    ELSE [reload[j] EXCEPT !.since = @ \cup {v}]]
  /\ UNCHANGED <<env, cache, hook, overtaken, strayed, faults>>
InPlace(r) ==
  /\ setting[r] # None
  /\ LET i == setting[r].at IN
       cache' = [cache EXCEPT ![i] = IF Loaded(i) THEN setting[r].value ELSE @]
  /\ setting' = [setting EXCEPT ![r] = None]
  /\ UNCHANGED <<db, env, seeded, reload, hook, recent, overtaken, strayed, writes, faults>>

\* PUT admin/settings: a parameter of the page.
Put(r, i, v) ==
  /\ Up(i) /\ env[i] = None /\ writes < MaxWrites
  /\ writes' = writes + 1
  /\ Write(r, i, v)
  /\ UNCHANGED seeded
\* main.ts: the environment's allowlist replaces the row at every boot.
Seed(r, i) ==
  /\ Loaded(i) /\ i \notin seeded
  /\ seeded' = seeded \cup {i}
  /\ Write(r, i, env[i])
  /\ UNCHANGED writes

\* The instance stops; it may come back with another environment.
Restart(i) ==
  /\ faults < MaxFaults /\ faults' = faults + 1
  /\ cache' = [cache EXCEPT ![i] = None]
  /\ reload' = [reload EXCEPT ![i] = None]
  /\ setting' = [r \in Writers |-> IF r \in Here(i) THEN None ELSE setting[r]]
  /\ seeded' = seeded \ {i} /\ overtaken' = overtaken \ {i}
  /\ recent' = [recent EXCEPT ![i] = {}]
  /\ env' \in {env} \cup {[env EXCEPT ![i] = v] : v \in IF env[i] = None THEN {} ELSE Rows}
  /\ UNCHANGED <<db, hook, strayed, writes>>
-----------------------------------------------------------------------------
\* assertEgressAllowed: every address the name resolves to is let through;
\* the connection is pinned to the first one.
LastOnly(ips, allow) == \E a \in ips : a \in External \/ a \in allow   \* (mutation)
Passes(ips, allow)   == \A a \in ips : a \in External \/ a \in allow

SetWebhook(i, ips) ==
  /\ Up(i) /\ Passes(ips, cache[i])
  /\ hook' = TRUE
  /\ UNCHANGED <<db, env, cache, seeded, reload, setting, recent, overtaken, strayed, writes, faults>>
RemoveWebhook ==
  /\ hook /\ hook' = FALSE
  /\ UNCHANGED <<db, env, cache, seeded, reload, setting, recent, overtaken, strayed, writes, faults>>
\* The worker checks again, with its own cache and what the name resolves to now.
Deliver(i, ips) ==
  /\ Up(i) /\ hook
  /\ Passes(ips, cache[i])
  /\ \E pin \in ips :
       strayed' = (strayed \/ /\ pin \in Internal /\ i \notin overtaken
                              /\ \A row \in recent[i] : pin \notin row)
  /\ UNCHANGED <<db, env, cache, seeded, reload, setting, hook, recent, overtaken, writes, faults>>

Next ==
  \/ \E i \in Instances : Select(i) \/ Replace(i) \/ ReloadFails(i) \/ Restart(i)
  \/ \E r \in Writers : InPlace(r)
  \/ \E r \in Writers, i \in Instances : Seed(r, i) \/ \E v \in Rows : Put(r, i, v)
  \/ \E i \in Instances, ips \in (SUBSET Addresses) \ {{}} : SetWebhook(i, ips) \/ Deliver(i, ips)
  \/ RemoveWebhook
-----------------------------------------------------------------------------
\* What an instance works with was the row at some time since the SELECT its
\* cache is from: no value outlives a reload, and no webhook reaches an internal
\* address that was taken off the list before it; unless the reload came between
\* the two steps of a set() of its own, which then puts back an older value.
StaleIsRecent ==
  /\ \A i \in Instances : Loaded(i) => cache[i] \in recent[i] \/ i \in overtaken
  /\ ~strayed

\* Every instance is up and agrees with the row.
Agreed == \A i \in Instances : Up(i) /\ cache[i] = db
=============================================================================
