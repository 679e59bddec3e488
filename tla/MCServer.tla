-------------------------------- MODULE MCServer --------------------------------
(***************************************************************************)
(* What runs in the background of the server, for TLC: a job queue, the     *)
(* run-time parameters, with the form they are changed in, and the archive   *)
(* of the audit log.  subject says which of the four a behaviour is about;   *)
(* the others rest, so their states add up and do not multiply.             *)
(***************************************************************************)
EXTENDS MCJobQueue

CONSTANTS Instances, Writers, Internal, External, MaxWrites, MaxFaults,
          Records, Runs, BatchSize,
          Keys, Secret, MaxSaves, MaxElsewhere
VARIABLES subject,
          db, env, cache, seeded, reload, setting, hook, recent, overtaken, strayed,
          writes, faults,
          month, pending, table, file, run, logged, begun, crossed, late,
          stored, loading, answer, shown, draft, savingKey, saves, count, elsewhere,
          typed, cleared, excused

ST == INSTANCE Settings
AA == INSTANCE AuditArchive
SF == INSTANCE SettingsForm

\* Bounds are numbers and ids count from 1; None is none of the values it stands
\* beside; an address is on one side of the firewall.
ASSUME ServerAssumption ==
  /\ {MaxWrites, MaxFaults, MaxSaves, MaxElsewhere} \subseteq Nat
  /\ Records \subseteq Nat \ {0} /\ BatchSize \in Nat \ {0}
  /\ Internal \cap External = {} /\ Secret \subseteq Keys
  /\ None \notin ST!Reload \cup ST!Setting \cup AA!Progress /\ \A v \in ST!Rows : v # None

queueVars   == vars
settingVars == <<db, env, cache, seeded, reload, setting, hook, recent, overtaken, strayed,
                 writes, faults>>
archiveVars == <<month, pending, table, file, run, logged, begun, crossed, late>>
formVars    == <<stored, loading, answer, shown, draft, savingKey, saves, count, elsewhere,
                 typed, cleared, excused>>

ServerInit ==
  /\ subject \in {"queue", "settings", "archive", "form"}
  /\ Init /\ ST!Init /\ AA!Init /\ SF!Init
  /\ subject # "settings" => \A i \in Instances : env[i] = None
  /\ subject # "form" => \A k \in Keys : stored[k] = ""

On(s) == subject = s
QueueAlone    == UNCHANGED <<subject, settingVars, archiveVars, formVars>>
SettingsAlone == UNCHANGED <<subject, queueVars, archiveVars, formVars>>
ArchiveAlone  == UNCHANGED <<subject, queueVars, settingVars, formVars>>
FormAlone     == UNCHANGED <<subject, queueVars, settingVars, archiveVars>>

ServerNext ==
  \/ On("queue") /\ Next /\ QueueAlone
  \/ On("settings") /\ ST!Next /\ SettingsAlone
  \/ On("archive") /\ AA!Next /\ ArchiveAlone
  \/ On("form") /\ SF!Next /\ FormAlone

ServerSpec ==
  ServerInit /\ [][ServerNext]_<<subject, queueVars, settingVars, archiveVars, formVars>>

\* The timers of the queue fire for ever and every call has a timeout (FairSpec of
\* JobQueue); the timer that reloads the parameters fires for ever, its statements
\* are cut off after 10 s, and a boot that has loaded goes on to the seed.
FairServer ==
  /\ ServerSpec
  /\ \A w \in Workers : /\ WF_queueVars(subject = "queue" /\ Claim(w))
                        /\ WF_queueVars(subject = "queue" /\ Deliver(w))
  /\ \A j \in Jobs : /\ WF_queueVars(subject = "queue" /\ BecomesDue(j))
                     /\ WF_queueVars(subject = "queue" /\ LockExpires(j))
  /\ \A i \in Instances :
       /\ WF_settingVars(subject = "settings" /\ ST!Select(i))
       /\ WF_settingVars(subject = "settings" /\ ST!Replace(i))
       /\ WF_settingVars(subject = "settings" /\ \E r \in Writers : ST!Seed(r, i))
  /\ \A r \in Writers : WF_settingVars(subject = "settings" /\ ST!InPlace(r))

\* The types of the four.
AllTyped == TypeOK /\ ST!TypeOK /\ AA!TypeOK /\ SF!TypeOK
\* The cache of an instance, and the page of an administrator, differ from the
\* stored value only with a cause.
SettingsSound == ST!StaleIsRecent /\ SF!FormSound
NoRecordLost == AA!NoRecordLost

\* Once administrators stop writing and instances stop restarting, every instance
\* is up and works with the row that is in the table: the periodic reload makes
\* good what a set() on another instance, a reload that was late or a crash
\* between the two steps of a set() left behind.
SettingsSettle == subject = "settings" => <>[]ST!Agreed
=============================================================================
