----------------------------- MODULE Installation -----------------------------
(***************************************************************************)
(* beampipe setup, crates/beampipe-cli/src/setup.rs: a procedure that       *)
(* prompts, generates secrets, rewrites .env one setting at a time, starts  *)
(* PostgreSQL and the stack, and can be killed between any two of its       *)
(* steps and run again.  The instance is the Docker runtime with the        *)
(* managed Compose database.                                                *)
(*                                                                         *)
(* A secret is the number of the setup that generated it.  The binary, the  *)
(* .env file, the installation state, the bundle files, the database volume *)
(* and the containers outlive a setup; `setup` is what one run of the       *)
(* command holds in memory.                                                 *)
(***************************************************************************)
EXTENDS Integers, Sequences, FiniteSets

CONSTANTS
    MaxSetups,      \* how often the operator runs setup
    MaxFaults,      \* kills, lost .env files, edits and uninstalls
    Releases        \* the releases of the binary, 1..n

ASSUME InstallationAssumption ==
    /\ MaxSetups \in Nat
    /\ MaxFaults \in Nat
    /\ Releases \in Nat \ {0}

VARIABLES
    env,        \* the .env file
    recorded,   \* installation.json, and the stored administrator password
    volume,     \* the password the database volume was initialised with
    stack,      \* the environment of the running containers
    db,         \* the rows setup writes
    bundle,     \* one generated file and its entry in the bundle manifest
    release,    \* the release of the binary
    setup,      \* a running setup command
    setups,     \* the setups started so far
    faults,     \* the faults so far
    torn        \* a setup was killed after it had seeded or recovered .env
                \* and before it had written the last setting

vars == <<env, recorded, volume, stack, db, bundle, release, setup, setups,
          faults, torn>>

-----------------------------------------------------------------------------
(* State *)

Generated == 1..MaxSetups
\* Not set; a placeholder of the example; the password of installations
\* older than managed passwords.
None == 0
Placeholder == -1
Legacy == -2
Secret == {None, Placeholder, Legacy} \cup Generated

\* What .env holds of the settings setup manages.  The two URLs are the
\* password they carry.
Settings == [url : Secret, password : Secret, docker_url : Secret,
             jwt : Secret, grafana : Secret, live : BOOLEAN]

Unset == [url |-> None, password |-> None, docker_url |-> None,
          jwt |-> None, grafana |-> None, live |-> FALSE]

NoFile == [present |-> FALSE, set |-> Unset]

\* The .env.example of the bundle.
Example == [url |-> Legacy, password |-> Placeholder,
            docker_url |-> Legacy, jwt |-> Placeholder,
            grafana |-> None, live |-> FALSE]

\* The containers have the values of the .env they were created with, and
\* the database URL that Compose put in for it.
NoStack == [up |-> FALSE, set |-> Unset, database |-> None]

NoRecord == [state |-> FALSE, admin |-> 0]

\* admin: the secret of the administrator, 0 before there is one.  profile:
\* the deployment profile installed.  passed: those a doctor has passed.
EmptyDb == [admin |-> 0, profile |-> 0, passed |-> {}]

\* Defect for a mutant run: the JWT secret is not written.
OrderWithoutJwt == <<"url", "password", "docker_url", "grafana", "live">>

\* The order in which setup writes the settings.
Order == <<"url", "password", "docker_url", "jwt", "grafana", "live">>

\* A generated file is absent, of a release, or edited by the operator; the
\* manifest has the release whose contents were last generated, or nothing.
Absent == 0
Edited == Releases + 1
NoEntry == 0

Idle == [pc |-> "idle", existed |-> FALSE, recovered |-> FALSE,
         seen |-> Unset, values |-> Unset, next |-> 0, sample |-> FALSE,
         port |-> FALSE, live |-> FALSE, connected |-> FALSE, profile |-> 0]

Init ==
    /\ env = NoFile
    /\ recorded = NoRecord
    /\ volume = None
    /\ stack = NoStack
    /\ db = EmptyDb
    /\ bundle = [file |-> Absent, entry |-> NoEntry]
    /\ release = 1
    /\ setup = Idle
    /\ setups = 0
    /\ faults = 0
    /\ torn = FALSE

Fail == setup' = Idle

Strong(secret) == secret \in Generated
-----------------------------------------------------------------------------
(* Reading the installation, choosing, generating *)

\* Defect for a mutant run: the JWT secret has no name of Beampipe's and is not
\* restored.
RecoveredWithoutJwt == [stack.set EXCEPT !.url = None, !.jwt = None]

\* The entries of the API container's environment that setup restores:
\* those named BEAMPIPE_*, so not DATABASE_URL.
RecoveredEntries == [stack.set EXCEPT !.url = None]

\* run_setup up to the first file it writes.  `seen` is the process
\* environment once .env has been loaded or the container's entries
\* have been restored.
Begin(sample, port, live, profile) ==
    /\ setup.pc = "idle"
    /\ setups < MaxSetups
    /\ live => profile # 0
    /\ LET recover == ~env.present /\ stack.up
       IN  setup' = [Idle EXCEPT
                        !.pc = "files",
                        !.existed = env.present \/ recover,
                        !.recovered = recover,
                        !.seen = IF recover THEN RecoveredEntries
                                 ELSE env.set,
                        !.sample = sample,
                        !.port = port,
                        !.live = live,
                        !.profile = profile]
    /\ setups' = setups + 1
    /\ UNCHANGED <<env, recorded, volume, stack, db, bundle, release, faults,
                   torn>>

\* materialize_file: a file is rewritten when it is absent or is what this
\* or the previously recorded release generated.
Managed == bundle.file \in {Absent, release, bundle.entry}

\* The file of the model belongs to the sample, which a setup may leave
\* out.
WriteBundleFile ==
    /\ setup.pc = "files"
    /\ setup' = [setup EXCEPT !.pc = "manifest"]
    /\ bundle' = IF setup.sample /\ Managed
                 THEN [bundle EXCEPT !.file = release] ELSE bundle
    /\ UNCHANGED <<env, recorded, volume, stack, db, release, setups, faults,
                   torn>>

\* write_manifest records what this run generated, and nothing of the files
\* it left out.
WriteBundleManifest ==
    /\ setup.pc = "manifest"
    /\ setup' = [setup EXCEPT !.pc = "choose"]
    /\ bundle' = [bundle EXCEPT
                    !.entry = IF setup.sample THEN release ELSE NoEntry]
    /\ UNCHANGED <<env, recorded, volume, stack, db, release, setups, faults,
                   torn>>

\* The password of the managed database: what the environment has, else the
\* legacy one of an installation that exists, else a new one.
DatabasePassword ==
    CASE setup.seen.password # None -> setup.seen.password
      [] setup.seen.password = None /\ setup.existed -> Legacy
      [] OTHER -> setups

\* The URL of the host: rebuilt for a new installation or a given port, else
\* what the environment has, else the default.
HostUrl ==
    IF ~setup.existed \/ setup.port THEN DatabasePassword
    ELSE IF setup.seen.url # None THEN setup.seen.url ELSE Legacy

\* Defect for a mutant run: no volume is ever stale.
NeverStale == FALSE

\* refuse_stale_compose_postgres_volume
StaleVolume == ~setup.existed /\ volume # None

\* The choices up to the review.  Live backends are written as off until
\* the doctor has passed.
Choose ==
    /\ setup.pc = "choose"
    /\ ~StaleVolume
    /\ setup' = [setup EXCEPT
                    !.pc = "review",
                    !.values = [url |-> HostUrl,
                                password |-> DatabasePassword,
                                docker_url |-> DatabasePassword,
                                jwt |-> None, grafana |-> None,
                                live |-> setup.seen.live /\ ~setup.live]]
    /\ UNCHANGED <<env, recorded, volume, stack, db, bundle, release, setups,
                   faults, torn>>

RefuseStaleVolume ==
    /\ setup.pc = "choose"
    /\ StaleVolume
    /\ Fail
    /\ UNCHANGED <<env, recorded, volume, stack, db, bundle, release, setups,
                   faults, torn>>

-----------------------------------------------------------------------------
(* Writing .env *)

\* The review may be declined.  A missing .env is a copy of the example.
SeedEnv ==
    /\ setup.pc = "review"
    /\ env' = IF env.present THEN env ELSE [present |-> TRUE, set |-> Example]
    /\ setup' = [setup EXCEPT !.pc = IF setup.recovered THEN "recover"
                                     ELSE "secrets",
                              !.next = 1]
    /\ UNCHANGED <<recorded, volume, stack, db, bundle, release, setups,
                   faults, torn>>

\* The entries of the container are written one at a time.
RecoverSetting ==
    /\ setup.pc = "recover"
    /\ LET key == Order[setup.next]
           last == setup.next = Len(Order)
       IN  /\ env' = IF key = "url" THEN env
                     ELSE [env EXCEPT !.set[key] = setup.seen[key]]
           /\ setup' = [setup EXCEPT
                           !.pc = IF last THEN "secrets" ELSE "recover",
                           !.next = IF last THEN 1 ELSE @ + 1]
    /\ UNCHANGED <<recorded, volume, stack, db, bundle, release, setups,
                   faults, torn>>

\* select_jwt_secret, select_grafana_admin_password: a good secret is kept,
\* a weak one refused on an existing installation, and replaced on a new one.
\* A JWT secret that is not set at all is generated in both.
JwtRefused == setup.existed /\ setup.seen.jwt \notin Generated \cup {None}
GrafanaKnown == IF setup.seen.grafana # None THEN setup.seen.grafana
                ELSE env.set.grafana
GrafanaRefused == setup.existed /\ ~Strong(GrafanaKnown)

SelectSecrets ==
    /\ setup.pc = "secrets"
    /\ ~JwtRefused /\ ~GrafanaRefused
    /\ setup' = [setup EXCEPT
                    !.pc = "write",
                    !.values.jwt = IF Strong(setup.seen.jwt)
                                   THEN setup.seen.jwt ELSE setups,
                    !.values.grafana = IF Strong(GrafanaKnown)
                                       THEN GrafanaKnown ELSE setups]
    /\ UNCHANGED <<env, recorded, volume, stack, db, bundle, release, setups,
                   faults, torn>>

RefuseSecrets ==
    /\ setup.pc = "secrets"
    /\ JwtRefused \/ GrafanaRefused
    /\ Fail
    /\ UNCHANGED <<env, recorded, volume, stack, db, bundle, release, setups,
                   faults, torn>>

\* update_env_file rewrites the file under a temporary name for each
\* setting.
WriteSetting ==
    /\ setup.pc = "write"
    /\ LET key == Order[setup.next]
           last == setup.next = Len(Order)
       IN  /\ env' = [env EXCEPT !.set[key] = setup.values[key]]
           /\ setup' = [setup EXCEPT
                           !.pc = IF last THEN "state" ELSE "write",
                           !.next = IF last THEN 0 ELSE @ + 1]
    /\ UNCHANGED <<recorded, volume, stack, db, bundle, release, setups,
                   faults, torn>>

\* installation::write_state
RecordState ==
    /\ setup.pc = "state"
    /\ recorded' = [recorded EXCEPT !.state = TRUE]
    /\ setup' = [setup EXCEPT !.pc = "postgres"]
    /\ UNCHANGED <<env, volume, stack, db, bundle, release, setups, faults,
                   torn>>

-----------------------------------------------------------------------------
(* Database, doctor, containers *)

\* compose_up_postgres: an empty volume is initialised with the password of
\* .env; one that exists keeps its own.
StartPostgres ==
    /\ setup.pc = "postgres"
    /\ volume' = IF volume = None THEN env.set.password ELSE volume
    /\ setup' = [setup EXCEPT !.pc = "connect"]
    /\ UNCHANGED <<env, recorded, stack, db, bundle, release, setups, faults,
                   torn>>

\* A managed database that refuses the connection is skipped over, unless
\* live backends were asked for.
Connect ==
    /\ setup.pc = "connect"
    /\ IF volume = setup.values.url
       THEN setup' = [setup EXCEPT !.pc = "admin", !.connected = TRUE]
       ELSE IF setup.live THEN Fail
       ELSE setup' = [setup EXCEPT !.pc = "start"]
    /\ UNCHANGED <<env, recorded, volume, stack, db, bundle, release, setups,
                   faults, torn>>

\* create_admin_user_once of an unattended setup: an account of the name is
\* left alone.  Otherwise the generated password is stored first.
AdminExists ==
    /\ setup.pc = "admin"
    /\ db.admin # 0
    /\ setup' = [setup EXCEPT !.pc = "profile"]
    /\ UNCHANGED <<env, recorded, volume, stack, db, bundle, release, setups,
                   faults, torn>>

StoreAdminPassword ==
    /\ setup.pc = "admin"
    /\ recorded' = [recorded EXCEPT !.admin = setups]
    /\ setup' = [setup EXCEPT !.pc = "user"]
    /\ UNCHANGED <<env, volume, stack, db, bundle, release, setups, faults,
                   torn>>

\* The address of the default account is unique.
CreateUser ==
    /\ setup.pc = "user"
    /\ IF db.admin = 0
       THEN /\ db' = [db EXCEPT !.admin = setups]
            /\ setup' = [setup EXCEPT !.pc = "profile"]
       ELSE Fail /\ UNCHANGED db
    /\ UNCHANGED <<env, recorded, volume, stack, bundle, release, setups,
                   faults, torn>>

\* install_profile adds a revision when the contents differ.
InstallProfile ==
    /\ setup.pc = "profile"
    /\ db' = IF setup.profile = 0 THEN db
             ELSE [db EXCEPT !.profile = setup.profile]
    /\ setup' = [setup EXCEPT !.pc = "doctor"]
    /\ UNCHANGED <<env, recorded, volume, stack, bundle, release, setups,
                   faults, torn>>

\* The profile's checks run only when live backends were asked for.
DoctorPasses ==
    /\ setup.pc = "doctor"
    /\ db' = IF setup.live THEN [db EXCEPT !.passed = @ \cup {db.profile}]
             ELSE db
    /\ setup' = [setup EXCEPT !.pc = IF setup.live THEN "live" ELSE "start"]
    /\ UNCHANGED <<env, recorded, volume, stack, bundle, release, setups,
                   faults, torn>>

EnableLive ==
    /\ setup.pc = "live"
    /\ env' = [env EXCEPT !.set.live = TRUE]
    /\ setup' = [setup EXCEPT !.pc = "start", !.values.live = TRUE]
    /\ UNCHANGED <<recorded, volume, stack, db, bundle, release, setups,
                   faults, torn>>

\* What Compose puts into the containers: the process environment goes
\* before the file, and setup has set in it what it wrote, except for the
\* URL of the containers, which is still the one it was started with.
Containers(started) ==
    [up |-> TRUE, set |-> env.set,
     database |-> IF started # None THEN started ELSE env.set.docker_url]

StartStack ==
    /\ setup.pc = "start"
    /\ stack' = Containers(setup.seen.docker_url)
    /\ setup' = [setup EXCEPT !.pc = "actions"]
    /\ UNCHANGED <<env, recorded, volume, db, bundle, release, setups, faults,
                   torn>>

\* offer_next_actions: a profile may be installed, and live backends enabled
\* once the doctor has passed it; the containers are created again.
NextProfile(profile) ==
    /\ setup.pc = "actions"
    /\ setup.connected
    /\ profile # db.profile
    /\ db' = [db EXCEPT !.profile = profile]
    /\ setup' = [setup EXCEPT !.profile = profile]
    /\ UNCHANGED <<env, recorded, volume, stack, bundle, release, setups,
                   faults, torn>>

NextLive ==
    /\ setup.pc = "actions"
    /\ setup.connected /\ setup.profile # 0 /\ ~setup.values.live
    /\ db' = [db EXCEPT !.passed = @ \cup {db.profile}]
    /\ setup' = [setup EXCEPT !.pc = "live"]
    /\ UNCHANGED <<env, recorded, volume, stack, bundle, release, setups,
                   faults, torn>>

Finish ==
    /\ setup.pc = "actions"
    /\ Fail
    /\ UNCHANGED <<env, recorded, volume, stack, db, bundle, release, setups,
                   faults, torn>>

-----------------------------------------------------------------------------
(* The operator and the machine *)

Fault ==
    /\ faults < MaxFaults
    /\ faults' = faults + 1

\* The steps between seeding or recovering .env and its last setting.
Tearing == /\ setup.pc \in {"recover", "secrets", "write"}
           /\ ~setup.existed \/ setup.recovered

\* A declined prompt, an error or a kill: what was written stays.
Stop ==
    /\ setup.pc # "idle"
    /\ Fault
    /\ Fail
    /\ torn' = (torn \/ Tearing)
    /\ UNCHANGED <<env, recorded, volume, stack, db, bundle, release, setups>>

\* A kill in the middle of copying the example leaves an empty .env.
StopSeeding ==
    /\ setup.pc = "review"
    /\ ~env.present
    /\ Fault
    /\ Fail
    /\ env' = [present |-> TRUE, set |-> Unset]
    /\ torn' = TRUE
    /\ UNCHANGED <<recorded, volume, stack, db, bundle, release, setups>>

LoseEnv ==
    /\ setup.pc = "idle"
    /\ env.present
    /\ Fault
    /\ env' = NoFile
    /\ UNCHANGED <<recorded, volume, stack, db, bundle, release, setup,
                   setups, torn>>

\* The operator sets the secrets setup refused.
RepairSecrets ==
    /\ setup.pc = "idle"
    /\ env.present
    /\ ~Strong(env.set.jwt) \/ ~Strong(env.set.grafana)
    /\ setups > 0
    /\ env' = [env EXCEPT
                 !.set.jwt = IF Strong(@) THEN @ ELSE setups,
                 !.set.grafana = IF Strong(@) THEN @ ELSE setups]
    /\ UNCHANGED <<recorded, volume, stack, db, bundle, release, setup,
                   setups, faults, torn>>

EditBundle ==
    /\ setup.pc = "idle"
    /\ bundle.file \in 1..Releases
    /\ Fault
    /\ bundle' = [bundle EXCEPT !.file = Edited]
    /\ UNCHANGED <<env, recorded, volume, stack, db, release, setup, setups,
                   torn>>

Upgrade ==
    /\ setup.pc = "idle"
    /\ release < Releases
    /\ release' = release + 1
    /\ UNCHANGED <<env, recorded, volume, stack, db, bundle, setup, setups,
                   faults, torn>>

\* beampipe stop
StopStack ==
    /\ setup.pc = "idle"
    /\ recorded.state /\ stack.up
    /\ stack' = NoStack
    /\ UNCHANGED <<env, recorded, volume, db, bundle, release, setup, setups,
                   faults, torn>>

\* beampipe start and restart
StartCommand ==
    /\ setup.pc = "idle"
    /\ recorded.state /\ env.present
    /\ env.set.password # None /\ env.set.docker_url # None
    /\ stack' = Containers(env.set.docker_url)
    /\ volume' = IF volume = None THEN env.set.password ELSE volume
    /\ UNCHANGED <<env, recorded, db, bundle, release, setup, setups, faults,
                   torn>>

\* run_uninstall: the containers and, unless kept, the volume go first; an
\* error of Compose is passed over; then the home is removed.
Uninstall(keep, fails) ==
    /\ setup.pc = "idle"
    /\ recorded.state \/ env.present
    /\ Fault
    /\ env' = NoFile
    /\ recorded' = NoRecord
    /\ bundle' = [file |-> Absent, entry |-> NoEntry]
    /\ IF fails THEN UNCHANGED stack ELSE stack' = NoStack
    /\ IF fails \/ keep THEN UNCHANGED <<volume, db>>
       ELSE volume' = None /\ db' = EmptyDb
    /\ torn' = (torn /\ fails)
    /\ UNCHANGED <<release, setup, setups>>

-----------------------------------------------------------------------------
Profiles == 1..2

SetupStep ==
    \/ WriteBundleFile \/ WriteBundleManifest
    \/ Choose \/ RefuseStaleVolume
    \/ SeedEnv \/ RecoverSetting
    \/ SelectSecrets \/ RefuseSecrets
    \/ WriteSetting \/ RecordState
    \/ StartPostgres \/ Connect
    \/ AdminExists \/ StoreAdminPassword \/ CreateUser
    \/ InstallProfile \/ DoctorPasses \/ EnableLive
    \/ StartStack

RunSetup == \E sample, port, live \in BOOLEAN, profile \in {0} \cup Profiles :
                Begin(sample, port, live, profile)

Next ==
    \/ RunSetup
    \/ SetupStep
    \/ \E profile \in Profiles : NextProfile(profile)
    \/ NextLive \/ Finish
    \/ Stop \/ StopSeeding
    \/ LoseEnv \/ RepairSecrets \/ EditBundle \/ Upgrade
    \/ StopStack \/ StartCommand
    \/ \E keep, fails \in BOOLEAN : Uninstall(keep, fails)

Spec == Init /\ [][Next]_vars

-----------------------------------------------------------------------------
(* Properties *)

\* The types of the variables, run_setup's locals among them.
TypeOK ==
    /\ env \in [present : BOOLEAN, set : Settings]
    /\ recorded \in [state : BOOLEAN, admin : 0..MaxSetups]
    /\ volume \in Secret
    /\ stack \in [up : BOOLEAN, set : Settings, database : Secret]
    /\ db \in [admin : 0..MaxSetups, profile : {0} \cup Profiles,
               passed : SUBSET ({0} \cup Profiles)]
    /\ bundle \in [file : Absent..Edited, entry : NoEntry..Releases]
    /\ release \in 1..Releases
    /\ setups \in 0..MaxSetups
    /\ faults \in 0..MaxFaults
    /\ torn \in BOOLEAN
    /\ setup \in [pc : {"idle", "files", "manifest", "choose", "review",
                        "recover", "secrets", "write", "state", "postgres",
                        "connect", "admin", "user", "profile", "doctor",
                        "live", "start", "actions"},
                  existed : BOOLEAN, recovered : BOOLEAN, seen : Settings,
                  values : Settings, next : 0..Len(Order),
                  sample : BOOLEAN, port : BOOLEAN, live : BOOLEAN,
                  connected : BOOLEAN, profile : {0} \cup Profiles]

\* Whatever setups, kills, lost files, uninstalls and recoveries came
\* before, the containers are given the URL that opens their database,
\* unless a setup was killed between seeding .env and its last setting
\* (setup.rs 774-906).
DatabaseOpens == stack.up /\ ~torn => stack.database = volume

\* With the same exception, containers have a generated JWT secret and
\* Grafana password, never one of the example (setup.rs 1420-1482).
NoWeakSecretServes ==
    stack.up /\ ~torn => Strong(stack.set.jwt) /\ Strong(stack.set.grafana)

\* A setup that is run again after it stopped anywhere else finds no secret
\* that it refuses (setup.rs 1424, 1465).
RerunIsNotRefused ==
    setup.pc = "secrets" /\ ~torn => ~JwtRefused /\ ~GrafanaRefused

\* Live backends are off in .env until the doctor has passed the profile
\* that is installed, or the containers were live already (setup.rs 739,
\* 1127, 3292).
LiveWasChecked ==
    [][~env.set.live /\ env'.set.live =>
        stack.set.live \/ db'.profile \in db'.passed]_vars

\* While the containers run, no setup takes their secrets from them, even
\* when .env was lost and had to be recovered from a container
\* (setup.rs 456, 535).
RunningSecretsSurvive ==
    [][stack.up /\ stack'.up /\ ~torn =>
        /\ stack'.set.jwt = stack.set.jwt
        /\ stack'.set.grafana = stack.set.grafana
        /\ stack'.set.password = stack.set.password]_vars

\* What the operator edited stays (materialize.rs 129).
EditsAreKept == [][bundle.file = Edited => bundle'.file \in {Edited, Absent}]_vars

\* "Existing secrets and data are preserved on rerun"
\* (boilerplate_docs/reference/cli.md:25): the stored administrator password
\* is that of the administrator.
AdminPasswordOpens ==
    setup.pc = "idle" /\ db.admin # 0 /\ recorded.admin # 0 =>
        recorded.admin = db.admin

=============================================================================
