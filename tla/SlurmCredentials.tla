--------------------------- MODULE SlurmCredentials ---------------------------
(***************************************************************************)
(* The SSH credential slots of the Slurm backend.  An operator's commands   *)
(* (crates/beampipe-cli/src/slurm_credentials.rs) write the files of a slot *)
(* one after another, each replaced atomically, and may be killed between   *)
(* two of them; a worker opening a session                                  *)
(* (crates/beampipe-orchestration/src/slurm_credentials.rs, slurm_ssh.rs)   *)
(* reads the same files one after another, with no lock between the two.    *)
(*                                                                         *)
(* A private key is the number of the command that brought it, and so is    *)
(* the passphrase that opens it.  A slot stands for one login node: a host  *)
(* key is the slot and the generation of its node's key.                    *)
(***************************************************************************)
EXTENDS Naturals, FiniteSets

CONSTANTS
    Slots,         \* the credential slots
    MaxCommands,   \* bound on the operator's commands
    MaxKills,      \* bound on the commands killed or failing half way
    MaxRotations,  \* bound on the new host keys of the login nodes
    Strict,        \* strict known_hosts checking, the default in production
    Docker         \* workers run in containers, as uid 10001

VARIABLES
    slot,      \* per slot: its directory and files
    root,      \* the credential root: the shared known_hosts, its ACL
    locked,    \* the keys encrypted with a passphrase
    node,      \* per slot: the login node's host key and authorized_keys
    command,   \* the operator's running command
    commands,  \* how many have been started
    kills,     \* how many of them were killed or failed half way
    finished,  \* per slot: the last command to write it, when it completed
    accepted,  \* the host keys the operator has confirmed or supplied
    worker     \* a worker opening an SSH session

vars == <<slot, root, locked, node, command, commands, kills, finished,
          accepted, worker>>

Ids == 1 .. MaxCommands
\* No key, no passphrase; no file.
None == 0
HostKeys == Slots \X (0 .. MaxRotations)

\* A known_hosts file: whether it is there, and the keys it lists.
HostFile == [file : BOOLEAN, keys : SUBSET HostKeys]
NoHosts == [file |-> FALSE, keys |-> {}]

\* What uid 10001 has been granted and the mask lets through.
Grants == {"dir", "key", "pass"}

EmptySlot == [dir |-> FALSE, key |-> None, public |-> None, pass |-> None,
              hosts |-> NoHosts, acl |-> {}]

Materials == {"scanned", "reviewed", "existing", "skip"}
Idle == [pc |-> "idle", kind |-> "none", slot |-> CHOOSE s \in Slots : TRUE,
         id |-> 0, lock |-> FALSE, pass |-> FALSE, public |-> FALSE,
         acl |-> FALSE, material |-> "skip", keys |-> {}]
Resting == [pc |-> "idle", slot |-> CHOOSE s \in Slots : TRUE, path |-> "none",
            pass |-> None, key |-> None, keys |-> {}]

Init ==
    /\ slot = [s \in Slots |-> EmptySlot]
    /\ root = [hosts |-> NoHosts, acl |-> FALSE]
    /\ locked = {}
    /\ node = [s \in Slots |-> [host |-> 0, authorized |-> {}]]
    /\ command = Idle
    /\ commands = 0
    /\ kills = 0
    /\ finished = [s \in Slots |-> "never"]
    /\ accepted = {}
    /\ worker = Resting

HostKey(s) == <<s, node[s].host>>

-----------------------------------------------------------------------------
(* What a process sees of the files *)

\* A container traverses the root and the slot, and reads a file, by its ACL.
SeesRoot == Docker => root.acl
SeesSlot(s) == SeesRoot /\ (Docker => "dir" \in slot[s].acl)
Reads(s, file) == SeesSlot(s) /\ (Docker => file \in slot[s].acl)

\* slot_known_hosts_path: the slot's own file comes before the shared one.
HostsPath(s) ==
    IF slot[s].hosts.file /\ SeesSlot(s) THEN "slot"
    ELSE IF root.hosts.file /\ SeesRoot THEN "root" ELSE "none"

\* load_known_host_entries.  No command grants uid 10001 a known_hosts file.
HostsAt(s, path) ==
    CASE path = "slot" -> slot[s].hosts
      [] path = "root" -> root.hosts
      [] OTHER -> NoHosts

HostsLoad(s, path) ==
    HostsAt(s, path).file /\ HostsAt(s, path).keys # {} /\ ~Docker

Trusted(s) == HostsAt(s, HostsPath(s)).keys

\* SlurmSshCredentials::resolve_for.
Resolves(s) ==
    /\ Strict => HostsLoad(s, HostsPath(s))
    /\ slot[s].key # None /\ SeesSlot(s)

\* decode_secret_key: a key that is not encrypted ignores the passphrase.
Opens(key, pass) == key # None /\ (key \in locked => pass = key)

\* resolve_passphrase, then load_secret_key, when nothing moves in between.
LoadsKey(s) ==
    /\ Reads(s, "key")
    /\ slot[s].pass # None => Reads(s, "pass")
    /\ Opens(slot[s].key, slot[s].pass)

\* beampipe slurm credentials check, in the process of the operator.
Checks(s) == Resolves(s) /\ LoadsKey(s)

\* beampipe slurm credentials sync: in containers, `test -r` of the key and
\* of the known_hosts that applies.
Syncs(s) == Docker => Reads(s, "key") /\ HostsLoad(s, HostsPath(s))

-----------------------------------------------------------------------------
(* The commands: what they verify before the first write *)

\* scan_known_hosts: the keys scanned are used once the operator has
\* confirmed them, and a refusal ends the command.
Scan(s) == {HostKey(s)}

\* init up to the creation of the slot's directory.
StartInit(s, force, pass, scan, acl) ==
    /\ command = Idle /\ commands < MaxCommands
    /\ slot[s].key # None => force
    /\ commands' = commands + 1
    /\ command' = [Idle EXCEPT !.pc = "dirs", !.kind = "init", !.slot = s,
                               !.id = commands + 1, !.lock = pass, !.pass = pass,
                               !.public = TRUE, !.acl = acl,
                               !.material = IF scan THEN "scanned" ELSE "skip",
                               !.keys = IF scan THEN Scan(s) ELSE {}]
    /\ accepted' = accepted \cup (IF scan THEN Scan(s) ELSE {})
    /\ UNCHANGED <<slot, root, locked, node, kills, finished, worker>>

\* import up to the creation of the slot's directory.  A reviewed file is
\* the facility's, and has the key its node has now.
StartImport(s, force, lock, pass, public, material, acl) ==
    /\ command = Idle /\ commands < MaxCommands
    /\ slot[s].key # None => force
    /\ material = "existing" => slot[s].hosts.file \/ root.hosts.file
    /\ commands' = commands + 1
    /\ command' = [Idle EXCEPT !.pc = "dirs", !.kind = "import", !.slot = s,
                               !.id = commands + 1, !.lock = lock, !.pass = pass,
                               !.public = public, !.acl = acl,
                               !.material = material,
                               !.keys = IF material = "existing" THEN {} ELSE Scan(s)]
    /\ accepted' = accepted \cup (IF material = "existing" THEN {} ELSE Scan(s))
    /\ UNCHANGED <<slot, root, locked, node, kills, finished, worker>>

\* remove --yes of a slot that is a directory.
StartRemove(s) ==
    /\ command = Idle /\ commands < MaxCommands
    /\ slot[s].dir
    /\ commands' = commands + 1
    /\ command' = [Idle EXCEPT !.pc = "remove", !.kind = "remove", !.slot = s]
    /\ UNCHANGED <<slot, root, locked, node, kills, finished, accepted, worker>>

-----------------------------------------------------------------------------
(* The commands: the writes, in their order *)

At(pc, kinds) == command.pc = pc /\ command.kind \in kinds
Goto(pc) == command' = [command EXCEPT !.pc = pc]

Owner == command.slot

\* create_dir_all and the two set_dir_mode(0o700).  The mode of a path with
\* an ACL is its mask: the grants to uid 10001 on both are masked out.
WriteDirs ==
    /\ At("dirs", {"init", "import"})
    /\ slot' = [slot EXCEPT ![Owner].dir = TRUE, ![Owner].acl = @ \ {"dir"}]
    /\ root' = [root EXCEPT !.acl = FALSE]
    /\ finished' = [finished EXCEPT ![Owner] = "never"]
    /\ Goto("key")
    /\ UNCHANGED <<locked, node, commands, kills, accepted, worker>>

\* atomic_write puts a new file, without an ACL, in the place of the key.
WriteKey ==
    /\ At("key", {"init", "import"})
    /\ slot' = [slot EXCEPT ![Owner].key = command.id,
                            ![Owner].acl = @ \ {"key"}]
    /\ locked' = IF command.lock THEN locked \cup {command.id} ELSE locked
    /\ Goto("public")
    /\ UNCHANGED <<root, node, commands, kills, finished, accepted, worker>>

\* An import without a public key leaves the one that is there.
WritePublic ==
    /\ At("public", {"init", "import"})
    /\ slot' = IF command.public
               THEN [slot EXCEPT ![Owner].public = command.id] ELSE slot
    /\ Goto(IF command.kind = "init" THEN "pass" ELSE "hosts")
    /\ UNCHANGED <<root, locked, node, commands, kills, finished, accepted, worker>>

\* Defect for a mutant run: a passphrase file that is there is kept.
PassphraseKept ==
    IF command.pass /\ slot[Owner].pass = None THEN command.id
    ELSE IF command.kind = "init" THEN None ELSE slot[Owner].pass

\* The passphrase file after the command: init removes the one of a key it
\* replaces, import keeps it.
Passphrase ==
    IF command.pass THEN command.id
    ELSE IF command.kind = "init" THEN None ELSE slot[Owner].pass

WritePassphrase ==
    /\ At("pass", {"init", "import"})
    /\ slot' = [slot EXCEPT ![Owner].pass = Passphrase,
                            ![Owner].acl = IF Passphrase = slot[Owner].pass
                                           THEN @ ELSE @ \ {"pass"}]
    /\ Goto(IF command.kind = "init" THEN "hosts" ELSE "acl")
    /\ UNCHANGED <<root, locked, node, commands, kills, finished, accepted, worker>>

\* merge_known_hosts.
Merged(hosts) == [file |-> TRUE, keys |-> hosts.keys \cup command.keys]

\* init merges into the shared file, and makes an empty one for want of a
\* scan; import writes the slot's own.
WriteHosts ==
    /\ At("hosts", {"init", "import"})
    /\ \/ /\ command.kind = "init"
          /\ root' = [root EXCEPT !.hosts = Merged(@)]
          /\ slot' = slot
       \/ /\ command.kind = "import"
          /\ slot' = CASE command.material = "reviewed" ->
                            [slot EXCEPT ![Owner].hosts = [file |-> TRUE, keys |-> command.keys]]
                       [] command.material = "scanned" ->
                            [slot EXCEPT ![Owner].hosts = Merged(@)]
                       [] OTHER -> slot
          /\ root' = root
    /\ Goto(IF command.kind = "init" THEN "acl" ELSE "pass")
    /\ UNCHANGED <<locked, node, commands, kills, finished, accepted, worker>>

\* The operator has given what the key needs: the passphrase of a locked
\* key, and host keys.
Complete ==
    /\ command.lock => command.pass
    /\ command.keys # {}

\* apply_container_acl_tree and the passphrase's ACL; the command is over.
Finish ==
    /\ At("acl", {"init", "import"})
    /\ LET granted == {"dir", "key"} \cup
                      (IF slot[Owner].pass # None
                          /\ (command.kind = "init" => command.pass)
                       THEN {"pass"} ELSE {})
       IN  slot' = [slot EXCEPT ![Owner].acl =
                        IF command.acl THEN @ \cup granted ELSE @]
    /\ root' = [root EXCEPT !.acl = @ \/ command.acl]
    /\ finished' = [finished EXCEPT ![Owner] =
                        IF ~Complete THEN "lacking"
                        ELSE IF command.acl THEN "with ACL" ELSE "done"]
    /\ command' = Idle
    /\ UNCHANGED <<locked, node, commands, kills, accepted, worker>>

\* remove_dir_all: the files go one at a time, the directory last.
RemoveFile ==
    /\ At("remove", {"remove"})
    /\ finished' = [finished EXCEPT ![Owner] = "never"]
    /\ \/ slot[Owner].key # None /\ slot' = [slot EXCEPT ![Owner].key = None]
       \/ slot[Owner].public # None /\ slot' = [slot EXCEPT ![Owner].public = None]
       \/ slot[Owner].pass # None /\ slot' = [slot EXCEPT ![Owner].pass = None]
       \/ slot[Owner].hosts.file /\ slot' = [slot EXCEPT ![Owner].hosts = NoHosts]
    /\ UNCHANGED <<root, locked, node, command, commands, kills, accepted, worker>>

RemoveDir ==
    /\ At("remove", {"remove"})
    /\ slot[Owner].key = None /\ slot[Owner].public = None
    /\ slot[Owner].pass = None /\ ~slot[Owner].hosts.file
    /\ slot' = [slot EXCEPT ![Owner] = EmptySlot]
    /\ finished' = [finished EXCEPT ![Owner] = "never"]
    /\ command' = Idle
    /\ UNCHANGED <<root, locked, node, commands, kills, accepted, worker>>

\* copy-id, of its own or at the end of init: ssh-copy-id installs the
\* public key the slot has.
CopyId(s) ==
    /\ command = Idle
    /\ slot[s].public # None
    /\ node' = [node EXCEPT ![s].authorized = @ \cup {slot[s].public}]
    /\ node' # node
    /\ UNCHANGED <<slot, root, locked, command, commands, kills, finished, accepted, worker>>

\* The command is killed, or one of its writes fails.
Kill ==
    /\ command # Idle
    /\ kills < MaxKills
    /\ kills' = kills + 1
    /\ command' = Idle
    /\ UNCHANGED <<slot, root, locked, node, commands, finished, accepted, worker>>

\* The login node is given a new host key.
Rotate(s) ==
    /\ node[s].host < MaxRotations
    /\ node' = [node EXCEPT ![s].host = @ + 1]
    /\ UNCHANGED <<slot, root, locked, command, commands, kills, finished, accepted, worker>>

-----------------------------------------------------------------------------
(* A worker opens a session *)

Rest == worker' = Resting

\* resolve_for: the path of the host keys and of the private key.
Resolve(s) ==
    /\ worker.pc = "idle"
    /\ Resolves(s)
    /\ worker' = [Resting EXCEPT !.pc = "pass", !.slot = s, !.path = HostsPath(s)]
    /\ UNCHANGED <<slot, root, locked, node, command, commands, kills, finished, accepted>>

\* resolve_passphrase.
ReadPassphrase ==
    /\ worker.pc = "pass"
    /\ LET p == slot[worker.slot].pass
       IN  worker' = IF p # None => Reads(worker.slot, "pass")
                     THEN [worker EXCEPT !.pc = "key", !.pass = p] ELSE Resting
    /\ UNCHANGED <<slot, root, locked, node, command, commands, kills, finished, accepted>>

\* load_secret_key with the passphrase read before.
ReadKey ==
    /\ worker.pc = "key"
    /\ LET k == slot[worker.slot].key
       IN  \/ /\ Reads(worker.slot, "key") /\ Opens(k, worker.pass)
              /\ worker' = [worker EXCEPT !.pc = "hosts", !.key = k]
           \/ ~(Reads(worker.slot, "key") /\ Opens(k, worker.pass)) /\ Rest
    /\ UNCHANGED <<slot, root, locked, node, command, commands, kills, finished, accepted>>

\* SshClientHandler::from_credentials reads the file again.
ReadHosts ==
    /\ worker.pc = "hosts"
    /\ \/ /\ worker.path = "none" \/ HostsLoad(worker.slot, worker.path)
          /\ worker' = [worker EXCEPT !.pc = "connect",
                                      !.keys = HostsAt(worker.slot, worker.path).keys]
       \/ worker.path # "none" /\ ~HostsLoad(worker.slot, worker.path) /\ Rest
    /\ UNCHANGED <<slot, root, locked, node, command, commands, kills, finished, accepted>>

\* Defect for a mutant run: the host is looked up, its key is not compared.
TrustsName == \E k \in worker.keys : k[1] = worker.slot

\* check_server_key: a file, when there was one, decides; without one an
\* unknown host is refused, except in development.
Trusts ==
    IF worker.path = "none" THEN ~Strict
    ELSE HostKey(worker.slot) \in worker.keys

\* client::connect and authenticate_publickey.
Connect ==
    /\ worker.pc = "connect"
    /\ \/ /\ Trusts /\ worker.key \in node[worker.slot].authorized
          /\ worker' = [worker EXCEPT !.pc = "session"]
       \/ ~(Trusts /\ worker.key \in node[worker.slot].authorized) /\ Rest
    /\ UNCHANGED <<slot, root, locked, node, command, commands, kills, finished, accepted>>

\* The session ends.
Close ==
    /\ worker.pc = "session"
    /\ Rest
    /\ UNCHANGED <<slot, root, locked, node, command, commands, kills, finished, accepted>>

-----------------------------------------------------------------------------
Commands ==
    \/ \E s \in Slots, force, pass, scan \in BOOLEAN :
          \E acl \in {FALSE, Docker} : StartInit(s, force, pass, scan, acl)
    \/ \E s \in Slots, force, lock, public \in BOOLEAN,
          material \in Materials \ {"skip"} :
          \E pass \in {FALSE, lock}, acl \in {FALSE, Docker} :
             StartImport(s, force, lock, pass, public, material, acl)
    \/ \E s \in Slots : StartRemove(s) \/ CopyId(s)
    \/ WriteDirs \/ WriteKey \/ WritePublic \/ WritePassphrase \/ WriteHosts
    \/ Finish \/ RemoveFile \/ RemoveDir \/ Kill

Connecting ==
    \/ \E s \in Slots : Resolve(s)
    \/ ReadPassphrase \/ ReadKey \/ ReadHosts \/ Connect \/ Close

Next == Commands \/ Connecting \/ \E s \in Slots : Rotate(s)

Spec == Init /\ [][Next]_vars

-----------------------------------------------------------------------------
(* Properties *)

\* The types of the state.
TypeOK ==
    /\ slot \in [Slots -> [dir : BOOLEAN, key : 0 .. MaxCommands,
                           public : 0 .. MaxCommands, pass : 0 .. MaxCommands,
                           hosts : HostFile, acl : SUBSET Grants]]
    /\ root \in [hosts : HostFile, acl : BOOLEAN]
    /\ locked \subseteq Ids
    /\ node \in [Slots -> [host : 0 .. MaxRotations, authorized : SUBSET Ids]]
    /\ command \in [pc : {"idle", "dirs", "key", "public", "pass", "hosts", "acl", "remove"},
                    kind : {"none", "init", "import", "remove"}, slot : Slots,
                    id : 0 .. MaxCommands, lock : BOOLEAN, pass : BOOLEAN,
                    public : BOOLEAN, acl : BOOLEAN, material : Materials,
                    keys : SUBSET HostKeys]
    /\ commands \in 0 .. MaxCommands
    /\ kills \in 0 .. MaxKills
    /\ finished \in [Slots -> {"never", "lacking", "done", "with ACL"}]
    /\ accepted \subseteq HostKeys
    /\ worker \in [pc : {"idle", "pass", "key", "hosts", "connect", "session"},
                   slot : Slots, path : {"none", "slot", "root"},
                   pass : 0 .. MaxCommands, key : 0 .. MaxCommands,
                   keys : SUBSET HostKeys]

\* A command that ran to its end and was given what its key needs leaves a
\* slot that `check` accepts and a worker can load, whatever half-written
\* files it found there, and commands on other slots do not undo it.
FinishedSlotChecks ==
    \A s \in Slots : finished[s] = "done" => Checks(s)

\* While host keys are checked, the host a worker has a session with showed
\* a key the operator confirmed or supplied, although the files were read one
\* by one and replaced or removed in between.
SessionHostWasAccepted ==
    worker.pc = "connect" /\ worker.path # "none" /\ Trusts
        => HostKey(worker.slot) \in accepted

\* A command on one slot, finished or not, leaves what a worker can load of
\* another and the hosts it trusts, although both share known_hosts.
OtherSlotsAreLeft ==
    [][\A s \in Slots :
          s # command.slot /\ Checks(s) =>
              Checks(s)' /\ Trusted(s) \subseteq Trusted(s)']_vars

\* Documented: with --acl a worker in a container can read the slot
\* (deploy/ssh/README.md, "`--acl` grants that uid read access on the `0600`
\* files").  The grant leaves known_hosts out, and the next command on any
\* slot masks the grant on the root.
ContainerReadsSlot ==
    \A s \in Slots : 
        finished[s] = "with ACL" /\ command = Idle => Syncs(s) /\ LoadsKey(s)
===============================================================================
