---------------------------- MODULE MCCommandLine ----------------------------
(***************************************************************************)
(* The two command families of the CLI that write an operator's files step  *)
(* by step and can be killed in between: beampipe setup (Installation) and  *)
(* the SSH credential commands (SlurmCredentials).  They share no file; a   *)
(* behaviour runs the commands of one family.                               *)
(***************************************************************************)
EXTENDS Installation

CONSTANTS Slots, MaxCommands, MaxKills, MaxRotations, Strict, Docker

VARIABLES family, slot, root, locked, node, command, commands, kills, finished,
          accepted, worker

Credentials == INSTANCE SlurmCredentials

files == <<slot, root, locked, node, command, commands, kills, finished, accepted,
           worker>>

MCInit ==
    /\ Init
    /\ Credentials!Init
    /\ family \in {"setup", "credentials"}

MCNext ==
    /\ \/ family = "setup" /\ Next /\ UNCHANGED files
       \/ family = "credentials" /\ Credentials!Next /\ UNCHANGED vars
    /\ UNCHANGED family

MCSpec == MCInit /\ [][MCNext]_<<vars, files, family>>

\* SlurmCredentials: what a completed command wrote passes `check`, whatever it
\* found and whatever other commands did since.
FinishedSlotChecks == Credentials!FinishedSlotChecks

\* SlurmCredentials: the host of a session showed a key the operator accepted,
\* although a worker reads the files one by one while commands replace them.
SessionHostWasAccepted == Credentials!SessionHostWasAccepted
=============================================================================
