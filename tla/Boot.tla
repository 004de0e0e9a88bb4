-------------------------------- MODULE Boot --------------------------------
(***************************************************************************)
(* The life of a hub installation: how main of hub/src/main.rs comes up    *)
(* (which keys it may make, how it stamps and checks the store), the       *)
(* nightly backup (deploy/itx-backup.sh), and what an operator does with   *)
(* an archive or another build.                                            *)
(*                                                                         *)
(* A key is the boot that made it.  A store is its schema stamp, the       *)
(* newest build that wrote rows to it, the secrets its open deposits were  *)
(* derived from, and its commit count.  The power may fail at any step.    *)
(***************************************************************************)
EXTENDS Naturals, FiniteSets

CONSTANTS
  KeyFile,       \* the files main loads or makes, in this order: a sequence
  EscrowFile,    \* the one escrow addresses are derived from
  Builds,        \* schema versions of the builds an operator may install
  NoStore,       \* no --store-file
  MaxBoots, MaxCommits, MaxLosses, MaxArchives   \* bounds

ASSUME BootAssumption ==
  /\ \E i \in DOMAIN KeyFile : KeyFile[i] = EscrowFile
  /\ Builds \subseteq Nat \ {0}
  /\ {MaxBoots, MaxCommits, MaxLosses, MaxArchives} \subseteq Nat

VARIABLES
  build,       \* the installed binary's SCHEMA_VERSION
  keys,        \* key files on disk: a function on the ones that exist
  flushed,     \* key files that survive a power cut
  storeFile,   \* NoStore, or the store on disk
  hub,         \* [pc, mem]: where the process is and the keys it holds
  wanted,      \* systemd wants the hub running
  boots,       \* boots so far, which also names the keys a boot makes
  backup,      \* the backup script: [pc, keys, front, back]
  archives,    \* archives under their final name
  lostFiles    \* key files an operator lost

bootVars == <<build, keys, flushed, storeFile, hub, wanted, boots, backup, archives, lostFiles>>

AllFiles == {KeyFile[i] : i \in DOMAIN KeyFile}
NoKeys == [f \in {} |-> 0]
Down == [pc |-> "down", mem |-> NoKeys, generate |-> FALSE]
\* main has returned an error often enough for systemd's start limit.
Refused == [pc |-> "refused", mem |-> NoKeys, generate |-> FALSE]
NoBackup == [pc |-> "idle", keys |-> NoKeys, front |-> NoStore, back |-> NoStore]

MissingFiles == AllFiles \ DOMAIN keys
HubServes == hub.pc = "up"

BootInit ==
  /\ build \in Builds
  /\ keys = NoKeys /\ flushed = {} /\ storeFile = NoStore
  /\ hub = Down /\ wanted = TRUE /\ boots = 0
  /\ backup = NoBackup /\ archives = {} /\ lostFiles = 0

-----------------------------------------------------------------------------
(* main: key policy, keys, store, validation.                              *)

\* Keys are made only on a first boot: some missing, no store (--generate-keys given).
key_generation_policy(storeExists) == MissingFiles # {} /\ ~storeExists

RefusesToGenerate(storeExists) == MissingFiles # {} /\ storeExists

StartHub ==
  /\ wanted /\ hub.pc = "down" /\ boots < MaxBoots
  /\ ~RefusesToGenerate(storeFile # NoStore)
  /\ boots' = boots + 1
  /\ hub' = [pc |-> "keys", mem |-> NoKeys,
             generate |-> key_generation_policy(storeFile # NoStore)]
  /\ UNCHANGED <<build, keys, flushed, storeFile, wanted, backup, archives, lostFiles>>

NextFile == KeyFile[Cardinality(DOMAIN hub.mem) + 1]

\* EscrowSecret::write_new_file syncs what it writes; PrivateKey::save_to_file leaves it
\* to the kernel.
SyncedOnWrite(f) == IF f = EscrowFile THEN {f} ELSE {}

\* A key file that exists is read; a missing one is made, by a boot that may.
load(f) == keys[f]
generate == boots

load_or_generate_key ==
  /\ hub.pc = "keys"
  /\ LET f == NextFile
         key == IF f \in DOMAIN keys THEN load(f) ELSE generate
     IN /\ f \in DOMAIN keys \/ hub.generate
        /\ keys' = [g \in DOMAIN keys \union {f} |-> IF g = f THEN key ELSE keys[g]]
        /\ flushed' = flushed \union (IF f \in DOMAIN keys THEN {} ELSE SyncedOnWrite(f))
        /\ hub' = [hub EXCEPT !.mem = [g \in DOMAIN @ \union {f} |-> IF g = f THEN key ELSE @[g]],
                              !.pc = IF DOMAIN hub.mem \union {f} = AllFiles THEN "open" ELSE "keys"]
  /\ UNCHANGED <<build, storeFile, wanted, boots, backup, archives, lostFiles>>

\* The stamp open_or_create leaves on a store this build may open.
Stamped(old) == build

\* HubStore::open_or_create: refuses a newer stamp, restamps an older one.
open_or_create ==
  /\ hub.pc = "open"
  /\ IF storeFile # NoStore /\ storeFile.stamp > build
     THEN hub' = Refused /\ UNCHANGED storeFile
     ELSE /\ storeFile' = IF storeFile = NoStore
                      THEN [stamp |-> build, rows |-> 0, secrets |-> {}, commit |-> 0]
                      ELSE [storeFile EXCEPT !.stamp = Stamped(storeFile)]
          /\ hub' = [hub EXCEPT !.pc = "validate"]
  /\ UNCHANGED <<build, keys, flushed, wanted, boots, backup, archives, lostFiles>>

\* Faulty variant: whatever is in the store, the secret is taken to match it.
TakenOnTrust == TRUE

\* Every deposit whose key is derived comes out of this secret.
validate_derived_deposit_keys == storeFile.secrets \subseteq {hub.mem[EscrowFile]}

Listens == hub' = [hub EXCEPT !.pc = "up"]

\* Passing the check, the hub loads its tables and listens; failing it, main returns.
ListenOrRefuse ==
  /\ hub.pc = "validate"
  /\ IF validate_derived_deposit_keys
     THEN Listens
     ELSE hub' = Refused
  /\ UNCHANGED <<build, keys, flushed, storeFile, wanted, boots, backup, archives, lostFiles>>

\* A deposit is reserved: its address is handed out with the row that records it.
ReserveDeposit ==
  /\ HubServes /\ storeFile.commit < MaxCommits
  /\ storeFile' = [storeFile EXCEPT !.secrets = @ \union {hub.mem[EscrowFile]},
                                    !.rows = build, !.commit = @ + 1]
  /\ UNCHANGED <<build, keys, flushed, hub, wanted, boots, backup, archives, lostFiles>>

\* The last open deposit settles.
SettleDeposits ==
  /\ HubServes /\ storeFile.secrets # {} /\ storeFile.commit < MaxCommits
  /\ storeFile' = [storeFile EXCEPT !.secrets = {}, !.commit = @ + 1]
  /\ UNCHANGED <<build, keys, flushed, hub, wanted, boots, backup, archives, lostFiles>>

\* The kernel writes a key file back.
WriteBack ==
  /\ DOMAIN keys # flushed
  /\ flushed' = DOMAIN keys
  /\ UNCHANGED <<build, keys, storeFile, hub, wanted, boots, backup, archives, lostFiles>>

\* The box comes back with its enabled units; a backup that was running does not.
PowerCut ==
  /\ hub.pc # "down" \/ backup.pc # "idle"
  /\ keys' = [f \in DOMAIN keys \cap flushed |-> keys[f]]
  /\ hub' = Down /\ wanted' = TRUE /\ backup' = NoBackup
  /\ UNCHANGED <<build, flushed, storeFile, boots, archives, lostFiles>>

-----------------------------------------------------------------------------
(* itx-backup.sh.                                                          *)

\* systemctl stop itx-hub, waited for.
StopHub == hub' = Down /\ wanted' = FALSE

BackupBegins ==
  /\ backup.pc = "idle" /\ HubServes /\ Cardinality(archives) < MaxArchives
  /\ StopHub
  /\ backup' = [NoBackup EXCEPT !.pc = "secrets"]
  /\ UNCHANGED <<build, keys, flushed, storeFile, boots, archives, lostFiles>>

\* The secrets, then the store, which a sequential read takes in more than one piece.
CopySecrets ==
  /\ backup.pc = "secrets"
  /\ backup' = [backup EXCEPT !.pc = "front", !.keys = keys]
  /\ UNCHANGED <<build, keys, flushed, storeFile, hub, wanted, boots, archives, lostFiles>>

CopyFront ==
  /\ backup.pc = "front"
  /\ backup' = [backup EXCEPT !.pc = "back", !.front = storeFile]
  /\ UNCHANGED <<build, keys, flushed, storeFile, hub, wanted, boots, archives, lostFiles>>

CopyBack ==
  /\ backup.pc = "back"
  /\ backup' = [backup EXCEPT !.pc = "staged", !.back = storeFile]
  /\ UNCHANGED <<build, keys, flushed, storeFile, hub, wanted, boots, archives, lostFiles>>

\* restart_stopped, as soon as the bytes are staged.
restart_stopped ==
  /\ backup.pc = "staged"
  /\ wanted' = TRUE
  /\ backup' = [backup EXCEPT !.pc = "encrypt"]
  /\ UNCHANGED <<build, keys, flushed, storeFile, hub, boots, archives, lostFiles>>

Archive == [keys |-> backup.keys, front |-> backup.front, back |-> backup.back]

\* Encrypted under a dotted name and renamed when complete.
RenameArchive ==
  /\ backup.pc = "encrypt"
  /\ archives' = archives \union {Archive}
  /\ backup' = NoBackup
  /\ UNCHANGED <<build, keys, flushed, storeFile, hub, wanted, boots, lostFiles>>

\* The EXIT trap starts what this run stopped.
cleanup == wanted' = TRUE

BackupFails ==
  /\ backup.pc # "idle"
  /\ cleanup
  /\ backup' = NoBackup
  /\ UNCHANGED <<build, keys, flushed, storeFile, hub, boots, archives, lostFiles>>

-----------------------------------------------------------------------------
(* The operator, with the hub stopped for it and started after it.         *)

\* A key file is gone.
LoseFile ==
  /\ backup.pc = "idle" /\ lostFiles < MaxLosses
  /\ \E f \in DOMAIN keys :
       /\ keys' = [g \in DOMAIN keys \ {f} |-> keys[g]]
       /\ flushed' = flushed \ {f}
  /\ hub' = Down /\ wanted' = TRUE /\ lostFiles' = lostFiles + 1
  /\ UNCHANGED <<build, storeFile, boots, backup, archives>>

\* A rollback puts hub.redb back and nothing else (docs/deployment.md 5.2).
RestoreStore ==
  /\ backup.pc = "idle"
  /\ \E a \in archives : storeFile # a.back /\ storeFile' = a.back
  /\ hub' = Down /\ wanted' = TRUE
  /\ UNCHANGED <<build, keys, flushed, boots, backup, archives, lostFiles>>

\* itx-recover.sh on a fresh box, or one whose state directory was removed whole.
Recover ==
  /\ backup.pc = "idle"
  /\ \E a \in archives :
       /\ <<storeFile, keys>> # <<a.back, a.keys>>
       /\ storeFile' = a.back /\ keys' = a.keys /\ flushed' = DOMAIN a.keys
  /\ hub' = Down /\ wanted' = TRUE
  /\ UNCHANGED <<build, boots, backup, archives, lostFiles>>

\* The state directory is removed, to begin a new deployment.
RemoveAll ==
  /\ backup.pc = "idle" /\ storeFile # NoStore /\ lostFiles < MaxLosses
  /\ storeFile' = NoStore /\ keys' = NoKeys /\ flushed' = {}
  /\ hub' = Down /\ wanted' = TRUE /\ lostFiles' = lostFiles + 1
  /\ UNCHANGED <<build, boots, backup, archives>>

InstallBuild ==
  /\ backup.pc = "idle"
  /\ \E b \in Builds \ {build} : build' = b
  /\ hub' = Down /\ wanted' = TRUE
  /\ UNCHANGED <<keys, flushed, storeFile, boots, backup, archives, lostFiles>>

\* The script runs on, or its trap does.
BackupStep ==
  CopySecrets \/ CopyFront \/ CopyBack \/ restart_stopped \/ RenameArchive \/ BackupFails

BootNext ==
  \/ StartHub \/ load_or_generate_key \/ open_or_create \/ ListenOrRefuse
  \/ ReserveDeposit \/ SettleDeposits \/ WriteBack \/ PowerCut
  \/ BackupBegins \/ BackupStep
  \/ LoseFile \/ RestoreStore \/ Recover \/ RemoveAll \/ InstallBuild

BootSpec == BootInit /\ [][BootNext]_bootVars

-----------------------------------------------------------------------------
(* What is checked.                                                        *)

\* A hub that serves can sign for every deposit its store holds open, whatever files were
\* lost, restored or made in between (validate_derived_deposit_keys and
\* key_generation_policy in hub/src/main.rs).
DepositsSweepable == HubServes => storeFile.secrets \subseteq {hub.mem[EscrowFile]}

\* The secret an address was handed out under is on disk for good: a power cut never
\* leaves a running hub's open deposits without it (EscrowSecret::write_new_file, "a secret
\* that never reached disk derives addresses nothing can sweep after a crash").
SecretReachedDisk ==
  (HubServes /\ storeFile.secrets # {}) => (EscrowFile \in flushed /\ keys[EscrowFile] \in storeFile.secrets)

\* No build serves a store holding rows it cannot see: once a newer build has opened a
\* store, every older one is refused (SCHEMA_VERSION and open_or_create in store.rs).
RowsUnderstood == HubServes => storeFile.rows <= build

\* An archive holds one state of the store, and the secret of every deposit in it
\* (itx-backup.sh stops the hub for the length of the copy).
ArchiveWhole ==
  \A a \in archives : a.front = a.back /\ a.back.secrets \subseteq {a.keys[EscrowFile]}

\* A backup never leaves the hub stopped for good, wherever it fails (cleanup and
\* restart_stopped).
HubWantedAgain == []<>wanted

\* The hub can sign for what it holds, now and from any archive: the secret of every open
\* deposit is in memory, on disk and in the backups, beside rows the build understands
\* (hub/src/main.rs, escrow_key.rs, store.rs, itx-backup.sh).
SecretsKept == DepositsSweepable /\ SecretReachedDisk /\ RowsUnderstood /\ ArchiveWhole
=============================================================================
