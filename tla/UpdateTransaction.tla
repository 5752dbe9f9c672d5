-------------------------- MODULE UpdateTransaction --------------------------
(***************************************************************************)
(* A version switch of the container: the list of releases,                 *)
(* UpdateService.prepare_switch and exec_pending_container_update of        *)
(* rocketcat_shell/updates.py, the check of the archive, the helper         *)
(* tools/update_helper.py that replaces PID 1, backs up and replaces the    *)
(* managed paths, watches the new version and restores the backup, and the  *)
(* part of docker/entrypoint.sh that runs it before the application.        *)
(*                                                                          *)
(* Everything a step leaves on disk is a variable of its own, and a step    *)
(* writes to one of them: the container may die between any two of them.    *)
(***************************************************************************)
EXTENDS Integers, FiniteSets

CONSTANTS
  Paths,       (* MANAGED_PATHS: directories and files that are replaced     *)
  Code,        (* the path that holds the program and its VERSION            *)
  Versions,    (* the releases; the content of a path is told by its release *)
  Image,       (* the release in the image                                   *)
  Torn,        (* a path that is removed, or copied in part                  *)
  NoFile,      (* an absent file                                             *)
  Builds,      (* archives a release may be served as, told by their SHA-256 *)
  Valid,       (* the ones that validate_manifest accepts                    *)
  Unlisted,    (* a draft, or a release without the asset or its digest      *)
  MaxFaults,   (* bound: exceptions and kills in a behaviour                 *)
  MaxUpdates   (* bound: transactions in a behaviour                         *)

ASSUME UpdateAssumption ==
  /\ Code \in Paths /\ Image \in Versions /\ Torn \notin Versions /\ NoFile \notin Versions
  /\ Unlisted \notin Builds /\ NoFile \notin Builds /\ Valid \subseteq Builds
  /\ MaxFaults \in Nat /\ MaxUpdates \in Nat

Terminal == {"completed", "failed", "rolled_back"}
BeforeReplacement == {"prepared", "waiting_for_shutdown", "preparing_dependencies",
                      "backing_up", "apply_failed_before_replacement"}

Statuses == Terminal \cup {"prepared", "applying", "monitoring", "rollback_pending",
                           "rolling_back", "recovery_required"}
Stages == BeforeReplacement \cup
  {"interrupted_before_replacement", "backup_complete", "replacing", "apply_interrupted",
   "monitoring_target", "completed", "target_health_failed", "restoring_backup",
   "restore_failed", "backup_incomplete", "monitoring_rollback", "rolled_back",
   "rollback_health_failed"}

(* What the files hold                                                      *)
Markers == [version : Versions, tagged : BOOLEAN]
Backups == [marker : Markers \cup {NoFile}]
Transactions ==
  [status : Statuses, stage : Stages, cur : Versions, target : Versions, build : Builds]
SwitchChoices == [tag : Versions, digest : Builds, archive : Builds \cup {NoFile}]

ASSUME NoFileAssumption ==
  NoFile \notin Markers /\ NoFile \notin Backups /\ NoFile \notin Transactions /\ NoFile \notin SwitchChoices

VARIABLES
  tree,      (* the managed paths under the source root                      *)
  backup,    (* backup/files of the transaction                              *)
  saved,     (* backup/complete.json and the marker it saved                 *)
  txn,       (* transaction.json                                             *)
  pending,   (* pending-handoff.json exists                                  *)
  marker,    (* data/update/runtime.json                                     *)
  pid1,      (* what PID 1 of the container is doing                         *)
  todo,      (* the paths its loop has still to copy                         *)
  ready,     (* the application answers /api/health                          *)
  tagged,    (* ROCKETCATSHELL_UPDATE_TRANSACTION in its environment         *)
  watchdog,  (* the process that watches the health of the application       *)
  faults, updates,
  site,      (* what GitHub serves for a release                             *)
  listed,    (* releases.json and UpdateService._cache: the digests          *)
  chosen     (* the switch in preparation: its tag, its digest, its archive  *)

files == <<tree, backup, saved, txn, pending, marker>>
process == <<pid1, todo, ready, tagged, watchdog>>
release == <<site, listed, chosen>>
vars == <<files, process, faults, updates, release>>

Helper == {"validate", "dependencies", "backup", "backed_up", "replacing",
           "install", "marking", "clearing", "spawning"}
Recovery == {"recover", "restore", "unmarking", "watching"}

Active == txn # NoFile /\ txn.status \notin Terminal

Whole(files_, v) == \A p \in Paths : files_[p] = v

Init ==
  /\ tree = [p \in Paths |-> Image] /\ backup = [p \in Paths |-> Torn]
  /\ saved = NoFile /\ txn = NoFile /\ pending = FALSE /\ marker = NoFile
  /\ pid1 = "recover" /\ todo = {} /\ ready = FALSE /\ tagged = FALSE
  /\ watchdog = "none" /\ faults = 0 /\ updates = 0
  /\ site \in [Versions -> Builds \cup {Unlisted}] /\ listed = [v \in Versions |-> NoFile]
  /\ chosen = NoFile

Status(status, stage) == txn' = [txn EXCEPT !.status = status, !.stage = stage]
Stage(stage) == txn' = [txn EXCEPT !.stage = stage]

(* The container ends, with every process in it.                           *)
Down == pid1' = "down" /\ todo' = {} /\ ready' = FALSE /\ tagged' = FALSE
        /\ watchdog' = "none"

-----------------------------------------------------------------------------
(* The application                                                          *)

AppReady ==
  /\ pid1 = "app" /\ ~ready /\ ready' = TRUE
  /\ UNCHANGED <<files, pid1, todo, tagged, watchdog, faults, updates>>

(* GitHub: a release is published, withdrawn, or its asset is replaced. It  *)
(* is read only by the application.                                         *)
Publish(v, b) ==
  /\ pid1 \in {"app", "downloading"}
  /\ site' = [site EXCEPT ![v] = b]
  /\ UNCHANGED <<files, process, faults, updates, listed, chosen>>

(* The releases that can be offered: drafts, and those without the official *)
(* asset or its digest, are left out.                                       *)
_normalize_release(raw) == IF raw = Unlisted THEN NoFile ELSE raw

(* The same from the Atom feed and the pages of the releases, when the API  *)
(* does not answer                                                          *)
_fallback_release_feed ==
  [v \in Versions |-> IF site[v] \in Builds THEN site[v] ELSE NoFile]

(* releases: on expiry or on request. When neither source answers the       *)
(* cached list stays; prepare_switch holds the lock of the service.         *)
CheckReleases ==
  /\ pid1 = "app"
  /\ listed' \in {[v \in Versions |-> _normalize_release(site[v])], _fallback_release_feed}
  /\ UNCHANGED <<files, process, faults, updates, site, chosen>>

(* prepare_switch: the tag is looked up in the list, however old.           *)
prepare_switch(v) ==
  /\ pid1 = "app" /\ ready /\ ~Active /\ updates < MaxUpdates
  /\ listed[v] # NoFile
  /\ chosen' = [tag |-> v, digest |-> listed[v], archive |-> NoFile]
  /\ pid1' = "downloading"
  /\ UNCHANGED <<files, todo, ready, tagged, watchdog, faults, updates, site, listed>>

(* Mutated form: the digest is not compared.                                *)
DownloadUnchecked ==
  /\ pid1 = "downloading" /\ site[chosen.tag] # Unlisted
  /\ chosen' = [chosen EXCEPT !.archive = site[chosen.tag]]
  /\ pid1' = "inspecting"
  /\ UNCHANGED <<files, todo, ready, tagged, watchdog, faults, updates, site, listed>>

(* What the site serves now has to be what the list promised.               *)
_download ==
  /\ pid1 = "downloading" /\ site[chosen.tag] = chosen.digest
  /\ chosen' = [chosen EXCEPT !.archive = site[chosen.tag]]
  /\ pid1' = "inspecting"
  /\ UNCHANGED <<files, todo, ready, tagged, watchdog, faults, updates, site, listed>>

(* The manifest names the tag, the contracts and every file of the archive. *)
validate_manifest(b) == b \in Valid

inspect_and_extract_zip ==
  /\ pid1 = "inspecting" /\ validate_manifest(chosen.archive)
  /\ txn' = [status |-> "prepared", stage |-> "prepared", cur |-> tree[Code],
             target |-> chosen.tag, build |-> chosen.archive]
  /\ backup' = [p \in Paths |-> Torn] /\ saved' = NoFile
  /\ pid1' = "preparing" /\ updates' = updates + 1
  /\ UNCHANGED <<tree, pending, marker, todo, ready, tagged, watchdog, faults, release>>

(* A download that fails or is refused, an archive that is refused: no      *)
(* transaction was written yet.                                             *)
CandidateRefused ==
  /\ pid1 \in {"downloading", "inspecting"} /\ pid1' = "app"
  /\ UNCHANGED <<files, todo, ready, tagged, watchdog, faults, updates, release>>

PrepareHelper ==
  /\ pid1 = "preparing" /\ txn.stage = "prepared"
  /\ Stage("waiting_for_shutdown")
  /\ UNCHANGED <<tree, backup, saved, pending, marker, process, faults, updates>>

_write_pending_handoff ==
  /\ pid1 = "preparing" /\ txn.stage = "waiting_for_shutdown"
  /\ pending' = TRUE /\ pid1' = "stopping"
  /\ UNCHANGED <<tree, backup, saved, txn, marker, todo, ready, tagged, watchdog,
                 faults, updates>>

(* An exception removes the directory of the transaction.                  *)
PrepareFails ==
  /\ pid1 = "preparing" /\ faults < MaxFaults
  /\ txn' = NoFile /\ pid1' = "app" /\ faults' = faults + 1
  /\ UNCHANGED <<tree, backup, saved, pending, marker, todo, ready, tagged, watchdog,
                 updates>>

(* _request_update_shutdown, and then the end of _run_async: PID 1 becomes  *)
(* the helper.                                                              *)
exec_pending_container_update ==
  /\ pid1 = "stopping" /\ pending
  /\ txn.status = "prepared" /\ txn.stage = "waiting_for_shutdown"
  /\ pid1' = "validate" /\ ready' = FALSE
  /\ UNCHANGED <<files, todo, tagged, watchdog, faults, updates>>

-----------------------------------------------------------------------------
(* apply_transaction                                                        *)

HelperStep(from, to) == pid1 = from /\ pid1' = to /\ UNCHANGED <<faults, updates>>
DiskKeeps(kept) == UNCHANGED kept /\ UNCHANGED <<ready, tagged>>

ValidateCandidate ==
  /\ HelperStep("validate", "dependencies")
  /\ Status("applying", "preparing_dependencies")
  /\ DiskKeeps(<<tree, backup, saved, pending, marker, todo, watchdog>>)

PrepareDependencies ==
  /\ HelperStep("dependencies", "backup") /\ Stage("backing_up") /\ todo' = Paths
  /\ DiskKeeps(<<tree, backup, saved, pending, marker, watchdog>>)

BackupPath(p) ==
  /\ pid1 = "backup" /\ p \in todo
  /\ backup' = [backup EXCEPT ![p] = tree[p]] /\ todo' = todo \ {p}
  /\ DiskKeeps(<<tree, saved, txn, pending, marker, pid1, watchdog, faults, updates>>)

(* Mutated form: the backup is called complete before it is.                *)
BackupEarly ==
  /\ HelperStep("backup", "backed_up")
  /\ saved' = [marker |-> marker]
  /\ DiskKeeps(<<tree, backup, txn, pending, marker, todo, watchdog>>)

(* complete.json is the last file of the backup.                            *)
BackupComplete ==
  /\ HelperStep("backup", "backed_up") /\ todo = {}
  /\ saved' = [marker |-> marker]
  /\ DiskKeeps(<<tree, backup, txn, pending, marker, todo, watchdog>>)

MarkBackup ==
  /\ HelperStep("backed_up", "replacing") /\ Stage("backup_complete")
  /\ DiskKeeps(<<tree, backup, saved, pending, marker, todo, watchdog>>)

(* Mutated form: the stage on disk stays what it was.                       *)
ReplaceUnmarked ==
  /\ HelperStep("replacing", "install") /\ Stage("backing_up") /\ todo' = Paths
  /\ DiskKeeps(<<tree, backup, saved, pending, marker, watchdog>>)

MarkReplacing ==
  /\ HelperStep("replacing", "install") /\ Stage("replacing") /\ todo' = Paths
  /\ DiskKeeps(<<tree, backup, saved, pending, marker, watchdog>>)

(* _remove_exact, then _copy_exact                                          *)
RemovePath(p) ==
  /\ pid1 \in {"install", "restore"} /\ p \in todo /\ tree[p] # Torn
  /\ tree' = [tree EXCEPT ![p] = Torn]
  /\ DiskKeeps(<<backup, saved, txn, pending, marker, pid1, todo, watchdog, faults, updates>>)

InstallPath(p) ==
  /\ pid1 = "install" /\ p \in todo /\ tree[p] = Torn
  /\ tree' = [tree EXCEPT ![p] = txn.target] /\ todo' = todo \ {p}
  /\ DiskKeeps(<<backup, saved, txn, pending, marker, pid1, watchdog, faults, updates>>)

InstallComplete ==
  /\ HelperStep("install", "marking") /\ todo = {}
  /\ DiskKeeps(<<tree, backup, saved, txn, pending, marker, todo, watchdog>>)

WriteMarker ==
  /\ HelperStep("marking", "clearing")
  /\ marker' = [version |-> txn.target, tagged |-> TRUE]
  /\ DiskKeeps(<<tree, backup, saved, txn, pending, todo, watchdog>>)

_clear_pending ==
  /\ HelperStep("clearing", "spawning") /\ pending' = FALSE
  /\ DiskKeeps(<<tree, backup, saved, txn, marker, todo, watchdog>>)

(* The watchdog is started between two writes of the transaction; neither   *)
(* it nor the application looks at it before the second.                    *)
_exec_runtime ==
  /\ pid1 = "spawning" /\ pid1' = "app" /\ ready' = FALSE /\ tagged' = TRUE
  /\ Status("monitoring", "monitoring_target") /\ watchdog' = "target"
  /\ UNCHANGED <<tree, backup, saved, pending, marker, todo, faults, updates>>

(* What the except branch of apply_transaction leaves on disk               *)
RecordFailure ==
  IF txn.stage \in {"preparing_dependencies", "backing_up"}
  THEN pending' = FALSE /\ Status("failed", "apply_failed_before_replacement")
  ELSE pending' = pending /\ Status("recovery_required", "apply_interrupted")

HelperRaises ==
  /\ pid1 \in Helper /\ faults < MaxFaults
  /\ RecordFailure /\ Down /\ faults' = faults + 1
  /\ UNCHANGED <<tree, backup, saved, marker, updates>>

-----------------------------------------------------------------------------
(* The watchdog                                                             *)

(* The application answers with the VERSION of its code and the transaction. *)
HealthMatches(expected) == pid1 = "app" /\ ready /\ tagged /\ tree[Code] = expected

WatchHealthy ==
  /\ \/ watchdog = "target" /\ HealthMatches(txn.target) /\ watchdog' = "complete"
     \/ watchdog = "rollback" /\ HealthMatches(txn.cur) /\ watchdog' = "rolled_back"
  /\ marker' = [marker EXCEPT !.tagged = FALSE]
  /\ UNCHANGED <<tree, backup, saved, txn, pending, pid1, todo, ready, tagged, faults,
                 updates>>

WatchComplete ==
  /\ \/ watchdog = "complete" /\ Status("completed", "completed")
     \/ watchdog = "rolled_back" /\ Status("rolled_back", "rolled_back")
  /\ watchdog' = "none"
  /\ UNCHANGED <<tree, backup, saved, pending, marker, pid1, todo, ready, tagged, faults,
                 updates>>

WatchTimeout ==
  /\ \/ /\ watchdog = "target" /\ watchdog' = "kill"
        /\ Status("rollback_pending", "target_health_failed")
     \/ /\ watchdog = "rollback" /\ watchdog' = "none"
        /\ Status("recovery_required", "rollback_health_failed")
  /\ UNCHANGED <<tree, backup, saved, pending, marker, pid1, todo, ready, tagged, faults,
                 updates>>

(* The watchdog itself fails: nobody decides until the next start.          *)
WatchdogRaises ==
  /\ watchdog # "none" /\ faults < MaxFaults /\ watchdog' = "none" /\ faults' = faults + 1
  /\ UNCHANGED <<files, pid1, todo, ready, tagged, updates>>

(* SIGTERM, and SIGKILL 35 s later                                          *)
WatchKill ==
  /\ watchdog = "kill" /\ Down
  /\ UNCHANGED <<files, faults, updates>>

-----------------------------------------------------------------------------
(* The container: kills, the restart policy, and the entrypoint             *)

(* A kill, a power failure, or an exit of the application                   *)
Kill ==
  /\ pid1 # "down" /\ faults < MaxFaults /\ Down /\ faults' = faults + 1
  /\ UNCHANGED <<files, updates>>

Restart ==
  /\ pid1 = "down" /\ pid1' = "recover"
  /\ UNCHANGED <<files, todo, ready, tagged, watchdog, faults, updates>>

(* run_runtime: the marker gives the interpreter and the transaction.       *)
run_runtime ==
  pid1' = "app" /\ ready' = FALSE /\ tagged' = (marker # NoFile /\ marker.tagged)

NothingToRecover ==
  /\ pid1 = "recover" /\ ~Active /\ run_runtime
  /\ UNCHANGED <<files, todo, watchdog, faults, updates>>

(* Mutated form: the start is refused, and the transaction left as it is.   *)
FailEarlierRefused ==
  /\ pid1 = "recover" /\ Active /\ txn.stage \in BeforeReplacement /\ Down
  /\ UNCHANGED <<files, faults, updates>>

FailEarlier ==
  /\ pid1 = "recover" /\ Active /\ txn.stage \in BeforeReplacement
  /\ pending' = FALSE /\ Status("failed", "interrupted_before_replacement")
  /\ run_runtime
  /\ UNCHANGED <<tree, backup, saved, marker, todo, watchdog, faults, updates>>

(* The entrypoint refuses to start.                                         *)
BackupIncomplete ==
  /\ pid1 = "recover" /\ Active /\ txn.stage \notin BeforeReplacement /\ saved = NoFile
  /\ Status("recovery_required", "backup_incomplete") /\ Down
  /\ UNCHANGED <<tree, backup, saved, pending, marker, faults, updates>>

BeginRestore ==
  /\ HelperStep("recover", "restore")
  /\ Active /\ txn.stage \notin BeforeReplacement /\ saved # NoFile
  /\ Status("rolling_back", "restoring_backup") /\ todo' = Paths
  /\ DiskKeeps(<<tree, backup, saved, pending, marker, watchdog>>)

RestorePath(p) ==
  /\ pid1 = "restore" /\ p \in todo /\ tree[p] = Torn
  /\ tree' = [tree EXCEPT ![p] = backup[p]] /\ todo' = todo \ {p}
  /\ DiskKeeps(<<backup, saved, txn, pending, marker, pid1, watchdog, faults, updates>>)

(* The saved marker, or none                                                *)
RestoreMarker ==
  /\ HelperStep("restore", "unmarking") /\ todo = {}
  /\ marker' = saved.marker
  /\ DiskKeeps(<<tree, backup, saved, txn, pending, todo, watchdog>>)

WriteRollbackMarker ==
  /\ HelperStep("unmarking", "watching")
  /\ marker' = [version |-> txn.cur, tagged |-> TRUE]
  /\ DiskKeeps(<<tree, backup, saved, txn, pending, todo, watchdog>>)

WatchRollback ==
  /\ pid1 = "watching" /\ pending' = FALSE
  /\ Status("rolling_back", "monitoring_rollback") /\ watchdog' = "rollback"
  /\ run_runtime
  /\ UNCHANGED <<tree, backup, saved, marker, todo, faults, updates>>

RecoveryRaises ==
  /\ pid1 \in Recovery \ {"recover"} /\ faults < MaxFaults
  /\ Status("recovery_required", "restore_failed") /\ Down /\ faults' = faults + 1
  /\ UNCHANGED <<tree, backup, saved, pending, marker, updates>>

-----------------------------------------------------------------------------
PathStep ==
  \E p \in Paths : BackupPath(p) \/ RemovePath(p) \/ InstallPath(p) \/ RestorePath(p)

HelperProgress ==
  \/ ValidateCandidate \/ PrepareDependencies \/ BackupComplete \/ MarkBackup
  \/ MarkReplacing \/ InstallComplete \/ WriteMarker \/ _clear_pending \/ _exec_runtime

RecoveryProgress ==
  \/ NothingToRecover \/ FailEarlier \/ BackupIncomplete \/ BeginRestore
  \/ RestoreMarker \/ WriteRollbackMarker \/ WatchRollback

WatchdogProgress == WatchHealthy \/ WatchComplete \/ WatchTimeout \/ WatchKill

ReleaseStep ==
  \/ \E v \in Versions, b \in Builds \cup {Unlisted} : Publish(v, b)
  \/ CheckReleases \/ \E v \in Versions : prepare_switch(v)
  \/ _download \/ inspect_and_extract_zip \/ CandidateRefused

SwitchStep ==
  \/ AppReady \/ PrepareHelper \/ _write_pending_handoff \/ PrepareFails
  \/ exec_pending_container_update
  \/ PathStep \/ HelperProgress \/ HelperRaises
  \/ WatchdogProgress \/ WatchdogRaises
  \/ Kill \/ Restart \/ RecoveryProgress \/ RecoveryRaises

Next == ReleaseStep \/ (SwitchStep /\ UNCHANGED release)

Spec == Init /\ [][Next]_vars

(* Docker restarts the container, PID 1 goes on with what it does, and the  *)
(* watchdog has a deadline. Nothing is assumed of a new release becoming    *)
(* healthy.                                                                 *)
FairSpec ==
  /\ Spec
  /\ WF_vars(Restart /\ UNCHANGED release) /\ WF_vars(PathStep /\ UNCHANGED release)
  /\ WF_vars(HelperProgress /\ UNCHANGED release)
  /\ WF_vars(RecoveryProgress /\ UNCHANGED release)
  /\ WF_vars(WatchdogProgress /\ UNCHANGED release)
  /\ WF_vars(exec_pending_container_update /\ UNCHANGED release)
  /\ WF_vars((PrepareHelper \/ _write_pending_handoff) /\ UNCHANGED release)

-----------------------------------------------------------------------------
(* Properties                                                               *)

(* Wherever the container was killed and whichever steps failed, the        *)
(* application only ever runs from a complete tree of one release, the one  *)
(* the runtime marker names; and the verdict the WebUI shows is true: a     *)
(* completed transaction left the target in place, any other that is over   *)
(* left what was there before.                                             *)
InstalledIsKnown ==
  /\ pid1 \in {"app", "downloading", "inspecting", "preparing", "stopping"} =>
        /\ Whole(tree, tree[Code]) /\ tree[Code] # Torn
        /\ tree[Code] = IF marker = NoFile THEN Image ELSE marker.version
  /\ txn # NoFile =>
        /\ txn.status = "completed" => Whole(tree, txn.target)
        /\ txn.status \in {"failed", "rolled_back"} => Whole(tree, txn.cur)

(* While the tree is damaged, a complete backup of the release to go back   *)
(* to exists and the transaction on disk makes the next start restore it.   *)
DamageIsRecoverable ==
  (\A v \in Versions : ~Whole(tree, v)) =>
     /\ Active /\ txn.stage \notin BeforeReplacement
     /\ saved # NoFile /\ Whole(backup, txn.cur)

(* What is installed is a valid archive with the digest that the list named *)
(* when the switch was chosen, whatever GitHub has served since.            *)
CandidateIsListed ==
  Active => txn.build \in Valid /\ txn.build = chosen.digest /\ txn.target = chosen.tag

(* The transactions the next start refuses to touch: not in a stage before  *)
(* the replacement, and without a backup                                    *)
Refused == Active /\ txn.stage \notin BeforeReplacement /\ saved = NoFile

(* Unless a candidate was refused by apply_transaction, the only way to     *)
(* such a transaction, the container always comes back.                    *)
ComesBack ==
  /\ [][~Refused /\ Refused' => pid1 = "validate"]_vars
  /\ pid1 = "down" /\ ~Refused ~> pid1 = "app"

-----------------------------------------------------------------------------
(* The inductive invariant (UpdateTransaction_proofs)                       *)

Running == {"app", "downloading", "inspecting", "preparing", "stopping"}
Waiting == {"preparing", "stopping", "validate"}

(* The types of the files, of the release list and of PID 1.                *)
TypeOK ==
  /\ tree \in [Paths -> Versions \cup {Torn}] /\ backup \in [Paths -> Versions \cup {Torn}]
  /\ saved \in Backups \cup {NoFile} /\ txn \in Transactions \cup {NoFile}
  /\ marker \in Markers \cup {NoFile} /\ todo \subseteq Paths
  /\ pid1 \in {"down"} \cup Running \cup Helper \cup Recovery
  /\ watchdog \in {"none", "target", "complete", "rollback", "rolled_back", "kill"}
  /\ site \in [Versions -> Builds \cup {Unlisted}] /\ listed \in [Versions -> Builds \cup {NoFile}]
  /\ chosen \in SwitchChoices \cup {NoFile}

VersionOf(m) == IF m = NoFile THEN Image ELSE m.version

(* Release v is complete in the tree and named by the marker.               *)
Installed(v) == v \in Versions /\ Whole(tree, v) /\ VersionOf(marker) = v

At(status, stage) == txn # NoFile /\ txn.status = status /\ txn.stage = stage

(* What the transaction on disk says while PID 1 or the watchdog works.     *)
Recorded ==
  /\ pid1 \in {"downloading", "inspecting"} => ~Active
  /\ pid1 = "app" /\ Active => txn.stage \notin BeforeReplacement
  /\ pid1 \in Waiting => At("prepared", "prepared") \/ At("prepared", "waiting_for_shutdown")
  /\ pid1 = "dependencies" => At("applying", "preparing_dependencies")
  /\ pid1 \in {"backup", "backed_up"} => At("applying", "backing_up")
  /\ pid1 = "replacing" => At("applying", "backup_complete")
  /\ pid1 \in {"install", "marking", "clearing", "spawning"} => At("applying", "replacing")
  /\ pid1 \in {"restore", "unmarking", "watching"} => At("rolling_back", "restoring_backup")
  /\ watchdog # "none" => pid1 = "app" /\ Active
  /\ watchdog \in {"target", "complete"} => txn.status = "monitoring"
  /\ watchdog \in {"rollback", "rolled_back"} => txn.status = "rolling_back"

(* There is a backup from before the replacement on, and it is complete.    *)
BackedUp ==
  /\ pid1 \in Waiting \cup {"dependencies", "backup"} => saved = NoFile
  /\ pid1 \in {"backed_up", "replacing", "install", "marking", "clearing", "spawning",
               "restore", "unmarking", "watching"} => saved # NoFile
  /\ pid1 = "app" /\ Active => saved # NoFile
  /\ txn # NoFile /\ saved # NoFile => Whole(backup, txn.cur) /\ VersionOf(saved.marker) = txn.cur
  /\ pid1 = "backup" => \A p \in Paths \ todo : backup[p] = txn.cur

(* Where nobody repairs the tree it is installed, and where somebody does,  *)
(* what he is through with is.                                             *)
InPlace ==
  /\ pid1 \in Running \/ (pid1 \in {"down", "recover"} /\ ~Active) => Installed(tree[Code])
  /\ \/ pid1 \in Waiting \cup {"dependencies", "backup", "backed_up", "replacing"}
     \/ pid1 \in {"unmarking", "watching"} \/ watchdog \in {"rollback", "rolled_back"}
     \/ pid1 \in {"down", "recover"} /\ Active
          /\ (txn.stage \in BeforeReplacement \/ saved = NoFile)
     => Installed(txn.cur)
  /\ pid1 = "install" => \A p \in Paths \ todo : tree[p] = txn.target
  /\ pid1 = "restore" => \A p \in Paths \ todo : tree[p] = txn.cur
  /\ pid1 = "marking" => Whole(tree, txn.target)
  /\ pid1 \in {"clearing", "spawning"} \/ watchdog \in {"target", "complete"} => Installed(txn.target)
  /\ pid1 \in {"clearing", "spawning", "watching"} \/ watchdog # "none" => marker # NoFile

(* The verdict of a transaction that is over                                *)
Verdict ==
  txn # NoFile =>
    /\ txn.status = "completed" => Whole(tree, txn.target)
    /\ txn.status \in {"failed", "rolled_back"} => Whole(tree, txn.cur)

Chosen ==
  /\ pid1 \in {"downloading", "inspecting"} => chosen # NoFile
  /\ pid1 = "inspecting" => chosen.archive = chosen.digest

IInv == TypeOK /\ Recorded /\ BackedUp /\ InPlace /\ Verdict /\ Chosen /\ CandidateIsListed
=============================================================================
