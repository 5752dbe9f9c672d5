---------------------- MODULE UpdateTransaction_proofs ----------------------
(***************************************************************************)
(* Proofs about UpdateTransaction, for any set of managed paths, releases   *)
(* and archives, and any number of kills, failures and transactions; and,   *)
(* in the second part, about UserIdentity, for any set of bots, users and   *)
(* profiles, any finite number of concurrent calls, any size of the id      *)
(* space, of the cache and of the batches.  The two modules share no name.  *)
(***************************************************************************)
EXTENDS UpdateTransaction, UserIdentity,
        FiniteSetTheorems, SequenceTheorems, NaturalsInduction, TLAPS

USE UpdateAssumption, NoFileAssumption

(* What is read back after the status or the stage has been written.        *)
LEMMA Written ==
  ASSUME txn \in Transactions, NEW status \in Statuses, NEW stage \in Stages,
         txn' = [txn EXCEPT !.status = status, !.stage = stage]
  PROVE  /\ txn' \in Transactions /\ txn' # NoFile
         /\ txn'.status = status /\ txn'.stage = stage
         /\ txn'.cur = txn.cur /\ txn'.target = txn.target /\ txn'.build = txn.build
BY DEF Transactions

(* The same when only the stage is.                                         *)
LEMMA StageWritten ==
  ASSUME txn \in Transactions, NEW stage \in Stages, Stage(stage)
  PROVE  /\ txn' \in Transactions /\ txn' # NoFile
         /\ txn'.status = txn.status /\ txn'.stage = stage
         /\ txn'.cur = txn.cur /\ txn'.target = txn.target /\ txn'.build = txn.build
BY DEF Transactions, Stage

(* Steps that leave all files alone: the application answers, PID 1 goes    *)
(* down, is started, becomes the helper, or is through with installing.     *)
LEMMA ProcessStep ==
  ASSUME IInv, UNCHANGED <<files, release>>, todo' \subseteq Paths,
         \/ UNCHANGED <<pid1, todo>> /\ watchdog' \in {watchdog, "none"}
         \/ pid1' = "down" /\ watchdog' = "none"
         \/ pid1 = "down" /\ pid1' = "recover" /\ UNCHANGED watchdog
         \/ pid1 = "recover" /\ ~Active /\ pid1' = "app" /\ UNCHANGED watchdog
         \/ pid1 = "stopping" /\ pid1' = "validate" /\ UNCHANGED watchdog
         \/ pid1 = "install" /\ todo = {} /\ pid1' = "marking" /\ UNCHANGED watchdog
  PROVE  IInv'
<1>1. UNCHANGED <<tree, backup, saved, txn, marker, site, listed, chosen>>
  BY DEF files, release
<1>2. TypeOK'
  BY <1>1 DEF IInv, TypeOK, Running, Helper, Recovery
<1>3. Recorded'
  BY <1>1 DEF IInv, Recorded, Active, At, Waiting
<1>4. BackedUp'
  BY <1>1 DEF IInv, Recorded, BackedUp, Active, At, Whole, Waiting
<1>5. InPlace'
  <2>1. Installed(tree[Code])' = Installed(tree[Code]) /\ Installed(txn.cur)' = Installed(txn.cur)
        /\ Installed(txn.target)' = Installed(txn.target)
    BY <1>1 DEF Installed, Whole, VersionOf
  <2> QED BY <1>1, <2>1 DEF IInv, TypeOK, Recorded, BackedUp, InPlace, Active, At, Waiting, Whole,
             Running, Terminal, BeforeReplacement, Helper, Recovery
<1>6. Verdict' /\ Chosen' /\ CandidateIsListed'
  BY <1>1 DEF IInv, Recorded, Verdict, Chosen, CandidateIsListed, Whole, Active, At
<1> QED BY <1>2, <1>3, <1>4, <1>5, <1>6 DEF IInv

(* The application, GitHub and the list of releases, before there is a      *)
(* transaction.                                                             *)
LEMMA ListStep ==
  ASSUME IInv, \/ \E v \in Versions, b \in Builds \cup {Unlisted} : Publish(v, b)
               \/ CheckReleases \/ \E v \in Versions : prepare_switch(v)
               \/ _download \/ CandidateRefused
  PROVE  IInv'
<1>1. /\ UNCHANGED <<tree, backup, saved, txn, marker, todo, watchdog>>
      /\ site' \in [Versions -> Builds \cup {Unlisted}]
      /\ listed' \in [Versions -> Builds \cup {NoFile}]
      /\ \/ pid1' = pid1 /\ chosen' = chosen
         \/ pid1 = "app" /\ ~Active /\ pid1' = "downloading" /\ chosen' \in SwitchChoices
         \/ /\ pid1 = "downloading" /\ pid1' = "inspecting"
            /\ chosen' \in SwitchChoices /\ chosen'.archive = chosen'.digest
         \/ pid1 \in {"downloading", "inspecting"} /\ pid1' = "app" /\ chosen' = chosen
  <2>1. CASE \E v \in Versions, b \in Builds \cup {Unlisted} : Publish(v, b)
    BY <2>1 DEF IInv, TypeOK, Publish, files, process
  <2>2. CASE CheckReleases
    <3>1. \A v \in Versions : site[v] \in Builds \cup {Unlisted}
      BY DEF IInv, TypeOK
    <3>2. listed' \in [Versions -> Builds \cup {NoFile}]
      BY <2>2, <3>1 DEF CheckReleases, _normalize_release, _fallback_release_feed
    <3> QED BY <2>2, <3>2 DEF IInv, TypeOK, CheckReleases, files, process
  <2>3. CASE \E v \in Versions : prepare_switch(v)
    <3>1. PICK v \in Versions : prepare_switch(v)
      BY <2>3
    <3>2. listed[v] \in Builds
      BY <3>1 DEF IInv, TypeOK, prepare_switch
    <3>3. chosen' \in SwitchChoices
      BY <3>1, <3>2 DEF prepare_switch, SwitchChoices
    <3> QED BY <3>1, <3>3 DEF IInv, TypeOK, prepare_switch, files
  <2>4. CASE _download
    <3>1. chosen \in SwitchChoices /\ site[chosen.tag] = chosen.digest
      BY <2>4 DEF IInv, TypeOK, Chosen, _download
    <3>2. chosen' \in SwitchChoices /\ chosen'.archive = chosen'.digest
      BY <2>4, <3>1 DEF _download, SwitchChoices
    <3> QED BY <2>4, <3>2 DEF IInv, TypeOK, _download, files
  <2>5. CASE CandidateRefused
    BY <2>5 DEF IInv, TypeOK, CandidateRefused, files, release
  <2> QED BY <2>1, <2>2, <2>3, <2>4, <2>5
<1>2. TypeOK'
  BY <1>1 DEF IInv, TypeOK, Running
<1>3. Recorded' /\ BackedUp'
  BY <1>1 DEF IInv, Recorded, BackedUp, Active, At, Whole, Waiting
<1>4. InPlace'
  <2>1. Installed(tree[Code])' = Installed(tree[Code]) /\ Installed(txn.cur)' = Installed(txn.cur)
        /\ Installed(txn.target)' = Installed(txn.target)
    BY <1>1 DEF Installed, Whole, VersionOf
  <2> QED BY <1>1, <2>1 DEF IInv, Recorded, InPlace, Active, Waiting, Whole, Running
<1>5. Verdict' /\ Chosen' /\ CandidateIsListed'
  BY <1>1 DEF IInv, TypeOK, Recorded, Verdict, Chosen, CandidateIsListed, Whole, Active
<1> QED BY <1>2, <1>3, <1>4, <1>5 DEF IInv

(* A candidate becomes a transaction; the one before it is forgotten.       *)
LEMMA CandidateStep == ASSUME IInv, inspect_and_extract_zip PROVE IInv'
<1>1. /\ pid1 = "inspecting" /\ pid1' = "preparing" /\ chosen.archive \in Valid
      /\ txn' = [status |-> "prepared", stage |-> "prepared", cur |-> tree[Code],
                 target |-> chosen.tag, build |-> chosen.archive]
      /\ backup' = [p \in Paths |-> Torn] /\ saved' = NoFile
      /\ UNCHANGED <<tree, marker, todo, watchdog, site, listed, chosen>>
  BY DEF inspect_and_extract_zip, validate_manifest, release
<1>2. /\ chosen \in SwitchChoices /\ chosen.archive = chosen.digest /\ Installed(tree[Code]) /\ ~Active
      /\ watchdog = "none"
  BY <1>1 DEF IInv, TypeOK, Recorded, InPlace, Chosen, Running
<1>3. txn' \in Transactions /\ txn' # NoFile /\ backup' \in [Paths -> Versions \cup {Torn}]
  <2>1. chosen.archive \in Builds /\ chosen.tag \in Versions /\ tree[Code] \in Versions
    BY <1>1, <1>2 DEF SwitchChoices, Installed
  <2>2. txn' \in Transactions
    BY <1>1, <2>1 DEF Transactions, Statuses, Stages, BeforeReplacement
  <2>3. backup' \in [Paths -> Versions \cup {Torn}]
    BY <1>1
  <2> QED BY <2>2, <2>3
<1>4. TypeOK'
  BY <1>1, <1>3 DEF IInv, TypeOK, Running
<1>5. Recorded' /\ BackedUp'
  BY <1>1, <1>2, <1>3 DEF Recorded, BackedUp, Active, At, Waiting
<1>6. InPlace'
  <2>1. Installed(tree[Code])' /\ Installed(txn.cur)'
    BY <1>1, <1>2 DEF Installed, Whole, VersionOf
  <2> QED BY <1>1, <1>2, <2>1 DEF InPlace, Waiting, Running
<1>7. Verdict' /\ Chosen' /\ CandidateIsListed'
  BY <1>1, <1>2 DEF Verdict, Chosen, CandidateIsListed
<1> QED BY <1>4, <1>5, <1>6, <1>7 DEF IInv

(* The preparation fails, and the transaction is removed.                   *)
LEMMA PrepareFailsStep == ASSUME IInv, PrepareFails, UNCHANGED release PROVE IInv'
<1>1. /\ pid1 = "preparing" /\ pid1' = "app" /\ txn' = NoFile
      /\ UNCHANGED <<tree, backup, saved, marker, todo, watchdog, site, listed, chosen>>
  BY DEF PrepareFails, release
<1>2. TypeOK'
  BY <1>1 DEF IInv, TypeOK, Running
<1>3. Recorded' /\ BackedUp'
  BY <1>1 DEF IInv, Recorded, BackedUp, Active, At, Waiting
<1>4. InPlace'
  <2>1. Installed(tree[Code])'
    BY <1>1 DEF IInv, InPlace, Installed, Whole, VersionOf, Running
  <2> QED BY <1>1, <2>1 DEF IInv, Recorded, InPlace, Waiting, Running
<1>5. Verdict' /\ Chosen' /\ CandidateIsListed'
  BY <1>1 DEF Verdict, Chosen, CandidateIsListed, Active
<1> QED BY <1>2, <1>3, <1>4, <1>5 DEF IInv

----------------------------------------------------------------------------
(* Before the replacement                                                  *)

(* Steps up to the replacement that write the transaction, or nothing that  *)
(* the invariant is about.                                                  *)
LEMMA PrepareStep ==
  ASSUME IInv, UNCHANGED release,
         PrepareHelper \/ _write_pending_handoff \/ ValidateCandidate \/ PrepareDependencies
           \/ MarkBackup \/ MarkReplacing
  PROVE  IInv'
<1>1. txn \in Transactions
  BY DEF IInv, TypeOK, Recorded, At, Waiting, PrepareHelper, _write_pending_handoff,
         ValidateCandidate, PrepareDependencies, MarkBackup, MarkReplacing, HelperStep
<1>2. /\ UNCHANGED <<tree, backup, saved, marker, watchdog, site, listed, chosen>>
      /\ txn' \in Transactions /\ txn' # NoFile
      /\ txn'.cur = txn.cur /\ txn'.target = txn.target /\ txn'.build = txn.build
      /\ todo' \subseteq Paths
      /\ \/ pid1 = "preparing" /\ pid1' = "preparing" /\ txn'.status = txn.status
            /\ txn'.stage = "waiting_for_shutdown"
         \/ pid1 = "preparing" /\ pid1' = "stopping" /\ txn' = txn
         \/ pid1 = "validate" /\ pid1' = "dependencies" /\ txn'.status = "applying"
            /\ txn'.stage = "preparing_dependencies"
         \/ pid1 = "dependencies" /\ pid1' = "backup" /\ txn'.status = txn.status
            /\ txn'.stage = "backing_up" /\ todo' = Paths
         \/ pid1 = "backed_up" /\ pid1' = "replacing" /\ txn'.status = txn.status
            /\ txn'.stage = "backup_complete"
         \/ pid1 = "replacing" /\ pid1' = "install" /\ txn'.status = txn.status
            /\ txn'.stage = "replacing" /\ todo' = Paths
  <2>1. todo \subseteq Paths /\ txn # NoFile
    BY <1>1 DEF IInv, TypeOK
  <2>2. CASE PrepareHelper
    <3>1. Stage("waiting_for_shutdown")
      BY <2>2 DEF PrepareHelper
    <3>2. txn' \in Transactions /\ txn' # NoFile /\ txn'.stage = "waiting_for_shutdown"
          /\ txn'.status = txn.status
          /\ txn'.cur = txn.cur /\ txn'.target = txn.target /\ txn'.build = txn.build
      BY <1>1, <3>1, StageWritten DEF Stages, BeforeReplacement
    <3> QED BY <2>1, <2>2, <3>2 DEF PrepareHelper, process, release
  <2>3. CASE _write_pending_handoff
    BY <1>1, <2>1, <2>3 DEF _write_pending_handoff, release
  <2>4. CASE ValidateCandidate
    <3>1. txn' = [txn EXCEPT !.status = "applying", !.stage = "preparing_dependencies"]
      BY <2>4 DEF ValidateCandidate, Status
    <3>2. txn' \in Transactions /\ txn' # NoFile /\ txn'.stage = "preparing_dependencies"
          /\ txn'.status = "applying"
          /\ txn'.cur = txn.cur /\ txn'.target = txn.target /\ txn'.build = txn.build
      BY <1>1, <3>1, Written DEF Stages, Statuses, BeforeReplacement
    <3> QED BY <2>1, <2>4, <3>2 DEF ValidateCandidate, HelperStep, DiskKeeps, release
  <2>5. CASE PrepareDependencies
    <3>1. Stage("backing_up")
      BY <2>5 DEF PrepareDependencies
    <3>2. txn' \in Transactions /\ txn' # NoFile /\ txn'.stage = "backing_up"
          /\ txn'.status = txn.status
          /\ txn'.cur = txn.cur /\ txn'.target = txn.target /\ txn'.build = txn.build
      BY <1>1, <3>1, StageWritten DEF Stages, BeforeReplacement
    <3> QED BY <2>1, <2>5, <3>2 DEF PrepareDependencies, HelperStep, DiskKeeps, release
  <2>6. CASE MarkBackup
    <3>1. Stage("backup_complete")
      BY <2>6 DEF MarkBackup
    <3>2. txn' \in Transactions /\ txn' # NoFile /\ txn'.stage = "backup_complete"
          /\ txn'.status = txn.status
          /\ txn'.cur = txn.cur /\ txn'.target = txn.target /\ txn'.build = txn.build
      BY <1>1, <3>1, StageWritten DEF Stages, BeforeReplacement
    <3> QED BY <2>1, <2>6, <3>2 DEF MarkBackup, HelperStep, DiskKeeps, release
  <2>7. CASE MarkReplacing
    <3>1. Stage("replacing")
      BY <2>7 DEF MarkReplacing
    <3>2. txn' \in Transactions /\ txn' # NoFile /\ txn'.stage = "replacing"
          /\ txn'.status = txn.status
          /\ txn'.cur = txn.cur /\ txn'.target = txn.target /\ txn'.build = txn.build
      BY <1>1, <3>1, StageWritten DEF Stages, BeforeReplacement
    <3> QED BY <2>1, <2>7, <3>2 DEF MarkReplacing, HelperStep, DiskKeeps, release
  <2> QED BY <2>2, <2>3, <2>4, <2>5, <2>6, <2>7
<1>3. TypeOK'
  BY <1>2 DEF IInv, TypeOK, Running, Helper
<1>4. Recorded'
  BY <1>2 DEF IInv, Recorded, Active, At, Waiting
<1>5. BackedUp'
  <2>1. txn # NoFile
    BY <1>1
  <2>2. pid1' = "backup" => \A p \in Paths \ todo' : backup'[p] = txn'.cur
    BY <1>2
  <2> QED BY <1>2, <2>1, <2>2 DEF IInv, BackedUp, Whole, Waiting
<1>6. InPlace'
  <2>1. /\ Installed(tree[Code])' = Installed(tree[Code]) /\ Installed(txn.cur)' = Installed(txn.cur)
        /\ Installed(txn.target)' = Installed(txn.target)
    BY <1>2 DEF Installed, Whole, VersionOf
  <2> QED BY <1>2, <2>1 DEF IInv, Recorded, InPlace, Waiting, Running
<1>7. Active /\ txn'.status \notin {"completed", "failed", "rolled_back"}
  BY <1>2 DEF IInv, Recorded, Active, At, Terminal, Waiting
<1>8. Verdict' /\ Chosen' /\ CandidateIsListed'
  BY <1>2, <1>7 DEF IInv, Verdict, Chosen, CandidateIsListed
<1> QED BY <1>3, <1>4, <1>5, <1>6, <1>8 DEF IInv

(* A path is copied to the backup.                                          *)
LEMMA BackupStep == ASSUME IInv, NEW p \in Paths, BackupPath(p), UNCHANGED release PROVE IInv'
<1>1. /\ pid1 = "backup" /\ p \in todo /\ todo' = todo \ {p}
      /\ backup' = [backup EXCEPT ![p] = tree[p]]
      /\ UNCHANGED <<tree, saved, txn, marker, pid1, watchdog, site, listed, chosen>>
  BY DEF BackupPath, DiskKeeps, release
<1>2. At("applying", "backing_up") /\ saved = NoFile /\ Installed(txn.cur) /\ tree[p] = txn.cur
  BY <1>1 DEF IInv, Recorded, BackedUp, InPlace, Installed, Whole
<1>3. TypeOK'
  BY <1>1 DEF IInv, TypeOK
<1>4. Recorded'
  BY <1>1 DEF IInv, Recorded, At, Active
<1>5. BackedUp'
  <2>1. \A q \in Paths \ todo' : backup'[q] = txn.cur
    BY <1>1, <1>2 DEF IInv, TypeOK, BackedUp
  <2> QED BY <1>1, <1>2, <2>1 DEF BackedUp
<1>6. InPlace'
  <2>1. Installed(txn.cur)'
    BY <1>1, <1>2 DEF Installed, Whole, VersionOf
  <2> QED BY <1>1, <2>1 DEF IInv, Recorded, InPlace, Running
<1>7. Verdict' /\ Chosen' /\ CandidateIsListed'
  BY <1>1 DEF IInv, Verdict, Chosen, CandidateIsListed, Active, Whole
<1> QED BY <1>3, <1>4, <1>5, <1>6, <1>7 DEF IInv

(* The backup is complete.                                                  *)
LEMMA BackupCompleteStep == ASSUME IInv, BackupComplete, UNCHANGED release PROVE IInv'
<1>1. /\ pid1 = "backup" /\ pid1' = "backed_up" /\ todo = {} /\ saved' = [marker |-> marker]
      /\ UNCHANGED <<tree, backup, txn, marker, todo, watchdog, site, listed, chosen>>
  BY DEF BackupComplete, HelperStep, DiskKeeps, release
<1>2. At("applying", "backing_up") /\ Installed(txn.cur) /\ Whole(backup, txn.cur)
  BY <1>1 DEF IInv, Recorded, BackedUp, InPlace, Whole
<1>3. saved' \in Backups /\ saved' # NoFile /\ saved'.marker = marker
  BY <1>1 DEF IInv, TypeOK, Backups
<1>4. TypeOK'
  BY <1>1, <1>3 DEF IInv, TypeOK, Helper
<1>5. Recorded'
  BY <1>1 DEF IInv, Recorded, At, Active, Waiting
<1>6. BackedUp'
  BY <1>1, <1>2, <1>3 DEF BackedUp, Installed, VersionOf, Whole, Waiting
<1>7. InPlace'
  <2>1. Installed(txn.cur)'
    BY <1>1, <1>2 DEF Installed, Whole, VersionOf
  <2> QED BY <1>1, <2>1 DEF IInv, Recorded, InPlace, Running, Waiting
<1>8. Verdict' /\ Chosen' /\ CandidateIsListed'
  BY <1>1 DEF IInv, Verdict, Chosen, CandidateIsListed, Active, Whole
<1> QED BY <1>4, <1>5, <1>6, <1>7, <1>8 DEF IInv

----------------------------------------------------------------------------
(* The replacement                                                         *)

(* A path of the tree is removed, replaced or restored: nothing is said of  *)
(* the tree meanwhile but that the paths done are those of one release.     *)
LEMMA TreeStep ==
  ASSUME IInv, NEW p \in Paths, RemovePath(p) \/ InstallPath(p) \/ RestorePath(p), UNCHANGED release
  PROVE  IInv'
<1>1. /\ pid1 \in {"install", "restore"} /\ p \in todo
      /\ UNCHANGED <<backup, saved, txn, marker, pid1, watchdog, site, listed, chosen>>
      /\ \/ tree' = [tree EXCEPT ![p] = Torn] /\ todo' = todo
         \/ pid1 = "install" /\ tree' = [tree EXCEPT ![p] = txn.target] /\ todo' = todo \ {p}
         \/ pid1 = "restore" /\ tree' = [tree EXCEPT ![p] = backup[p]] /\ todo' = todo \ {p}
  BY DEF RemovePath, InstallPath, RestorePath, DiskKeeps, release
<1>2. /\ txn \in Transactions /\ Active /\ saved # NoFile /\ watchdog = "none"
      /\ txn.status \in {"applying", "rolling_back"}
      /\ Whole(backup, txn.cur) /\ backup[p] = txn.cur
  BY <1>1 DEF IInv, TypeOK, Recorded, BackedUp, At, Active, Terminal, Whole
<1>3. TypeOK'
  <2>1. txn.target \in Versions /\ txn.cur \in Versions
    BY <1>2 DEF Transactions
  <2> QED BY <1>1, <1>2, <2>1 DEF IInv, TypeOK
<1>4. Recorded' /\ BackedUp'
  BY <1>1 DEF IInv, Recorded, BackedUp, At, Active, Whole
<1>5. InPlace'
  <2>1. pid1 = "install" => \A q \in Paths \ todo' : tree'[q] = txn.target
    BY <1>1 DEF IInv, TypeOK, InPlace
  <2>2. pid1 = "restore" => \A q \in Paths \ todo' : tree'[q] = txn.cur
    BY <1>1, <1>2 DEF IInv, TypeOK, InPlace
  <2> QED BY <1>1, <1>2, <2>1, <2>2 DEF InPlace, Running, Waiting
<1>6. Verdict' /\ Chosen' /\ CandidateIsListed'
  BY <1>1, <1>2 DEF IInv, Verdict, Chosen, CandidateIsListed, Active
<1> QED BY <1>3, <1>4, <1>5, <1>6 DEF IInv

(* The marker is written: of the release installed, or what it was before   *)
(* and then of the release restored.                                        *)
LEMMA MarkerStep ==
  ASSUME IInv, WriteMarker \/ RestoreMarker \/ WriteRollbackMarker, UNCHANGED release
  PROVE  IInv'
<1>1. /\ UNCHANGED <<tree, backup, saved, txn, todo, watchdog, site, listed, chosen>>
      /\ \/ pid1 = "marking" /\ pid1' = "clearing" /\ marker' = [version |-> txn.target, tagged |-> TRUE]
         \/ pid1 = "restore" /\ pid1' = "unmarking" /\ marker' = saved.marker /\ todo = {}
         \/ pid1 = "unmarking" /\ pid1' = "watching"
            /\ marker' = [version |-> txn.cur, tagged |-> TRUE]
  BY DEF WriteMarker, RestoreMarker, WriteRollbackMarker, HelperStep, DiskKeeps, release
<1>2. /\ txn \in Transactions /\ txn.target \in Versions /\ txn.cur \in Versions
      /\ saved \in Backups /\ saved.marker \in Markers \cup {NoFile}
      /\ VersionOf(saved.marker) = txn.cur /\ watchdog = "none" /\ Active
  <2>1. txn \in Transactions /\ saved \in Backups
    BY <1>1 DEF IInv, TypeOK, Recorded, BackedUp, At
  <2>2. txn.target \in Versions /\ txn.cur \in Versions /\ saved.marker \in Markers \cup {NoFile}
    BY <2>1 DEF Transactions, Backups
  <2> QED BY <1>1, <2>1, <2>2 DEF IInv, Recorded, BackedUp, At, Active, Terminal
<1>3. /\ marker' \in Markers \cup {NoFile}
      /\ pid1 = "marking" => marker' # NoFile /\ VersionOf(marker') = txn.target
      /\ pid1 \in {"restore", "unmarking"} => VersionOf(marker') = txn.cur
      /\ pid1 = "unmarking" => marker' # NoFile
  <2>1. ASSUME NEW v \in Versions
        PROVE  /\ [version |-> v, tagged |-> TRUE] \in Markers
               /\ [version |-> v, tagged |-> TRUE].version = v
    BY DEF Markers
  <2>2. CASE pid1 = "restore"
    BY <1>1, <1>2, <2>2
  <2>3. CASE pid1 = "marking"
    BY <1>1, <1>2, <2>1, <2>3 DEF VersionOf
  <2>4. CASE pid1 = "unmarking"
    BY <1>1, <1>2, <2>1, <2>4 DEF VersionOf
  <2> QED BY <1>1, <2>2, <2>3, <2>4
<1>4. TypeOK'
  BY <1>1, <1>3 DEF IInv, TypeOK, Helper, Recovery
<1>5. Recorded' /\ BackedUp'
  BY <1>1 DEF IInv, Recorded, BackedUp, At, Active, Whole, Waiting
<1>6. InPlace'
  <2>1. pid1 = "marking" => Installed(txn.target)'
    BY <1>1, <1>2, <1>3 DEF IInv, InPlace, Installed, Whole
  <2>2. pid1 = "restore" => Installed(txn.cur)'
    BY <1>1, <1>2, <1>3 DEF IInv, InPlace, Installed, Whole
  <2>3. pid1 = "unmarking" => Installed(txn.cur)'
    BY <1>1, <1>2, <1>3 DEF IInv, InPlace, Installed, Whole
  <2> QED BY <1>1, <1>2, <1>3, <2>1, <2>2, <2>3 DEF InPlace, Running, Waiting
<1>7. Verdict' /\ Chosen' /\ CandidateIsListed'
  BY <1>1 DEF IInv, Verdict, Chosen, CandidateIsListed, Active, Whole
<1> QED BY <1>4, <1>5, <1>6, <1>7 DEF IInv

(* The notice of the handoff is removed.                                    *)
LEMMA ClearStep == ASSUME IInv, _clear_pending, UNCHANGED release PROVE IInv'
<1>1. /\ pid1 = "clearing" /\ pid1' = "spawning"
      /\ UNCHANGED <<tree, backup, saved, txn, marker, todo, watchdog, site, listed, chosen>>
  BY DEF _clear_pending, HelperStep, DiskKeeps, release
<1>2. TypeOK'
  BY <1>1 DEF IInv, TypeOK, Helper
<1>3. Recorded' /\ BackedUp'
  BY <1>1 DEF IInv, Recorded, BackedUp, At, Active, Whole, Waiting
<1>4. InPlace'
  BY <1>1 DEF IInv, InPlace, Installed, Whole, VersionOf, Running, Waiting, Recorded, At
<1>5. Verdict' /\ Chosen' /\ CandidateIsListed'
  BY <1>1 DEF IInv, Verdict, Chosen, CandidateIsListed, Active, Whole
<1> QED BY <1>2, <1>3, <1>4, <1>5 DEF IInv

----------------------------------------------------------------------------
(* The verdict                                                             *)

(* The application of the new release, or of the one restored, is started   *)
(* and watched.                                                             *)
LEMMA StartStep == ASSUME IInv, _exec_runtime \/ WatchRollback, UNCHANGED release PROVE IInv'
<1>1. txn \in Transactions
  BY DEF IInv, TypeOK, Recorded, At, _exec_runtime, WatchRollback
<1>2. /\ UNCHANGED <<tree, backup, saved, marker, todo, site, listed, chosen>> /\ pid1' = "app"
      /\ \/ pid1 = "spawning" /\ watchdog' = "target" /\ Status("monitoring", "monitoring_target")
         \/ pid1 = "watching" /\ watchdog' = "rollback"
            /\ Status("rolling_back", "monitoring_rollback")
  BY DEF _exec_runtime, WatchRollback, run_runtime, release
<1>3. /\ txn' \in Transactions /\ txn' # NoFile
      /\ txn'.cur = txn.cur /\ txn'.target = txn.target /\ txn'.build = txn.build
      /\ \/ pid1 = "spawning" /\ watchdog' = "target" /\ txn'.status = "monitoring"
            /\ txn'.stage = "monitoring_target"
         \/ pid1 = "watching" /\ watchdog' = "rollback" /\ txn'.status = "rolling_back"
            /\ txn'.stage = "monitoring_rollback"
  <2>1. /\ "monitoring" \in Statuses /\ "rolling_back" \in Statuses
        /\ "monitoring_target" \in Stages /\ "monitoring_rollback" \in Stages
    BY DEF Statuses, Stages
  <2>2. CASE pid1 = "spawning"
    BY <1>1, <1>2, <2>1, <2>2, Written DEF Status
  <2>3. CASE pid1 = "watching"
    BY <1>1, <1>2, <2>1, <2>3, Written DEF Status
  <2> QED BY <1>2, <2>2, <2>3
<1>4. Active /\ saved # NoFile
  BY <1>3 DEF IInv, Recorded, BackedUp, At, Active, Terminal
<1>5. TypeOK'
  BY <1>2, <1>3 DEF IInv, TypeOK, Running
<1>6. Recorded'
  BY <1>2, <1>3 DEF Recorded, Active, Terminal, BeforeReplacement, Waiting
<1>7. BackedUp'
  BY <1>1, <1>2, <1>3, <1>4 DEF IInv, BackedUp, Whole, Waiting
<1>8. InPlace'
  <2>1. Installed(txn.target)' = Installed(txn.target) /\ Installed(txn.cur)' = Installed(txn.cur)
    BY <1>2, <1>3 DEF Installed, Whole, VersionOf
  <2>2. Installed(tree[Code])'
    BY <1>2, <1>3 DEF IInv, InPlace, Installed, Whole, VersionOf
  <2> QED BY <1>2, <1>3, <2>1, <2>2 DEF IInv, InPlace, Waiting
<1>9. Verdict' /\ Chosen' /\ CandidateIsListed'
  BY <1>2, <1>3, <1>4 DEF IInv, Verdict, Chosen, CandidateIsListed
<1> QED BY <1>5, <1>6, <1>7, <1>8, <1>9 DEF IInv

(* The application answers as the watchdog expects.                         *)
LEMMA HealthyStep == ASSUME IInv, WatchHealthy, UNCHANGED release PROVE IInv'
<1>1. /\ UNCHANGED <<tree, backup, saved, txn, todo, pid1, site, listed, chosen>>
      /\ marker' = [marker EXCEPT !.tagged = FALSE]
      /\ \/ watchdog = "target" /\ watchdog' = "complete"
         \/ watchdog = "rollback" /\ watchdog' = "rolled_back"
  BY DEF WatchHealthy, release
<1>2. marker \in Markers
  BY <1>1 DEF IInv, TypeOK, InPlace
<1>3. marker' \in Markers /\ marker' # NoFile /\ VersionOf(marker') = VersionOf(marker)
  BY <1>1, <1>2 DEF Markers, VersionOf
<1>4. TypeOK'
  BY <1>1, <1>3 DEF IInv, TypeOK
<1>5. Recorded' /\ BackedUp'
  BY <1>1 DEF IInv, Recorded, BackedUp, At, Active, Whole
<1>6. InPlace'
  <2>1. Installed(txn.target)' = Installed(txn.target) /\ Installed(txn.cur)' = Installed(txn.cur)
        /\ Installed(tree[Code])' = Installed(tree[Code])
    BY <1>1, <1>3 DEF Installed, Whole
  <2> QED BY <1>1, <1>3, <2>1 DEF IInv, InPlace, Active
<1>7. Verdict' /\ Chosen' /\ CandidateIsListed'
  BY <1>1 DEF IInv, Verdict, Chosen, CandidateIsListed, Active, Whole
<1> QED BY <1>4, <1>5, <1>6, <1>7 DEF IInv

(* The watchdog writes its verdict, or gives up.                            *)
LEMMA VerdictStep == ASSUME IInv, WatchComplete \/ WatchTimeout, UNCHANGED release PROVE IInv'
<1>1. /\ UNCHANGED <<tree, backup, saved, marker, todo, pid1, site, listed, chosen>>
      /\ \/ watchdog = "complete" /\ watchdog' = "none" /\ Status("completed", "completed")
         \/ watchdog = "rolled_back" /\ watchdog' = "none" /\ Status("rolled_back", "rolled_back")
         \/ watchdog = "target" /\ watchdog' = "kill"
            /\ Status("rollback_pending", "target_health_failed")
         \/ watchdog = "rollback" /\ watchdog' = "none"
            /\ Status("recovery_required", "rollback_health_failed")
  BY DEF WatchComplete, WatchTimeout, release
<1>2. txn \in Transactions /\ Active /\ pid1 = "app" /\ saved # NoFile
  BY <1>1 DEF IInv, TypeOK, Recorded, BackedUp, Active
<1>3. /\ txn' \in Transactions /\ txn' # NoFile
      /\ txn'.cur = txn.cur /\ txn'.target = txn.target /\ txn'.build = txn.build
      /\ \/ watchdog = "complete" /\ watchdog' = "none" /\ txn'.status = "completed"
         \/ watchdog = "rolled_back" /\ watchdog' = "none" /\ txn'.status = "rolled_back"
         \/ watchdog = "target" /\ watchdog' = "kill" /\ txn'.status = "rollback_pending"
            /\ txn'.stage = "target_health_failed"
         \/ watchdog = "rollback" /\ watchdog' = "none" /\ txn'.status = "recovery_required"
            /\ txn'.stage = "rollback_health_failed"
  <2>1. /\ {"completed", "rolled_back", "rollback_pending", "recovery_required"} \subseteq Statuses
        /\ {"completed", "rolled_back", "target_health_failed", "rollback_health_failed"}
              \subseteq Stages
    BY DEF Statuses, Stages, Terminal
  <2>2. ASSUME NEW s \in Statuses, NEW g \in Stages, Status(s, g)
        PROVE  /\ txn' \in Transactions /\ txn' # NoFile /\ txn'.status = s /\ txn'.stage = g
               /\ txn'.cur = txn.cur /\ txn'.target = txn.target /\ txn'.build = txn.build
    BY <1>2, <2>2, Written DEF Status
  <2> QED BY <1>1, <2>1, <2>2
<1>4. TypeOK'
  BY <1>1, <1>3 DEF IInv, TypeOK
<1>5. Recorded' /\ BackedUp'
  BY <1>1, <1>2, <1>3 DEF IInv, Recorded, BackedUp, At, Active, Whole, Terminal, Waiting,
                          BeforeReplacement
<1>6. Verdict'
  BY <1>1, <1>2, <1>3 DEF IInv, InPlace, Verdict, Installed, Whole
<1>7. InPlace'
  <2>1. Installed(txn.target)' = Installed(txn.target) /\ Installed(txn.cur)' = Installed(txn.cur)
        /\ Installed(tree[Code])' = Installed(tree[Code])
    BY <1>1, <1>3 DEF Installed, Whole, VersionOf
  <2> QED BY <1>1, <1>2, <1>3, <2>1 DEF IInv, InPlace, Running, Waiting
<1>8. Chosen' /\ CandidateIsListed'
  BY <1>1, <1>2, <1>3 DEF IInv, Chosen, CandidateIsListed
<1> QED BY <1>4, <1>5, <1>6, <1>7, <1>8 DEF IInv

----------------------------------------------------------------------------
(* Failures, and the start after them                                      *)

(* The helper raises: before the replacement the transaction has failed,    *)
(* later the next start has to restore the backup.                          *)
LEMMA HelperRaisesStep == ASSUME IInv, HelperRaises, UNCHANGED release PROVE IInv'
<1>1. /\ pid1 \in Helper /\ pid1' = "down" /\ todo' = {} /\ watchdog' = "none"
      /\ UNCHANGED <<tree, backup, saved, marker, site, listed, chosen>>
      /\ \/ txn.stage \in {"preparing_dependencies", "backing_up"}
            /\ Status("failed", "apply_failed_before_replacement")
         \/ txn.stage \notin {"preparing_dependencies", "backing_up"}
            /\ Status("recovery_required", "apply_interrupted")
  BY DEF HelperRaises, RecordFailure, Down, release
<1>2. txn \in Transactions /\ Active
  BY <1>1 DEF IInv, TypeOK, Recorded, At, Active, Helper, Terminal, Waiting
<1>3. /\ txn' \in Transactions /\ txn' # NoFile
      /\ txn'.cur = txn.cur /\ txn'.target = txn.target /\ txn'.build = txn.build
      /\ \/ txn.stage \in {"preparing_dependencies", "backing_up"} /\ txn'.status = "failed"
         \/ txn.stage \notin {"preparing_dependencies", "backing_up"}
            /\ txn'.status = "recovery_required" /\ txn'.stage = "apply_interrupted"
  <2>1. /\ "failed" \in Statuses /\ "recovery_required" \in Statuses
        /\ "apply_failed_before_replacement" \in Stages /\ "apply_interrupted" \in Stages
    BY DEF Statuses, Stages, Terminal, BeforeReplacement
  <2>2. ASSUME NEW s \in Statuses, NEW g \in Stages, Status(s, g)
        PROVE  /\ txn' \in Transactions /\ txn' # NoFile /\ txn'.status = s /\ txn'.stage = g
               /\ txn'.cur = txn.cur /\ txn'.target = txn.target /\ txn'.build = txn.build
    BY <1>2, <2>2, Written DEF Status
  <2> QED BY <1>1, <2>1, <2>2
<1>4. /\ txn.stage \in {"preparing_dependencies", "backing_up"} => Installed(txn.cur)
      /\ saved = NoFile => Installed(txn.cur)
  <2>1. \/ pid1 \in {"validate", "dependencies", "backup", "backed_up"}
           /\ Installed(txn.cur)
        \/ pid1 \in {"replacing", "install", "marking", "clearing", "spawning"}
           /\ txn.stage \in {"backup_complete", "replacing"} /\ saved # NoFile
    BY <1>1 DEF IInv, Recorded, BackedUp, InPlace, At, Helper, Waiting
  <2> QED BY <2>1
<1>5. TypeOK'
  BY <1>1, <1>3 DEF IInv, TypeOK
<1>6. Recorded' /\ BackedUp'
  BY <1>1, <1>2, <1>3 DEF IInv, Recorded, BackedUp, At, Whole, Waiting
<1>7. InPlace'
  <2>1. Installed(txn.cur)' = Installed(txn.cur) /\ (Installed(txn.cur) => Installed(tree[Code])')
    BY <1>1, <1>3 DEF Installed, Whole, VersionOf
  <2> QED BY <1>1, <1>3, <1>4, <2>1 DEF InPlace, Active, Terminal, BeforeReplacement, Running, Waiting
<1>8. Verdict' /\ Chosen' /\ CandidateIsListed'
  BY <1>1, <1>2, <1>3, <1>4 DEF IInv, Verdict, Chosen, CandidateIsListed, Installed, Whole
<1> QED BY <1>5, <1>6, <1>7, <1>8 DEF IInv

(* The restoring raises, or there is nothing to restore from.               *)
LEMMA RecoveryRaisesStep ==
  ASSUME IInv, RecoveryRaises \/ BackupIncomplete, UNCHANGED release PROVE IInv'
<1>1. /\ pid1' = "down" /\ todo' = {} /\ watchdog' = "none"
      /\ UNCHANGED <<tree, backup, saved, marker, site, listed, chosen>>
      /\ \/ pid1 \in {"restore", "unmarking", "watching"}
            /\ Status("recovery_required", "restore_failed")
         \/ pid1 = "recover" /\ Active /\ saved = NoFile
            /\ Status("recovery_required", "backup_incomplete")
  BY DEF RecoveryRaises, BackupIncomplete, Down, Recovery, release
<1>2. txn \in Transactions /\ Active
  BY <1>1 DEF IInv, TypeOK, Recorded, At, Active, Terminal
<1>3. /\ txn' \in Transactions /\ txn' # NoFile /\ txn'.status = "recovery_required"
      /\ txn'.stage \in {"restore_failed", "backup_incomplete"}
      /\ txn'.cur = txn.cur /\ txn'.target = txn.target /\ txn'.build = txn.build
  <2>1. /\ "recovery_required" \in Statuses /\ "restore_failed" \in Stages
        /\ "backup_incomplete" \in Stages
    BY DEF Statuses, Stages
  <2>2. ASSUME NEW s \in Statuses, NEW g \in Stages, Status(s, g)
        PROVE  /\ txn' \in Transactions /\ txn' # NoFile /\ txn'.status = s /\ txn'.stage = g
               /\ txn'.cur = txn.cur /\ txn'.target = txn.target /\ txn'.build = txn.build
    BY <1>2, <2>2, Written DEF Status
  <2> QED BY <1>1, <2>1, <2>2
<1>4. saved = NoFile => Installed(txn.cur)
  BY <1>1 DEF IInv, BackedUp, InPlace
<1>5. TypeOK'
  BY <1>1, <1>3 DEF IInv, TypeOK
<1>6. Recorded' /\ BackedUp'
  BY <1>1, <1>2, <1>3 DEF IInv, Recorded, BackedUp, At, Whole, Waiting
<1>7. InPlace'
  <2>1. Installed(txn.cur)' = Installed(txn.cur)
    BY <1>1, <1>3 DEF Installed, Whole, VersionOf
  <2> QED BY <1>1, <1>3, <1>4, <2>1 DEF InPlace, Active, Terminal, BeforeReplacement, Running, Waiting
<1>8. Verdict' /\ Chosen' /\ CandidateIsListed'
  BY <1>1, <1>2, <1>3 DEF IInv, Verdict, Chosen, CandidateIsListed
<1> QED BY <1>5, <1>6, <1>7, <1>8 DEF IInv

(* A transaction that was interrupted before the replacement has failed,    *)
(* and what is installed is started.                                        *)
LEMMA FailEarlierStep == ASSUME IInv, FailEarlier, UNCHANGED release PROVE IInv'
<1>1. /\ pid1 = "recover" /\ pid1' = "app" /\ Active /\ txn.stage \in BeforeReplacement
      /\ Status("failed", "interrupted_before_replacement")
      /\ UNCHANGED <<tree, backup, saved, marker, todo, watchdog, site, listed, chosen>>
  BY DEF FailEarlier, run_runtime, release
<1>2. /\ txn \in Transactions /\ Installed(txn.cur) /\ watchdog = "none"
      /\ "failed" \in Statuses /\ "interrupted_before_replacement" \in Stages
  BY <1>1 DEF IInv, TypeOK, Recorded, InPlace, Active, Statuses, Terminal, Stages
<1>3. /\ txn' \in Transactions /\ txn' # NoFile /\ txn'.status = "failed"
      /\ txn'.cur = txn.cur /\ txn'.target = txn.target /\ txn'.build = txn.build
  BY <1>1, <1>2, Written DEF Status
<1>4. TypeOK'
  BY <1>1, <1>3 DEF IInv, TypeOK, Running
<1>5. Recorded' /\ BackedUp'
  BY <1>1, <1>2, <1>3 DEF IInv, Recorded, BackedUp, At, Active, Terminal, Whole, Waiting
<1>6. InPlace'
  <2>1. Installed(tree[Code])'
    BY <1>1, <1>2 DEF Installed, Whole, VersionOf
  <2> QED BY <1>1, <1>2, <2>1 DEF InPlace, Running, Waiting
<1>7. Verdict' /\ Chosen' /\ CandidateIsListed'
  BY <1>1, <1>2, <1>3 DEF IInv, Verdict, Chosen, CandidateIsListed, Active, Terminal, Installed, Whole
<1> QED BY <1>4, <1>5, <1>6, <1>7 DEF IInv

(* The backup is going to be restored.                                      *)
LEMMA BeginRestoreStep == ASSUME IInv, BeginRestore, UNCHANGED release PROVE IInv'
<1>1. /\ pid1 = "recover" /\ pid1' = "restore" /\ Active /\ saved # NoFile /\ todo' = Paths
      /\ Status("rolling_back", "restoring_backup")
      /\ UNCHANGED <<tree, backup, saved, marker, watchdog, site, listed, chosen>>
  BY DEF BeginRestore, HelperStep, DiskKeeps, release
<1>2. /\ txn \in Transactions /\ watchdog = "none"
      /\ "rolling_back" \in Statuses /\ "restoring_backup" \in Stages
  BY <1>1 DEF IInv, TypeOK, Recorded, Active, Statuses, Stages
<1>3. /\ txn' \in Transactions /\ txn' # NoFile
      /\ txn'.status = "rolling_back" /\ txn'.stage = "restoring_backup"
      /\ txn'.cur = txn.cur /\ txn'.target = txn.target /\ txn'.build = txn.build
  BY <1>1, <1>2, Written DEF Status
<1>4. TypeOK'
  BY <1>1, <1>3 DEF IInv, TypeOK, Recovery
<1>5. Recorded' /\ BackedUp'
  BY <1>1, <1>2, <1>3 DEF IInv, Recorded, BackedUp, At, Active, Whole, Waiting
<1>6. InPlace'
  BY <1>1, <1>2 DEF InPlace, Running, Waiting
<1>7. Verdict' /\ Chosen' /\ CandidateIsListed'
  BY <1>1, <1>2, <1>3 DEF IInv, Verdict, Chosen, CandidateIsListed
<1> QED BY <1>4, <1>5, <1>6, <1>7 DEF IInv

----------------------------------------------------------------------------
(* The theorems                                                            *)

(* At the start the image is installed, and there is no transaction.        *)
LEMMA InitInvariant == Init => IInv
<1> SUFFICES ASSUME Init PROVE IInv
  OBVIOUS
<1>1. TypeOK
  <2>1. /\ tree \in [Paths -> Versions \cup {Torn}] /\ backup \in [Paths -> Versions \cup {Torn}]
        /\ listed \in [Versions -> Builds \cup {NoFile}]
    BY DEF Init
  <2> QED BY <2>1 DEF Init, TypeOK, Recovery
<1>2. Recorded /\ BackedUp /\ Verdict /\ Chosen /\ CandidateIsListed
  BY DEF Init, Recorded, BackedUp, Verdict, Chosen, CandidateIsListed, Active, Waiting
<1>3. InPlace
  BY DEF Init, InPlace, Installed, Whole, VersionOf, Active, Running, Waiting
<1> QED BY <1>1, <1>2, <1>3 DEF IInv

(* Every step keeps the invariant.                                          *)
LEMMA InvariantStep == IInv /\ [Next]_vars => IInv'
<1> SUFFICES ASSUME IInv, [Next]_vars PROVE IInv'
  OBVIOUS
<1>1. todo \subseteq Paths
  BY DEF IInv, TypeOK
<1>2. CASE ReleaseStep
  BY <1>2, ListStep, CandidateStep DEF ReleaseStep
<1>3. CASE SwitchStep /\ UNCHANGED release
  <2>1. CASE AppReady \/ exec_pending_container_update \/ InstallComplete \/ WatchdogRaises
               \/ WatchKill \/ Kill \/ Restart \/ NothingToRecover
    <3>1. /\ UNCHANGED <<files, release>> /\ todo' \subseteq Paths
          /\ \/ UNCHANGED <<pid1, todo>> /\ watchdog' \in {watchdog, "none"}
             \/ pid1' = "down" /\ watchdog' = "none"
             \/ pid1 = "down" /\ pid1' = "recover" /\ UNCHANGED watchdog
             \/ pid1 = "recover" /\ ~Active /\ pid1' = "app" /\ UNCHANGED watchdog
             \/ pid1 = "stopping" /\ pid1' = "validate" /\ UNCHANGED watchdog
             \/ pid1 = "install" /\ todo = {} /\ pid1' = "marking" /\ UNCHANGED watchdog
      BY <1>1, <1>3, <2>1 DEF AppReady, exec_pending_container_update, InstallComplete,
         WatchdogRaises, WatchKill, Kill, Restart, NothingToRecover, run_runtime, Down, HelperStep,
         DiskKeeps, files, release
    <3> QED BY <3>1, ProcessStep
  <2>2. CASE PrepareHelper \/ _write_pending_handoff \/ ValidateCandidate \/ PrepareDependencies
               \/ MarkBackup \/ MarkReplacing
    BY <1>3, <2>2, PrepareStep
  <2>3. CASE PathStep
    BY <1>3, <2>3, BackupStep, TreeStep DEF PathStep
  <2>4. CASE PrepareFails \/ BackupComplete \/ HelperRaises
    BY <1>3, <2>4, PrepareFailsStep, BackupCompleteStep, HelperRaisesStep
  <2>5. CASE WriteMarker \/ RestoreMarker \/ WriteRollbackMarker \/ _clear_pending
    BY <1>3, <2>5, MarkerStep, ClearStep
  <2>6. CASE _exec_runtime \/ WatchRollback \/ WatchHealthy \/ WatchComplete \/ WatchTimeout
    BY <1>3, <2>6, StartStep, HealthyStep, VerdictStep
  <2>7. CASE RecoveryRaises \/ BackupIncomplete \/ FailEarlier \/ BeginRestore
    BY <1>3, <2>7, RecoveryRaisesStep, FailEarlierStep, BeginRestoreStep
  <2> QED BY <1>3, <2>1, <2>2, <2>3, <2>4, <2>5, <2>6, <2>7
         DEF SwitchStep, HelperProgress, RecoveryProgress, WatchdogProgress
<1>4. CASE UNCHANGED vars
  <2>1. UNCHANGED <<files, release>> /\ UNCHANGED <<pid1, todo>> /\ watchdog' = watchdog
    BY <1>4 DEF vars, process
  <2> QED BY <1>1, <2>1, ProcessStep
<1> QED BY <1>2, <1>3, <1>4 DEF Next

(* IInv is an invariant of the switch.                                      *)
THEOREM Invariant == Spec => []IInv
<1> QED BY InitInvariant, InvariantStep, PTL DEF Spec

(* The application only ever runs from a complete tree of the release that  *)
(* the marker names, and a transaction that is over says what is true.      *)
THEOREM KnownIsInstalled == Spec => []InstalledIsKnown
<1>1. IInv => InstalledIsKnown
  <2> SUFFICES ASSUME IInv PROVE InstalledIsKnown
    OBVIOUS
  <2>1. pid1 \in Running => Installed(tree[Code])
    BY DEF IInv, InPlace
  <2> QED BY <2>1 DEF IInv, InstalledIsKnown, Verdict, Installed, VersionOf, Running
<1> QED BY Invariant, <1>1, PTL

(* While no release is complete in the tree, the next start restores the    *)
(* one before from a complete backup: wherever the container was killed.    *)
THEOREM Recoverable == Spec => []DamageIsRecoverable
<1>1. IInv => DamageIsRecoverable
  <2> SUFFICES ASSUME IInv, \A v \in Versions : ~Whole(tree, v)
               PROVE  /\ Active /\ txn.stage \notin BeforeReplacement
                      /\ saved # NoFile /\ Whole(backup, txn.cur)
    BY DEF DamageIsRecoverable
  <2>1. \A v : ~Installed(v)
    BY DEF Installed
  <2>2. \/ pid1 \in {"install", "restore", "marking"}
        \/ pid1 \in {"down", "recover"} /\ Active
    BY <2>1 DEF IInv, TypeOK, InPlace, Running, Waiting, Helper, Recovery
  <2>3. Active /\ txn.stage \notin BeforeReplacement /\ saved # NoFile
    BY <2>1, <2>2 DEF IInv, Recorded, BackedUp, InPlace, At, Active, Terminal, BeforeReplacement
  <2> QED BY <2>3 DEF IInv, BackedUp, Active
<1> QED BY Invariant, <1>1, PTL

(* What is installed is a valid archive with the digest that was listed     *)
(* when the switch was chosen.                                              *)
THEOREM ListedIsInstalled == Spec => []CandidateIsListed
<1>1. IInv => CandidateIsListed
  BY DEF IInv
<1> QED BY Invariant, <1>1, PTL

(* The only way to a transaction that the next start refuses to touch is    *)
(* that apply_transaction refuses the candidate after the handoff: the      *)
(* first conjunct of ComesBack.                                            *)
THEOREM OnlyValidationRefuses == Spec => [][~Refused /\ Refused' => pid1 = "validate"]_vars
<1>1. IInv /\ IInv' /\ [Next]_vars => [~Refused /\ Refused' => pid1 = "validate"]_vars
  <2> SUFFICES ASSUME IInv, IInv', Next, ~Refused, Refused' PROVE pid1 = "validate"
    OBVIOUS
  <2>1. pid1' \in {"down", "recover"}
    BY DEF IInv, TypeOK, Recorded, BackedUp, At, Refused, Active, Terminal, BeforeReplacement,
       Running, Waiting, Helper, Recovery
  <2>2. ~UNCHANGED <<txn, saved>>
    BY DEF Refused, Active
  <2>3. HelperRaises \/ RecoveryRaises \/ BackupIncomplete \/ BeginRestore \/ FailEarlier
    <3>1. watchdog # "none" => pid1 = "app"
      BY DEF IInv, Recorded
    <3>2. ~ReleaseStep
      BY <2>1 DEF ReleaseStep, Publish, CheckReleases, prepare_switch, _download,
         inspect_and_extract_zip, CandidateRefused, process
    <3>3. ~(AppReady \/ PrepareHelper \/ _write_pending_handoff \/ PrepareFails
            \/ exec_pending_container_update)
      BY <2>1 DEF AppReady, PrepareHelper, _write_pending_handoff, PrepareFails,
         exec_pending_container_update, process
    <3>4. ~PathStep
      BY <2>1, <2>2 DEF PathStep, BackupPath, RemovePath, InstallPath, RestorePath, DiskKeeps
    <3>5. ~HelperProgress
      BY <2>1 DEF HelperProgress, ValidateCandidate, PrepareDependencies, BackupComplete,
         MarkBackup, MarkReplacing, InstallComplete, WriteMarker, _clear_pending,
         _exec_runtime, HelperStep
    <3>6. ~WatchdogProgress /\ ~WatchdogRaises
      BY <2>1, <2>2, <3>1 DEF WatchdogProgress, WatchHealthy, WatchComplete, WatchTimeout,
         WatchKill, WatchdogRaises, files
    <3>7. ~Kill /\ ~Restart /\ ~NothingToRecover
      BY <2>2 DEF Kill, Restart, NothingToRecover, files
    <3>8. ~RestoreMarker /\ ~WriteRollbackMarker /\ ~WatchRollback
      BY <2>1 DEF RestoreMarker, WriteRollbackMarker, WatchRollback, HelperStep, run_runtime
    <3> QED BY <3>2, <3>3, <3>4, <3>5, <3>6, <3>7, <3>8 DEF Next, SwitchStep, RecoveryProgress
  <2>4. CASE HelperRaises
    <3>1. txn.stage \notin {"preparing_dependencies", "backing_up"} /\ saved = NoFile
      <4>1. saved = NoFile /\ txn \in Transactions
        BY <2>4 DEF HelperRaises, Refused, IInv, TypeOK, Recorded, At, Helper, Waiting
      <4>2. Status("failed", "apply_failed_before_replacement") => txn'.status = "failed"
        BY <4>1 DEF Status, Transactions
      <4> QED BY <2>4, <4>1, <4>2 DEF HelperRaises, RecordFailure, Refused, Active, Terminal
    <3> QED BY <2>4, <3>1 DEF HelperRaises, IInv, Recorded, BackedUp, At, Helper, Waiting
  <2>5. CASE RecoveryRaises
    BY <2>5 DEF RecoveryRaises, Recovery, IInv, BackedUp, Refused
  <2>6. CASE BackupIncomplete
    BY <2>6 DEF BackupIncomplete, Refused
  <2>7. CASE BeginRestore \/ FailEarlier
    BY <2>1, <2>7 DEF BeginRestore, FailEarlier, HelperStep, run_runtime
  <2> QED BY <2>3, <2>4, <2>5, <2>6, <2>7
<1> QED BY <1>1, Invariant, PTL DEF Spec

-----------------------------------------------------------------------------
(* The user identity registry: the tables and what the jobs make of them,    *)
(* then the calls, the jobs, their second halves and the answers, each       *)
(* keeping IdentityInv.                                                     *)

-----------------------------------------------------------------------------
(* Facts about numbers, sequences and sets                                  *)

(* A set of numbers has a least element, the one that Min gives.            *)
LEMMA MinOfSet ==
  ASSUME NEW T, T \subseteq Nat, T # {}
  PROVE  Min(T) \in T /\ \A m \in T : Min(T) <= m
<1>1. PICK x \in T : \A y \in T : ~(<<y, x>> \in OpToRel(<, Nat))
  BY NatLessThanWellFounded, WFMin
<1>2. \A y \in T : ~(y < x)
  BY <1>1 DEF OpToRel
<1>3. \A y \in T : x <= y
  BY <1>2
<1> QED BY <1>3 DEF Min

(* Every slot number that is computed is a slot, the first the primary one. *)
LEMMA SlotFacts ==
  ASSUME NEW u \in Users, NEW k \in Slots
  PROVE  Slot(u, k) \in Slots /\ Slot(u, 0) = Primary[u]
<1>1. Size \in Nat \ {0} /\ Primary[u] \in Slots
  BY IdentityAssumption
<1>2. Primary[u] \in Nat /\ k \in Nat /\ Primary[u] < Size
  BY <1>1 DEF Slots
<1>3. \A n \in Nat : n % Size \in 0 .. Size - 1
  BY <1>1
<1>4. \A n \in Nat : n < Size => n % Size = n
  BY <1>1
<1> QED BY <1>1, <1>2, <1>3, <1>4 DEF Slot, Slots

(* What a queue holds when something has been added at its end ...          *)
LEMMA Appended ==
  ASSUME NEW S, NEW s \in Seq(S), NEW e \in S
  PROVE  /\ Append(s, e) \in Seq(S) /\ Append(s, e) # <<>>
         /\ DOMAIN Append(s, e) = DOMAIN s \cup {Len(s) + 1}
         /\ Len(s) + 1 \notin DOMAIN s /\ Append(s, e)[Len(s) + 1] = e
         /\ \A i \in DOMAIN s : Append(s, e)[i] = s[i]
         /\ \A i \in DOMAIN s : i < Len(s) + 1
         /\ s # <<>> => Head(Append(s, e)) = Head(s)
OBVIOUS

(* ... and when the first is taken away.                                    *)
LEMMA TailOf ==
  ASSUME NEW S, NEW s \in Seq(S), s # <<>>
  PROVE  /\ Tail(s) \in Seq(S) /\ Head(s) \in S /\ 1 \in DOMAIN s /\ Head(s) = s[1]
         /\ \A i \in DOMAIN Tail(s) : i + 1 \in DOMAIN s /\ i + 1 # 1 /\ Tail(s)[i] = s[i + 1]
         /\ \A i, j \in DOMAIN Tail(s) : i + 1 = j + 1 => i = j
         /\ \A i \in DOMAIN Tail(s), j \in DOMAIN s :
              i + 1 < j => j - 1 \in DOMAIN Tail(s) /\ i < j - 1 /\ Tail(s)[j - 1] = s[j]
OBVIOUS

(* What a line holds when another has been put behind it                    *)
LEMMA Concatenated ==
  ASSUME NEW S, NEW s \in Seq(S), NEW t \in Seq(S)
  PROVE  /\ s \o t \in Seq(S)
         /\ \A i \in DOMAIN (s \o t) :
              \/ i \in DOMAIN s /\ (s \o t)[i] = s[i]
              \/ i \notin DOMAIN s /\ i - Len(s) \in DOMAIN t /\ (s \o t)[i] = t[i - Len(s)]
         /\ \A i, j \in DOMAIN (s \o t) : i - Len(s) = j - Len(s) => i = j
         /\ s # <<>> => s \o t # <<>> /\ Head(s \o t) = Head(s)
OBVIOUS

(* An order in which the elements of a set are put in a queue               *)
LEMMA Ordered ==
  ASSUME NEW S, IsFiniteSet(S), NEW order \in SetToSeqs(S)
  PROVE  /\ order \in Seq(S)
         /\ \A i \in DOMAIN order : order[i] \in S
         /\ \A i, j \in DOMAIN order : order[i] = order[j] => i = j
<1>1. Cardinality(S) \in Nat
  BY FS_CardinalityType
<1>2. /\ order \in [1 .. Cardinality(S) -> S]
      /\ \A i, j \in 1 .. Cardinality(S) : i # j => order[i] # order[j]
  BY DEF SetToSeqs
<1>3. DOMAIN order = 1 .. Cardinality(S)
  BY <1>2
<1>4. order \in Seq(S)
  BY <1>1, <1>2
<1> QED BY <1>2, <1>3, <1>4

(* The job of a call about a single user finds that user.                   *)
LEMMA OneUser ==
  ASSUME NEW u
  PROVE  (CHOOSE v \in {u} : TRUE) = u
OBVIOUS

-----------------------------------------------------------------------------
(* The table                                                                *)

(* What a user keeps when the table is changed for another one.             *)
SameRows(s, t, kept) == \A v \in kept : v \in Mapped(t) /\ t.rows[v] = s.rows[v]

(* The mapping of a user in a table                                         *)
LEMMA RowTypes ==
  ASSUME NEW s, IsTable(s), NEW u \in Mapped(s)
  PROVE  /\ u \in Users /\ s.rows[u] \in Rows /\ s.rows[u].id \in Slots
         /\ s.rows[u].profile \in Named /\ s.rows[u].rev \in Nat
BY DEF IsTable, IsMapping, Mapped, Rows, Named

(* A new mapping                                                            *)
LEMMA RowsOf ==
  ASSUME NEW id \in Slots, NEW n \in Named, NEW r \in Nat
  PROVE  [id |-> id, profile |-> n, rev |-> r] \in Rows
BY DEF Rows

(* A mapping with a higher revision is a mapping.                           *)
LEMMA Revised ==
  ASSUME NEW r \in Rows, NEW n \in Named
  PROVE  /\ [r EXCEPT !.profile = n, !.rev = @ + 1] \in Rows
         /\ [r EXCEPT !.profile = n, !.rev = @ + 1].id = r.id
<1> DEFINE q == r.rev + 1
<1>1. q \in Nat
  BY DEF Rows
<1> HIDE DEF q
<1>2. [r EXCEPT !.profile = n, !.rev = q] \in Rows /\ [r EXCEPT !.profile = n, !.rev = q].id = r.id
  BY <1>1 DEF Rows
<1> QED BY <1>2 DEF q

(* A mapping that gets another id                                           *)
LEMMA Renumbered ==
  ASSUME NEW r \in Rows, NEW i \in Slots
  PROVE  /\ [r EXCEPT !.id = i, !.rev = @ + 1] \in Rows
         /\ [r EXCEPT !.id = i, !.rev = @ + 1].id = i
<1> DEFINE q == r.rev + 1
<1>1. q \in Nat
  BY DEF Rows
<1> HIDE DEF q
<1>2. [r EXCEPT !.id = i, !.rev = q] \in Rows /\ [r EXCEPT !.id = i, !.rev = q].id = i
  BY <1>1 DEF Rows
<1> QED BY <1>2 DEF q

(* Tables that are put together from their three parts                      *)
LEMMA TableOf ==
  ASSUME NEW f, NEW m, NEW k, IsMapping(f), m \subseteq Bots \X Users,
         k \subseteq [inc : Users, dis : Users, id : Slots]
  PROVE  IsTable([rows |-> f, members |-> m, conflicts |-> k])
BY DEF IsTable

(* A table of mappings with one more, ...                                   *)
LEMMA PutFacts ==
  ASSUME NEW f, IsMapping(f), NEW u \in Users, NEW r \in Rows
  PROVE  /\ IsMapping(Put(f, u, r)) /\ DOMAIN Put(f, u, r) = DOMAIN f \cup {u}
         /\ Put(f, u, r)[u] = r /\ \A v \in DOMAIN f \ {u} : Put(f, u, r)[v] = f[v]
BY DEF Put, IsMapping

(* ... and with one less                                                    *)
LEMMA DropFacts ==
  ASSUME NEW f, NEW S, IsMapping(f)
  PROVE  /\ IsMapping(Drop(f, S)) /\ DOMAIN Drop(f, S) = DOMAIN f \ S
         /\ \A v \in DOMAIN f \ S : Drop(f, S)[v] = f[v]
BY DEF Drop, IsMapping, Restrict

(* A new row takes a slot nobody has; a conflict names the one who has the  *)
(* primary slot.                                                            *)
LEMMA InsertFacts ==
  ASSUME NEW s, IsTable(s), Current(s), NEW u \in Users, u \notin Mapped(s), NEW n \in Named,
         FreeOffsets(s, u) # {}
  PROVE  /\ IsTable(InsertRow(s, u, n)) /\ Current(InsertRow(s, u, n))
         /\ Mapped(InsertRow(s, u, n)) = Mapped(s) \cup {u}
         /\ SameRows(s, InsertRow(s, u, n), Mapped(s))
         /\ InsertRow(s, u, n).members = s.members
<1> DEFINE k == Min(FreeOffsets(s, u))
           row == [id |-> Slot(u, k), profile |-> n, rev |-> 1]
           v == CHOOSE x \in Owners(s, Primary[u]) : TRUE
           conflict == [inc |-> v, dis |-> u, id |-> row.id]
           new == IF k = 0 THEN {} ELSE {conflict}
           t == InsertRow(s, u, n)
<1>1. FreeOffsets(s, u) \subseteq Nat
  BY IdentityAssumption DEF FreeOffsets, Slots
<1>2. k \in FreeOffsets(s, u) /\ \A m \in FreeOffsets(s, u) : k <= m
  <2> HIDE DEF k
  <2> QED BY <1>1, MinOfSet DEF k
<1>3. k \in Slots /\ Owners(s, Slot(u, k)) = {}
  BY <1>2 DEF FreeOffsets
<1>4. Slot(u, k) \in Slots /\ Slot(u, 0) = Primary[u]
  BY <1>3, SlotFacts
<1>5. row \in Rows /\ row.id = Slot(u, k)
  BY <1>4 DEF Rows
<1>6. 0 \in Slots
  BY IdentityAssumption DEF Slots
<1>7. k # 0 => v \in Owners(s, Primary[u])
  <2> SUFFICES ASSUME k # 0 PROVE Owners(s, Primary[u]) # {}
    OBVIOUS
  <2>1. k \in Nat
    BY <1>1, <1>2
  <2>2. 0 \notin FreeOffsets(s, u)
    <3> HIDE DEF k
    <3> QED BY <2>1, <1>2
  <2> QED BY <2>2, <1>4, <1>6 DEF FreeOffsets
<1>8. t = [s EXCEPT !.rows = Put(s.rows, u, row), !.conflicts = @ \cup new]
  BY DEF InsertRow
<1> HIDE DEF t, row, v, k
<1>9. s = [rows |-> s.rows, members |-> s.members, conflicts |-> s.conflicts]
  BY DEF IsTable
<1>10. t = [rows |-> Put(s.rows, u, row), members |-> s.members, conflicts |-> s.conflicts \cup new]
  BY <1>8, <1>9
<1>11. /\ IsMapping(Put(s.rows, u, row)) /\ DOMAIN Put(s.rows, u, row) = Mapped(s) \cup {u}
       /\ Put(s.rows, u, row)[u] = row /\ \A w \in Mapped(s) : Put(s.rows, u, row)[w] = s.rows[w]
  <2>1. IsMapping(s.rows) /\ Mapped(s) = DOMAIN s.rows
    BY DEF IsTable, Mapped
  <2>2. IsMapping(s.rows) /\ row \in Rows /\ u \in Users /\ u \notin DOMAIN s.rows
    BY <2>1, <1>5
  <2> QED BY PutFacts, <2>1, <2>2
<1>12. /\ Mapped(t) = Mapped(s) \cup {u} /\ t.rows[u] = row /\ \A w \in Mapped(s) : t.rows[w] = s.rows[w]
       /\ t.members = s.members /\ t.conflicts = s.conflicts \cup new /\ IsMapping(t.rows)
  BY <1>10, <1>11 DEF Mapped
<1>13. k # 0 => v \in Mapped(s) /\ v \in Users
  BY <1>7, RowTypes DEF Owners
<1>14. new \subseteq [inc : Users, dis : Users, id : Slots]
  BY <1>13, <1>5, <1>4
<1>15. IsTable(t)
  BY <1>10, <1>12, <1>14 DEF IsTable
<1>16. \A w \in Mapped(s) : s.rows[w].id # row.id
  BY <1>3, <1>5 DEF Owners
<1>17. Current(t)
  <2>1. \A x, y \in Mapped(t) : t.rows[x].id = t.rows[y].id => x = y
    BY <1>12, <1>16 DEF Current
  <2>2. \A c \in t.conflicts : /\ c.inc \in Mapped(t) /\ c.dis \in Mapped(t) /\ c.inc # c.dis
                               /\ t.rows[c.dis].id = c.id
    <3> SUFFICES ASSUME NEW c \in t.conflicts
                 PROVE  /\ c.inc \in Mapped(t) /\ c.dis \in Mapped(t) /\ c.inc # c.dis
                        /\ t.rows[c.dis].id = c.id
      OBVIOUS
    <3>1. CASE c \in s.conflicts
      BY <3>1, <1>12 DEF Current
    <3>2. CASE c \in new
      <4>1. k # 0 /\ c.inc = v /\ c.dis = u /\ c.id = row.id
        BY <3>2
      <4> QED BY <4>1, <1>12, <1>13
    <3> QED BY <3>1, <3>2, <1>12
  <2>3. \A m \in t.members : m[2] \in Mapped(t)
    BY <1>12 DEF Current
  <2> QED BY <2>1, <2>2, <2>3 DEF Current
<1> QED BY <1>12, <1>15, <1>17 DEF SameRows, t

(* A new profile leaves the ids alone.                                      *)
LEMMA UpdateFacts ==
  ASSUME NEW s, IsTable(s), Current(s), NEW u \in Mapped(s), NEW n \in Named
  PROVE  /\ IsTable(UpdateRow(s, u, n)) /\ Current(UpdateRow(s, u, n))
         /\ Mapped(UpdateRow(s, u, n)) = Mapped(s)
         /\ SameRows(s, UpdateRow(s, u, n), Mapped(s) \ {u})
         /\ n = None => UpdateRow(s, u, n) = s
         /\ UpdateRow(s, u, n).members = s.members
<1>1. CASE n \in {None, s.rows[u].profile}
  BY <1>1 DEF UpdateRow, SameRows
<1>2. CASE n \notin {None, s.rows[u].profile}
  <2> DEFINE row == [s.rows[u] EXCEPT !.profile = n, !.rev = @ + 1]
             t == UpdateRow(s, u, n)
  <2>1. s = [rows |-> s.rows, members |-> s.members, conflicts |-> s.conflicts]
    BY DEF IsTable
  <2>2. row \in Rows /\ row.id = s.rows[u].id
    BY RowTypes, Revised
  <2>3. t = [rows |-> [s.rows EXCEPT ![u] = row], members |-> s.members, conflicts |-> s.conflicts]
    BY <1>2, <2>1 DEF UpdateRow
  <2> HIDE DEF row, t
  <2>4. /\ Mapped(t) = Mapped(s) /\ t.rows[u] = row /\ \A w \in Mapped(s) \ {u} : t.rows[w] = s.rows[w]
        /\ t.members = s.members /\ t.conflicts = s.conflicts
    BY <2>3 DEF Mapped
  <2>5. IsMapping(t.rows)
    BY <2>2, <2>3 DEF IsMapping, IsTable
  <2>6. IsTable(t)
    BY <2>3, <2>4, <2>5 DEF IsTable
  <2>7. \A w \in Mapped(s) : t.rows[w].id = s.rows[w].id
    BY <2>2, <2>4
  <2>8. Current(t)
    BY <2>4, <2>7 DEF Current
  <2> QED BY <1>2, <2>4, <2>6, <2>8 DEF SameRows, t
<1> QED BY <1>1, <1>2

Ensured(s, b, u, n, t) ==
  /\ IsTable(t) /\ Current(t) /\ Mapped(t) = Mapped(s) \cup {u}
  /\ SameRows(s, t, Mapped(s) \ {u}) /\ (n = None => SameRows(s, t, Mapped(s)))
  /\ t.members = s.members \cup {<<b, u>>}

(* ensure_mapping in the database: the user is mapped, and in the bot's     *)
(* list.                                                                    *)
LEMMA EnsureFacts ==
  ASSUME NEW s, IsTable(s), Current(s), NEW b \in Bots, NEW u \in Users, NEW n \in Named,
         u \in Mapped(s) \/ FreeOffsets(s, u) # {}
  PROVE  Ensured(s, b, u, n, EnsureRow(s, b, u, n))
<1> DEFINE t == IF u \in Mapped(s) THEN UpdateRow(s, u, n) ELSE InsertRow(s, u, n)
           e == EnsureRow(s, b, u, n)
<1>1. /\ IsTable(t) /\ Current(t) /\ Mapped(t) = Mapped(s) \cup {u}
      /\ SameRows(s, t, Mapped(s) \ {u}) /\ t.members = s.members
      /\ n = None => SameRows(s, t, Mapped(s))
  <2>1. CASE u \in Mapped(s)
    BY <2>1, UpdateFacts DEF SameRows
  <2>2. CASE u \notin Mapped(s)
    BY <2>2, InsertFacts DEF SameRows
  <2> QED BY <2>1, <2>2
<1>2. e = [t EXCEPT !.members = @ \cup {<<b, u>>}]
  BY DEF EnsureRow
<1> HIDE DEF t, e
<1>3. t = [rows |-> t.rows, members |-> t.members, conflicts |-> t.conflicts]
  BY <1>1 DEF IsTable
<1>4. e = [rows |-> t.rows, members |-> t.members \cup {<<b, u>>}, conflicts |-> t.conflicts]
  BY <1>2, <1>3
<1>5. /\ e.rows = t.rows /\ e.members = t.members \cup {<<b, u>>} /\ e.conflicts = t.conflicts
      /\ Mapped(e) = Mapped(t)
  BY <1>4 DEF Mapped
<1>6. IsTable(e)
  BY <1>1, <1>4, <1>5 DEF IsTable
<1>7. Current(e)
  BY <1>1, <1>5 DEF Current
<1> QED BY <1>1, <1>5, <1>6, <1>7 DEF SameRows, e, Ensured

(* The tables that the other jobs commit                                    *)
WithMembers(s, M) == [s EXCEPT !.members = @ \cup M]
Deleted(s, u) ==
  [rows |-> Drop(s.rows, {u}), members |-> {m \in s.members : m[2] # u},
   conflicts |-> {k \in s.conflicts : u \notin {k.inc, k.dis}}]

(* Entering mapped users for a bot                                          *)
LEMMA MemberFacts ==
  ASSUME NEW s, IsTable(s), Current(s), NEW M, M \subseteq Bots \X Users,
         \A m \in M : m[2] \in Mapped(s),
         NEW t, t = WithMembers(s, M)
  PROVE  /\ IsTable(t) /\ Current(t) /\ t.rows = s.rows /\ t.members = s.members \cup M
<1>1. s = [rows |-> s.rows, members |-> s.members, conflicts |-> s.conflicts]
  BY DEF IsTable
<1>2. t = [rows |-> s.rows, members |-> s.members \cup M, conflicts |-> s.conflicts]
  BY <1>1 DEF WithMembers
<1>3. t.rows = s.rows /\ t.members = s.members \cup M /\ t.conflicts = s.conflicts /\ Mapped(t) = Mapped(s)
  BY <1>2 DEF Mapped
<1>4. IsTable(t)
  BY <1>2, <1>3 DEF IsTable
<1>5. Current(t)
  <2>1. \A m \in t.members : m[2] \in Mapped(t)
    BY <1>3 DEF Current
  <2>2. /\ \A u, v \in Mapped(t) : t.rows[u].id = t.rows[v].id => u = v
        /\ \A k \in t.conflicts : /\ k.inc \in Mapped(t) /\ k.dis \in Mapped(t) /\ k.inc # k.dis
                                  /\ t.rows[k.dis].id = k.id
    BY <1>3 DEF Current
  <2> QED BY <2>1, <2>2 DEF Current
<1> QED BY <1>3, <1>4, <1>5

Replaced(s, u, r, C) ==
  [rows |-> [s.rows EXCEPT ![u] = r], members |-> s.members, conflicts |-> C]

(* A table in which one mapping is replaced                                 *)
LEMMA RowReplaced ==
  ASSUME NEW s, IsTable(s), NEW u \in Mapped(s), NEW r \in Rows, NEW C, NEW t, t = Replaced(s, u, r, C)
  PROVE  /\ Mapped(t) = Mapped(s) /\ t.rows[u] = r /\ \A w \in Mapped(s) \ {u} : t.rows[w] = s.rows[w]
         /\ t.members = s.members /\ t.conflicts = C /\ IsMapping(t.rows)
         /\ t = [rows |-> t.rows, members |-> t.members, conflicts |-> t.conflicts]
<1>1. t.rows = [s.rows EXCEPT ![u] = r] /\ t.members = s.members /\ t.conflicts = C
  BY DEF Replaced
<1>2. DOMAIN s.rows \subseteq Users /\ s.rows \in [DOMAIN s.rows -> Rows]
  BY DEF IsTable, IsMapping
<1>3. IsMapping(t.rows)
  BY <1>1, <1>2 DEF IsMapping
<1>4. t = [rows |-> t.rows, members |-> t.members, conflicts |-> t.conflicts]
  BY DEF Replaced
<1> QED BY <1>1, <1>3, <1>4 DEF Mapped

(* override_user_id: the id is free of any other user, so ids stay unique,  *)
(* and the new conflicts name mapped users.                                 *)
LEMMA OverrideFacts ==
  ASSUME NEW s, IsTable(s), Current(s), NEW u \in Mapped(s), NEW i \in Slots, Owners(s, i) \ {u} = {},
         NEW t, t = Overridden(s, u, i)
  PROVE  /\ IsTable(t) /\ Current(t) /\ Mapped(t) = Mapped(s)
         /\ SameRows(s, t, Mapped(s) \ {u}) /\ t.members = s.members
<1> DEFINE row == [s.rows[u] EXCEPT !.id = i, !.rev = @ + 1]
           rivals == {w \in Mapped(s) \ {u} : Primary[w] = i}
           old == {k \in s.conflicts : k.dis # u}
           new == {[inc |-> v, dis |-> u, id |-> i] : v \in rivals}
<1>1. s = [rows |-> s.rows, members |-> s.members, conflicts |-> s.conflicts]
  BY DEF IsTable
<1>2. row \in Rows /\ row.id = i
  BY RowTypes, Renumbered
<1>3. t = [rows |-> [s.rows EXCEPT ![u] = row], members |-> s.members, conflicts |-> old \cup new]
  BY <1>1 DEF Overridden
<1>4. /\ Mapped(t) = Mapped(s) /\ t.rows[u] = row /\ \A w \in Mapped(s) \ {u} : t.rows[w] = s.rows[w]
      /\ t.members = s.members /\ t.conflicts = old \cup new /\ IsMapping(t.rows)
      /\ t = [rows |-> t.rows, members |-> t.members, conflicts |-> t.conflicts]
  <2> DEFINE all == old \cup new
  <2>1. t = Replaced(s, u, row, all)
    BY <1>3 DEF Replaced
  <2> HIDE DEF all, row
  <2>2. /\ Mapped(t) = Mapped(s) /\ t.rows[u] = row /\ \A w \in Mapped(s) \ {u} : t.rows[w] = s.rows[w]
        /\ t.members = s.members /\ t.conflicts = all /\ IsMapping(t.rows)
        /\ t = [rows |-> t.rows, members |-> t.members, conflicts |-> t.conflicts]
    BY <1>2, <2>1, RowReplaced
  <2> QED BY <2>2 DEF all
<1> HIDE DEF row
<1>6. \A k \in new : k.inc \in Mapped(s) \ {u} /\ k.dis = u /\ k.id = i /\ k \in [inc : Users, dis : Users, id : Slots]
  BY RowTypes
<1>7. \A k \in old : k \in s.conflicts /\ k.dis # u
  OBVIOUS
<1> HIDE DEF old, new
<1>8. IsTable(t)
  <2>1. t.conflicts \subseteq [inc : Users, dis : Users, id : Slots]
    BY <1>4, <1>6, <1>7 DEF IsTable
  <2>2. t.members \subseteq Bots \X Users
    BY <1>4 DEF IsTable
  <2> QED BY <1>4, <2>1, <2>2 DEF IsTable
<1>9. Current(t)
  <2>1. \A x, y \in Mapped(t) : t.rows[x].id = t.rows[y].id => x = y
    BY <1>2, <1>4 DEF Current, Owners
  <2>2. \A k \in t.conflicts : /\ k.inc \in Mapped(t) /\ k.dis \in Mapped(t) /\ k.inc # k.dis
                               /\ t.rows[k.dis].id = k.id
    <3> SUFFICES ASSUME NEW k \in t.conflicts
                 PROVE  /\ k.inc \in Mapped(t) /\ k.dis \in Mapped(t) /\ k.inc # k.dis
                        /\ t.rows[k.dis].id = k.id
      OBVIOUS
    <3>1. CASE k \in old
      BY <3>1, <1>4, <1>7 DEF Current
    <3>2. CASE k \in new
      BY <3>2, <1>2, <1>4, <1>6
    <3> QED BY <3>1, <3>2, <1>4
  <2>3. \A m \in t.members : m[2] \in Mapped(t)
    BY <1>4 DEF Current
  <2> QED BY <2>1, <2>2, <2>3 DEF Current
<1> QED BY <1>4, <1>8, <1>9 DEF SameRows

(* delete_user: with the mapping go its list entries and every conflict     *)
(* that names it.                                                           *)
LEMMA DeleteFacts ==
  ASSUME NEW s, IsTable(s), Current(s), NEW u \in Users,
         NEW t, t = Deleted(s, u)
  PROVE  /\ IsTable(t) /\ Current(t) /\ SameRows(s, t, Mapped(s) \ {u})
         /\ \A m \in s.members : m[2] # u => m \in t.members
<1>1. /\ IsMapping(t.rows) /\ Mapped(t) = Mapped(s) \ {u}
      /\ \A v \in Mapped(s) \ {u} : t.rows[v] = s.rows[v]
  <2>1. t.rows = Drop(s.rows, {u}) /\ IsMapping(s.rows)
    BY DEF IsTable, Deleted
  <2>2. /\ IsMapping(Drop(s.rows, {u})) /\ DOMAIN Drop(s.rows, {u}) = DOMAIN s.rows \ {u}
        /\ \A v \in DOMAIN s.rows \ {u} : Drop(s.rows, {u})[v] = s.rows[v]
    BY <2>1, DropFacts
  <2> QED BY <2>1, <2>2 DEF Mapped
<1>2. /\ \A m \in t.members : m \in s.members /\ m[2] # u
      /\ \A m \in s.members : m[2] # u => m \in t.members
      /\ \A k \in t.conflicts : k \in s.conflicts /\ k.inc # u /\ k.dis # u
      /\ t = [rows |-> t.rows, members |-> t.members, conflicts |-> t.conflicts]
  BY DEF Deleted
<1>3. IsTable(t)
  <2>1. t.members \subseteq Bots \X Users /\ t.conflicts \subseteq [inc : Users, dis : Users, id : Slots]
    BY <1>2 DEF IsTable
  <2> QED BY <1>1, <1>2, <2>1 DEF IsTable
<1>4. Current(t)
  <2>1. \A x, y \in Mapped(t) : t.rows[x].id = t.rows[y].id => x = y
    BY <1>1 DEF Current
  <2>2. \A k \in t.conflicts : /\ k.inc \in Mapped(t) /\ k.dis \in Mapped(t) /\ k.inc # k.dis
                               /\ t.rows[k.dis].id = k.id
    BY <1>1, <1>2 DEF Current
  <2>3. \A m \in t.members : m[2] \in Mapped(t)
    BY <1>1, <1>2 DEF Current
  <2> QED BY <2>1, <2>2, <2>3 DEF Current
<1> QED BY <1>1, <1>2, <1>3, <1>4 DEF SameRows

-----------------------------------------------------------------------------
(* What a call is told                                                      *)

(* What a caller is told is a user, an id or nothing.                       *)
LEMMA ValueType ==
  ASSUME NEW s, IsTable(s), NEW w
  PROVE  Value(s, w) \in Outcomes
<1>1. CASE w.op = "find"
  <2>1. \A v \in Owners(s, w.arg) : v \in Users
    BY RowTypes DEF Owners
  <2> QED BY <1>1, <2>1 DEF Value, Outcomes
<1>2. CASE w.op \in {"ensure", "get"}
  BY <1>2, RowTypes DEF Value, Outcomes
<1>3. CASE w.op # "find" /\ w.op \notin {"ensure", "get"}
  BY <1>3 DEF Value, Outcomes
<1> QED BY <1>1, <1>2, <1>3

(* It depends on the rows only, ...                                         *)
LEMMA ValueOfRows ==
  ASSUME NEW s, NEW t, s.rows = t.rows, NEW w
  PROVE  Value(s, w) = Value(t, w)
BY DEF Value, Owners, Mapped

(* ... and not on the bot that asks.                                        *)
LEMMA SameQuestion ==
  ASSUME NEW a \in Whats, NEW b \in Whats, SameKey(a, b)
  PROVE  /\ a.op = b.op /\ a.users = b.users /\ a.arg = b.arg
         /\ \A s : Value(s, a) = Value(s, b)
<1>1. /\ [a EXCEPT !.bot = None].op = a.op /\ [a EXCEPT !.bot = None].users = a.users
      /\ [a EXCEPT !.bot = None].arg = a.arg
  BY DEF Whats
<1>2. /\ [b EXCEPT !.bot = None].op = b.op /\ [b EXCEPT !.bot = None].users = b.users
      /\ [b EXCEPT !.bot = None].arg = b.arg
  BY DEF Whats
<1>3. a.op = b.op /\ a.users = b.users /\ a.arg = b.arg
  BY <1>1, <1>2 DEF SameKey
<1> QED BY <1>3 DEF Value

(* What is told of a user is the id of its mapping.                         *)
LEMMA ValueOfUser ==
  ASSUME NEW s, NEW w, w.op \in {"ensure", "get"}, NEW u \in Mapped(s), w.users = {u}
  PROVE  Value(s, w) = s.rows[u].id
<1>1. (CHOOSE v \in w.users : TRUE) = u
  BY OneUser
<1>2. w.op # "find"
  OBVIOUS
<1> QED BY <1>1, <1>2 DEF Value

(* What is told of an id is the user that has it.                           *)
LEMMA ValueOfId ==
  ASSUME NEW s, Current(s), NEW w, w.op = "find", NEW u \in Mapped(s), s.rows[u].id = w.arg
  PROVE  Value(s, w) = u
<1>1. u \in Owners(s, w.arg)
  BY DEF Owners
<1>2. \A v \in Owners(s, w.arg) : v = u
  BY DEF Owners, Current
<1> QED BY <1>1, <1>2 DEF Value

(* Every table that was ever committed is one in which ids are unique.      *)
LEMMA TablesAreTables ==
  ASSUME IdentityTypeOK, TablesCurrent
  PROVE  \A s \in past \cup {store} : IsTable(s) /\ Current(s)
BY DEF IdentityTypeOK, TablesCurrent

(* What the loop is told of                                                 *)
LoopEntries == [kind : {"task", "cleanup", "wake"}, caller : Callers, value : Outcomes \cup {Error}]

(* Who has a job in one of the lines is waiting for it; a flight can be     *)
(* joined until its removal has run.                                        *)
LEMMA InLine ==
  ASSUME IdentityTypeOK, Lines
  PROVE  /\ \A j \in DOMAIN queue : /\ queue[j] \in Callers /\ pc[queue[j]] # "idle"
                                    /\ joined[queue[j]] = queue[j]
         /\ \A k \in DOMAIN loop : /\ loop[k].caller \in Callers /\ pc[loop[k].caller] # "idle"
                                   /\ joined[loop[k].caller] = loop[k].caller
                                   /\ loop[k].value \in Outcomes \cup {Error}
                                   /\ loop[k].kind \in {"task", "cleanup", "wake"}
                                   /\ loop[k].kind # "wake" <=> loop[k].caller \in inflight
         /\ queue # <<>> => Head(queue) \in Callers /\ Head(queue) = queue[1] /\ 1 \in DOMAIN queue
         /\ loop # <<>> => Head(loop) = loop[1] /\ 1 \in DOMAIN loop
<1>1. queue \in Seq(Callers) /\ loop \in Seq(LoopEntries)
  BY DEF IdentityTypeOK, LoopEntries
<1>2. \A j \in DOMAIN queue : queue[j] \in Callers
  BY <1>1
<1>3. \A k \in DOMAIN loop : loop[k] \in LoopEntries
  BY <1>1
<1>4. queue # <<>> => Head(queue) \in Callers /\ Head(queue) = queue[1] /\ 1 \in DOMAIN queue
  BY <1>1, TailOf
<1>5. loop # <<>> => Head(loop) = loop[1] /\ 1 \in DOMAIN loop
  BY <1>1, TailOf
<1>6. /\ \A j \in DOMAIN queue : Submitted(queue[j])
      /\ \A k \in DOMAIN loop : /\ Submitted(loop[k].caller)
                                /\ loop[k].kind # "wake" <=> loop[k].caller \in inflight
  BY DEF Lines
<1>7. \A k \in DOMAIN loop : /\ loop[k].caller \in Callers /\ loop[k].value \in Outcomes \cup {Error}
                             /\ loop[k].kind \in {"task", "cleanup", "wake"}
  BY <1>3 DEF LoopEntries
<1> QED BY <1>2, <1>4, <1>5, <1>6, <1>7 DEF Submitted

(* What the fields of a caller are, and that a caller who joined another    *)
(* asked for the same.                                                      *)
LEMMA CallerFacts ==
  ASSUME IdentityTypeOK, Lines, NEW c \in Callers
  PROVE  /\ call[c] \in Whats /\ Proper(call[c]) /\ pc[c] \in {"idle", "waiting", "touching"}
         /\ joined[c] \in Callers /\ valid[c] \subseteq Outcomes /\ excused[c] \subseteq Outcomes
         /\ pc[c] = "touching" => /\ call[c].op = "ensure" /\ joined[c] = c /\ c \notin inflight
                                  /\ value[c] \in valid[c] \cup excused[c]
         /\ pc[c] = "waiting" => /\ pc[joined[c]] = "waiting" /\ joined[joined[c]] = joined[c]
                                 /\ SameKey(call[c], call[joined[c]])
                                 /\ joined[c] = c \/ joined[c] \in inflight
         /\ pc[c] # "idle" => call[c].op # "none" /\ Value(store, call[c]) \in valid[c]
         /\ c \in inflight => /\ pc[c] = "waiting" /\ joined[c] = c
                              /\ call[c].op \in {"ensure", "get", "find"}
<1>1. Asked(c)
  BY DEF Lines
<1>2. /\ call[c] \in Whats /\ pc[c] \in {"idle", "waiting", "touching"}
      /\ joined[c] \in Callers /\ valid[c] \subseteq Outcomes /\ excused[c] \subseteq Outcomes
  BY DEF IdentityTypeOK
<1> QED BY <1>1, <1>2 DEF Asked

LEMMA Reading ==
  ASSUME Working, thread.todo = "read", NEW h, h = Head(queue)
  PROVE  call[h].op = "find" /\ pc[h] = "waiting" /\ \E u \in Users : ReadsUser(h, u)
<1>1. call[Head(queue)].op = "find" /\ pc[Head(queue)] = "waiting" /\ \E u \in Users : ReadsUser(Head(queue), u)
  BY ONLY Working, thread.todo = "read" DEF Working
<1> QED BY ONLY <1>1, h = Head(queue)

(* Steps that change what is told and nothing else                          *)
LEMMA TellStep ==
  ASSUME IdentityInv, NEW c \in Callers, Begin(c), NEW what, NEW v, NEW besides, Tell(what, v, besides),
         v # Error /\ what.op \in {"ensure", "get", "find"} => v \in Values(what) \cup besides,
         v # Error /\ what.op = "ensure" =>
           \/ {<<what.bot, u>> : u \in what.users} \subseteq store.members
           \/ \E d \in Callers : pc[d] = "waiting" /\ call[d].op = "delete"
  PROVE  IdentityInv'
<1>1. /\ UNCHANGED <<store, draft, byUser, byId, seen, thread, loop, past, value, queue, call, pc, joined>>
      /\ UNCHANGED <<valid, excused, inflight>>
  BY DEF Begin, Tell, caches, tasks
<1>2. told' = {Answer(what, v, Values(what), besides)} /\ calls' = calls + 1
  BY DEF Begin, Tell
<1>3. IdentityTypeOK'
  BY <1>1, <1>2 DEF IdentityInv, IdentityTypeOK
<1>4. TablesCurrent'
  BY <1>1 DEF IdentityInv, TablesCurrent
<1>5. Lines'
  <2>1. \A d \in Callers : Asked(d)'
    BY <1>1 DEF IdentityInv, Lines, Asked
  <2>2. \A d \in Callers : Submitted(d)' = Submitted(d)
    BY <1>1 DEF Submitted
  <2> QED BY <1>1, <2>1, <2>2, InLine DEF IdentityInv, Lines
<1>10. \A d \in Callers : Resumed(d)' = Resumed(d)
  BY <1>1 DEF Resumed
<1>6. Working'
  <2>1. Working /\ (queue # <<>> => Head(queue) \in Callers)
    BY InLine DEF IdentityInv
  <2>2. queue # <<>> => Resumed(Head(queue))' = Resumed(Head(queue))
    BY <1>1, <1>10, <2>1
  <2>3. queue # <<>> => \A u \in Users : ReadsUser(Head(queue), u)' <=> ReadsUser(Head(queue), u)
    BY <1>1, <2>1, <2>2 DEF ReadsUser
  <2>4. queue # <<>> => Remembers(call[Head(queue)], Head(queue))' = Remembers(call[Head(queue)], Head(queue))
    BY <1>1 DEF Remembers
  <2> QED BY <1>1, <2>1, <2>3, <2>4 DEF Working
<1>7. Cached'
  BY <1>1 DEF IdentityInv, Cached, Unsettled, Mapped
<1>8. \A k \in DOMAIN loop' : Heard(k)'
  <2>1. \A k \in DOMAIN loop : DeletedAfter(k)' = DeletedAfter(k)
    BY <1>1 DEF DeletedAfter
  <2> QED BY <1>1, <2>1, <1>10, InLine DEF IdentityInv, Heard
<1>9. ToldIsCurrent'
  <2> SUFFICES ASSUME NEW t \in told', t.value # Error
               PROVE  /\ t.call.op \in {"ensure", "get", "find"} => t.value \in t.valid \cup t.excused
                      /\ t.call.op = "ensure" =>
                           \/ {<<t.call.bot, u>> : u \in t.call.users} \subseteq store'.members
                           \/ \E d \in Callers : pc'[d] = "waiting" /\ call'[d].op = "delete"
    BY DEF ToldIsCurrent
  <2>1. t.call = what /\ t.value = v /\ t.valid = Values(what) /\ t.excused = besides
    BY <1>2 DEF Answer
  <2> QED BY <1>1, <2>1
<1> QED BY <1>3, <1>4, <1>5, <1>6, <1>7, <1>8, <1>9 DEF IdentityInv

(* An answer from the caches                                                *)
LEMMA HitStep ==
  ASSUME IdentityInv, NEW c \in Callers, Begin(c), NEW what, NEW v, Hit(what, v),
         what.op \in {"ensure", "get", "find"} => v \in Values(what),
         what.op = "ensure" =>
           \/ {<<what.bot, u>> : u \in what.users} \subseteq store.members
           \/ \E d \in Callers : pc[d] = "waiting" /\ call[d].op = "delete"
  PROVE  IdentityInv'
<1>1. Tell(what, v, {})
  BY DEF Hit
<1> QED BY <1>1, TellStep

(* A caller enters the lines: with a job or a flight of its own, or for a   *)
(* flight whose task is not yet completed. It waits, or it has been given   *)
(* the id by a flight that has landed and has its bot entered.              *)
Entering(c, what, leader, besides, stage) ==
  /\ Begin(c) /\ Asks(c, what, besides) /\ besides \subseteq Outcomes
  /\ pc' = [pc EXCEPT ![c] = stage] /\ joined' = [joined EXCEPT ![c] = leader]
  /\ value' \in [Callers -> Outcomes \cup {Error}]
  /\ \A d \in Callers \ {c} : value'[d] = value[d]
  /\ \/ /\ leader = c /\ queue' = Append(queue, c) /\ inflight' \in {inflight, inflight \cup {c}}
        /\ c \in inflight' => stage = "waiting" /\ what.op \in {"ensure", "get", "find"}
     \/ /\ leader \in Flights(what) /\ Landed(leader) = {} /\ besides = excused[leader]
        /\ stage = "waiting" /\ UNCHANGED <<queue, inflight>>
  /\ stage \in {"waiting", "touching"}
  /\ stage = "touching" => what.op = "ensure" /\ value'[c] \in besides \cup Values(what)

LEMMA CallStep ==
  ASSUME IdentityInv, NEW c \in Callers, NEW what \in Whats, Proper(what), what.op # "none",
         NEW leader, NEW besides, NEW stage, Entering(c, what, leader, besides, stage)
  PROVE  IdentityInv'
<1>1. /\ UNCHANGED <<store, draft, byUser, byId, seen, thread, loop, past>>
      /\ pc[c] = "idle" /\ calls' = calls + 1 /\ told' = {}
  BY DEF Entering, Begin, Asks, caches
<1>2. /\ IdentityTypeOK /\ TablesCurrent /\ Lines /\ Working /\ Cached
      /\ \A k \in DOMAIN loop : Heard(k)
  BY DEF IdentityInv
<1>3. /\ call \in [Callers -> Whats] /\ pc \in [Callers -> {"idle", "waiting", "touching"}]
      /\ joined \in [Callers -> Callers] /\ valid \in [Callers -> SUBSET Outcomes]
      /\ excused \in [Callers -> SUBSET Outcomes]
      /\ queue \in Seq(Callers) /\ inflight \subseteq Callers
  BY <1>2 DEF IdentityTypeOK
<1>18. c \notin inflight
  BY <1>1, <1>2, CallerFacts
<1>8. leader # c => /\ leader \in inflight /\ SameKey(call[leader], what) /\ Landed(leader) = {}
                    /\ besides = excused[leader] /\ stage = "waiting" /\ UNCHANGED <<queue, inflight>>
                    /\ leader \in Callers /\ pc[leader] = "waiting" /\ joined[leader] = leader
  <2> SUFFICES ASSUME leader # c
               PROVE  /\ leader \in inflight /\ SameKey(call[leader], what) /\ Landed(leader) = {}
                      /\ besides = excused[leader] /\ stage = "waiting" /\ UNCHANGED <<queue, inflight>>
                      /\ leader \in Callers /\ pc[leader] = "waiting" /\ joined[leader] = leader
    OBVIOUS
  <2>1. /\ leader \in Flights(what) /\ Landed(leader) = {} /\ besides = excused[leader]
        /\ stage = "waiting" /\ UNCHANGED <<queue, inflight>>
    BY DEF Entering
  <2>2. leader \in inflight /\ SameKey(call[leader], what)
    BY <2>1 DEF Flights
  <2> QED BY <1>2, <1>3, <2>1, <2>2, CallerFacts
<1>4. /\ leader \in Callers
      /\ leader = c => /\ queue' = Append(queue, c) /\ inflight' \in {inflight, inflight \cup {c}}
                       /\ c \in inflight' => stage = "waiting" /\ what.op \in {"ensure", "get", "find"}
  <2>1. c \notin Flights(what)
    BY <1>18 DEF Flights
  <2> QED BY <1>8, <2>1 DEF Entering
<1>5. /\ call'[c] = what /\ pc'[c] = stage /\ joined'[c] = leader /\ valid'[c] = Values(what)
      /\ excused'[c] = besides
      /\ \A d \in Callers \ {c} : /\ call'[d] = call[d] /\ pc'[d] = pc[d] /\ joined'[d] = joined[d]
                                  /\ valid'[d] = valid[d] /\ excused'[d] = excused[d]
                                  /\ value'[d] = value[d]
  BY <1>3 DEF Entering, Asks
<1>6. /\ \A s \in past \cup {store} : Value(s, what) \in Values(what)
      /\ \A v \in Values(what) : v \in Outcomes
  <2>1. \A s \in past \cup {store} : Value(s, what) \in Outcomes
    BY <1>2, TablesAreTables, ValueType
  <2> QED BY <2>1 DEF Values
<1>7. /\ \A j \in DOMAIN queue : queue[j] \in Callers \ {c}
      /\ \A k \in DOMAIN loop : loop[k].caller \in Callers \ {c}
  BY <1>1, <1>2, InLine
<1>9. \A d \in Callers : pc[d] = "waiting" => joined[d] \in Callers \ {c}
  BY <1>1, <1>2, CallerFacts
<1>19. stage \in {"waiting", "touching"} /\ (stage = "touching" => leader = c)
  BY <1>8 DEF Entering
<1>20. \A d \in Callers \ {c} : d \in inflight' <=> d \in inflight
  BY <1>4, <1>8
<1>10. IdentityTypeOK'
  <2>1. /\ call' \in [Callers -> Whats] /\ pc' \in [Callers -> {"idle", "waiting", "touching"}]
        /\ joined' \in [Callers -> Callers]
    BY <1>3, <1>4, <1>19 DEF Entering, Asks
  <2>4. valid' \in [Callers -> SUBSET Outcomes] /\ excused' \in [Callers -> SUBSET Outcomes]
    BY <1>3, <1>6 DEF Entering, Asks
  <2>5. value' \in [Callers -> Outcomes \cup {Error}]
    BY DEF Entering
  <2>2. queue' \in Seq(Callers)
    BY <1>3, <1>4, <1>8, Appended
  <2>3. calls' \in Nat
    BY <1>1, <1>2 DEF IdentityTypeOK
  <2>6. inflight' \subseteq Callers
    BY <1>3, <1>4, <1>8
  <2> QED BY <1>1, <1>2, <2>1, <2>2, <2>3, <2>4, <2>5, <2>6 DEF IdentityTypeOK
<1>11. TablesCurrent'
  BY <1>1, <1>2 DEF TablesCurrent
<1>12. Lines'
  <2>1. ASSUME NEW d \in Callers PROVE Asked(d)'
    <3>1. CASE d = c
      <4>1. leader # c => /\ pc'[leader] = "waiting" /\ joined'[leader] = leader
                          /\ call'[leader] = call[leader] /\ leader \in inflight'
        BY <1>5, <1>8
      <4>2. SameKey(what, call'[leader])
        BY <4>1, <1>5, <1>8 DEF SameKey
      <4>3. Value(store', what) \in Values(what)
        BY <1>1, <1>6
      <4>4. c \in inflight' => leader = c /\ stage = "waiting" /\ what.op \in {"ensure", "get", "find"}
        BY <1>4, <1>8, <1>18
      <4>5. stage = "touching" => what.op = "ensure" /\ value'[c] \in Values(what) \cup besides
        BY DEF Entering
      <4> QED BY <3>1, <4>1, <4>2, <4>3, <4>4, <4>5, <1>5, <1>19 DEF Asked
    <3>2. CASE d # c
      <4>1. /\ call'[d] = call[d] /\ pc'[d] = pc[d] /\ joined'[d] = joined[d] /\ valid'[d] = valid[d]
            /\ excused'[d] = excused[d] /\ value'[d] = value[d] /\ (d \in inflight' <=> d \in inflight)
        BY <3>2, <1>5, <1>20
      <4>2. pc[d] = "waiting" => /\ pc'[joined[d]] = pc[joined[d]] /\ joined'[joined[d]] = joined[joined[d]]
                                 /\ call'[joined[d]] = call[joined[d]]
                                 /\ (joined[d] \in inflight' <=> joined[d] \in inflight)
        BY <1>5, <1>9, <1>20
      <4>3. Asked(d)
        BY <1>2 DEF Lines
      <4> QED BY <4>1, <4>2, <4>3, <1>1 DEF Asked
    <3> QED BY <3>1, <3>2
  <2>2. \A d \in Callers \ {c} : Submitted(d)' = Submitted(d)
    BY <1>5 DEF Submitted
  <2>3. /\ \A k \in DOMAIN loop : /\ Submitted(loop[k].caller)
                                  /\ loop[k].kind # "wake" <=> loop[k].caller \in inflight
        /\ \A j \in DOMAIN queue : Submitted(queue[j])
    BY <1>2 DEF Lines
  <2>7. \A k \in DOMAIN loop' : /\ Submitted(loop[k].caller)'
                                /\ loop'[k].kind # "wake" <=> loop'[k].caller \in inflight'
    <3>1. \A k \in DOMAIN loop : /\ Submitted(loop[k].caller) /\ loop'[k] = loop[k]
                                 /\ loop[k].caller \in Callers \ {c}
      BY <1>1, <1>7, <2>3
    <3>2. \A k \in DOMAIN loop' : Submitted(loop[k].caller)'
      BY <3>1, <2>2, <1>1, <1>5 DEF Submitted
    <3> QED BY <3>1, <3>2, <1>1, <1>20, <2>3
  <2>4. \A i, j \in DOMAIN loop' : loop'[i].caller = loop'[j].caller => i = j
    BY <1>1, <1>2 DEF Lines
  <2>5. CASE leader # c
    <3>1. queue' = queue
      BY <1>8, <2>5
    <3>2. \A j \in DOMAIN queue' : Submitted(queue[j])'
      BY <3>1, <1>5, <1>7, <2>3 DEF Submitted
    <3>3. /\ \A i, j \in DOMAIN queue' : queue'[i] = queue'[j] => i = j
          /\ \A j \in DOMAIN queue', k \in DOMAIN loop' : queue'[j] # loop'[k].caller
      BY <1>1, <1>2, <3>1 DEF Lines
    <3> QED BY <2>1, <2>4, <2>7, <3>2, <3>3 DEF Lines
  <2>6. CASE leader = c
    <3>1. /\ DOMAIN queue' = DOMAIN queue \cup {Len(queue) + 1} /\ Len(queue) + 1 \notin DOMAIN queue
          /\ queue'[Len(queue) + 1] = c /\ \A j \in DOMAIN queue : queue'[j] = queue[j]
      BY <1>3, <1>4, <2>6, Appended
    <3>2. Submitted(c)'
      BY <1>5, <1>19, <2>6 DEF Submitted
    <3>3. \A j \in DOMAIN queue' : Submitted(queue[j])'
      BY <1>5, <1>7, <2>3, <3>1, <3>2 DEF Submitted
    <3>4. \A i, j \in DOMAIN queue' : queue'[i] = queue'[j] => i = j
      BY <1>2, <1>7, <3>1 DEF Lines
    <3>5. \A j \in DOMAIN queue', k \in DOMAIN loop' : queue'[j] # loop'[k].caller
      BY <1>1, <1>2, <1>7, <3>1 DEF Lines
    <3> QED BY <2>1, <2>4, <2>7, <3>3, <3>4, <3>5 DEF Lines
  <2> QED BY <2>5, <2>6
<1>13. queue # <<>> => queue' # <<>> /\ Head(queue') = Head(queue) /\ Head(queue) \in Callers \ {c}
  <2>1. queue # <<>> => Head(queue) \in Callers \ {c}
    BY <1>2, <1>7, InLine
  <2> QED BY <2>1, <1>3, <1>4, <1>8, Appended
<1>21. \A e \in Callers \ {c} : \A d \in Resumed(e)' : d \in Resumed(e) \/ (d = c /\ leader = e)
  BY <1>5 DEF Resumed
<1>14. Working'
  <2>1. CASE thread.todo = "idle"
    BY <1>1, <1>2, <2>1 DEF Working
  <2>2. CASE thread.todo # "idle"
    <3> PICK h : h = Head(queue)
      OBVIOUS
    <3>1. /\ queue' # <<>> /\ Head(queue') = h /\ call'[h] = call[h] /\ pc'[h] = pc[h] /\ h \in Callers \ {c}
          /\ joined[h] = h
      BY <2>2, <1>2, <1>5, <1>13, InLine DEF Working
    <3>2. Remembers(call[h], h)' = Remembers(call[h], h)
      BY <3>1 DEF Remembers
    <3>3. ASSUME pc[h] = "waiting", \A d \in Resumed(h) : None \in excused[d]
          PROVE  \A d \in Resumed(h)' : None \in excused'[d]
      <4>1. h \in Resumed(h)
        BY <3>1, <3>3 DEF Resumed
      <4>2. \A d \in Resumed(h) : d \in Callers \ {c} /\ excused'[d] = excused[d]
        BY <1>1, <1>5 DEF Resumed
      <4>3. leader = h => None \in excused'[c]
        BY <1>5, <1>8, <3>1, <3>3, <4>1
      <4> QED BY <1>21, <3>1, <3>3, <4>2, <4>3
    <3>4. Working /\ h = Head(queue)
      BY <1>2
    <3>5. ASSUME thread.todo = "read"
          PROVE  call'[h].op = "find" /\ pc'[h] = "waiting" /\ \E u \in Users : ReadsUser(h, u)'
      <4>1. call[h].op = "find" /\ pc[h] = "waiting" /\ \E u \in Users : ReadsUser(h, u)
        BY ONLY <3>4, <3>5, Reading
      <4>2. ASSUME NEW u \in Users, ReadsUser(h, u) PROVE ReadsUser(h, u)'
        <5>1. thread'.users = {u} /\ u \in Owners(store, call'[h].arg) /\ store' = store
          BY <1>1, <3>1, <4>2 DEF ReadsUser
        <5>2. u \notin DOMAIN byUser' => \A d \in Resumed(h)' : None \in excused'[d]
          BY <1>1, <3>3, <4>1, <4>2 DEF ReadsUser
        <5>3. \A i : Owners(store, i)' = Owners(store, i)
          BY <5>1 DEF Owners, Mapped
        <5> QED BY <5>1, <5>2, <5>3 DEF ReadsUser
      <4> QED BY <3>1, <4>1, <4>2
    <3> QED BY <1>1, <2>2, <3>1, <3>2, <3>4, <3>5 DEF Working
  <2> QED BY <2>1, <2>2
<1>15. Cached'
  BY <1>1, <1>2 DEF Cached, Unsettled
<1>16. \A k \in DOMAIN loop' : Heard(k)'
  <2> SUFFICES ASSUME NEW k \in DOMAIN loop, loop[k].value # Error
               PROVE  Heard(k)'
    BY <1>1 DEF Heard
  <2> PICK e : e = loop[k].caller
    OBVIOUS
  <2>1. e \in Callers /\ e # c /\ call'[e] = call[e] /\ pc'[e] = pc[e] /\ excused'[e] = excused[e]
    BY <1>5, <1>7
  <2>2. /\ loop[k].kind = "task" =>
             loop[k].value \in excused[e] \/ \E s \in past \cup {store} : loop[k].value = Value(s, call[e])
        /\ \A d \in Resumed(e) : loop[k].value \in valid[d] \cup excused[d]
        /\ pc[e] = "touching" =>
             {<<call[e].bot, u>> : u \in call[e].users} \subseteq store.members \/ DeletedAfter(k)
    BY <1>2 DEF Heard
  <2>4. \A d \in Resumed(e)' : loop[k].value \in valid'[d] \cup excused'[d]
    <3> SUFFICES ASSUME NEW d \in Resumed(e)'
                 PROVE  loop[k].value \in valid'[d] \cup excused'[d]
      OBVIOUS
    <3>1. CASE d = c /\ leader = e
      <4>1. leader # c /\ call[e] \in Whats /\ SameKey(call[e], what)
        BY <3>1, <1>3, <1>8, <2>1
      <4>2. \A s : Value(s, call[e]) = Value(s, what)
        BY <4>1, SameQuestion
      <4>3. k \notin Landed(e) /\ e \in inflight
        BY <3>1, <4>1, <1>8
      <4>4. loop[k].kind = "task"
        BY <1>2, <4>3, InLine DEF Landed
      <4>5. besides = excused[e]
        BY <3>1, <4>1, <1>8
      <4> QED BY <2>2, <4>2, <4>4, <4>5, <1>5, <1>6, <3>1
    <3>2. CASE d \in Resumed(e)
      <4>1. d \in Callers \ {c}
        BY <1>1, <3>2 DEF Resumed
      <4> QED BY <3>2, <4>1, <2>2, <1>5
    <3> QED BY <3>1, <3>2, <1>21, <2>1
  <2>5. DeletedAfter(k) => DeletedAfter(k)'
    BY <1>1, <1>5, <1>7 DEF DeletedAfter
  <2>7. /\ loop'[k].kind = "task" =>
             loop'[k].value \in excused'[e] \/ \E s \in past' \cup {store'} : loop'[k].value = Value(s, call'[e])
        /\ \A d \in Resumed(e)' : loop'[k].value \in valid'[d] \cup excused'[d]
        /\ pc'[e] = "touching" =>
             {<<call'[e].bot, u>> : u \in call'[e].users} \subseteq store'.members \/ DeletedAfter(k)'
    BY <1>1, <2>1, <2>2, <2>4, <2>5
  <2>8. loop'[k].caller = e
    BY <1>1
  <2> QED BY <2>7, <2>8 DEF Heard
<1>17. ToldIsCurrent'
  BY <1>1 DEF ToldIsCurrent
<1> QED BY <1>10, <1>11, <1>12, <1>14, <1>15, <1>16, <1>17 DEF IdentityInv

(* What a cached mapping says was so when or after the call began.          *)
LEMMA CachedIsValid ==
  ASSUME IdentityTypeOK, Cached, NEW u \in DOMAIN byUser, NEW w, w.op \in {"ensure", "get"}, w.users = {u}
  PROVE  byUser[u].id \in Values(w)
<1>1. PICK s \in past \cup {store} : u \in Mapped(s) /\ s.rows[u].id = byUser[u].id
  BY DEF Cached
<1>2. Value(s, w) = byUser[u].id
  BY <1>1, ValueOfUser
<1> QED BY <1>2 DEF Values

(* The same of a cached id                                                  *)
LEMMA CachedIdIsValid ==
  ASSUME IdentityTypeOK, TablesCurrent, Cached, NEW id \in DOMAIN byId, NEW w, w.op = "find", w.arg = id
  PROVE  byId[id] \in Values(w)
<1>1. byId[id] \in DOMAIN byUser /\ byUser[byId[id]].id = id
  BY DEF Cached
<1>2. PICK s \in past \cup {store} : byId[id] \in Mapped(s) /\ s.rows[byId[id]].id = id
  BY <1>1 DEF Cached
<1>3. Current(s)
  BY TablesAreTables
<1>4. Value(s, w) = byId[id]
  BY <1>2, <1>3, ValueOfId
<1> QED BY <1>4 DEF Values

(* While a deletion is at work its caller waits.                            *)
LEMMA Deleting ==
  ASSUME IdentityTypeOK, Lines, Working, thread.todo = "delete"
  PROVE  /\ queue # <<>> /\ Head(queue) \in Callers /\ pc[Head(queue)] = "waiting"
         /\ call[Head(queue)].op = "delete"
BY InLine DEF Working

(* A user the cache remembers for a bot is in its list, or being deleted.   *)
LEMMA SeenIsListed ==
  ASSUME IdentityTypeOK, Lines, Working, Cached, NEW m \in seen
  PROVE  m \in store.members \/ thread.todo = "delete"
BY DEF Cached

(* A caller begins to wait.                                                 *)
LEMMA WaitStep ==
  ASSUME IdentityInv, NEW c \in Callers, Begin(c), NEW what \in Whats, Proper(what), what.op # "none",
         NEW leader, NEW besides, besides \subseteq Outcomes, Wait(c, what, leader, besides),
         \/ /\ leader = c /\ queue' = Append(queue, c) /\ inflight' \in {inflight, inflight \cup {c}}
            /\ c \in inflight' => what.op \in {"ensure", "get", "find"}
         \/ /\ leader \in Flights(what) /\ Landed(leader) = {} /\ besides = excused[leader]
            /\ UNCHANGED <<queue, inflight>>
  PROVE  IdentityInv'
<1>1. value \in [Callers -> Outcomes \cup {Error}] /\ value' = value
  BY DEF IdentityInv, IdentityTypeOK, Wait
<1>2. Entering(c, what, leader, besides, "waiting")
  BY <1>1 DEF Entering, Wait
<1> QED BY <1>2, CallStep

(* A call goes to the thread with a job of its own.                         *)
LEMMA SubmitStep ==
  ASSUME IdentityInv, NEW c \in Callers, Begin(c), NEW what \in Whats, Proper(what), what.op # "none",
         Submit(c, what)
  PROVE  IdentityInv'
<1>1. Wait(c, what, c, {}) /\ queue' = Append(queue, c) /\ UNCHANGED inflight
  BY DEF Submit
<1>2. c \notin inflight
  BY CallerFacts DEF IdentityInv, Begin
<1> QED BY <1>1, <1>2, WaitStep

(* _run_singleflight: a call begins a flight, joins one that asks for the   *)
(* same, or takes the result of one that has landed and is not yet removed. *)
LEMMA QueryStep ==
  ASSUME IdentityInv, NEW c \in Callers, Begin(c), NEW what \in Whats, Proper(what),
         what.op \in {"ensure", "get", "find"}, _run_singleflight(c, what)
  PROVE  IdentityInv'
<1>1. what.op # "none"
  OBVIOUS
<1>2. CASE Flights(what) = {} /\ inflight' = inflight \cup {c} /\ queue' = Append(queue, c)
           /\ Wait(c, what, c, {})
  BY <1>1, <1>2, WaitStep
<1>3. ASSUME NEW d \in Flights(what), Join(c, what, d)
      PROVE  IdentityInv'
  <2>1. /\ IdentityTypeOK /\ Lines /\ Working /\ Cached
        /\ \A k \in DOMAIN loop : Heard(k)
    BY DEF IdentityInv
  <2>2. d \in inflight /\ d \in Callers
    BY <2>1 DEF Flights, IdentityTypeOK
  <2>3. excused[d] \subseteq Outcomes /\ valid[d] \subseteq Outcomes /\ d \in Resumed(d)
    BY <2>1, <2>2, CallerFacts DEF Resumed
  <2>4. CASE Landed(d) = {}
    <3>1. Wait(c, what, d, excused[d]) /\ UNCHANGED <<queue, inflight>>
      BY <1>3, <2>4 DEF Join
    <3> QED BY <1>1, <1>3, <2>3, <2>4, <3>1, WaitStep
  <2>5. CASE Landed(d) # {}
    <3> PICK k : k = CHOOSE i \in Landed(d) : TRUE
      OBVIOUS
    <3> PICK v, besides : v = loop[k].value /\ besides = excused[d] \cup valid[d]
      OBVIOUS
    <3>1. k \in Landed(d)
      BY <2>5
    <3>2. k \in DOMAIN loop /\ loop[k].caller = d /\ v \in Outcomes \cup {Error}
      BY <2>1, <3>1, InLine DEF Landed
    <3>3. v # Error => v \in besides
      BY <2>1, <2>3, <3>2 DEF Heard
    <3>4. IF Completes(what, v) THEN Tell(what, v, besides)
          ELSE Asks(c, what, besides) /\ Touches(c, v) /\ UNCHANGED inflight
      BY <1>3, <2>5 DEF Join
    <3>5. CASE Completes(what, v)
      <4>1. ASSUME v # Error, what.op = "ensure"
            PROVE  \/ {<<what.bot, u>> : u \in what.users} \subseteq store.members
                   \/ \E e \in Callers : pc[e] = "waiting" /\ call[e].op = "delete"
        <5>1. \A u \in what.users : <<what.bot, u>> \in seen
          BY <3>5, <4>1 DEF Completes
        <5>2. CASE thread.todo = "delete"
          BY <2>1, <5>2, Deleting
        <5>3. CASE thread.todo # "delete"
          <6>1. \A m \in seen : m \in store.members
            BY <2>1, <5>3, SeenIsListed
          <6> QED BY <5>1, <6>1
        <5> QED BY <5>2, <5>3
      <4>2. Tell(what, v, besides)
        BY <3>4, <3>5
      <4>3. v # Error => v \in Values(what) \cup besides
        BY <3>3
      <4> QED BY <4>1, <4>2, <4>3, TellStep
    <3>6. CASE ~Completes(what, v)
      <4>1. v # Error /\ what.op = "ensure"
        BY <3>6 DEF Completes
      <4>2. Asks(c, what, besides) /\ Touches(c, v) /\ UNCHANGED inflight
        BY <3>4, <3>6
      <4>3. value \in [Callers -> Outcomes \cup {Error}] /\ value' = [value EXCEPT ![c] = v]
        BY <2>1, <4>2 DEF IdentityTypeOK, Touches
      <4>4. value' \in [Callers -> Outcomes \cup {Error}] /\ value'[c] = v
            /\ \A e \in Callers \ {c} : value'[e] = value[e]
        BY <3>2, <4>3
      <4>5. c \notin inflight /\ besides \subseteq Outcomes
        BY <2>1, <2>3, CallerFacts DEF Begin
      <4>6. Entering(c, what, c, besides, "touching")
        BY <3>3, <4>1, <4>2, <4>4, <4>5 DEF Entering, Touches
      <4> QED BY <1>1, <4>6, CallStep
    <3> QED BY <3>5, <3>6
  <2> QED BY <2>4, <2>5
<1> QED BY <1>2, <1>3 DEF _run_singleflight

(* ensure_mapping, from its caches or with a job                            *)
LEMMA EnsureCall ==
  ASSUME IdentityInv, NEW c \in Callers, NEW b \in Bots, NEW u \in Users, NEW n \in Named,
         ensure_mapping(c, b, u, n)
  PROVE  IdentityInv'
<1>1. PICK what : what = [op |-> "ensure", bot |-> b, users |-> {u}, arg |-> n, rev |-> 0]
  OBVIOUS
<1>2. /\ Begin(c)
      /\ IF CacheMatches(u, n) /\ <<b, u>> \in seen THEN Hit(what, byUser[u].id)
         ELSE _run_singleflight(c, what)
  BY <1>1 DEF ensure_mapping
<1>3. what.op = "ensure" /\ what.users = {u} /\ what.bot = b /\ what.arg = n
  BY <1>1
<1>4. what \in Whats /\ Proper(what)
  <2>1. what \in Whats
    BY <1>1 DEF Whats
  <2> QED BY <1>3, <2>1 DEF Proper
<1>5. IdentityTypeOK /\ Lines /\ Working /\ Cached
  BY DEF IdentityInv
<1>6. CASE CacheMatches(u, n) /\ <<b, u>> \in seen
  <2>1. byUser[u].id \in Values(what)
    BY <1>3, <1>5, <1>6, CachedIsValid DEF CacheMatches
  <2>2. <<b, u>> \in store.members \/ thread.todo = "delete"
    BY <1>5, <1>6, SeenIsListed
  <2>3. \/ {<<what.bot, v>> : v \in what.users} \subseteq store.members
        \/ \E d \in Callers : pc[d] = "waiting" /\ call[d].op = "delete"
    BY <1>3, <1>5, <2>2, Deleting
  <2>4. Hit(what, byUser[u].id)
    BY <1>2, <1>6
  <2> QED BY <1>2, <2>1, <2>3, <2>4, HitStep
<1>7. CASE ~(CacheMatches(u, n) /\ <<b, u>> \in seen)
  BY <1>2, <1>3, <1>4, <1>7, QueryStep
<1> QED BY <1>6, <1>7

(* ensure_mappings                                                          *)
LEMMA BatchCall ==
  ASSUME IdentityInv, NEW c \in Callers, NEW b \in Bots, ensure_mappings(c, b)
  PROVE  IdentityInv'
<1>1. PICK what : what = [op |-> "batch", bot |-> b, users |-> Users, arg |-> None, rev |-> 0]
  OBVIOUS
<1>2. Begin(c) /\ (Hit(what, None) \/ Submit(c, what))
  BY <1>1 DEF ensure_mappings
<1>3. what.op = "batch" /\ what.bot = b
  BY <1>1
<1>4. what \in Whats /\ Proper(what)
  <2>1. what \in Whats
    BY <1>1 DEF Whats, Named
  <2> QED BY <1>3, <2>1 DEF Proper
<1>5. CASE Hit(what, None)
  BY <1>2, <1>3, <1>5, HitStep
<1>6. CASE Submit(c, what)
  BY <1>2, <1>3, <1>4, <1>6, SubmitStep
<1> QED BY <1>2, <1>5, <1>6

(* get_by_user_id                                                           *)
LEMMA GetCall ==
  ASSUME IdentityInv, NEW c \in Callers, NEW u \in Users, get_by_user_id(c, u)
  PROVE  IdentityInv'
<1>1. PICK what : what = [op |-> "get", bot |-> None, users |-> {u}, arg |-> None, rev |-> 0]
  OBVIOUS
<1>2. Begin(c) /\ IF u \in DOMAIN byUser THEN Hit(what, byUser[u].id) ELSE _run_singleflight(c, what)
  BY <1>1 DEF get_by_user_id
<1>3. what.op = "get" /\ what.users = {u}
  BY <1>1
<1>4. what \in Whats /\ Proper(what)
  <2>1. what \in Whats
    BY <1>1 DEF Whats, Named
  <2> QED BY <1>3, <2>1 DEF Proper
<1>5. CASE u \in DOMAIN byUser
  <2>1. byUser[u].id \in Values(what)
    BY <1>3, <1>5, CachedIsValid DEF IdentityInv
  <2>2. Hit(what, byUser[u].id)
    BY <1>2, <1>5
  <2> QED BY <1>2, <1>3, <2>1, <2>2, HitStep
<1>6. CASE u \notin DOMAIN byUser
  BY <1>2, <1>3, <1>4, <1>6, QueryStep
<1> QED BY <1>5, <1>6

(* get_by_onebot_id                                                         *)
LEMMA FindCall ==
  ASSUME IdentityInv, NEW c \in Callers, NEW id \in Slots, get_by_onebot_id(c, id)
  PROVE  IdentityInv'
<1>1. PICK what : what = [op |-> "find", bot |-> None, users |-> Users, arg |-> id, rev |-> 0]
  OBVIOUS
<1>2. Begin(c) /\ IF id \in DOMAIN byId /\ byId[id] \in DOMAIN byUser THEN Hit(what, byId[id])
                  ELSE _run_singleflight(c, what)
  BY <1>1 DEF get_by_onebot_id
<1>3. what.op = "find" /\ what.arg = id
  BY <1>1
<1>4. what \in Whats /\ Proper(what)
  <2>1. what \in Whats
    BY <1>1 DEF Whats
  <2> QED BY <1>3, <2>1 DEF Proper
<1>5. CASE id \in DOMAIN byId /\ byId[id] \in DOMAIN byUser
  <2>1. byId[id] \in Values(what)
    BY <1>3, <1>5, CachedIdIsValid DEF IdentityInv
  <2>2. Hit(what, byId[id])
    BY <1>2, <1>5
  <2> QED BY <1>2, <1>3, <2>1, <2>2, HitStep
<1>6. CASE ~(id \in DOMAIN byId /\ byId[id] \in DOMAIN byUser)
  BY <1>2, <1>3, <1>4, <1>6, QueryStep
<1> QED BY <1>5, <1>6

(* The WebUI overrides or deletes a mapping it has listed.                  *)
LEMMA WebUICalls ==
  ASSUME IdentityInv, NEW c \in Callers, WebUICall(c)
  PROVE  IdentityInv'
<1>1. PICK b \in Bots, u \in Users, op \in {"override", "delete"}, arg \in Slots \cup {None} :
        AdminCall(op, c, b, u, arg) /\ (op = "override" => arg \in Slots)
  BY DEF WebUICall, override_onebot_id, delete_mapping
<1>2. PICK what : what = [op |-> op, bot |-> b, users |-> {u}, arg |-> arg, rev |-> store.rows[u].rev]
  OBVIOUS
<1>3. Begin(c) /\ Submit(c, what) /\ u \in Mapped(store)
  BY <1>1, <1>2 DEF AdminCall, list_mappings
<1>4. what.op = op /\ what.users = {u} /\ what.bot = b /\ what.arg = arg
  BY <1>2
<1>5. store.rows[u].rev \in Nat
  BY <1>3, RowTypes DEF IdentityInv, IdentityTypeOK
<1>6. what \in Whats /\ Proper(what)
  <2>1. what \in Whats
    BY <1>1, <1>2, <1>5 DEF Whats, Named
  <2> QED BY <1>1, <1>4, <2>1 DEF Proper
<1> QED BY <1>1, <1>3, <1>4, <1>6, SubmitStep

(* A step of the thread touches neither the caches nor what the loop knows. *)
LoopUnchanged ==
  UNCHANGED <<byUser, byId, seen, queue, loop, inflight, call, pc, joined, value, excused, calls>> /\ told' = {}

(* A job that commits nothing                                               *)
LEMMA NoChangeStep ==
  ASSUME IdentityInv, thread.todo \in {"idle", "batch"}, LoopUnchanged, UNCHANGED <<store, past, valid>>,
         IsTable(draft'), Current(draft'),
         thread' \in [todo : {"idle", "batch", "raise", "read", "cache", "override", "delete"}, users : SUBSET Users],
         Working'
  PROVE  IdentityInv'
<1>1. UNCHANGED <<byUser, byId, seen, queue, loop, inflight, call, pc, joined, value, excused, calls>> /\ told' = {}
  BY DEF LoopUnchanged
<1>2. /\ IdentityTypeOK /\ TablesCurrent /\ Lines /\ Cached
      /\ \A k \in DOMAIN loop : Heard(k)
  BY DEF IdentityInv
<1>3. IdentityTypeOK'
  BY <1>1, <1>2 DEF IdentityTypeOK
<1>4. TablesCurrent'
  BY <1>2 DEF TablesCurrent
<1>5. Lines'
  <2>1. \A d \in Callers : Asked(d)'
    BY <1>1, <1>2 DEF Lines, Asked
  <2>2. \A d \in Callers : Submitted(d)' = Submitted(d)
    BY <1>1 DEF Submitted
  <2> QED BY <1>1, <1>2, <2>1, <2>2, InLine DEF Lines
<1>6. Cached'
  <2>1. \A u \in DOMAIN byUser : u \in Mapped(store) /\ byUser[u] = store.rows[u]
    BY <1>2 DEF Cached, Unsettled
  <2>2. \A m \in seen : m \in store.members
    BY <1>2 DEF Cached
  <2> QED BY <1>1, <1>2, <2>1, <2>2 DEF Cached
<1>7. \A k \in DOMAIN loop' : Heard(k)'
  <2>1. \A k \in DOMAIN loop : DeletedAfter(k) => DeletedAfter(k)'
    BY <1>1 DEF DeletedAfter
  <2>2. \A d \in Callers : Resumed(d)' = Resumed(d)
    BY <1>1 DEF Resumed
  <2> QED BY <1>1, <1>2, <2>1, <2>2, InLine DEF Heard
<1>8. ToldIsCurrent'
  BY <1>1 DEF ToldIsCurrent
<1> QED BY <1>3, <1>4, <1>5, <1>6, <1>7, <1>8 DEF IdentityInv

(* The three kinds of what a job leaves to its second half                  *)
Pending(left, s, c, what) ==
  /\ left \in [todo : {"cache", "override", "delete"}, users : SUBSET Users]
  /\ left.todo \in {"cache", "override"} =>
       left.users \subseteq Mapped(s) /\ Remembers(what, c) \subseteq s.members
  /\ left.todo = "delete" => what.op = "delete" /\ pc[c] = "waiting" /\ left.users = what.users

(* A job that commits: the new table may only drop rows and list entries    *)
(* that its second half is about to drop from the caches.                   *)
LEMMA CommitStep ==
  ASSUME IdentityInv, thread.todo \in {"idle", "batch"}, queue # <<>>, LoopUnchanged,
         NEW new, IsTable(new), Current(new), NEW left, Commit(new, left),
         Pending(left, new, Head(queue), call[Head(queue)]),
         SameRows(store, new, Mapped(store) \ left.users),
         \A m \in store.members : m \in new.members \/ (left.todo = "delete" /\ m[2] \in left.users)
  PROVE  IdentityInv'
<1>1. UNCHANGED <<byUser, byId, seen, queue, loop, inflight, call, pc, joined, value, excused, calls>> /\ told' = {}
  BY DEF LoopUnchanged
<1>2. /\ IdentityTypeOK /\ TablesCurrent /\ Lines /\ Working /\ Cached
      /\ \A k \in DOMAIN loop : Heard(k)
  BY DEF IdentityInv
<1>3. /\ store' = new /\ draft' = new /\ thread' = left
      /\ past' = IF new.rows = store.rows THEN past ELSE past \cup {store}
      /\ valid' = [c \in Callers |-> valid[c] \cup (IF pc[c] = "idle" THEN {} ELSE {Value(new, call[c])})]
  BY DEF Commit
<1>4. left \in [todo : {"cache", "override", "delete"}, users : SUBSET Users]
  BY DEF Pending
<1>5. \A s \in past \cup {store} : \E t \in past' \cup {store'} : t.rows = s.rows
  BY <1>3
<1>6. \A w : Value(new, w) \in Outcomes
  BY ValueType
<1>7. /\ valid' \in [Callers -> SUBSET Outcomes]
      /\ \A d \in Callers : valid[d] \subseteq valid'[d]
      /\ \A d \in Callers : pc[d] # "idle" => Value(new, call[d]) \in valid'[d]
  <2>1. valid \in [Callers -> SUBSET Outcomes]
    BY <1>2 DEF IdentityTypeOK
  <2> QED BY <1>3, <1>6, <2>1
<1>8. IdentityTypeOK'
  <2>1. thread' \in [todo : {"idle", "batch", "raise", "read", "cache", "override", "delete"}, users : SUBSET Users]
    BY <1>3, <1>4
  <2>2. IsTable(store') /\ IsTable(draft') /\ \A s \in past' : IsTable(s)
    BY <1>2, <1>3 DEF IdentityTypeOK
  <2> QED BY <1>1, <1>2, <1>7, <2>1, <2>2 DEF IdentityTypeOK
<1>9. TablesCurrent'
  BY <1>2, <1>3 DEF TablesCurrent
<1>10. Lines'
  <2>1. ASSUME NEW d \in Callers PROVE Asked(d)'
    <3>1. Asked(d)
      BY <1>2 DEF Lines
    <3> QED BY <3>1, <1>1, <1>3, <1>7 DEF Asked
  <2>2. \A d \in Callers : Submitted(d)' = Submitted(d)
    BY <1>1 DEF Submitted
  <2> QED BY <1>1, <1>2, <2>1, <2>2, InLine DEF Lines
<1>11. Working'
  <2>1. Remembers(call[Head(queue)], Head(queue))' = Remembers(call[Head(queue)], Head(queue))
    BY <1>1 DEF Remembers
  <2>2. /\ left.todo \notin {"idle", "batch"}
        /\ left.todo \in {"cache", "override"} =>
             /\ left.users \subseteq Mapped(new)
             /\ Remembers(call[Head(queue)], Head(queue)) \subseteq new.members
        /\ left.todo = "delete" => /\ call[Head(queue)].op = "delete" /\ pc[Head(queue)] = "waiting"
                                   /\ left.users = call[Head(queue)].users
    BY <1>4 DEF Pending
  <2>3. left.todo # "read"
    BY <1>4
  <2> QED BY <1>1, <1>3, <2>1, <2>2, <2>3 DEF Working
<1>12. Cached'
  <2>1. \A u \in DOMAIN byUser : u \in Mapped(store) /\ byUser[u] = store.rows[u]
    BY <1>2 DEF Cached, Unsettled
  <2>2. \A m \in seen : m \in store.members
    BY <1>2 DEF Cached
  <2>3. Unsettled' = left.users
    BY <1>3, <1>4 DEF Unsettled
  <2>4. \A u \in DOMAIN byUser' \ Unsettled' : u \in Mapped(store') /\ byUser'[u] = store'.rows[u]
    BY <1>1, <1>3, <2>1, <2>3 DEF SameRows
  <2>5. \A u \in DOMAIN byUser' : \E s \in past' \cup {store'} :
           u \in Mapped(s) /\ s.rows[u].id = byUser'[u].id
    <3> SUFFICES ASSUME NEW u \in DOMAIN byUser
                 PROVE  \E s \in past' \cup {store'} : u \in Mapped(s) /\ s.rows[u].id = byUser[u].id
      BY <1>1
    <3>1. PICK s \in past' \cup {store'} : s.rows = store.rows
      BY <1>5
    <3> QED BY <2>1, <3>1 DEF Mapped
  <2>6. \A m \in seen' : m \in store'.members \/ (thread'.todo = "delete" /\ m[2] \in thread'.users)
    BY <1>1, <1>3, <2>2
  <2>7. \A id \in DOMAIN byId' : byId'[id] \in DOMAIN byUser' /\ byUser'[byId'[id]].id = id
    BY <1>1, <1>2 DEF Cached
  <2> QED BY <2>4, <2>5, <2>6, <2>7 DEF Cached
<1>13. \A k \in DOMAIN loop' : Heard(k)'
  <2> SUFFICES ASSUME NEW k \in DOMAIN loop, loop[k].value # Error
               PROVE  Heard(k)'
    BY <1>1 DEF Heard
  <2> PICK e : e = loop[k].caller
    OBVIOUS
  <2>3. loop[k].kind = "task" =>
          loop[k].value \in excused[e] \/ \E t \in past' \cup {store'} : loop[k].value = Value(t, call[e])
    <3>1. loop[k].kind = "task" =>
            loop[k].value \in excused[e] \/ \E s \in past \cup {store} : loop[k].value = Value(s, call[e])
      BY <1>2 DEF Heard
    <3>2. \A s \in past \cup {store} : \E t \in past' \cup {store'} : Value(s, call[e]) = Value(t, call[e])
      BY <1>5, ValueOfRows
    <3> QED BY <3>1, <3>2
  <2>4. \A d \in Resumed(e)' : d \in Resumed(e) /\ loop[k].value \in valid'[d] \cup excused[d]
    <3>1. \A d \in Resumed(e) : d \in Callers /\ loop[k].value \in valid[d] \cup excused[d]
      BY <1>2 DEF Heard, Resumed
    <3>2. Resumed(e)' = Resumed(e)
      BY <1>1 DEF Resumed
    <3> QED BY <3>1, <3>2, <1>7
  <2>5. pc[e] = "touching" =>
          {<<call[e].bot, u>> : u \in call[e].users} \subseteq store'.members \/ DeletedAfter(k)'
    <3>1. DeletedAfter(k) => DeletedAfter(k)'
      BY <1>1 DEF DeletedAfter
    <3>2. CASE left.todo = "delete"
      BY <3>2, <1>3 DEF DeletedAfter
    <3>3. CASE left.todo # "delete"
      <4>1. store.members \subseteq store'.members
        BY <3>3, <1>3
      <4>2. pc[e] = "touching" =>
              {<<call[e].bot, u>> : u \in call[e].users} \subseteq store.members \/ DeletedAfter(k)
        BY <1>2 DEF Heard
      <4> QED BY <3>1, <4>1, <4>2
    <3> QED BY <3>2, <3>3
  <2>6. loop'[k].value = loop[k].value /\ loop'[k].caller = e /\ loop'[k].kind = loop[k].kind
    BY <1>1
  <2>7. /\ loop'[k].kind = "task" =>
             loop'[k].value \in excused'[e] \/ \E t \in past' \cup {store'} : loop'[k].value = Value(t, call'[e])
        /\ \A d \in Resumed(e)' : loop'[k].value \in valid'[d] \cup excused'[d]
        /\ pc'[e] = "touching" =>
             {<<call'[e].bot, u>> : u \in call'[e].users} \subseteq store'.members \/ DeletedAfter(k)'
    BY <1>1, <2>3, <2>4, <2>5, <2>6
  <2> QED BY <2>6, <2>7 DEF Heard
<1>14. ToldIsCurrent'
  BY <1>1 DEF ToldIsCurrent
<1> QED BY <1>8, <1>9, <1>10, <1>11, <1>12, <1>13, <1>14 DEF IdentityInv

(* A job that fails is rolled back.                                         *)
LEMMA RaiseStep ==
  ASSUME IdentityInv, thread.todo \in {"idle", "batch"}, queue # <<>>, LoopUnchanged, JobRaises
  PROVE  IdentityInv'
<1>1. /\ thread' = [todo |-> "raise", users |-> {}] /\ draft' = store /\ UNCHANGED <<store, past, valid>>
  BY DEF JobRaises, NoChange
<1>2. IsTable(store) /\ Current(store)
  BY DEF IdentityInv, IdentityTypeOK, TablesCurrent
<1>3. queue' = queue
  BY DEF LoopUnchanged
<1>4. Working'
  BY <1>1, <1>3 DEF Working
<1> QED BY <1>1, <1>2, <1>4, NoChangeStep

(* What the thread finds when it begins a job                               *)
AtWork(c, what) ==
  /\ IdentityInv /\ thread = Idle /\ LoopUnchanged
  /\ queue # <<>> /\ c = Head(queue) /\ what = call[c]

(* Whose job the thread takes, and what the invariant says of it            *)
LEMMA JobFacts ==
  ASSUME NEW c, NEW what, AtWork(c, what)
  PROVE  /\ IdentityInv /\ LoopUnchanged /\ queue # <<>> /\ c = Head(queue) /\ what = call[Head(queue)]
         /\ thread.todo = "idle" /\ c \in Callers /\ what \in Whats /\ Proper(what)
         /\ pc[c] \in {"waiting", "touching"}
         /\ pc[c] = "touching" => what.op = "ensure"
         /\ what.op # "none"
         /\ IsTable(store) /\ Current(store)
         /\ \A u \in DOMAIN byUser : u \in Mapped(store) /\ byUser[u] = store.rows[u]
         /\ \A id \in DOMAIN byId : byId[id] \in DOMAIN byUser /\ byUser[byId[id]].id = id
         /\ seen \subseteq store.members
<1>1. thread = [todo |-> "idle", users |-> {}]
  BY DEF AtWork, Idle
<1>2. IdentityInv /\ LoopUnchanged /\ queue # <<>> /\ c = Head(queue) /\ what = call[c]
  BY DEF AtWork
<1>3. IsTable(store) /\ Current(store)
  BY <1>2 DEF IdentityInv, IdentityTypeOK, TablesCurrent
<1>4. IdentityTypeOK /\ Lines /\ Cached
  BY <1>2 DEF IdentityInv
<1>5. c \in Callers /\ pc[c] # "idle"
  BY <1>2, <1>4, InLine
<1>6. /\ \A u \in DOMAIN byUser : u \in Mapped(store) /\ byUser[u] = store.rows[u]
      /\ \A id \in DOMAIN byId : byId[id] \in DOMAIN byUser /\ byUser[byId[id]].id = id
      /\ seen \subseteq store.members
  BY <1>1, <1>4 DEF Cached, Unsettled
<1> QED BY <1>1, <1>2, <1>3, <1>4, <1>5, <1>6, CallerFacts

(* CommitStep, for a job that is taken from the queue                       *)
LEMMA JobCommits ==
  ASSUME NEW c, NEW what, AtWork(c, what), NEW new, IsTable(new), Current(new),
         NEW left, Commit(new, left), Pending(left, new, c, what),
         SameRows(store, new, Mapped(store) \ left.users),
         \A m \in store.members : m \in new.members \/ (left.todo = "delete" /\ m[2] \in left.users)
  PROVE  IdentityInv'
<1>1. /\ IdentityInv /\ LoopUnchanged /\ queue # <<>> /\ thread.todo \in {"idle", "batch"}
      /\ Pending(left, new, Head(queue), call[Head(queue)])
  BY JobFacts
<1> QED BY <1>1, CommitStep

(* A lookup changes nothing. The one that finds the user of an id in the    *)
(* cache is about to read the mapping of the user that has the id.          *)
LEMMA LookupStep ==
  ASSUME NEW c, NEW what, AtWork(c, what), what.op \in {"get", "find"}, LookupJob(what)
  PROVE  IdentityInv'
<1>1. pc[c] = "waiting"
  BY JobFacts
<1>2. CASE what.op = "find" /\ what.arg \in DOMAIN byId
  <2> PICK u : u = byId[what.arg]
    OBVIOUS
  <2>1. u \in Mapped(store) /\ store.rows[u].id = what.arg /\ u \in DOMAIN byUser
    BY <1>2, JobFacts
  <2>2. u \in Users /\ u \in Owners(store, what.arg)
    BY <2>1, JobFacts, RowTypes DEF Owners
  <2>3. /\ thread' = [todo |-> "read", users |-> {u}] /\ draft' = store /\ UNCHANGED <<store, past, valid>>
        /\ UNCHANGED <<queue, call, pc, byUser>>
    BY <1>2, JobFacts DEF LookupJob, NoChange, LoopUnchanged
  <2>4. thread' \in [todo : {"idle", "batch", "raise", "read", "cache", "override", "delete"}, users : SUBSET Users]
    BY <2>2, <2>3
  <2>5. c = Head(queue) /\ what = call[c] /\ queue # <<>>
    BY JobFacts
  <2>6. ReadsUser(c, u)'
    BY <2>1, <2>2, <2>3, <2>5 DEF ReadsUser, Owners, Mapped
  <2>7. Working'
    BY ONLY <1>1, <1>2, <2>2, <2>3, <2>5, <2>6 DEF Working
  <2> QED BY <2>3, <2>4, <2>7, JobFacts, NoChangeStep
<1>3. CASE ~(what.op = "find" /\ what.arg \in DOMAIN byId)
  <2>1. PICK U : U = IF what.op = "find" THEN Owners(store, what.arg)
                     ELSE (what.users \cap Mapped(store)) \ DOMAIN byUser
    OBVIOUS
  <2>2. /\ thread' = [todo |-> "cache", users |-> U] /\ draft' = store /\ UNCHANGED <<store, past, valid>>
        /\ UNCHANGED <<queue, call, pc>>
    BY <1>3, <2>1, JobFacts DEF LookupJob, NoChange, LoopUnchanged
  <2>3. U \subseteq Mapped(store) /\ U \in SUBSET Users
    <3>1. U \subseteq Mapped(store)
      BY <2>1 DEF Owners
    <3> QED BY <3>1, JobFacts, RowTypes
  <2>4. thread' \in [todo : {"idle", "batch", "raise", "read", "cache", "override", "delete"}, users : SUBSET Users]
    BY <2>2, <2>3
  <2>5. Remembers(what, c) = {}
    BY JobFacts DEF Remembers
  <2>6. Remembers(call[Head(queue)], Head(queue))' = {}
    BY <2>2, <2>5, JobFacts DEF Remembers
  <2>7. Working'
    BY <2>2, <2>3, <2>6, JobFacts DEF Working
  <2> QED BY <2>2, <2>4, <2>7, JobFacts, NoChangeStep
<1> QED BY <1>2, <1>3

(* A batch begins its transaction.                                          *)
LEMMA BatchStep ==
  ASSUME NEW c, NEW what, AtWork(c, what), what.op = "batch", BatchJob(what)
  PROVE  IdentityInv'
<1>1. /\ thread' = [todo |-> "batch", users |-> what.users] /\ draft' = store
      /\ UNCHANGED <<store, past, valid>> /\ UNCHANGED <<queue, call, pc>>
  BY JobFacts DEF BatchJob, NoChange, LoopUnchanged
<1>2. what.users \in SUBSET Users /\ pc[c] = "waiting"
  BY JobFacts DEF Whats
<1>3. thread' \in [todo : {"idle", "batch", "raise", "read", "cache", "override", "delete"}, users : SUBSET Users]
  BY <1>1, <1>2
<1>4. Working'
  BY <1>1, <1>2, JobFacts DEF Working
<1> QED BY <1>1, <1>3, <1>4, JobFacts, NoChangeStep

(* The job of ensure_mapping commits the user, the list entry or nothing.   *)
LEMMA EnsureStep ==
  ASSUME NEW c, NEW what, AtWork(c, what), what.op = "ensure", EnsureJob(what)
  PROVE  IdentityInv'
<1>1. PICK u \in Users : what.users = {u}
  BY JobFacts DEF Proper
<1>2. (CHOOSE v \in what.users : TRUE) = u
  BY <1>1, OneUser
<1>3. what.bot \in Bots /\ what.arg \in Named
  BY JobFacts DEF Proper
<1>4. Remembers(what, c) = {<<what.bot, u>>}
  BY <1>1 DEF Remembers
<1>5. CASE CacheMatches(u, what.arg)
  <2> PICK M : M = IF <<what.bot, u>> \in seen THEN {} ELSE {<<what.bot, u>>}
    OBVIOUS
  <2> PICK new : new = WithMembers(store, M)
    OBVIOUS
  <2> PICK left : left = [todo |-> "cache", users |-> {}]
    OBVIOUS
  <2>1. Commit(new, left)
    BY <1>2, <1>5 DEF EnsureJob, WithMembers
  <2>2. u \in Mapped(store)
    BY <1>5, JobFacts DEF CacheMatches
  <2>3. M \subseteq Bots \X Users /\ \A m \in M : m[2] \in Mapped(store)
    BY <1>3, <2>2
  <2>4. IsTable(new) /\ Current(new) /\ new.rows = store.rows /\ new.members = store.members \cup M
    BY <2>3, JobFacts, MemberFacts
  <2>5. <<what.bot, u>> \in new.members
    BY <2>4, JobFacts
  <2>6. Pending(left, new, c, what)
    BY <1>4, <2>5 DEF Pending
  <2>7. SameRows(store, new, Mapped(store) \ left.users)
    BY <2>4 DEF SameRows, Mapped
  <2>8. \A m \in store.members : m \in new.members \/ (left.todo = "delete" /\ m[2] \in left.users)
    BY <2>4
  <2> QED BY <2>1, <2>4, <2>6, <2>7, <2>8, JobCommits
<1>6. CASE ~CacheMatches(u, what.arg) /\ u \notin Mapped(store) /\ FreeOffsets(store, u) = {}
  <2>1. JobRaises
    BY <1>2, <1>6 DEF EnsureJob
  <2> QED BY <2>1, JobFacts, RaiseStep
<1>7. CASE ~CacheMatches(u, what.arg) /\ ~(u \notin Mapped(store) /\ FreeOffsets(store, u) = {})
  <2> PICK new : new = EnsureRow(store, what.bot, u, what.arg)
    OBVIOUS
  <2> PICK left : left = [todo |-> "cache", users |-> {u}]
    OBVIOUS
  <2>1. Commit(new, left)
    BY <1>2, <1>7 DEF EnsureJob
  <2>2. /\ IsTable(new) /\ Current(new) /\ Mapped(new) = Mapped(store) \cup {u}
        /\ SameRows(store, new, Mapped(store) \ {u})
        /\ new.members = store.members \cup {<<what.bot, u>>}
    <3>1. u \in Mapped(store) \/ FreeOffsets(store, u) # {}
      BY <1>7
    <3>2. Ensured(store, what.bot, u, what.arg, new)
      BY <1>3, <3>1, JobFacts, EnsureFacts
    <3> QED BY <3>2 DEF Ensured
  <2>3. Pending(left, new, c, what)
    <3>1. left \in [todo : {"cache", "override", "delete"}, users : SUBSET Users]
      OBVIOUS
    <3>2. left.users \subseteq Mapped(new) /\ Remembers(what, c) \subseteq new.members
      BY <1>4, <2>2
    <3> QED BY <3>1, <3>2 DEF Pending
  <2>4. SameRows(store, new, Mapped(store) \ left.users)
    BY <2>2
  <2>5. \A m \in store.members : m \in new.members \/ (left.todo = "delete" /\ m[2] \in left.users)
    BY <2>2
  <2> QED BY <2>1, <2>2, <2>3, <2>4, <2>5, JobCommits
<1> QED BY <1>5, <1>6, <1>7

(* So does the one that enters the bot of a caller that had joined.         *)
LEMMA TouchStep ==
  ASSUME NEW c, NEW what, AtWork(c, what), pc[c] = "touching", TouchJob(what)
  PROVE  IdentityInv'
<1>1. PICK u \in Users : what.users = {u}
  BY JobFacts DEF Proper
<1>2. (CHOOSE v \in what.users : TRUE) = u
  BY <1>1, OneUser
<1>3. what.bot \in Bots
  BY JobFacts DEF Proper
<1>4. Remembers(what, c) = {<<what.bot, u>>}
  BY <1>1 DEF Remembers
<1>5. CASE u \notin Mapped(store)
  <2>1. JobRaises
    BY <1>2, <1>5 DEF TouchJob
  <2> QED BY <2>1, JobFacts, RaiseStep
<1>6. CASE u \in Mapped(store)
  <2> PICK M : M = {<<what.bot, u>>}
    OBVIOUS
  <2> PICK new : new = WithMembers(store, M)
    OBVIOUS
  <2> PICK left : left = [todo |-> "cache", users |-> {}]
    OBVIOUS
  <2>1. Commit(new, left)
    BY <1>2, <1>6 DEF TouchJob, WithMembers
  <2>2. M \subseteq Bots \X Users /\ \A m \in M : m[2] \in Mapped(store)
    BY <1>3, <1>6
  <2>3. IsTable(new) /\ Current(new) /\ new.rows = store.rows /\ new.members = store.members \cup M
    BY <2>2, JobFacts, MemberFacts
  <2>4. Pending(left, new, c, what)
    BY <1>4, <2>3 DEF Pending
  <2>5. SameRows(store, new, Mapped(store) \ left.users)
    BY <2>3 DEF SameRows, Mapped
  <2>6. \A m \in store.members : m \in new.members \/ (left.todo = "delete" /\ m[2] \in left.users)
    BY <2>3
  <2> QED BY <2>1, <2>3, <2>4, <2>5, <2>6, JobCommits
<1> QED BY <1>5, <1>6

(* The job of override_user_id                                              *)
LEMMA OverrideStep ==
  ASSUME NEW c, NEW what, AtWork(c, what), what.op = "override", OverrideJob(what)
  PROVE  IdentityInv'
<1>1. PICK u \in Users : what.users = {u}
  BY JobFacts DEF Proper
<1>2. (CHOOSE v \in what.users : TRUE) = u
  BY <1>1, OneUser
<1>3. what.bot \in Bots /\ what.arg \in Slots
  BY JobFacts DEF Proper
<1>4. Remembers(what, c) = {<<what.bot, u>>}
  BY <1>1 DEF Remembers
<1>5. CASE ~Listed(what, u) \/ Owners(store, what.arg) \ {u} # {}
  <2>1. JobRaises
    BY <1>2, <1>5 DEF OverrideJob
  <2> QED BY <2>1, JobFacts, RaiseStep
<1>6. CASE Listed(what, u) /\ Owners(store, what.arg) \ {u} = {}
  <2> PICK new : new = Overridden(store, u, what.arg)
    OBVIOUS
  <2> PICK left : left = [todo |-> "override", users |-> {u}]
    OBVIOUS
  <2>1. Commit(new, left)
    BY <1>2, <1>6 DEF OverrideJob
  <2>2. <<what.bot, u>> \in store.members /\ u \in Mapped(store)
    <3>1. <<what.bot, u>> \in store.members
      BY <1>6 DEF Listed
    <3>2. \A m \in store.members : m[2] \in Mapped(store)
      BY JobFacts DEF Current
    <3>3. <<what.bot, u>>[2] \in Mapped(store)
      BY ONLY <3>1, <3>2
    <3>4. <<what.bot, u>>[2] = u
      OBVIOUS
    <3>5. u \in Mapped(store)
      BY ONLY <3>3, <3>4
    <3> QED BY ONLY <3>1, <3>5
  <2>3. /\ IsTable(new) /\ Current(new) /\ Mapped(new) = Mapped(store)
        /\ SameRows(store, new, Mapped(store) \ {u}) /\ new.members = store.members
    <3>1. IsTable(store) /\ Current(store)
      BY JobFacts
    <3>2. Owners(store, what.arg) \ {u} = {} /\ what.arg \in Slots /\ u \in Mapped(store)
      BY <1>3, <1>6, <2>2
    <3> QED BY ONLY <3>1, <3>2, new = Overridden(store, u, what.arg), OverrideFacts
  <2>4. Pending(left, new, c, what)
    <3>1. left \in [todo : {"cache", "override", "delete"}, users : SUBSET Users]
      OBVIOUS
    <3>2. left.users \subseteq Mapped(new) /\ Remembers(what, c) \subseteq new.members
      BY <1>4, <2>2, <2>3
    <3> QED BY <3>1, <3>2 DEF Pending
  <2>5. SameRows(store, new, Mapped(store) \ left.users)
    BY <2>3
  <2>6. \A m \in store.members : m \in new.members \/ (left.todo = "delete" /\ m[2] \in left.users)
    BY <2>3
  <2> QED BY <2>1, <2>3, <2>4, <2>5, <2>6, JobCommits
<1> QED BY <1>5, <1>6

(* The job of delete_user                                                   *)
LEMMA DeleteStep ==
  ASSUME NEW c, NEW what, AtWork(c, what), what.op = "delete", DeleteJob(what)
  PROVE  IdentityInv'
<1>1. PICK u \in Users : what.users = {u}
  BY JobFacts DEF Proper
<1>2. (CHOOSE v \in what.users : TRUE) = u
  BY <1>1, OneUser
<1>3. CASE ~Listed(what, u)
  <2>1. JobRaises
    BY <1>2, <1>3 DEF DeleteJob
  <2> QED BY <2>1, JobFacts, RaiseStep
<1>4. CASE Listed(what, u)
  <2> PICK new : new = Deleted(store, u)
    OBVIOUS
  <2> PICK left : left = [todo |-> "delete", users |-> {u}]
    OBVIOUS
  <2>1. Commit(new, left)
    BY <1>2, <1>4 DEF DeleteJob, Deleted
  <2>2. /\ IsTable(new) /\ Current(new) /\ SameRows(store, new, Mapped(store) \ {u})
        /\ \A m \in store.members : m[2] # u => m \in new.members
    BY JobFacts, DeleteFacts
  <2>3. Pending(left, new, c, what)
    <3>1. left \in [todo : {"cache", "override", "delete"}, users : SUBSET Users]
      OBVIOUS
    <3>2. pc[c] = "waiting" /\ left.users = what.users
      BY <1>1, JobFacts
    <3> QED BY <3>1, <3>2 DEF Pending
  <2>4. SameRows(store, new, Mapped(store) \ left.users)
    BY <2>2
  <2>5. \A m \in store.members : m \in new.members \/ (left.todo = "delete" /\ m[2] \in left.users)
    BY <2>2
  <2> QED BY <2>1, <2>2, <2>3, <2>4, <2>5, JobCommits
<1> QED BY <1>3, <1>4

(* Any job that the thread takes                                            *)
LEMMA RunStep ==
  ASSUME IdentityInv, RunJob
  PROVE  IdentityInv'
<1>1. PICK c, what : c = Head(queue) /\ what = call[c]
  OBVIOUS
<1>2. LoopUnchanged
  BY DEF RunJob, LoopUnchanged, caches, tasks
<1>3. AtWork(c, what)
  BY <1>1, <1>2 DEF RunJob, AtWork
<1>4. /\ what \in Whats /\ what.op # "none"
      /\ pc[c] \in {"waiting", "touching"}
  BY <1>3, JobFacts
<1>5. what.op \in {"ensure", "batch", "get", "find", "override", "delete"}
  BY <1>4 DEF Whats
<1>6. CASE pc[c] = "touching"
  <2>1. TouchJob(what)
    BY <1>1, <1>6 DEF RunJob
  <2> QED BY <1>3, <1>6, <2>1, TouchStep
<1>7. CASE pc[c] # "touching"
  <2>1. /\ what.op = "ensure" => EnsureJob(what)
        /\ what.op = "batch" => BatchJob(what)
        /\ what.op = "override" => OverrideJob(what)
        /\ what.op = "delete" => DeleteJob(what)
        /\ what.op \in {"get", "find"} => LookupJob(what)
    BY <1>1, <1>7 DEF RunJob
  <2> QED BY <1>3, <1>5, <2>1, EnsureStep, BatchStep, OverrideStep, DeleteStep, LookupStep
<1> QED BY <1>6, <1>7

(* A batch inserts one of its users, or is rolled back.                     *)
LEMMA InsertStep ==
  ASSUME IdentityInv, InsertNext
  PROVE  IdentityInv'
<1>1. LoopUnchanged /\ thread.todo = "batch"
  BY DEF InsertNext, LoopUnchanged, caches, tasks
<1>2. PICK c, what : c = Head(queue) /\ what = call[c]
  OBVIOUS
<1>3. /\ IdentityTypeOK /\ TablesCurrent /\ Lines /\ Working
  BY DEF IdentityInv
<1>4. /\ queue # <<>> /\ what.op = "batch" /\ pc[c] = "waiting" /\ thread.users \subseteq what.users
      /\ Mapped(store) \subseteq Mapped(draft) /\ store.members \subseteq draft.members
      /\ \A v \in Mapped(store) : draft.rows[v] = store.rows[v]
      /\ \A v \in what.users \ thread.users : <<what.bot, v>> \in draft.members
  BY <1>1, <1>2, <1>3 DEF Working
<1>5. c \in Callers
  BY <1>2, <1>3, <1>4, InLine
<1>6. what \in Whats /\ Proper(what)
  BY <1>2, <1>3, <1>5, CallerFacts
<1>7. what.bot \in Bots /\ what.users \in SUBSET Users
  BY <1>4, <1>6 DEF Proper, Whats
<1>8. PICK u \in thread.users :
        IF u \notin Mapped(draft) /\ FreeOffsets(draft, u) = {} THEN JobRaises
        ELSE /\ draft' = EnsureRow(draft, what.bot, u, None)
             /\ thread' = [thread EXCEPT !.users = @ \ {u}]
             /\ UNCHANGED <<store, past, valid>>
  BY <1>2 DEF InsertNext
<1>9. CASE u \notin Mapped(draft) /\ FreeOffsets(draft, u) = {}
  <2>1. JobRaises
    BY <1>8, <1>9
  <2> QED BY <1>1, <1>4, <2>1, RaiseStep
<1>10. CASE ~(u \notin Mapped(draft) /\ FreeOffsets(draft, u) = {})
  <2>1. /\ draft' = EnsureRow(draft, what.bot, u, None) /\ UNCHANGED <<store, past, valid>>
        /\ thread' = [thread EXCEPT !.users = @ \ {u}]
    BY <1>8, <1>10
  <2>2. u \in Users /\ None \in Named
    BY <1>4, <1>7 DEF Named
  <2>3. IsTable(draft) /\ Current(draft)
    BY <1>3 DEF IdentityTypeOK, TablesCurrent
  <2>4. Ensured(draft, what.bot, u, None, draft')
    <3>1. u \in Mapped(draft) \/ FreeOffsets(draft, u) # {}
      BY <1>10
    <3> QED BY <1>7, <2>1, <2>2, <2>3, <3>1, EnsureFacts
  <2>5. /\ IsTable(draft') /\ Current(draft') /\ Mapped(draft') = Mapped(draft) \cup {u}
        /\ \A v \in Mapped(draft) : draft'.rows[v] = draft.rows[v]
        /\ draft'.members = draft.members \cup {<<what.bot, u>>}
    BY <2>4 DEF Ensured, SameRows
  <2>6. thread'.todo = "batch" /\ thread'.users = thread.users \ {u}
        /\ thread' \in [todo : {"idle", "batch", "raise", "read", "cache", "override", "delete"}, users : SUBSET Users]
    <3>1. thread \in [todo : {"idle", "batch", "raise", "read", "cache", "override", "delete"}, users : SUBSET Users]
      BY <1>3 DEF IdentityTypeOK
    <3> QED BY <1>1, <2>1, <3>1
  <2>7. Working'
    <3>1. UNCHANGED <<queue, call, pc, store>>
      BY <1>1, <2>1 DEF LoopUnchanged
    <3>2. /\ thread.users \ {u} \subseteq what.users
          /\ Mapped(store) \subseteq Mapped(draft') /\ store.members \subseteq draft'.members
          /\ \A v \in Mapped(store) : draft'.rows[v] = store.rows[v]
      BY <1>4, <2>5
    <3>3. \A v \in what.users \ (thread.users \ {u}) : <<what.bot, v>> \in draft'.members
      BY <1>4, <2>5
    <3> QED BY <1>2, <1>4, <2>6, <3>1, <3>2, <3>3 DEF Working
  <2> QED BY <1>1, <2>1, <2>5, <2>6, <2>7, NoChangeStep
<1> QED BY <1>9, <1>10

(* A batch whose users are all inserted commits.                            *)
LEMMA BatchCommits ==
  ASSUME IdentityInv, CommitBatch
  PROVE  IdentityInv'
<1>1. LoopUnchanged /\ thread = [todo |-> "batch", users |-> {}]
  BY DEF CommitBatch, LoopUnchanged, caches, tasks
<1>2. PICK c, what : c = Head(queue) /\ what = call[c]
  OBVIOUS
<1>3. /\ IdentityTypeOK /\ TablesCurrent /\ Lines /\ Working
  BY DEF IdentityInv
<1>4. /\ queue # <<>> /\ what.op = "batch" /\ pc[c] = "waiting"
      /\ Mapped(store) \subseteq Mapped(draft) /\ store.members \subseteq draft.members
      /\ \A v \in Mapped(store) : draft.rows[v] = store.rows[v]
      /\ \A v \in what.users : <<what.bot, v>> \in draft.members
  BY <1>1, <1>2, <1>3 DEF Working
<1>5. c \in Callers
  BY <1>2, <1>3, <1>4, InLine
<1>6. what.users \in SUBSET Users
  BY <1>2, <1>3, <1>5, CallerFacts DEF Whats
<1>7. IsTable(draft) /\ Current(draft)
  BY <1>3 DEF IdentityTypeOK, TablesCurrent
<1> PICK new : new = draft
  OBVIOUS
<1> PICK left : left = [todo |-> "cache", users |-> what.users]
  OBVIOUS
<1>8. Commit(new, left)
  BY <1>2 DEF CommitBatch
<1>9. what.users \subseteq Mapped(new)
  <2>1. \A m \in draft.members : m[2] \in Mapped(draft)
    BY <1>7 DEF Current
  <2>2. ASSUME NEW v \in what.users PROVE v \in Mapped(draft)
    <3>1. <<what.bot, v>>[2] \in Mapped(draft)
      BY <1>4, <2>1
    <3> QED BY <3>1
  <2> QED BY <2>2
<1>10. Remembers(what, c) \subseteq new.members
  BY <1>4 DEF Remembers
<1>11. Pending(left, new, c, what)
  <2>1. left \in [todo : {"cache", "override", "delete"}, users : SUBSET Users]
    BY <1>6
  <2> QED BY <2>1, <1>9, <1>10 DEF Pending
<1>12. SameRows(store, new, Mapped(store) \ left.users)
  BY <1>4 DEF SameRows
<1>13. \A m \in store.members : m \in new.members \/ (left.todo = "delete" /\ m[2] \in left.users)
  BY <1>4
<1>14. Pending(left, new, Head(queue), call[Head(queue)])
  BY <1>2, <1>11
<1>15. thread.todo \in {"idle", "batch"} /\ IsTable(new) /\ Current(new)
  BY <1>1, <1>7
<1> QED BY <1>1, <1>4, <1>8, <1>12, <1>13, <1>14, <1>15, CommitStep

-----------------------------------------------------------------------------
(* The caches                                                               *)

(* The cached users of ids are those of the cached mappings.                *)
Consistent(f, g) ==
  /\ IsMapping(f) /\ DOMAIN g \subseteq Slots /\ g \in [DOMAIN g -> Users]
  /\ \A id \in DOMAIN g : g[id] \in DOMAIN f /\ f[g[id]].id = id

(* What a cached mapping consists of                                        *)
LEMMA MappingTypes ==
  ASSUME NEW f, IsMapping(f), NEW u \in DOMAIN f
  PROVE  u \in Users /\ f[u] \in Rows /\ f[u].id \in Slots
BY DEF IsMapping, Rows

IndexFor(f, k) == [id \in {f[u].id : u \in k} |-> CHOOSE u \in k : f[u].id = id]

(* The index by id of a part of the cached mappings                         *)
LEMMA IndexOf ==
  ASSUME NEW f, IsMapping(f), NEW k, k \subseteq DOMAIN f,
         NEW f2, f2 = Restrict(f, k),
         NEW g, g = IndexFor(f, k)
  PROVE  Consistent(f2, g) /\ DOMAIN f2 = k /\ \A u \in k : f2[u] = f[u]
<1>1. DOMAIN f2 = k /\ \A u \in k : f2[u] = f[u]
  BY DEF Restrict
<1>2. IsMapping(f2)
  BY DEF IsMapping, Restrict
<1>3. ASSUME NEW id \in DOMAIN g
      PROVE  id \in Slots /\ g[id] \in Users /\ g[id] \in DOMAIN f2 /\ f2[g[id]].id = id
  <2>1. PICK u \in k : f[u].id = id
    BY DEF IndexFor
  <2>2. g[id] \in k /\ f[g[id]].id = id
    <3>1. g[id] = CHOOSE v \in k : f[v].id = id
      BY DEF IndexFor
    <3> QED BY <2>1, <3>1
  <2>3. id \in Slots /\ g[id] \in Users
    BY <2>1, <2>2, MappingTypes
  <2> QED BY <1>1, <2>2, <2>3
<1>4. g \in [DOMAIN g -> Users]
  BY <1>3 DEF IndexFor
<1> QED BY <1>1, <1>2, <1>3, <1>4 DEF Consistent

(* _cache: the new mappings are in the cache, and the index by id fits it,  *)
(* whatever is evicted.                                                     *)
LEMMA CacheFacts ==
  ASSUME IsMapping(byUser), NEW mappings, IsMapping(mappings), _cache(mappings)
  PROVE  /\ Consistent(byUser', byId')
         /\ \A u \in DOMAIN byUser' :
              \/ u \in DOMAIN mappings /\ byUser'[u] = mappings[u]
              \/ u \notin DOMAIN mappings /\ u \in DOMAIN byUser /\ byUser'[u] = byUser[u]
<1> DEFINE new == [u \in DOMAIN byUser \cup DOMAIN mappings |->
                     IF u \in DOMAIN mappings THEN mappings[u] ELSE byUser[u]]
           kept == {k \in SUBSET DOMAIN new :
                      Cardinality(k) = IF Cardinality(DOMAIN new) > CacheMax THEN CacheMax
                                       ELSE Cardinality(DOMAIN new)}
<1>1. PICK k \in kept : byUser' = Restrict(new, k) /\ byId' = IndexFor(new, k)
  BY DEF _cache, IndexFor
<1>5. k \in SUBSET DOMAIN new
  OBVIOUS
<1>2. /\ DOMAIN new = DOMAIN byUser \cup DOMAIN mappings
      /\ \A u \in DOMAIN mappings : new[u] = mappings[u]
      /\ \A u \in DOMAIN byUser \ DOMAIN mappings : new[u] = byUser[u]
  OBVIOUS
<1> HIDE DEF kept
<1>3. IsMapping(new)
  <2>1. \A u \in DOMAIN new : u \in Users /\ new[u] \in Rows
    BY <1>2, MappingTypes
  <2>2. new \in [DOMAIN new -> Rows]
    BY <2>1
  <2> QED BY <2>1, <2>2 DEF IsMapping
<1>4. Consistent(byUser', byId') /\ DOMAIN byUser' = k /\ \A u \in k : byUser'[u] = new[u]
  <2> HIDE DEF new
  <2> QED BY <1>1, <1>3, <1>5, IndexOf
<1> HIDE DEF new
<1> QED BY <1>2, <1>4, <1>5

(* invalidate_cache: the user is gone from both.                            *)
LEMMA InvalidateFacts ==
  ASSUME Consistent(byUser, byId), NEW u, invalidate_cache(u)
  PROVE  /\ Consistent(byUser', byId') /\ DOMAIN byUser' = DOMAIN byUser \ {u}
         /\ \A v \in DOMAIN byUser' : byUser'[v] = byUser[v]
<1>1. /\ byUser' = Drop(byUser, {u})
      /\ byId' = IF u \in DOMAIN byUser THEN Drop(byId, {byUser[u].id}) ELSE byId
  BY DEF invalidate_cache
<1>2. IsMapping(byUser)
  BY DEF Consistent
<1>3. /\ IsMapping(byUser') /\ DOMAIN byUser' = DOMAIN byUser \ {u}
      /\ \A v \in DOMAIN byUser' : byUser'[v] = byUser[v]
  <2>1. /\ IsMapping(Drop(byUser, {u})) /\ DOMAIN Drop(byUser, {u}) = DOMAIN byUser \ {u}
        /\ \A v \in DOMAIN byUser \ {u} : Drop(byUser, {u})[v] = byUser[v]
    BY <1>2, DropFacts
  <2> QED BY <1>1, <2>1
<1>4. /\ DOMAIN byId' \subseteq DOMAIN byId
      /\ \A id \in DOMAIN byId' : byId'[id] = byId[id] /\ (u \in DOMAIN byUser => id # byUser[u].id)
      /\ byId' \in [DOMAIN byId' -> Users]
  <2>1. CASE u \in DOMAIN byUser
    <3>1. byId' = [id \in DOMAIN byId \ {byUser[u].id} |-> byId[id]]
      BY <1>1, <2>1 DEF Drop, Restrict
    <3> QED BY <3>1 DEF Consistent
  <2>2. CASE u \notin DOMAIN byUser
    BY <1>1, <2>2 DEF Consistent
  <2> QED BY <2>1, <2>2
<1>5. \A id \in DOMAIN byId' : byId'[id] \in DOMAIN byUser' /\ byUser'[byId'[id]].id = id
  <2> SUFFICES ASSUME NEW id \in DOMAIN byId'
               PROVE  byId[id] \in DOMAIN byUser' /\ byUser'[byId[id]].id = id
    BY <1>4
  <2>1. byId[id] \in DOMAIN byUser /\ byUser[byId[id]].id = id
    BY <1>4 DEF Consistent
  <2>2. byId[id] # u
    BY <1>4, <2>1
  <2> QED BY <1>3, <2>1, <2>2
<1> QED BY <1>3, <1>4, <1>5 DEF Consistent

(* Whoever waits for a caller may be told what that one is.                 *)
LEMMA SharedValue ==
  ASSUME IdentityTypeOK, Lines, NEW c \in Callers, pc[c] # "idle", joined[c] = c, NEW d \in Resumed(c)
  PROVE  Value(store, call[c]) \in valid[d]
<1>1. d \in Callers /\ pc[d] \in {"waiting", "touching"} /\ joined[d] = c
  BY DEF Resumed
<1>2. CASE pc[d] = "touching"
  BY <1>1, <1>2, CallerFacts
<1>3. CASE pc[d] = "waiting"
  <2>1. /\ SameKey(call[d], call[c]) /\ call[d] \in Whats /\ call[c] \in Whats
        /\ Value(store, call[d]) \in valid[d]
    BY <1>1, <1>3, CallerFacts
  <2> QED BY <2>1, SameQuestion
<1> QED BY <1>1, <1>2, <1>3

(* The index by id and the cached mappings belong together.                 *)
LEMMA CachedIsConsistent ==
  ASSUME IdentityTypeOK, Cached
  PROVE  Consistent(byUser, byId)
BY DEF IdentityTypeOK, Cached, Consistent

(* The second half of a job makes the caches tell what the database holds.  *)
LEMMA Settled ==
  ASSUME IdentityInv, FinishJob
  PROVE  /\ Consistent(byUser', byId') /\ seen' \subseteq store.members
         /\ \A u \in DOMAIN byUser' : u \in Mapped(store) /\ byUser'[u] = store.rows[u]
<1> PICK c, what : c = Head(queue) /\ what = call[c]
  OBVIOUS
<1>1. /\ thread.todo \in {"cache", "override"} =>
           _cache(Restrict(store.rows, thread.users)) /\ seen' = seen \cup Remembers(what, c)
      /\ thread.todo = "delete" =>
           /\ invalidate_cache(CHOOSE u \in thread.users : TRUE)
           /\ seen' = {m \in seen : m[2] \notin thread.users}
      /\ thread.todo \in {"raise", "read"} => UNCHANGED <<byUser, byId, seen>>
  BY DEF FinishJob, caches
<1>2. IdentityTypeOK /\ Lines /\ Working /\ Cached
  BY DEF IdentityInv
<1>3. thread.todo \in {"raise", "read", "cache", "override", "delete"} /\ queue # <<>>
  <2>1. thread.todo \in {"idle", "batch", "raise", "read", "cache", "override", "delete"}
    BY <1>2 DEF IdentityTypeOK
  <2>2. thread.todo \notin {"idle", "batch"}
    BY DEF FinishJob
  <2> QED BY <1>2, <2>1, <2>2 DEF Working
<1>4. Consistent(byUser, byId)
  BY <1>2, CachedIsConsistent
<1>5. CASE thread.todo \in {"cache", "override"}
  <2>1. thread.users \subseteq Mapped(store) /\ Remembers(what, c) \subseteq store.members
    BY <1>2, <1>5 DEF Working
  <2>2. \A u \in DOMAIN byUser \ thread.users : u \in Mapped(store) /\ byUser[u] = store.rows[u]
    BY <1>2, <1>5 DEF Cached, Unsettled
  <2>3. \A m \in seen : m \in store.members
    BY <1>2, <1>5 DEF Cached
  <2> PICK new : new = Restrict(store.rows, thread.users)
    OBVIOUS
  <2>4. DOMAIN new = thread.users /\ \A u \in thread.users : new[u] = store.rows[u]
    BY DEF Restrict
  <2>5. IsMapping(new)
    <3>1. IsMapping(store.rows) /\ thread.users \subseteq DOMAIN store.rows
      BY <1>2, <2>1 DEF IdentityTypeOK, IsTable, Mapped
    <3> QED BY <3>1 DEF IsMapping, Restrict
  <2>6. IsMapping(byUser) /\ _cache(new)
    BY <1>1, <1>4, <1>5 DEF Consistent
  <2>7. /\ Consistent(byUser', byId')
        /\ \A u \in DOMAIN byUser' :
             \/ u \in DOMAIN new /\ byUser'[u] = new[u]
             \/ u \notin DOMAIN new /\ u \in DOMAIN byUser /\ byUser'[u] = byUser[u]
    BY <2>5, <2>6, CacheFacts
  <2>8. \A u \in DOMAIN byUser' : u \in Mapped(store) /\ byUser'[u] = store.rows[u]
    BY <2>1, <2>2, <2>4, <2>7
  <2>9. seen' \subseteq store.members
    BY <1>1, <1>5, <2>1, <2>3
  <2> QED BY <2>7, <2>8, <2>9
<1>6. CASE thread.todo = "delete"
  <2>1. what.op = "delete" /\ thread.users = what.users /\ c \in Callers
    BY <1>2, <1>3, <1>6, InLine DEF Working
  <2>2. PICK u \in Users : thread.users = {u}
    BY <1>2, <2>1, CallerFacts DEF Proper
  <2>3. (CHOOSE v \in thread.users : TRUE) = u
    BY <2>2, OneUser
  <2>4. invalidate_cache(u) /\ seen' = {m \in seen : m[2] \notin thread.users}
    BY <1>1, <1>6, <2>3
  <2>5. /\ Consistent(byUser', byId') /\ DOMAIN byUser' = DOMAIN byUser \ {u}
        /\ \A v \in DOMAIN byUser' : byUser'[v] = byUser[v]
    BY <1>4, <2>4, InvalidateFacts
  <2>6. \A v \in DOMAIN byUser \ {u} : v \in Mapped(store) /\ byUser[v] = store.rows[v]
    BY <1>2, <1>6, <2>2 DEF Cached, Unsettled
  <2>7. seen' \subseteq store.members
    BY <1>2, <2>4 DEF Cached
  <2> QED BY <2>5, <2>6, <2>7
<1>7. CASE thread.todo \in {"raise", "read"}
  <2>1. \A u \in DOMAIN byUser : u \in Mapped(store) /\ byUser[u] = store.rows[u]
    BY <1>2, <1>7 DEF Cached, Unsettled
  <2>2. seen \subseteq store.members
    BY <1>2, <1>7 DEF Cached
  <2> QED BY <1>1, <1>4, <1>7, <2>1, <2>2
<1> QED BY <1>3, <1>5, <1>6, <1>7

(* The second half of a job: the caches follow, and the loop is given the   *)
(* result.                                                                  *)
LEMMA FinishStep ==
  ASSUME IdentityInv, FinishJob
  PROVE  IdentityInv'
<1> PICK c, what : c = Head(queue) /\ what = call[c]
  OBVIOUS
<1> PICK result, entry : /\ result = Result(what)
                         /\ entry = [kind |-> IF c \in inflight THEN "task" ELSE "wake",
                                     caller |-> c, value |-> result]
  OBVIOUS
<1>1. /\ loop' = Append(loop, entry) /\ queue' = Tail(queue) /\ thread' = Idle /\ past' = PastBy(loop')
      /\ told' = {}
      /\ UNCHANGED <<store, draft, inflight, call, pc, joined, value, valid, excused, calls>>
  BY DEF FinishJob, tasks
<1>2. /\ IdentityTypeOK /\ TablesCurrent /\ Lines /\ Working /\ Cached
      /\ \A k \in DOMAIN loop : Heard(k)
  BY DEF IdentityInv
<1>3. /\ thread.todo \in {"raise", "read", "cache", "override", "delete"} /\ queue # <<>>
      /\ draft = store
      /\ thread.todo \in {"cache", "override"} => Remembers(what, c) \subseteq store.members
      /\ thread.todo = "delete" => what.op = "delete" /\ pc[c] = "waiting"
  <2>1. thread.todo \in {"idle", "batch", "raise", "read", "cache", "override", "delete"}
    BY <1>2 DEF IdentityTypeOK
  <2>2. thread.todo \notin {"idle", "batch"}
    BY DEF FinishJob
  <2> QED BY <1>2, <2>1, <2>2 DEF Working
<1>4. c \in Callers /\ pc[c] # "idle" /\ joined[c] = c /\ c = queue[1] /\ 1 \in DOMAIN queue
  BY <1>2, <1>3, InLine
<1>5. /\ queue \in Seq(Callers) /\ queue' \in Seq(Callers)
      /\ \A i \in DOMAIN queue' : i + 1 \in DOMAIN queue /\ i + 1 # 1 /\ queue'[i] = queue[i + 1]
      /\ \A i, j \in DOMAIN queue' : i + 1 = j + 1 => i = j
  <2>1. queue \in Seq(Callers)
    BY <1>2 DEF IdentityTypeOK
  <2> QED BY <1>1, <1>3, <2>1, TailOf
<1>16. c \in Resumed(c)
  BY <1>2, <1>4, CallerFacts DEF Resumed
<1>17. ASSUME thread.todo = "read"
       PROVE  \/ result = Value(store, what)
              \/ result = None /\ \A d \in Resumed(c) : None \in excused[d]
  <2>1. what.op = "find" /\ \E u \in Users : ReadsUser(c, u)
    BY <1>2, <1>17, Reading
  <2>2. PICK u \in Users : /\ thread.users = {u} /\ u \in Owners(store, what.arg)
                           /\ u \notin DOMAIN byUser => \A d \in Resumed(c) : None \in excused[d]
    BY <2>1 DEF ReadsUser
  <2>3. Value(store, what) = u
    BY <1>2, <2>1, <2>2, TablesAreTables, ValueOfId DEF Owners
  <2>4. (CHOOSE w \in thread.users : TRUE) = u
    BY <2>2, OneUser
  <2>5. result = IF u \in DOMAIN byUser THEN u ELSE None
    BY <1>17, <2>2, <2>4 DEF Result
  <2> QED BY <2>2, <2>3, <2>5
<1>18. thread.todo # "read" => result = IF thread.todo = "raise" THEN Error ELSE Value(store, what)
  BY DEF Result
<1>6. result \in Outcomes \cup {Error}
  <2>1. Value(store, what) \in Outcomes /\ None \in Outcomes
    BY <1>2, ValueType DEF IdentityTypeOK, Outcomes
  <2>2. result \in {Value(store, what), Error, None}
    BY <1>17, <1>18
  <2> QED BY <2>1, <2>2
<1>19. /\ past' \subseteq past /\ \A k \in DOMAIN loop' : loop'[k].kind = "task" => past' = past
  BY <1>1 DEF PastBy
<1>20. entry.caller = c /\ entry.value = result /\ (entry.kind # "wake" <=> c \in inflight)
  OBVIOUS
<1>7. /\ loop' \in Seq(LoopEntries)
      /\ DOMAIN loop' = DOMAIN loop \cup {Len(loop) + 1} /\ Len(loop) + 1 \notin DOMAIN loop
      /\ loop'[Len(loop) + 1] = entry
      /\ \A k \in DOMAIN loop : loop'[k] = loop[k] /\ k < Len(loop) + 1
  <2>1. entry \in LoopEntries
    BY <1>4, <1>6 DEF LoopEntries
  <2>2. loop \in Seq(LoopEntries)
    BY <1>2 DEF IdentityTypeOK, LoopEntries
  <2> QED BY <1>1, <2>1, <2>2, Appended
<1>8. /\ Consistent(byUser', byId') /\ seen' \subseteq store.members
      /\ \A u \in DOMAIN byUser' : u \in Mapped(store) /\ byUser'[u] = store.rows[u]
  BY Settled
<1>9. IdentityTypeOK'
  <2>1. IsMapping(byUser') /\ DOMAIN byId' \subseteq Slots /\ byId' \in [DOMAIN byId' -> Users]
    BY <1>8 DEF Consistent
  <2>2. seen' \subseteq Bots \X Users
    BY <1>2, <1>8 DEF IdentityTypeOK, IsTable
  <2>3. thread' \in [todo : {"idle", "batch", "raise", "read", "cache", "override", "delete"}, users : SUBSET Users]
    BY <1>1 DEF Idle
  <2> QED BY <1>1, <1>2, <1>5, <1>7, <1>19, <2>1, <2>2, <2>3 DEF IdentityTypeOK, LoopEntries
<1>10. TablesCurrent'
  BY <1>1, <1>2, <1>19 DEF TablesCurrent
<1>11. Lines'
  <2>1. \A d \in Callers : Asked(d)'
    BY <1>1, <1>2 DEF Lines, Asked
  <2>2. /\ \A j \in DOMAIN queue : Submitted(queue[j])
        /\ \A k \in DOMAIN loop : /\ Submitted(loop[k].caller)
                                  /\ loop[k].kind # "wake" <=> loop[k].caller \in inflight
        /\ \A i, j \in DOMAIN queue : queue[i] = queue[j] => i = j
        /\ \A i, j \in DOMAIN loop : loop[i].caller = loop[j].caller => i = j
        /\ \A j \in DOMAIN queue, k \in DOMAIN loop : queue[j] # loop[k].caller
    BY <1>2 DEF Lines
  <2>3. \A j \in DOMAIN queue' : Submitted(queue[j])'
    BY <1>1, <1>5, <2>2 DEF Submitted
  <2>4. loop'[Len(loop) + 1].caller = c
    BY <1>7, <1>20
  <2>9. \A k \in DOMAIN loop' : loop'[k].kind # "wake" <=> loop'[k].caller \in inflight'
    BY <1>1, <1>7, <1>20, <2>2
  <2>5. \A k \in DOMAIN loop' : Submitted(loop[k].caller)'
    BY <1>1, <1>4, <1>7, <2>2, <2>4 DEF Submitted
  <2>6. \A i, j \in DOMAIN queue' : queue'[i] = queue'[j] => i = j
    BY <1>5, <2>2
  <2>7. \A i, j \in DOMAIN loop' : loop'[i].caller = loop'[j].caller => i = j
    BY <1>4, <1>7, <2>2, <2>4
  <2>8. \A j \in DOMAIN queue', k \in DOMAIN loop' : queue'[j] # loop'[k].caller
    BY <1>4, <1>5, <1>7, <2>2, <2>4
  <2> QED BY <2>1, <2>3, <2>5, <2>6, <2>7, <2>8, <2>9 DEF Lines
<1>12. Working'
  BY <1>1, <1>3 DEF Working, Idle
<1>13. Cached'
  <2>1. \A u \in DOMAIN byUser' : \E s \in past' \cup {store'} :
           u \in Mapped(s) /\ s.rows[u].id = byUser'[u].id
    BY <1>1, <1>8
  <2> QED BY <1>1, <1>8, <2>1 DEF Cached, Consistent
<1>14. \A k \in DOMAIN loop' : Heard(k)'
  <2>0. \A e \in Callers : Resumed(e)' = Resumed(e)
    BY <1>1 DEF Resumed
  <2>1. ASSUME NEW k \in DOMAIN loop PROVE Heard(k)'
    <3> PICK e : e = loop[k].caller
      OBVIOUS
    <3>1. e \in Callers /\ loop'[k] = loop[k]
      BY <1>2, <1>7, InLine
    <3>2. DeletedAfter(k) => DeletedAfter(k)'
      <4>1. CASE thread.todo = "delete"
        <5>1. Len(loop) + 1 \in DOMAIN loop' /\ k < Len(loop) + 1 /\ loop'[Len(loop) + 1].caller = c
          BY <1>7, <1>20
        <5> QED BY <1>1, <1>3, <4>1, <5>1 DEF DeletedAfter
      <4>2. CASE thread.todo # "delete"
        BY <1>1, <1>7, <4>2 DEF DeletedAfter
      <4> QED BY <4>1, <4>2
    <3>3. Heard(k)
      BY <1>2
    <3>4. loop'[k].kind = "task" => past' = past
      BY <1>7, <1>19
    <3> QED BY <1>1, <2>0, <3>1, <3>2, <3>3, <3>4 DEF Heard
  <2>2. ASSUME NEW k, k = Len(loop) + 1 PROVE Heard(k)'
    <3>1. loop'[k].caller = c /\ loop'[k].value = result
      BY <1>7, <1>20, <2>2
    <3> SUFFICES ASSUME result # Error PROVE Heard(k)'
      BY <3>1 DEF Heard
    <3>2. thread.todo # "raise" /\ (result = Value(store, call[c]) \/ \A d \in Resumed(c) : result \in excused[d])
      BY <1>17, <1>18
    <3>3. \A d \in Resumed(c) : result \in valid[d] \cup excused[d]
      BY <1>2, <1>4, <3>2, SharedValue
    <3>4. pc[c] = "touching" => {<<call[c].bot, u>> : u \in call[c].users} \subseteq store.members
      <4>1. ASSUME thread.todo = "read" PROVE pc[c] = "waiting"
        <5>1. Working /\ c = Head(queue)
          BY <1>2 DEF IdentityInv
        <5> QED BY ONLY <4>1, <5>1, Reading
      <4> QED BY <1>3, <3>2, <4>1 DEF Remembers
    <3>5. result \in excused[c] \/ \E s \in past' \cup {store} : result = Value(s, call[c])
      BY <1>16, <3>2
    <3>6. \A d \in Resumed(c)' : result \in valid'[d] \cup excused'[d]
      BY <1>1, <1>4, <2>0, <3>3
    <3>7. pc'[c] = "touching" => {<<call'[c].bot, u>> : u \in call'[c].users} \subseteq store'.members
      BY <1>1, <3>4
    <3>8. result \in excused'[c] \/ \E s \in past' \cup {store'} : result = Value(s, call'[c])
      BY <1>1, <3>5
    <3> QED BY ONLY <3>1, <3>6, <3>7, <3>8 DEF Heard
  <2> QED BY <1>7, <2>1, <2>2
<1>15. ToldIsCurrent'
  BY <1>1 DEF ToldIsCurrent
<1> QED BY <1>9, <1>10, <1>11, <1>12, <1>13, <1>14, <1>15 DEF IdentityInv

(* The loop runs the callback that is due, which concerns the caller c: all *)
(* the others keep what they have asked for, and who of them wait for a job *)
(* or for a flight still wait for it, or have become due themselves.        *)
LoopStep(c, kind, due) ==
  /\ IdentityInv /\ Hear(kind, due) /\ due \in Seq(LoopEntries) /\ c = Head(loop).caller
  /\ \A d \in Callers : joined'[d] \in {joined[d], d} /\ (pc'[d] # "idle" => pc[d] # "idle")
  /\ \A d \in Callers \ {c} : /\ pc'[d] = pc[d] /\ call'[d] = call[d] /\ valid'[d] = valid[d]
                              /\ excused[d] \subseteq excused'[d]

(* The head of the loop's line: its caller is in no line a second time, and *)
(* is told what was so while those who wait for it did.                     *)
LEMMA HeadFacts ==
  ASSUME IdentityInv, loop # <<>>, NEW c, c = Head(loop).caller
  PROVE  /\ 1 \in DOMAIN loop /\ Head(loop) = loop[1] /\ Head(loop) \in LoopEntries
         /\ c \in Callers /\ pc[c] # "idle" /\ joined[c] = c /\ c \in Resumed(c)
         /\ Head(loop).value \in Outcomes \cup {Error}
         /\ Head(loop).kind # "wake" <=> c \in inflight
         /\ \A j \in DOMAIN queue : queue[j] \in Callers \ {c} /\ queue[j] \notin Resumed(c)
         /\ \A k \in DOMAIN loop : k # 1 => loop[k].caller \in Callers \ {c} /\ loop[k].caller \notin Resumed(c)
<1>1. IdentityTypeOK /\ Lines
  BY DEF IdentityInv
<1>2. 1 \in DOMAIN loop /\ Head(loop) = loop[1]
  BY <1>1, InLine
<1>3. /\ c \in Callers /\ pc[c] # "idle" /\ joined[c] = c /\ loop[1].caller = c
      /\ Head(loop).value \in Outcomes \cup {Error} /\ (Head(loop).kind # "wake" <=> c \in inflight)
  BY <1>1, <1>2, InLine
<1>4. c \in Resumed(c)
  BY <1>1, <1>3, CallerFacts DEF Resumed
<1>5. \A d \in Resumed(c) : joined[d] = c
  BY DEF Resumed
<1>6. \A j \in DOMAIN queue : queue[j] \in Callers \ {c} /\ queue[j] \notin Resumed(c)
  <2>1. \A j \in DOMAIN queue : queue[j] # c
    BY <1>1, <1>2, <1>3 DEF Lines
  <2> QED BY <1>1, <1>5, <2>1, InLine
<1>7. \A k \in DOMAIN loop : k # 1 => loop[k].caller \in Callers \ {c} /\ loop[k].caller \notin Resumed(c)
  <2>1. \A k \in DOMAIN loop : k # 1 => loop[k].caller # c
    BY <1>1, <1>2, <1>3 DEF Lines
  <2> QED BY <1>1, <1>5, <2>1, InLine
<1>8. Head(loop) \in LoopEntries
  <2>1. loop \in Seq(LoopEntries)
    BY <1>1 DEF IdentityTypeOK, LoopEntries
  <2> QED BY <2>1, TailOf
<1> QED BY <1>2, <1>3, <1>4, <1>6, <1>7, <1>8

(* What is told of a result, when it is not an error                        *)
LEMMA HeadHeard ==
  ASSUME IdentityInv, loop # <<>>, NEW c, c = Head(loop).caller, Head(loop).value # Error
  PROVE  /\ \A d \in Resumed(c) : Head(loop).value \in valid[d] \cup excused[d]
         /\ pc[c] = "touching" =>
              {<<call[c].bot, u>> : u \in call[c].users} \subseteq store.members \/ DeletedAfter(1)
<1>1. Heard(1) /\ loop[1] = Head(loop)
  BY HeadFacts DEF IdentityInv
<1> QED BY <1>1 DEF Heard

(* The line after that: the others, and behind them what has become due     *)
LEMMA LoopAfter ==
  ASSUME NEW c, NEW kind, NEW due, LoopStep(c, kind, due)
  PROVE  /\ loop' \in Seq(LoopEntries)
         /\ \E m : /\ \A k \in DOMAIN loop' :
                        \/ /\ k \in DOMAIN Tail(loop) /\ k + 1 \in DOMAIN loop /\ k + 1 # 1
                           /\ loop'[k] = loop[k + 1]
                        \/ k \notin DOMAIN Tail(loop) /\ k - m \in DOMAIN due /\ loop'[k] = due[k - m]
                   /\ \A i, j \in DOMAIN loop' : i - m = j - m => i = j
         /\ \A i, j \in DOMAIN Tail(loop) : i + 1 = j + 1 => i = j
         /\ \A k \in DOMAIN Tail(loop), j \in DOMAIN loop :
              k + 1 < j => /\ j # 1 /\ j - 1 \in DOMAIN loop' /\ k < j - 1
                           /\ loop'[j - 1] = loop[j]
<1>1. loop \in Seq(LoopEntries) /\ loop # <<>> /\ loop' = Tail(loop) \o due /\ due \in Seq(LoopEntries)
  BY DEF LoopStep, IdentityInv, IdentityTypeOK, Hear, LoopEntries
<1> PICK rest : rest = Tail(loop)
  OBVIOUS
<1>2. /\ rest \in Seq(LoopEntries)
      /\ \A i \in DOMAIN rest : i + 1 \in DOMAIN loop /\ i + 1 # 1 /\ rest[i] = loop[i + 1]
      /\ \A i, j \in DOMAIN rest : i + 1 = j + 1 => i = j
      /\ \A i \in DOMAIN rest, j \in DOMAIN loop :
           i + 1 < j => j - 1 \in DOMAIN rest /\ i < j - 1 /\ rest[j - 1] = loop[j]
  BY <1>1, TailOf
<1>3. /\ loop' \in Seq(LoopEntries)
      /\ \A i \in DOMAIN loop' :
           \/ i \in DOMAIN rest /\ loop'[i] = rest[i]
           \/ i \notin DOMAIN rest /\ i - Len(rest) \in DOMAIN due /\ loop'[i] = due[i - Len(rest)]
      /\ \A i, j \in DOMAIN loop' : i - Len(rest) = j - Len(rest) => i = j
  BY <1>1, <1>2, Concatenated
<1>4. DOMAIN rest \subseteq DOMAIN loop' /\ \A i \in DOMAIN rest : loop'[i] = rest[i]
  BY <1>1, <1>2
<1>5. \A k \in DOMAIN rest, j \in DOMAIN loop : k + 1 < j => j # 1
  <2>1. \A k \in DOMAIN rest : k \in Nat /\ k > 0
    BY <1>2
  <2> QED BY <2>1
<1>6. \A k \in DOMAIN rest, j \in DOMAIN loop :
        k + 1 < j => /\ j # 1 /\ j - 1 \in DOMAIN loop' /\ k < j - 1
                     /\ loop'[j - 1] = loop[j]
  BY <1>2, <1>4, <1>5
<1> PICK m : m = Len(rest)
  OBVIOUS
<1>7. /\ \A k \in DOMAIN loop' :
           \/ /\ k \in DOMAIN rest /\ k + 1 \in DOMAIN loop /\ k + 1 # 1 /\ loop'[k] = loop[k + 1]
           \/ k \notin DOMAIN rest /\ k - m \in DOMAIN due /\ loop'[k] = due[k - m]
      /\ \A i, j \in DOMAIN loop' : i - m = j - m => i = j
  BY <1>2, <1>3
<1> QED BY <1>2, <1>3, <1>6, <1>7

(* What is committed and what the thread does stay; the replaced tables are *)
(* kept while a task is due.                                                *)
LEMMA HearKeeps ==
  ASSUME NEW kind, NEW due, Hear(kind, due)
  PROVE  /\ UNCHANGED <<store, draft, seen, thread, calls>> /\ loop # <<>> /\ Head(loop).kind = kind
         /\ past' \subseteq past /\ (past' = past \/ thread = Idle)
         /\ \A k \in DOMAIN loop' : loop'[k].kind = "task" => past' = past
BY DEF Hear, PastBy

(* Who waits for another caller that is in the lines does so still, and     *)
(* nobody else begins to.                                                   *)
LEMMA ResumedOn ==
  ASSUME NEW c, NEW kind, NEW due, LoopStep(c, kind, due), NEW e \in Callers \ {c}, joined[e] = e
  PROVE  \A d \in Resumed(e)' : /\ d \in Resumed(e) /\ d \in Callers \ {c} /\ valid'[d] = valid[d]
                                /\ excused[d] \subseteq excused'[d]
<1> SUFFICES ASSUME NEW d \in Resumed(e)'
             PROVE  /\ d \in Resumed(e) /\ d \in Callers \ {c} /\ valid'[d] = valid[d]
                    /\ excused[d] \subseteq excused'[d]
  OBVIOUS
<1>1. d \in Callers /\ pc'[d] \in {"waiting", "touching"} /\ joined'[d] = e
  BY DEF Resumed
<1>2. joined'[d] \in {joined[d], d} /\ pc[d] # "idle"
  BY <1>1 DEF LoopStep
<1>3. joined[d] = e
  BY <1>1, <1>2
<1>4. pc[d] \in {"waiting", "touching"}
  BY <1>1, <1>2 DEF LoopStep, IdentityInv, IdentityTypeOK
<1>5. joined[c] = c
  BY HeadFacts DEF LoopStep, Hear
<1> QED BY <1>1, <1>3, <1>4, <1>5 DEF Resumed, LoopStep

(* The other results stay as good as they were.                             *)
LEMMA HeardOn ==
  ASSUME NEW c, NEW kind, NEW due, LoopStep(c, kind, due),
         NEW k \in DOMAIN loop', k \in DOMAIN Tail(loop), k + 1 \in DOMAIN loop, k + 1 # 1,
         loop'[k] = loop[k + 1]
  PROVE  Heard(k)'
<1> PICK e, n : e = loop[k + 1].caller /\ n = k + 1
  OBVIOUS
<1>1. IdentityInv /\ Hear(kind, due) /\ c = Head(loop).caller /\ loop # <<>>
  BY DEF LoopStep, Hear
<1>2. /\ n \in DOMAIN loop /\ Heard(n) /\ loop[n].caller = e /\ loop'[k] = loop[n]
      /\ e \in Callers \ {c} /\ joined[e] = e
  <2>1. n \in DOMAIN loop /\ n # 1 /\ Heard(n) /\ loop[n].caller = e /\ loop'[k] = loop[n]
    BY <1>1 DEF IdentityInv
  <2> QED BY <1>1, <2>1, HeadFacts, InLine DEF IdentityInv
<1>3. pc'[e] = pc[e] /\ call'[e] = call[e] /\ excused[e] \subseteq excused'[e]
  BY <1>2 DEF LoopStep
<1>4. UNCHANGED <<store, thread>> /\ (loop'[k].kind = "task" => past' = past)
  BY <1>1, HearKeeps
<1>5. \A d \in Resumed(e)' : d \in Resumed(e) /\ valid'[d] = valid[d] /\ excused[d] \subseteq excused'[d]
  BY <1>2, ResumedOn
<1>6. DeletedAfter(n) => DeletedAfter(k)'
  <2>1. CASE thread.todo = "delete"
    BY <1>4, <2>1 DEF DeletedAfter
  <2>2. ASSUME NEW j \in DOMAIN loop, n < j, call[loop[j].caller].op = "delete"
        PROVE  DeletedAfter(k)'
    <3>1. j - 1 \in DOMAIN loop' /\ k < j - 1 /\ loop'[j - 1] = loop[j] /\ j # 1
      BY <2>2, LoopAfter
    <3>2. loop[j].caller \in Callers \ {c}
      BY <1>1, <3>1, HeadFacts
    <3>3. call'[loop'[j - 1].caller].op = "delete"
      BY <2>2, <3>1, <3>2 DEF LoopStep
    <3> QED BY <3>1, <3>3 DEF DeletedAfter
  <2> QED BY <2>1, <2>2 DEF DeletedAfter
<1> SUFFICES ASSUME loop[n].value # Error PROVE Heard(k)'
  BY <1>2 DEF Heard
<1>7. /\ loop[n].kind = "task" =>
           loop[n].value \in excused[e] \/ \E s \in past \cup {store} : loop[n].value = Value(s, call[e])
      /\ \A d \in Resumed(e) : loop[n].value \in valid[d] \cup excused[d]
      /\ pc[e] = "touching" =>
           {<<call[e].bot, u>> : u \in call[e].users} \subseteq store.members \/ DeletedAfter(n)
  BY <1>2 DEF Heard
<1>8. /\ loop'[k].kind = "task" =>
           loop'[k].value \in excused'[e] \/ \E s \in past' \cup {store'} : loop'[k].value = Value(s, call'[e])
      /\ \A d \in Resumed(e)' : loop'[k].value \in valid'[d] \cup excused'[d]
      /\ pc'[e] = "touching" =>
           {<<call'[e].bot, u>> : u \in call'[e].users} \subseteq store'.members \/ DeletedAfter(k)'
  BY <1>2, <1>3, <1>4, <1>5, <1>6, <1>7
<1>9. loop'[k].caller = e
  BY <1>2
<1> QED BY <1>8, <1>9 DEF Heard

(* A deletion that is still to be heard of has a caller that waits for it.  *)
LEMMA StillDeleting ==
  ASSUME NEW c, NEW kind, NEW due, LoopStep(c, kind, due), DeletedAfter(1)
  PROVE  \E d \in Callers : pc'[d] = "waiting" /\ call'[d].op = "delete"
<1>1. IdentityInv /\ IdentityTypeOK /\ Lines /\ Working /\ loop # <<>> /\ c = Head(loop).caller
  BY DEF LoopStep, IdentityInv, Hear
<1>2. CASE thread.todo = "delete"
  <2>1. Head(queue) \in Callers \ {c} /\ pc[Head(queue)] = "waiting" /\ call[Head(queue)].op = "delete"
    <3>1. queue # <<>> /\ pc[Head(queue)] = "waiting" /\ call[Head(queue)].op = "delete"
      BY <1>1, <1>2, Deleting
    <3>2. Head(queue) = queue[1] /\ 1 \in DOMAIN queue
      BY <1>1, <3>1, InLine
    <3> QED BY <1>1, <3>1, <3>2, HeadFacts
  <2> QED BY <2>1 DEF LoopStep
<1>3. CASE thread.todo # "delete"
  <2>1. PICK j \in DOMAIN loop : 1 < j /\ call[loop[j].caller].op = "delete"
    BY <1>3 DEF DeletedAfter
  <2>2. loop[j].caller \in Callers \ {c} /\ pc[loop[j].caller] # "idle"
    <3>1. j # 1
      BY <2>1
    <3> QED BY <1>1, <3>1, InLine, HeadFacts
  <2>3. pc[loop[j].caller] = "waiting"
    BY <1>1, <2>1, <2>2, CallerFacts
  <2> QED BY <2>1, <2>2, <2>3 DEF LoopStep
<1> QED BY <1>2, <1>3

(* Whoever is in a line is in it once, and waits: the others as before, and *)
(* those that have become due.                                              *)
LEMMA LoopLines ==
  ASSUME NEW c, NEW kind, NEW due, LoopStep(c, kind, due),
         \A d \in Callers : Asked(d)',
         \A d \in Callers \ {c} : d \in inflight' <=> d \in inflight,
         \A i \in DOMAIN due : /\ due[i].caller \in Resumed(c) /\ Submitted(due[i].caller)'
                               /\ due[i].kind # "wake" <=> due[i].caller \in inflight',
         \A i, j \in DOMAIN due : due[i].caller = due[j].caller => i = j,
         queue' = queue \/ (queue' = Append(queue, c) /\ Submitted(c)' /\ due = <<>>)
  PROVE  Lines'
<1>1. IdentityInv /\ IdentityTypeOK /\ Lines /\ loop # <<>> /\ c = Head(loop).caller
  BY DEF LoopStep, IdentityInv, Hear
<1>2. /\ \A j \in DOMAIN queue : Submitted(queue[j])
      /\ \A k \in DOMAIN loop : Submitted(loop[k].caller) /\ (loop[k].kind # "wake" <=> loop[k].caller \in inflight)
      /\ \A i, j \in DOMAIN queue : queue[i] = queue[j] => i = j
      /\ \A i, j \in DOMAIN loop : loop[i].caller = loop[j].caller => i = j
      /\ \A j \in DOMAIN queue, k \in DOMAIN loop : queue[j] # loop[k].caller
  BY <1>1 DEF Lines
<1>3. /\ \A j \in DOMAIN queue : queue[j] \in Callers \ {c} /\ queue[j] \notin Resumed(c)
      /\ \A k \in DOMAIN loop : k # 1 => loop[k].caller \in Callers \ {c} /\ loop[k].caller \notin Resumed(c)
      /\ c \in Resumed(c)
  BY <1>1, HeadFacts
<1>4. \A d \in Callers \ {c} : Submitted(d) => Submitted(d)'
  BY DEF Submitted, LoopStep
<1>5. PICK m : /\ \A k \in DOMAIN loop' :
                    \/ /\ k \in DOMAIN Tail(loop) /\ k + 1 \in DOMAIN loop /\ k + 1 # 1
                       /\ loop'[k] = loop[k + 1]
                    \/ k \notin DOMAIN Tail(loop) /\ k - m \in DOMAIN due /\ loop'[k] = due[k - m]
               /\ \A i, j \in DOMAIN loop' : i - m = j - m => i = j
  BY LoopAfter
<1>6. \A i, j \in DOMAIN Tail(loop) : i + 1 = j + 1 => i = j
  BY LoopAfter
<1>7. ASSUME NEW k \in DOMAIN loop'
      PROVE  /\ Submitted(loop[k].caller)'
             /\ loop'[k].kind # "wake" <=> loop'[k].caller \in inflight'
  <2>1. CASE k + 1 \in DOMAIN loop /\ k + 1 # 1 /\ loop'[k] = loop[k + 1]
    <3> PICK n : n = k + 1
      OBVIOUS
    <3>1. n \in DOMAIN loop /\ loop'[k] = loop[n] /\ loop[n].caller \in Callers \ {c}
      BY <1>3, <2>1
    <3>2. /\ Submitted(loop[k].caller)'
          /\ loop'[k].kind # "wake" <=> loop'[k].caller \in inflight'
      <4> PICK d : d = loop[n].caller
        OBVIOUS
      <4>1. d \in Callers \ {c} /\ Submitted(d) /\ (loop[n].kind # "wake" <=> d \in inflight)
        BY <1>2, <3>1
      <4>2. Submitted(d)' /\ (loop[n].kind # "wake" <=> d \in inflight')
        BY <1>4, <4>1
      <4>3. loop[n].caller = d
        OBVIOUS
      <4>4. pc'[loop[n].caller] # "idle" /\ joined'[loop[n].caller] = loop[n].caller
        BY <4>2, <4>3 DEF Submitted
      <4>5. loop'[k].caller = loop[n].caller
        BY <3>1
      <4>6. Submitted(loop[k].caller)'
        BY <4>4, <4>5 DEF Submitted
      <4>7. loop'[k].kind = loop[n].kind
        BY <3>1
      <4> QED BY <4>2, <4>3, <4>5, <4>6, <4>7
    <3> QED BY <3>2
  <2>2. CASE k - m \in DOMAIN due /\ loop'[k] = due[k - m]
    <3> PICK n : n = k - m
      OBVIOUS
    <3>1. n \in DOMAIN due /\ loop'[k] = due[n]
      BY <2>2
    <3> QED BY <3>1 DEF Submitted
  <2> QED BY <1>5, <2>1, <2>2
<1>8. \A i, j \in DOMAIN loop' : loop'[i].caller = loop'[j].caller => i = j
  <2> SUFFICES ASSUME NEW i \in DOMAIN loop', NEW j \in DOMAIN loop', loop'[i].caller = loop'[j].caller
               PROVE  i = j
    OBVIOUS
  <2>1. \/ /\ i \in DOMAIN Tail(loop) /\ i + 1 \in DOMAIN loop /\ i + 1 # 1 /\ loop'[i] = loop[i + 1]
        \/ i \notin DOMAIN Tail(loop) /\ i - m \in DOMAIN due /\ loop'[i] = due[i - m]
    BY <1>5
  <2>2. \/ /\ j \in DOMAIN Tail(loop) /\ j + 1 \in DOMAIN loop /\ j + 1 # 1 /\ loop'[j] = loop[j + 1]
        \/ j \notin DOMAIN Tail(loop) /\ j - m \in DOMAIN due /\ loop'[j] = due[j - m]
    BY <1>5
  <2> PICK i1, j1, im, jm : i1 = i + 1 /\ j1 = j + 1 /\ im = i - m /\ jm = j - m
    OBVIOUS
  <2>3. /\ \/ i \in DOMAIN Tail(loop) /\ i1 \in DOMAIN loop /\ i1 # 1 /\ loop'[i] = loop[i1]
           \/ im \in DOMAIN due /\ loop'[i] = due[im]
        /\ \/ j \in DOMAIN Tail(loop) /\ j1 \in DOMAIN loop /\ j1 # 1 /\ loop'[j] = loop[j1]
           \/ jm \in DOMAIN due /\ loop'[j] = due[jm]
        /\ i \in DOMAIN Tail(loop) /\ j \in DOMAIN Tail(loop) => (i1 = j1 => i = j)
        /\ im = jm => i = j
    BY <1>5, <1>6, <2>1, <2>2
  <2> QED BY <1>2, <1>3, <2>3
<1>9. \A j \in DOMAIN queue, k \in DOMAIN loop' : queue[j] # loop'[k].caller
  <2> SUFFICES ASSUME NEW j \in DOMAIN queue, NEW k \in DOMAIN loop' PROVE queue[j] # loop'[k].caller
    OBVIOUS
  <2>1. CASE k + 1 \in DOMAIN loop /\ k + 1 # 1 /\ loop'[k] = loop[k + 1]
    BY <1>2, <2>1
  <2>2. CASE k - m \in DOMAIN due /\ loop'[k] = due[k - m]
    BY <1>3, <2>2
  <2> QED BY <1>5, <2>1, <2>2
<1>10. \A j \in DOMAIN queue : queue[j] \in Callers \ {c} /\ Submitted(queue[j])'
  <2> SUFFICES ASSUME NEW j \in DOMAIN queue PROVE queue[j] \in Callers \ {c} /\ Submitted(queue[j])'
    OBVIOUS
  <2> QED BY <1>2, <1>3, <1>4
<1>11. CASE queue' = queue
  <2>1. \A j \in DOMAIN queue' : Submitted(queue[j])'
    BY <1>10, <1>11 DEF Submitted
  <2> QED BY <1>2, <1>7, <1>8, <1>9, <1>11, <2>1 DEF Lines
<1>12. CASE queue' = Append(queue, c) /\ Submitted(c)' /\ due = <<>>
  <2>1. /\ DOMAIN queue' = DOMAIN queue \cup {Len(queue) + 1} /\ Len(queue) + 1 \notin DOMAIN queue
        /\ queue'[Len(queue) + 1] = c /\ \A j \in DOMAIN queue : queue'[j] = queue[j]
    <3>1. queue \in Seq(Callers) /\ c \in Callers
      BY <1>1, HeadFacts DEF IdentityTypeOK
    <3> QED BY <1>12, <3>1, Appended
  <2> PICK last : last = Len(queue) + 1
    OBVIOUS
  <2>2. /\ DOMAIN queue' = DOMAIN queue \cup {last} /\ last \notin DOMAIN queue
        /\ queue'[last] = c /\ \A j \in DOMAIN queue : queue'[j] = queue[j]
    BY <2>1
  <2>3. \A j \in DOMAIN queue' : Submitted(queue[j])'
    BY <1>10, <1>12, <2>2 DEF Submitted
  <2>4. \A i, j \in DOMAIN queue' : queue'[i] = queue'[j] => i = j
    BY <1>2, <1>10, <2>2
  <2>5. \A k \in DOMAIN loop' : loop'[k].caller # c
    <3> SUFFICES ASSUME NEW k \in DOMAIN loop' PROVE loop'[k].caller # c
      OBVIOUS
    <3>1. DOMAIN due = {}
      BY <1>12
    <3>2. k + 1 \in DOMAIN loop /\ k + 1 # 1 /\ loop'[k] = loop[k + 1]
      BY <1>5, <3>1
    <3> QED BY <1>3, <3>2
  <2>6. \A j \in DOMAIN queue', k \in DOMAIN loop' : queue'[j] # loop'[k].caller
    BY <1>9, <2>2, <2>5
  <2> QED BY <1>7, <1>8, <2>3, <2>4, <2>6 DEF Lines
<1> QED BY <1>11, <1>12

(* The job at work is not disturbed, as its caller is in no other line; and *)
(* whoever drops the mapping between the reads of a lookup excuses them.    *)
LEMMA LoopWorking ==
  ASSUME NEW c, NEW kind, NEW due, LoopStep(c, kind, due),
         queue # <<>> => queue' # <<>> /\ Head(queue') = Head(queue),
         queue # <<>> /\ thread.todo = "read" =>
           \A u \in thread.users \ DOMAIN byUser' :
              \/ u \notin DOMAIN byUser
              \/ \A d \in Resumed(Head(queue)) : d # c => None \in excused'[d]
  PROVE  Working'
<1>1. IdentityInv /\ Working /\ loop # <<>> /\ c = Head(loop).caller /\ Hear(kind, due)
  BY DEF LoopStep, IdentityInv, Hear
<1>2. UNCHANGED <<store, draft, thread>>
  BY <1>1, HearKeeps
<1>3. CASE thread.todo = "idle"
  BY <1>1, <1>2, <1>3 DEF Working
<1>4. CASE thread.todo # "idle"
  <2> PICK h : h = Head(queue)
    OBVIOUS
  <2>1. queue # <<>>
    BY <1>1, <1>4 DEF Working
  <2>2. h \in Callers \ {c} /\ joined[h] = h
    <3>1. h = queue[1] /\ 1 \in DOMAIN queue /\ joined[queue[1]] = queue[1]
      BY <1>1, <2>1, InLine DEF IdentityInv
    <3> QED BY <1>1, <3>1, HeadFacts
  <2>3. queue' # <<>> /\ Head(queue') = h /\ pc'[h] = pc[h] /\ call'[h] = call[h]
    BY <2>1, <2>2 DEF LoopStep
  <2>4. Remembers(call[h], h)' = Remembers(call[h], h)
    BY <2>3 DEF Remembers
  <2>5. ASSUME thread.todo = "read"
        PROVE  call'[h].op = "find" /\ pc'[h] = "waiting" /\ \E u \in Users : ReadsUser(h, u)'
    <3>1. Working /\ h = Head(queue)
      BY <1>1
    <3>2. call[h].op = "find" /\ pc[h] = "waiting" /\ \E u \in Users : ReadsUser(h, u)
      BY ONLY <2>5, <3>1, Reading
    <3>3. \A d \in Resumed(h)' : d \in Resumed(h) /\ d # c /\ excused[d] \subseteq excused'[d]
      BY <2>2, ResumedOn
    <3>4. ASSUME NEW u \in Users, ReadsUser(h, u) PROVE ReadsUser(h, u)'
      <4>1. thread'.users = {u} /\ u \in Owners(store, call'[h].arg)
        BY <1>2, <2>3, <3>4 DEF ReadsUser
      <4>2. u \notin DOMAIN byUser' => \A d \in Resumed(h)' : None \in excused'[d]
        BY <2>1, <2>5, <3>3, <3>4 DEF ReadsUser
      <4>3. \A i : Owners(store, i)' = Owners(store, i)
        BY <1>2 DEF Owners, Mapped
      <4> QED BY <4>1, <4>2, <4>3 DEF ReadsUser
    <3> QED BY <2>3, <3>2, <3>4
  <2> QED BY <1>1, <1>2, <1>4, <2>3, <2>4, <2>5 DEF Working
<1> QED BY <1>3, <1>4

(* The caches, from which at most something is dropped, still tell what the *)
(* database holds.                                                          *)
LEMMA LoopCached ==
  ASSUME NEW c, NEW kind, NEW due, LoopStep(c, kind, due),
         Consistent(byUser', byId'), DOMAIN byUser' \subseteq DOMAIN byUser,
         \A u \in DOMAIN byUser' : byUser'[u] = byUser[u]
  PROVE  Cached'
<1>1. Cached /\ Hear(kind, due)
  BY DEF LoopStep, IdentityInv
<1>2. UNCHANGED <<store, seen, thread>> /\ (past' = past \/ thread = Idle)
  BY <1>1, HearKeeps
<1>4. \A u \in DOMAIN byUser' : \E s \in past' \cup {store'} :
        u \in Mapped(s) /\ s.rows[u].id = byUser'[u].id
  <2>1. CASE past' = past
    BY <1>1, <1>2, <2>1 DEF Cached
  <2>2. CASE thread = Idle
    <3>1. \A u \in DOMAIN byUser : u \in Mapped(store) /\ byUser[u] = store.rows[u]
      BY <1>1, <2>2 DEF Cached, Unsettled, Idle
    <3> QED BY <1>2, <3>1
  <2> QED BY <1>2, <2>1, <2>2
<1>5. Unsettled' = Unsettled
  BY <1>2 DEF Unsettled
<1>6. \A u \in DOMAIN byUser' \ Unsettled' : u \in Mapped(store') /\ byUser'[u] = store'.rows[u]
  BY <1>1, <1>2, <1>5 DEF Cached
<1>7. \A m \in seen' : m \in store'.members \/ (thread'.todo = "delete" /\ m[2] \in thread'.users)
  BY <1>1, <1>2 DEF Cached
<1>8. \A id \in DOMAIN byId' : byId'[id] \in DOMAIN byUser' /\ byUser'[byId'[id]].id = id
  BY DEF Consistent
<1> QED BY <1>4, <1>6, <1>7, <1>8 DEF Cached

(* What the callers have, as a part of the type invariant                   *)
CallTypes ==
  /\ call \in [Callers -> Whats] /\ pc \in [Callers -> {"idle", "waiting", "touching"}]
  /\ joined \in [Callers -> Callers] /\ value \in [Callers -> Outcomes \cup {Error}]
  /\ valid \in [Callers -> SUBSET Outcomes] /\ excused \in [Callers -> SUBSET Outcomes]
  /\ inflight \subseteq Callers

(* A step of the loop keeps the invariant if it keeps what concerns its own *)
(* caller, and if what becomes due is as good as what was heard.            *)
LEMMA LoopKeeps ==
  ASSUME NEW c, NEW kind, NEW due, LoopStep(c, kind, due), CallTypes', queue' \in Seq(Callers),
         Consistent(byUser', byId'), DOMAIN byUser' \subseteq DOMAIN byUser,
         \A u \in DOMAIN byUser' : byUser'[u] = byUser[u],
         Lines', Working', ToldIsCurrent',
         \A k \in DOMAIN loop', i \in DOMAIN due : loop'[k] = due[i] => Heard(k)'
  PROVE  IdentityInv'
<1>1. IdentityTypeOK /\ TablesCurrent /\ Hear(kind, due)
  BY DEF LoopStep, IdentityInv
<1>2. UNCHANGED <<store, draft, seen, thread, calls>> /\ past' \subseteq past
  BY <1>1, HearKeeps
<1>3. IdentityTypeOK'
  <2>1. IsMapping(byUser') /\ DOMAIN byId' \subseteq Slots /\ byId' \in [DOMAIN byId' -> Users]
    BY DEF Consistent
  <2>2. loop' \in Seq([kind : {"task", "cleanup", "wake"}, caller : Callers, value : Outcomes \cup {Error}])
    BY LoopAfter DEF LoopEntries
  <2> QED BY <1>1, <1>2, <2>1, <2>2 DEF IdentityTypeOK, CallTypes
<1>4. TablesCurrent'
  BY <1>1, <1>2 DEF TablesCurrent
<1>5. Cached'
  BY LoopCached
<1>6. ASSUME NEW k \in DOMAIN loop' PROVE Heard(k)'
  <2>1. \/ k \in DOMAIN Tail(loop) /\ k + 1 \in DOMAIN loop /\ k + 1 # 1 /\ loop'[k] = loop[k + 1]
        \/ \E i \in DOMAIN due : loop'[k] = due[i]
    BY LoopAfter
  <2> QED BY <2>1, HeardOn
<1> QED BY <1>3, <1>4, <1>5, <1>6 DEF IdentityInv

(* The caches when nothing is dropped                                       *)
LEMMA CachesStay ==
  ASSUME IdentityInv, UNCHANGED <<byUser, byId>>
  PROVE  /\ Consistent(byUser', byId') /\ DOMAIN byUser' \subseteq DOMAIN byUser
         /\ \A u \in DOMAIN byUser' : byUser'[u] = byUser[u]
BY CachedIsConsistent DEF IdentityInv

(* The task of a flight is completed: its removal becomes due.              *)
LEMMA CompleteStep ==
  ASSUME IdentityInv, CompleteTask
  PROVE  IdentityInv'
<1> PICK c, last, due : /\ c = Head(loop).caller /\ last = [Head(loop) EXCEPT !.kind = "cleanup"]
                        /\ due = <<last>>
  OBVIOUS
<1>1. /\ Hear("task", due) /\ told' = {}
      /\ UNCHANGED <<byUser, byId, queue, inflight, call, pc, joined, value, valid, excused>>
  BY DEF CompleteTask, tasks
<1>2. /\ IdentityTypeOK /\ Lines /\ loop # <<>> /\ Head(loop).kind = "task"
  BY <1>1, HearKeeps DEF IdentityInv
<1>3. /\ Head(loop) \in LoopEntries /\ c \in Callers /\ c \in inflight /\ c \in Resumed(c)
      /\ pc[c] # "idle" /\ joined[c] = c
  BY <1>2, HeadFacts
<1>4. /\ last \in LoopEntries /\ last.kind = "cleanup" /\ last.caller = c
      /\ last.value = Head(loop).value
  BY <1>3 DEF LoopEntries
<1>5. due \in Seq(LoopEntries) /\ DOMAIN due = {1} /\ due[1] = last
  BY <1>4
<1>6. LoopStep(c, "task", due)
  BY <1>1, <1>5 DEF LoopStep
<1>7. Lines'
  <2>1. \A d \in Callers : Asked(d)'
    <3>1. store' = store
      BY <1>1, HearKeeps
    <3> QED BY <1>1, <1>2, <3>1 DEF Lines, Asked
  <2>2. \A i \in DOMAIN due : /\ due[i].caller \in Resumed(c) /\ Submitted(due[i].caller)'
                              /\ due[i].kind # "wake" <=> due[i].caller \in inflight'
    <3>1. Submitted(last.caller)'
      BY <1>1, <1>3, <1>4 DEF Submitted
    <3>2. last.caller \in Resumed(c) /\ (last.kind # "wake" <=> last.caller \in inflight')
      BY <1>1, <1>3, <1>4
    <3>3. \A i \in DOMAIN due : due[i] = last
      BY <1>5
    <3> QED BY ONLY <3>1, <3>2, <3>3
  <2>3. \A i, j \in DOMAIN due : due[i].caller = due[j].caller => i = j
    BY <1>5
  <2> QED BY <1>1, <1>6, <2>1, <2>2, <2>3, LoopLines
<1>8. Working'
  BY <1>1, <1>6, LoopWorking
<1>9. ASSUME NEW k \in DOMAIN loop', NEW i \in DOMAIN due, loop'[k] = due[i]
      PROVE  Heard(k)'
  <2>1. loop'[k].caller = c /\ loop'[k].kind = "cleanup" /\ loop'[k].value = Head(loop).value
    BY <1>4, <1>5, <1>9
  <2>2. pc[c] = "waiting" /\ pc'[c] = "waiting"
    BY <1>1, <1>2, <1>3, CallerFacts
  <2>3. \A d \in Resumed(c)' : d \in Resumed(c) /\ valid'[d] = valid[d] /\ excused'[d] = excused[d]
    BY <1>1 DEF Resumed
  <2>4. Head(loop).value # Error => \A d \in Resumed(c)' : Head(loop).value \in valid'[d] \cup excused'[d]
    BY <1>2, <2>3, HeadHeard
  <2> QED BY <2>1, <2>2, <2>4 DEF Heard
<1>10. CallTypes' /\ queue' \in Seq(Callers) /\ ToldIsCurrent'
  BY <1>1, <1>2 DEF CallTypes, IdentityTypeOK, ToldIsCurrent
<1>11. /\ Consistent(byUser', byId') /\ DOMAIN byUser' \subseteq DOMAIN byUser
       /\ \A u \in DOMAIN byUser' : byUser'[u] = byUser[u]
  BY <1>1, CachesStay
<1> QED BY <1>6, <1>7, <1>8, <1>9, <1>10, <1>11, LoopKeeps

(* The flight is removed, and those who wait for it become due, each once.  *)
LEMMA CleanupStep ==
  ASSUME IdentityInv, cleanup
  PROVE  IdentityInv'
<1> PICK c, v, W : c = Head(loop).caller /\ v = Head(loop).value /\ W = Resumed(c)
  OBVIOUS
<1> DEFINE wake(d) == [kind |-> "wake", caller |-> d, value |-> v]
<1>1. PICK order \in SetToSeqs(W) : Hear("cleanup", [i \in DOMAIN order |-> wake(order[i])])
  BY DEF cleanup
<1>2. /\ inflight' = inflight \ {c} /\ told' = {}
      /\ joined' = [d \in Callers |-> IF d \in W THEN d ELSE joined[d]]
      /\ UNCHANGED <<byUser, byId, queue, call, pc, value, valid, excused>>
  BY DEF cleanup
<1>3. /\ IdentityTypeOK /\ Lines /\ loop # <<>> /\ Head(loop).kind = "cleanup"
  BY <1>1, HearKeeps DEF IdentityInv
<1>4. /\ c \in Callers /\ c \in inflight /\ c \in W /\ joined[c] = c /\ pc[c] = "waiting"
      /\ v \in Outcomes \cup {Error}
  BY <1>3, HeadFacts, CallerFacts
<1>5. \A d \in W : d \in Callers /\ joined[d] = c /\ pc[d] = "waiting"
  <2>1. \A d \in W : d \in Callers /\ joined[d] = c /\ pc[d] \in {"waiting", "touching"}
    BY DEF Resumed
  <2> QED BY <1>3, <1>4, <2>1, CallerFacts
<1>6. /\ order \in Seq(W) /\ \A i \in DOMAIN order : order[i] \in W
      /\ \A i, j \in DOMAIN order : order[i] = order[j] => i = j
  <2>1. IsFiniteSet(W)
    BY <1>5, IdentityAssumption, FS_Subset
  <2> QED BY <2>1, Ordered
<1> PICK due : due = [i \in DOMAIN order |-> wake(order[i])]
  OBVIOUS
<1>7. /\ DOMAIN due = DOMAIN order
      /\ \A i \in DOMAIN due : /\ due[i].caller = order[i] /\ due[i].kind = "wake" /\ due[i].value = v
                               /\ due[i].caller \in W
  BY <1>6
<1>8. due \in Seq(LoopEntries)
  <2>1. \A d \in W : wake(d) \in LoopEntries
    BY <1>4, <1>5 DEF LoopEntries
  <2>2. \A i \in DOMAIN due : due[i] \in LoopEntries
    BY <1>6, <1>7, <2>1
  <2>3. due = [i \in 1 .. Len(order) |-> due[i]] /\ Len(order) \in Nat /\ DOMAIN order = 1 .. Len(order)
    BY <1>6
  <2>4. due \in [1 .. Len(order) -> LoopEntries]
    BY <1>7, <2>2, <2>3
  <2> QED BY <2>3, <2>4
<1> HIDE DEF wake
<1>9. /\ \A d \in W : joined'[d] = d
      /\ \A d \in Callers \ W : joined'[d] = joined[d]
      /\ joined' \in [Callers -> Callers]
  <2>1. joined \in [Callers -> Callers]
    BY <1>3 DEF IdentityTypeOK
  <2> QED BY <1>2, <1>5, <2>1
<1>10. LoopStep(c, "cleanup", due)
  BY <1>1, <1>2, <1>8, <1>9 DEF LoopStep
<1>11. Lines'
  <2>1. ASSUME NEW d \in Callers PROVE Asked(d)'
    <3>1. Asked(d) /\ store' = store
      BY <1>1, <1>3, HearKeeps DEF Lines
    <3>2. /\ call'[d] = call[d] /\ pc'[d] = pc[d] /\ value'[d] = value[d] /\ valid'[d] = valid[d]
          /\ excused'[d] = excused[d]
      BY <1>2
    <3>3. CASE d \in W
      <4>1. SameKey(call[d], call[d])
        BY DEF SameKey
      <4>2. pc[d] = "waiting" /\ joined'[d] = d
        BY <1>5, <1>9, <3>3
      <4>3. d \in inflight' => d \in inflight
        BY <1>2
      <4> QED BY <1>2, <3>1, <3>2, <4>1, <4>2, <4>3 DEF Asked
    <3>4. CASE d \notin W
      <4>1. joined'[d] = joined[d]
        BY <1>9, <3>4
      <4>2. d # c
        BY <1>4, <3>4
      <4>3. pc[d] = "waiting" =>
              joined[d] \in Callers /\ joined[d] # c /\ joined[joined[d]] = joined[d] /\ joined[d] \notin W
        <5>1. pc[d] = "waiting" => joined[d] # c
          BY <3>4 DEF Resumed
        <5> QED BY <1>3, <1>5, <5>1, CallerFacts
      <4>4. pc[d] = "waiting" => /\ pc'[joined[d]] = pc[joined[d]] /\ joined'[joined[d]] = joined[joined[d]]
                                 /\ call'[joined[d]] = call[joined[d]]
                                 /\ (joined[d] \in inflight => joined[d] \in inflight')
        BY <1>2, <1>9, <4>3
      <4>5. d \in inflight' <=> d \in inflight
        BY <1>2, <4>2
      <4> QED BY <3>1, <3>2, <4>1, <4>4, <4>5 DEF Asked
    <3> QED BY <3>3, <3>4
  <2>2. \A d \in Callers \ {c} : d \in inflight' <=> d \in inflight
    BY <1>2
  <2>3. ASSUME NEW i \in DOMAIN due
        PROVE  /\ due[i].caller \in Resumed(c) /\ Submitted(due[i].caller)'
               /\ due[i].kind # "wake" <=> due[i].caller \in inflight'
    <3> PICK d : d = due[i].caller
      OBVIOUS
    <3>1. d \in W /\ due[i].kind = "wake"
      BY <1>7
    <3>2. pc'[d] = "waiting" /\ joined'[d] = d
      BY <1>2, <1>5, <1>9, <3>1
    <3>3. d \notin inflight'
      <4>1. d # c => d \notin inflight
        BY <1>3, <1>5, <3>1, CallerFacts
      <4> QED BY <1>2, <4>1
    <3> QED BY <3>1, <3>2, <3>3 DEF Submitted
  <2>4. \A i, j \in DOMAIN due : due[i].caller = due[j].caller => i = j
    BY <1>6, <1>7
  <2> QED BY <1>2, <1>10, <2>1, <2>2, <2>3, <2>4, LoopLines
<1>12. Working'
  BY <1>2, <1>10, LoopWorking
<1>13. ASSUME NEW k \in DOMAIN loop', NEW i \in DOMAIN due, loop'[k] = due[i]
       PROVE  Heard(k)'
  <2> PICK e : e = due[i].caller
    OBVIOUS
  <2>1. /\ loop'[k].caller = e /\ loop'[k].kind = "wake" /\ loop'[k].value = v /\ e \in W
        /\ pc'[e] = "waiting"
    BY <1>2, <1>5, <1>7, <1>13
  <2>2. ASSUME NEW d \in Resumed(e)' PROVE d \in W /\ valid'[d] = valid[d] /\ excused'[d] = excused[d]
    <3>1. d \in Callers /\ pc[d] \in {"waiting", "touching"} /\ joined'[d] = e
      BY <1>2 DEF Resumed
    <3>2. SUFFICES ASSUME d \notin W PROVE FALSE
      BY <1>2
    <3>3. joined[d] = e /\ d # c
      BY <1>4, <1>9, <3>1, <3>2
    <3>4. joined[e] = e
      BY <1>3, <3>1, <3>3, CallerFacts
    <3>5. e = c
      BY <1>5, <2>1, <3>4
    <3> QED BY <3>1, <3>2, <3>3, <3>5 DEF Resumed
  <2>3. v # Error => \A d \in Resumed(e)' : v \in valid'[d] \cup excused'[d]
    BY <1>3, <2>2, HeadHeard
  <2> QED BY <2>1, <2>3 DEF Heard
<1>14. CallTypes' /\ queue' \in Seq(Callers) /\ ToldIsCurrent'
  BY <1>2, <1>3, <1>9 DEF CallTypes, IdentityTypeOK, ToldIsCurrent
<1>15. /\ Consistent(byUser', byId') /\ DOMAIN byUser' \subseteq DOMAIN byUser
       /\ \A u \in DOMAIN byUser' : byUser'[u] = byUser[u]
  BY <1>2, CachesStay
<1> QED BY <1>10, <1>11, <1>12, <1>13, <1>14, <1>15, LoopKeeps

(* What is woken is no flight, and nobody else waits for it.                *)
LEMMA WokenFacts ==
  ASSUME IdentityInv, loop # <<>>, Head(loop).kind = "wake", NEW c, c = Head(loop).caller
  PROVE  /\ c \in Callers /\ pc[c] \in {"waiting", "touching"} /\ joined[c] = c /\ c \notin inflight
         /\ \A d \in Callers \ {c} : pc[d] = "waiting" => joined[d] \in Callers \ {c}
<1>1. IdentityTypeOK /\ Lines
  BY DEF IdentityInv
<1>2. c \in Callers /\ pc[c] # "idle" /\ joined[c] = c /\ c \notin inflight
  BY HeadFacts
<1>3. ASSUME NEW d \in Callers \ {c}, pc[d] = "waiting" PROVE joined[d] \in Callers \ {c}
  BY <1>1, <1>2, <1>3, CallerFacts
<1> QED BY <1>1, <1>2, <1>3, CallerFacts

(* An ensure is given its id and goes on for the list of its bot.           *)
LEMMA TouchesStep ==
  ASSUME IdentityInv, Touch
  PROVE  IdentityInv'
<1> PICK c, v, due : c = Head(loop).caller /\ v = Head(loop).value /\ due = <<>>
  OBVIOUS
<1>1. /\ Hear("wake", due) /\ pc[c] = "waiting" /\ ~Completes(call[c], v) /\ told' = {}
      /\ pc' = [pc EXCEPT ![c] = "touching"] /\ joined' = [joined EXCEPT ![c] = c]
      /\ value' = [value EXCEPT ![c] = v] /\ queue' = Append(queue, c)
      /\ UNCHANGED <<byUser, byId, inflight, call, valid, excused>>
  BY DEF Touch, Touches
<1>2. /\ IdentityTypeOK /\ Lines /\ loop # <<>> /\ Head(loop).kind = "wake"
  BY <1>1, HearKeeps DEF IdentityInv
<1>3. /\ c \in Callers /\ joined[c] = c /\ c \notin inflight
      /\ \A d \in Callers \ {c} : pc[d] = "waiting" => joined[d] \in Callers \ {c}
  BY <1>2, WokenFacts
<1>4. /\ pc \in [Callers -> {"idle", "waiting", "touching"}] /\ joined \in [Callers -> Callers]
      /\ value \in [Callers -> Outcomes \cup {Error}] /\ queue \in Seq(Callers)
  BY <1>2 DEF IdentityTypeOK
<1>5. /\ pc'[c] = "touching" /\ joined'[c] = c /\ value'[c] = v
      /\ \A d \in Callers \ {c} : pc'[d] = pc[d] /\ joined'[d] = joined[d] /\ value'[d] = value[d]
  BY <1>1, <1>3, <1>4
<1>6. v # Error /\ call[c].op = "ensure"
  BY <1>1 DEF Completes
<1>7. v \in Outcomes \cup {Error} /\ v \in valid[c] \cup excused[c] /\ c \in Resumed(c)
  BY <1>2, <1>6, HeadFacts, HeadHeard
<1>8. due \in Seq(LoopEntries) /\ DOMAIN due = {}
  OBVIOUS
<1>9. LoopStep(c, "wake", due)
  BY <1>1, <1>3, <1>5, <1>8 DEF LoopStep
<1>10. Submitted(c)'
  BY <1>5 DEF Submitted
<1>11. Lines'
  <2>1. ASSUME NEW d \in Callers PROVE Asked(d)'
    <3>1. Asked(d) /\ store' = store
      BY <1>1, <1>2, HearKeeps DEF Lines
    <3>2. CASE d = c
      BY <1>1, <1>3, <1>5, <1>6, <1>7, <3>1, <3>2 DEF Asked
    <3>3. CASE d # c
      <4>1. pc[d] = "waiting" => /\ pc'[joined[d]] = pc[joined[d]] /\ joined'[joined[d]] = joined[joined[d]]
        BY <1>3, <1>5, <3>3
      <4> QED BY <1>1, <1>5, <3>1, <3>3, <4>1 DEF Asked
    <3> QED BY <3>2, <3>3
  <2> QED BY <1>1, <1>8, <1>9, <1>10, <2>1, LoopLines
<1>12. queue # <<>> => queue' # <<>> /\ Head(queue') = Head(queue)
  BY <1>1, <1>3, <1>4, Appended
<1>13. Working'
  BY <1>1, <1>9, <1>12, LoopWorking
<1>14. CallTypes' /\ queue' \in Seq(Callers) /\ ToldIsCurrent'
  <2>1. queue' \in Seq(Callers)
    BY <1>1, <1>3, <1>4, Appended
  <2>2. /\ pc' \in [Callers -> {"idle", "waiting", "touching"}] /\ joined' \in [Callers -> Callers]
        /\ value' \in [Callers -> Outcomes \cup {Error}]
    BY <1>1, <1>3, <1>4, <1>7
  <2> QED BY <1>1, <1>2, <2>1, <2>2 DEF CallTypes, IdentityTypeOK, ToldIsCurrent
<1>15. /\ Consistent(byUser', byId') /\ DOMAIN byUser' \subseteq DOMAIN byUser
       /\ \A u \in DOMAIN byUser' : byUser'[u] = byUser[u]
  BY <1>1, CachesStay
<1> QED BY <1>8, <1>9, <1>11, <1>13, <1>14, <1>15, LoopKeeps

(* A call is over: its caller is told what was so, and has the user in its  *)
(* list. What is cached of a user whose mapping was changed is dropped.     *)
LEMMA ReturnStep ==
  ASSUME IdentityInv, Return
  PROVE  IdentityInv'
<1> PICK c, v, due : c = Head(loop).caller /\ v = Head(loop).value /\ due = <<>>
  OBVIOUS
<1> PICK given : given = IF pc[c] = "touching" /\ v # Error THEN value[c] ELSE v
  OBVIOUS
<1> PICK misled : misled = IF thread.todo = "read" /\ thread.users \subseteq Dropped(c, v)
                           THEN Resumed(Head(queue)) ELSE {}
  OBVIOUS
<1>1. /\ Hear("wake", due) /\ (pc[c] = "touching" \/ Completes(call[c], v))
      /\ told' = {Answer(call[c], given, valid[c], excused[c])}
      /\ IF Dropped(c, v) # {} THEN invalidate_cache(CHOOSE u \in Dropped(c, v) : TRUE)
         ELSE UNCHANGED <<byUser, byId>>
      /\ pc' = [pc EXCEPT ![c] = "idle"] /\ call' = [call EXCEPT ![c] = NoCall]
      /\ value' = [value EXCEPT ![c] = None] /\ valid' = [valid EXCEPT ![c] = {}]
      /\ excused' = [d \in Callers |-> IF d = c THEN {}
                                       ELSE excused[d] \cup (IF d \in misled THEN {None} ELSE {})]
      /\ UNCHANGED <<queue, inflight, joined>>
  BY DEF Return
<1>2. /\ IdentityTypeOK /\ Lines /\ Working /\ Cached /\ loop # <<>> /\ Head(loop).kind = "wake"
  BY <1>1, HearKeeps DEF IdentityInv
<1>3. /\ c \in Callers /\ pc[c] \in {"waiting", "touching"} /\ joined[c] = c /\ c \notin inflight
      /\ \A d \in Callers \ {c} : pc[d] = "waiting" => joined[d] \in Callers \ {c}
  BY <1>2, WokenFacts
<1>4. /\ pc \in [Callers -> {"idle", "waiting", "touching"}] /\ call \in [Callers -> Whats]
      /\ value \in [Callers -> Outcomes \cup {Error}] /\ valid \in [Callers -> SUBSET Outcomes]
      /\ excused \in [Callers -> SUBSET Outcomes]
  BY <1>2 DEF IdentityTypeOK
<1>5. /\ pc'[c] = "idle" /\ call'[c] = NoCall
      /\ \A d \in Callers \ {c} : /\ pc'[d] = pc[d] /\ call'[d] = call[d] /\ value'[d] = value[d]
                                  /\ valid'[d] = valid[d] /\ excused[d] \subseteq excused'[d]
                                  /\ d \in misled => None \in excused'[d]
  BY <1>1, <1>3, <1>4
<1>6. due \in Seq(LoopEntries) /\ DOMAIN due = {}
  OBVIOUS
<1>7. LoopStep(c, "wake", due)
  BY <1>1, <1>3, <1>5, <1>6 DEF LoopStep
<1>8. store' = store
  BY <1>1, HearKeeps
<1>9. Lines'
  <2>1. ASSUME NEW d \in Callers PROVE Asked(d)'
    <3>1. Asked(d)
      BY <1>2 DEF Lines
    <3>2. CASE d = c
      <4>1. Proper(NoCall)
        BY DEF Proper, NoCall
      <4> QED BY <1>1, <1>3, <1>5, <3>2, <4>1 DEF Asked
    <3>3. CASE d # c
      <4>1. pc[d] = "waiting" => /\ pc'[joined[d]] = pc[joined[d]] /\ call'[joined[d]] = call[joined[d]]
        BY <1>3, <1>5, <3>3
      <4>2. /\ pc'[d] = pc[d] /\ call'[d] = call[d] /\ value'[d] = value[d] /\ valid'[d] = valid[d]
            /\ excused[d] \subseteq excused'[d] /\ joined' = joined /\ inflight' = inflight
        BY <1>1, <1>5, <3>3
      <4> QED BY <1>8, <3>1, <4>1, <4>2 DEF Asked
    <3> QED BY <3>2, <3>3
  <2> QED BY <1>1, <1>6, <1>7, <2>1, LoopLines
<1>10. /\ Consistent(byUser', byId') /\ DOMAIN byUser' \subseteq DOMAIN byUser
       /\ \A u \in DOMAIN byUser' : byUser'[u] = byUser[u]
       /\ \A u \in DOMAIN byUser \ DOMAIN byUser' : Dropped(c, v) = {u}
  <2>1. CASE Dropped(c, v) = {}
    BY <1>1, <2>1, CachesStay
  <2>2. CASE Dropped(c, v) # {}
    <3>1. call[c].op \in {"override", "delete"} /\ Dropped(c, v) = call[c].users
      BY <2>2 DEF Dropped
    <3>2. PICK u \in Users : Dropped(c, v) = {u}
      BY <1>2, <1>3, <3>1, CallerFacts DEF Proper
    <3>3. (CHOOSE w \in Dropped(c, v) : TRUE) = u
      BY <3>2, OneUser
    <3>4. invalidate_cache(u) /\ Consistent(byUser, byId)
      BY <1>1, <1>2, <2>2, <3>3, CachedIsConsistent
    <3>5. /\ Consistent(byUser', byId') /\ DOMAIN byUser' = DOMAIN byUser \ {u}
          /\ \A w \in DOMAIN byUser' : byUser'[w] = byUser[w]
      BY <3>4, InvalidateFacts
    <3> QED BY <3>2, <3>5
  <2> QED BY <2>1, <2>2
<1>11. Working'
  <2>1. ASSUME queue # <<>>, thread.todo = "read", NEW u \in thread.users \ DOMAIN byUser', u \in DOMAIN byUser
        PROVE  \A d \in Resumed(Head(queue)) : d # c => None \in excused'[d]
    <3>1. Dropped(c, v) = {u}
      BY <1>10, <2>1
    <3>2. PICK w \in Users : thread.users = {w}
      BY <1>2, <2>1, Reading DEF ReadsUser
    <3>3. thread.users \subseteq Dropped(c, v)
      BY <2>1, <3>1, <3>2
    <3>4. misled = Resumed(Head(queue))
      BY <2>1, <3>3
    <3>5. \A d \in Resumed(Head(queue)) : d \in Callers
      BY DEF Resumed
    <3> QED BY <1>5, <3>4, <3>5
  <2> QED BY <1>1, <1>7, <2>1, LoopWorking
<1>12. CallTypes' /\ queue' \in Seq(Callers)
  <2>1. NoCall \in Whats /\ None \in Outcomes
    BY DEF NoCall, Whats, Named, Outcomes
  <2>2. excused' \in [Callers -> SUBSET Outcomes]
    BY <1>1, <1>4, <2>1
  <2> QED BY <1>1, <1>2, <1>4, <2>1, <2>2 DEF CallTypes, IdentityTypeOK
<1>13. ToldIsCurrent'
  <2> SUFFICES ASSUME NEW t \in told', t.value # Error
               PROVE  /\ t.call.op \in {"ensure", "get", "find"} => t.value \in t.valid \cup t.excused
                      /\ t.call.op = "ensure" =>
                           \/ {<<t.call.bot, u>> : u \in t.call.users} \subseteq store'.members
                           \/ \E d \in Callers : pc'[d] = "waiting" /\ call'[d].op = "delete"
    BY DEF ToldIsCurrent
  <2>1. t.call = call[c] /\ t.value = given /\ t.valid = valid[c] /\ t.excused = excused[c]
    BY <1>1 DEF Answer
  <2>2. v # Error
    BY <2>1
  <2>3. /\ v \in valid[c] \cup excused[c]
        /\ pc[c] = "touching" =>
              {<<call[c].bot, u>> : u \in call[c].users} \subseteq store.members \/ DeletedAfter(1)
    BY <1>2, <2>2, HeadFacts, HeadHeard
  <2>4. given \in valid[c] \cup excused[c]
    <3>1. pc[c] = "touching" => value[c] \in valid[c] \cup excused[c]
      BY <1>2, <1>3, CallerFacts
    <3> QED BY <2>3, <3>1
  <2>5. ASSUME call[c].op = "ensure"
        PROVE  \/ {<<call[c].bot, u>> : u \in call[c].users} \subseteq store.members
               \/ \E e \in Callers : pc'[e] = "waiting" /\ call'[e].op = "delete"
    <3>1. CASE pc[c] = "touching"
      BY <1>7, <2>3, <3>1, StillDeleting
    <3>2. CASE pc[c] # "touching"
      <4>1. \A u \in call[c].users : <<call[c].bot, u>> \in seen
        BY <1>1, <2>2, <2>5, <3>2 DEF Completes
      <4>2. CASE thread.todo = "delete"
        BY <1>7, <4>2, StillDeleting DEF DeletedAfter
      <4>3. CASE thread.todo # "delete"
        <5>1. \A m \in seen : m \in store.members
          BY <1>2, <4>3 DEF Cached
        <5> QED BY <4>1, <5>1
      <4> QED BY <4>2, <4>3
    <3> QED BY <3>1, <3>2
  <2> QED BY <1>8, <2>1, <2>4, <2>5
<1> QED BY <1>6, <1>7, <1>9, <1>10, <1>11, <1>12, <1>13, LoopKeeps

-----------------------------------------------------------------------------
(* Initially nothing is mapped, cached, queued or told.                     *)
LEMMA IdentityInitially ==
  ASSUME IdentityInit
  PROVE  IdentityInv
<1> PICK s : s = store
  OBVIOUS
<1>1. s = [rows |-> <<>>, members |-> {}, conflicts |-> {}] /\ store = s /\ draft = s
  BY DEF IdentityInit
<1>2. IsMapping(<<>>) /\ DOMAIN <<>> = {}
  BY DEF IsMapping
<1>3. IsTable(s) /\ Current(s) /\ Mapped(s) = {}
  BY <1>1, <1>2 DEF IsTable, Current, Mapped
<1>4. IdentityTypeOK
  <2>1. NoCall \in Whats /\ None \in Outcomes
    BY DEF NoCall, Whats, Named, Outcomes
  <2>2. byId \in [DOMAIN byId -> Users] /\ DOMAIN byId \subseteq Slots
    BY <1>2 DEF IdentityInit
  <2>3. thread \in [todo : {"idle", "batch", "raise", "read", "cache", "override", "delete"}, users : SUBSET Users]
    BY DEF IdentityInit, Idle
  <2> QED BY <1>1, <1>2, <1>3, <2>1, <2>2, <2>3 DEF IdentityInit, IdentityTypeOK
<1>5. TablesCurrent
  BY <1>1, <1>3 DEF TablesCurrent, IdentityInit
<1>6. Lines
  <2>1. \A c \in Callers : Asked(c)
    BY DEF IdentityInit, Asked, Proper, NoCall
  <2>2. queue = <<>> /\ loop = <<>>
    BY DEF IdentityInit
  <2> QED BY <2>1, <2>2 DEF Lines
<1>7. Working
  BY DEF IdentityInit, Working, Idle
<1>8. Cached
  BY <1>2 DEF IdentityInit, Cached
<1>9. (\A k \in DOMAIN loop : Heard(k)) /\ ToldIsCurrent
  <2>1. loop = <<>> /\ told = {}
    BY DEF IdentityInit
  <2> QED BY <2>1 DEF ToldIsCurrent
<1> QED BY <1>4, <1>5, <1>6, <1>7, <1>8, <1>9 DEF IdentityInv

(* Every call, job, second half and answer keeps the invariant.             *)
LEMMA IdentityStep ==
  ASSUME IdentityInv, [IdentityNext]_identityVars
  PROVE  IdentityInv'
<1>1. ASSUME NEW c \in Callers, BotCall(c) PROVE IdentityInv'
  <2>1. ASSUME NEW b \in Bots, NEW u \in Users, NEW n \in Profiles \cup {None}, ensure_mapping(c, b, u, n)
        PROVE  IdentityInv'
    BY <2>1, EnsureCall DEF Named
  <2> QED BY <1>1, <2>1, BatchCall, GetCall, FindCall DEF BotCall
<1>2. ASSUME NEW c \in Callers, WebUICall(c) PROVE IdentityInv'
  BY <1>2, WebUICalls
<1>3. CASE UNCHANGED identityVars
  <2>1. /\ UNCHANGED <<store, draft, byUser, byId, seen, thread, loop, past, value, queue, call, pc, joined>>
        /\ UNCHANGED <<valid, excused, inflight, told, calls>>
    BY <1>3 DEF identityVars, caches, tasks, history
  <2>2. IdentityTypeOK' /\ TablesCurrent'
    BY <2>1 DEF IdentityInv, IdentityTypeOK, TablesCurrent
  <2>3. Lines'
    <3>1. \A d \in Callers : Asked(d)' /\ Submitted(d)' = Submitted(d)
      BY <2>1 DEF IdentityInv, Lines, Asked, Submitted
    <3> QED BY <2>1, <3>1, InLine DEF IdentityInv, Lines
  <2>4. Working' /\ Cached'
    BY <2>1 DEF IdentityInv, Working, Cached, Remembers, Unsettled, Resumed, ReadsUser
  <2>5. \A k \in DOMAIN loop' : Heard(k)'
    <3>1. \A k \in DOMAIN loop : DeletedAfter(k)' = DeletedAfter(k)
      BY <2>1 DEF DeletedAfter
    <3>2. \A d \in Callers : Resumed(d)' = Resumed(d)
      BY <2>1 DEF Resumed
    <3> QED BY <2>1, <3>1, <3>2, InLine DEF IdentityInv, Heard
  <2>6. ToldIsCurrent'
    BY <2>1 DEF IdentityInv, ToldIsCurrent
  <2> QED BY <2>2, <2>3, <2>4, <2>5, <2>6 DEF IdentityInv
<1> QED BY <1>1, <1>2, <1>3, RunStep, InsertStep, BatchCommits, FinishStep,
          CompleteStep, CleanupStep, TouchesStep, ReturnStep DEF IdentityNext

(* Each step of the callers, of the loop and of the identity thread keeps   *)
(* the inductive invariant: ids are unique, in the committed table and in   *)
(* the open transaction of a batch; whoever waits does so for a job that is *)
(* queued or done, or for a flight whose callbacks are still to run; the     *)
(* caches tell what the database holds, but for the users whose second half *)
(* is still to run; and what is told was so, or its caller is excused.      *)
THEOREM IdentityInvariant == IdentitySpec => []IdentityInv
<1>1. IdentityInit => IdentityInv
  BY IdentityInitially
<1>2. IdentityInv /\ [IdentityNext]_identityVars => IdentityInv'
  BY IdentityStep
<1> QED BY <1>1, <1>2, PTL DEF IdentitySpec

(* Whenever the identity thread is between two jobs, the cached mappings,   *)
(* the cached ids and the remembered list entries are what the database     *)
(* holds (UserIdentityRegistry's _cache_mapping and _invalidate_user, after *)
(* ensure, override and delete).                                            *)
THEOREM CachesFollow == IdentitySpec => []CachesAgree
<1>1. IdentityInv => CachesAgree
  BY DEF IdentityInv, Cached, CachesAgree, Unsettled, Idle
<1> QED BY <1>1, IdentityInvariant, PTL

(* The OneBot id of a user is unique, and an active conflict names two      *)
(* users that have mappings and the id that the displaced one has, after    *)
(* any sequence of insertions, overrides and deletions.                     *)
THEOREM ConflictsNameMapped == IdentitySpec => []ConflictsAreCurrent
<1>1. IdentityInv => ConflictsAreCurrent
  BY DEF IdentityInv, TablesCurrent, Current, ConflictsAreCurrent
<1> QED BY <1>1, IdentityInvariant, PTL

(* Every answer is an id or a user that was so since its caller called (or, *)
(* for who joined a flight that had landed, since that flight began), or    *)
(* None when the mapping was dropped from the cache between the two reads   *)
(* of get_by_onebot_id_sync; whoever is told the id of a user has the user  *)
(* in its bot's list, unless a deletion of a mapping is under way.          *)
THEOREM NothingStaleIsTold == IdentitySpec => AnswersAreCurrent
<1>1. IdentityInv => ToldIsCurrent
  BY DEF IdentityInv
<1>2. IdentitySpec => []ToldIsCurrent
  BY <1>1, IdentityInvariant, PTL
<1>3. IdentitySpec => [][ToldIsCurrent']_identityVars
  BY <1>2, PTL
<1> QED BY <1>3 DEF AnswersAreCurrent

=============================================================================
