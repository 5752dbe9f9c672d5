-------------------------- MODULE RuntimeLifecycle --------------------------
(***************************************************************************)
(* The life of one bot's runtimes: RocketCatManager of shell/manager.py,    *)
(* which keeps the bot's record and at most one placed BridgeRuntime, and   *)
(* BridgeRuntime of bridge/runtime.py, whose connection supervisor and      *)
(* Rocket.Chat client may give up and disable the bot on their own.         *)
(*                                                                          *)
(* Requests of the WebUI change the record under _lock and then reconcile   *)
(* under _runtime_lock.  The failure path takes neither lock while it stops *)
(* a runtime.  Each runtime opens the hot store of the same directory.      *)
(*                                                                          *)
(* A runtime is a number, in the order in which runtimes are built.  Left   *)
(* out, and so assumed not to happen: restart_connections, shutdown,        *)
(* import_configuration, and a close() of the store that raises.            *)
(* Names that ControlPlane has too say Lifecycle or Runtime here, since the *)
(* proofs about the manager extend both modules.                            *)
(***************************************************************************)
EXTENDS Integers, FiniteSets

CONSTANTS
  MaxAttempts,   (* config.max_reconnect_attempts, 0 for no limit            *)
  MaxRuntimes,   (* bound: runtimes built in a behaviour                     *)
  MaxUpdates,    (* bound: update_bot requests                               *)
  MaxFailures    (* bound: connection failures of a runtime                  *)

ASSUME LifecycleAssumption ==
  /\ MaxAttempts \in Nat /\ MaxUpdates \in Nat /\ MaxFailures \in Nat
  /\ MaxRuntimes \in Nat \ {0}

Runtimes == 1 .. MaxRuntimes
NoRuntime == 0

VARIABLES
  enabled,     (* bot.enabled in the registry                                *)
  version,     (* the rest of the bot's record                               *)
  updates,     (* update_bot requests so far                                 *)
  pending,     (* requests that have yet to reconcile                        *)
  placed,      (* manager.runtimes[bot_id], or NoRuntime                     *)
  built,       (* how many runtimes were built                               *)
  config,      (* raw_config of each runtime: the version it was built from  *)
  phase,       (* what a runtime's supervisor and client do                  *)
  attempts,    (* _initial_connect_failures, then the client's own count     *)
  stopping,    (* where stop() of a runtime stands                           *)
  store,       (* _hot_store_bundle: which runtimes have the directory open  *)
  status,      (* the status each runtime wrote to its state file last       *)
  reconciling, (* what the holder of _runtime_lock does                      *)
  leaving,     (* the runtime it stops, or NoRuntime                         *)
  successor,   (* the version of the record it read, or NoRuntime            *)
  captured,    (* whether that record is still the registry's, and enabled   *)
  offline      (* the offline message index policy has the directory open    *)

record  == <<enabled, version, updates, pending>>
holder  == <<reconciling, leaving, successor, captured>>
runtime == <<built, config, phase, attempts, stopping, store, status>>
lifecycleVars == <<record, placed, runtime, holder, offline>>

LifecycleInit ==
  /\ enabled \in BOOLEAN /\ version = 1 /\ updates = 0 /\ pending = 1
  /\ placed = NoRuntime /\ built = 0
  /\ config = [g \in Runtimes |-> 0]
  /\ phase = [g \in Runtimes |-> "idle"]
  /\ attempts = [g \in Runtimes |-> 0]
  /\ stopping = [g \in Runtimes |-> "no"]
  /\ store = {}
  /\ status = [g \in Runtimes |-> "none"]
  /\ reconciling = "no" /\ leaving = NoRuntime
  /\ successor = NoRuntime /\ captured = "none"
  /\ offline = FALSE

----------------------------------------------------------------------------
(* Requests                                                                *)

(* update_bot under _lock puts a new record in the place of the old one,    *)
(* which a reconcile may have read; its own reconcile follows.             *)
Update(e, v) ==
  /\ updates < MaxUpdates /\ updates' = updates + 1
  /\ enabled' = e /\ version' = v
  /\ pending' = pending + 1
  /\ captured' = IF captured = "current" THEN "replaced" ELSE captured
  /\ UNCHANGED <<placed, runtime, reconciling, leaving, successor, offline>>

LockFree == reconciling = "no" /\ ~offline

AnyRuntimeWillDo(v) == placed # NoRuntime

(* A placed runtime that started from this record is left alone, unless it  *)
(* is giving up: it has set enabled to false in its own copy by then.      *)
UpToDate(v) ==
  placed # NoRuntime /\ config[placed] = v /\ phase[placed] \notin {"exhausted", "lost"}

(* _build_runtime and start(): the store is opened, the supervisor created, *)
(* and the runtime placed before the event loop turns to anything else.    *)
StartRuntime(v) ==
  LET g == built + 1 IN
    /\ built' = g
    /\ placed' = g
    /\ config' = [config EXCEPT ![g] = v]
    /\ phase' = [phase EXCEPT ![g] = "connecting"]
    /\ store' = store \cup {g}
    /\ status' = [status EXCEPT ![g] = "connecting"]
    /\ UNCHANGED <<attempts, stopping>>

(* A record that was disabled meanwhile: __init__ opens the store, start()  *)
(* returns at once, and the runtime is dropped.                            *)
BuildOnly(v) ==
  /\ built' = built + 1
  /\ config' = [config EXCEPT ![built + 1] = v]
  /\ store' = store \cup {built + 1}
  /\ UNCHANGED <<placed, phase, attempts, stopping, status>>

(* stop() up to its first await: a supervisor that is still at work is      *)
(* cancelled.                                                              *)
BeginStop(g) ==
  /\ stopping' = [stopping EXCEPT ![g] = "clients"]
  /\ phase' = [phase EXCEPT ![g] = IF @ \in {"connecting", "exhausted"}
                                     THEN "idle" ELSE @]

PopAs(g) == NoRuntime

(* _reconcile_runtimes when nothing has to stop.                           *)
ReconcileAtOnce ==
  /\ LockFree /\ pending > 0
  /\ \/ ~enabled /\ placed = NoRuntime /\ UNCHANGED <<placed, runtime>>
     \/ enabled /\ UpToDate(version) /\ UNCHANGED <<placed, runtime>>
     \/ /\ enabled /\ placed = NoRuntime /\ built < MaxRuntimes
        /\ StartRuntime(version)
  /\ pending' = pending - 1
  /\ UNCHANGED <<enabled, version, updates, holder, offline>>

(* It stops the placed runtime first: disabled, or a changed record.       *)
ReconcileStop ==
  /\ LockFree /\ pending > 0 /\ placed # NoRuntime
  /\ enabled => ~UpToDate(version) /\ built < MaxRuntimes
  /\ BeginStop(placed)
  /\ reconciling' = "stopping" /\ leaving' = placed
  /\ successor' = IF enabled THEN version ELSE NoRuntime
  /\ captured' = IF enabled THEN "current" ELSE "none"
  /\ placed' = PopAs(placed)
  /\ pending' = pending - 1
  /\ UNCHANGED <<enabled, version, updates, built, config, attempts, store,
                 status, offline>>

Release == reconciling' = "no" /\ leaving' = NoRuntime

(* The stop() it waited for has returned.  The record read before, not the  *)
(* registry's, decides what is started.                                    *)
ReconcileEnd ==
  /\ reconciling = "stopping" /\ stopping[leaving] = "stopped"
  /\ \/ captured = "none" /\ UNCHANGED <<placed, runtime>>
     \/ captured \in {"current", "replaced"} /\ StartRuntime(successor)
     \/ captured = "disabled" /\ BuildOnly(successor)
  /\ Release /\ successor' = NoRuntime /\ captured' = "none"
  /\ UNCHANGED <<record, offline>>

(* _apply_message_index_policy opens the store of a bot that is not running. *)
OfflineOpen ==
  /\ LockFree /\ placed = NoRuntime
  /\ offline' = TRUE
  /\ UNCHANGED <<record, placed, runtime, holder>>

OfflineClose ==
  /\ offline /\ offline' = FALSE
  /\ UNCHANGED <<record, placed, runtime, holder>>

----------------------------------------------------------------------------
(* The supervisor and the client of a runtime                              *)

Failing(g, before, exhausted) ==
  /\ phase[g] = before /\ attempts[g] < MaxFailures
  /\ attempts' = [attempts EXCEPT ![g] = @ + 1]
  /\ phase' = [phase EXCEPT ![g] =
                 IF MaxAttempts > 0 /\ attempts[g] + 1 >= MaxAttempts
                   THEN exhausted ELSE before]

(* _start_clients succeeds; the supervisor ends.                           *)
Connect(g) ==
  /\ phase[g] = "connecting"
  /\ phase' = [phase EXCEPT ![g] = "connected"]
  /\ attempts' = [attempts EXCEPT ![g] = 0]
  /\ status' = [status EXCEPT ![g] = "running"]
  /\ UNCHANGED <<built, config, stopping, store, record, placed, holder, offline>>

(* It fails; the supervisor sleeps and tries again, or gives up.           *)
ConnectFails(g) ==
  /\ Failing(g, "connecting", "exhausted")
  /\ status' = [status EXCEPT ![g] = "reconnecting"]
  /\ UNCHANGED <<built, config, stopping, store, record, placed, holder, offline>>

(* The client's own reconnects fail (InboundPipeline), also while stop() is *)
(* still busy with the OneBot side.                                        *)
Lose(g) ==
  /\ Failing(g, "connected", "lost")
  /\ UNCHANGED <<built, config, stopping, store, status, record, placed, holder,
                 offline>>

(* The client is ready again.                                              *)
Recover(g) ==
  /\ phase[g] = "connected" /\ attempts[g] > 0
  /\ attempts' = [attempts EXCEPT ![g] = 0]
  /\ UNCHANGED <<built, config, phase, stopping, store, status, record, placed,
                 holder, offline>>

(* The record a reconcile has read is the one that gets disabled, unless an *)
(* update has replaced it in the registry.                                 *)
SeenDisabled(c) == IF c = "current" THEN "disabled" ELSE c

(* _disable_bot_after_rocketchat_failure up to its first await: the record  *)
(* is disabled and the placed runtime is popped, to be stopped.  NoGhost    *)
(* says that this is g itself, or none.                                    *)
DisableFailedBot ==
  /\ enabled' = FALSE /\ placed' = NoRuntime
  /\ captured' = SeenDisabled(captured)
  /\ UNCHANGED <<version, updates, pending, reconciling, leaving, successor,
                 offline, built, config, attempts, store>>

(* The callback of g finds that a reconcile has popped g already.          *)
FailsUnplaced(g) ==
  /\ placed # g
  /\ phase' = [phase EXCEPT ![g] = "idle"]
  /\ status' = [status EXCEPT ![g] = "failed"]
  /\ UNCHANGED stopping

(* The supervisor's callback stops the runtime whose supervisor it is: the  *)
(* task cancels itself and gathers itself, and never goes on.              *)
SupervisorGivesUp(g) ==
  /\ phase[g] = "exhausted"
  /\ DisableFailedBot
  /\ \/ FailsUnplaced(g)
     \/ /\ placed = g
        /\ stopping' = [stopping EXCEPT ![g] = "hung"]
        /\ phase' = [phase EXCEPT ![g] = "hung"]
        /\ UNCHANGED status

ClientForgets(g) ==
  /\ phase[g] = "lost"
  /\ DisableFailedBot
  /\ phase' = [phase EXCEPT ![g] = "connected"]
  /\ UNCHANGED <<stopping, status>>

(* The client's callback may await the client's own task: the cancellation  *)
(* it gets from that is swallowed by RocketChatClient.stop().              *)
ClientGivesUp(g) ==
  /\ phase[g] = "lost"
  /\ DisableFailedBot
  /\ \/ FailsUnplaced(g)
     \/ /\ placed = g
        /\ stopping' = [stopping EXCEPT ![g] = "clients"]
        /\ phase' = [phase EXCEPT ![g] = "leaving"]
        /\ UNCHANGED status

----------------------------------------------------------------------------
(* stop()                                                                  *)

StopIdleClients(g) ==
  /\ stopping[g] = "clients" /\ phase[g] # "connected"
  /\ stopping' = [stopping EXCEPT ![g] = "plugins"]
  /\ phase' = [phase EXCEPT ![g] = IF @ = "leaving" THEN @ ELSE "idle"]
  /\ UNCHANGED <<built, config, attempts, status, store, record, placed, holder, offline>>

(* _stop_clients has stopped the OneBot side and the Rocket.Chat client;    *)
(* the plugins are next.                                                   *)
StopClients(g) ==
  /\ stopping[g] = "clients"
  /\ stopping' = [stopping EXCEPT ![g] = "plugins"]
  /\ phase' = [phase EXCEPT ![g] = IF @ = "leaving" THEN @ ELSE "idle"]
  /\ UNCHANGED <<built, config, attempts, status, store, record, placed, holder, offline>>

(* shutdown_runtime_plugins() had the plugins' lock and its on_unload hooks *)
(* returned, the identity registry is released, "stopped" is written, and   *)
(* the store is being closed in another thread.                            *)
PluginsLeave(g) ==
  /\ stopping[g] = "plugins"
  /\ stopping' = [stopping EXCEPT ![g] = "closing"]
  /\ status' = [status EXCEPT ![g] = "stopped"]
  /\ UNCHANGED <<built, config, phase, attempts, store, record, placed, holder, offline>>

(* The lock or a hook keeps it for ever: neither has a timeout.            *)
PluginsHang(g) ==
  /\ stopping[g] = "plugins"
  /\ stopping' = [stopping EXCEPT ![g] = "stuck"]
  /\ UNCHANGED <<built, config, phase, attempts, status, store, record, placed, holder, offline>>

(* The store is closed and stop() returns, to the failed client if it was   *)
(* called from there.                                                      *)
StopEnds(g) ==
  /\ stopping[g] = "closing"
  /\ stopping' = [stopping EXCEPT ![g] = "stopped"]
  /\ store' = store \ {g}
  /\ phase' = [phase EXCEPT ![g] = "idle"]
  /\ status' = [status EXCEPT ![g] = IF phase[g] = "leaving" THEN "failed" ELSE @]
  /\ UNCHANGED <<built, config, attempts, record, placed, holder, offline>>

----------------------------------------------------------------------------
Reconcile == ReconcileAtOnce \/ ReconcileStop

LifecycleNext ==
  \/ \E e \in BOOLEAN, v \in {version, version + 1} : Update(e, v)
  \/ Reconcile \/ ReconcileEnd
  \/ OfflineOpen \/ OfflineClose
  \/ \E g \in Runtimes :
       \/ Connect(g) \/ ConnectFails(g) \/ Lose(g) \/ Recover(g)
       \/ SupervisorGivesUp(g) \/ ClientGivesUp(g)
       \/ StopClients(g) \/ PluginsLeave(g) \/ PluginsHang(g) \/ StopEnds(g)

LifecycleSpec == LifecycleInit /\ [][LifecycleNext]_lifecycleVars

(* Requests get the lock in turn, callbacks are called, and stop() goes on  *)
(* where the code bounds its awaits: the connections by drain and close     *)
(* timeouts, the registry and the store by what is left in their threads.   *)
(* Detaching the plugins is not bounded: it ends or it hangs, whichever     *)
(* the plugins do.  A cancelled supervisor is taken to end.  Nothing is     *)
(* assumed of the Rocket.Chat server or of the administrator.              *)
FairSpec ==
  /\ LifecycleSpec
  /\ SF_lifecycleVars(Reconcile) /\ WF_lifecycleVars(ReconcileEnd) /\ WF_lifecycleVars(OfflineClose)
  /\ \A g \in Runtimes :
       /\ WF_lifecycleVars(SupervisorGivesUp(g)) /\ WF_lifecycleVars(ClientGivesUp(g))
       /\ WF_lifecycleVars(StopClients(g))
       /\ WF_lifecycleVars(PluginsLeave(g) \/ PluginsHang(g))
       /\ WF_lifecycleVars(StopEnds(g))

----------------------------------------------------------------------------
(* Properties                                                              *)

Versions == 1 .. MaxUpdates + 1

(* The types of the manager's and the runtimes' attributes; the lock's      *)
(* holder waits for a runtime exactly while it stops one.                  *)
LifecycleTypeOK ==
  /\ enabled \in BOOLEAN /\ version \in Versions
  /\ updates \in 0 .. MaxUpdates /\ pending \in 0 .. MaxUpdates + 1
  /\ placed \in 0 .. built /\ built \in 0 .. MaxRuntimes
  /\ config \in [Runtimes -> 0 .. MaxUpdates + 1]
  /\ phase \in [Runtimes -> {"idle", "connecting", "connected", "exhausted",
                             "lost", "leaving", "hung"}]
  /\ attempts \in [Runtimes -> 0 .. MaxFailures]
  /\ stopping \in [Runtimes -> {"no", "clients", "plugins", "closing", "stopped",
                                "hung", "stuck"}]
  /\ store \subseteq 1 .. built
  /\ status \in [Runtimes -> {"none", "connecting", "reconnecting", "running",
                              "stopped", "failed"}]
  /\ reconciling \in {"no", "stopping"} /\ leaving \in 0 .. built
  /\ (reconciling = "stopping") = (leaving # NoRuntime)
  /\ successor \in 0 .. MaxUpdates + 1 /\ offline \in BOOLEAN
  /\ captured \in {"none", "current", "replaced", "disabled"}
  /\ (captured = "none") = (successor = NoRuntime)

(* The placed runtime is one that runs: nobody is stopping it, and its      *)
(* store is open.  (Reconciling and the failure path pop before they stop.) *)
PlacedRuns == placed # NoRuntime => stopping[placed] = "no" /\ placed \in store

(* A runtime that still connects, serves or gives up is the placed one or   *)
(* is being stopped: none is left behind that no request can reach.  And    *)
(* one that gives up does not pull down another in its place.              *)
(* (_reconcile_runtimes, _disable_bot_after_rocketchat_failure)            *)
NoGhost ==
  \A g \in Runtimes :
    /\ phase[g] # "idle" => placed = g \/ stopping[g] \notin {"no", "stopped"}
    /\ phase[g] \in {"exhausted", "lost"} => placed \in {g, NoRuntime}

(* When every request has been reconciled, an enabled bot has a runtime of  *)
(* exactly that record, whatever failed meanwhile (_reconcile_runtimes).   *)
EnabledIsServed ==
  enabled /\ pending = 0 /\ reconciling = "no"
    => placed # NoRuntime /\ config[placed] = version

(* And a disabled bot has none, although a reconcile starts what it read    *)
(* before it waited and a failure may disable the bot in the meantime       *)
(* (_reconcile_runtimes, _disable_bot_after_rocketchat_failure, start).    *)
DisabledIsDown ==
  ~enabled /\ pending = 0 /\ reconciling = "no" => placed = NoRuntime

(* When every request has been reconciled, the record decides what runs.    *)
ServedAsRecorded == EnabledIsServed /\ DisabledIsDown

(* The stop() that _runtime_lock waits for hangs in the plugins.           *)
LockIsStuck == reconciling = "stopping" /\ stopping[leaving] = "stuck"

(* Every request is reconciled, as long as the bounds of the model permit   *)
(* to build another runtime, unless a plugin never lets go of the runtime   *)
(* that is stopped: nothing else in a stop() keeps _runtime_lock for ever,  *)
(* and a stop() of the failure path that hangs does not keep it at all      *)
(* (_reconcile_runtimes, _apply_message_index_policy, _stop_clients).      *)
RequestsEnd ==
  pending > 0 ~> \/ pending = 0 /\ reconciling = "no"
                 \/ built = MaxRuntimes
                 \/ LockIsStuck

(* A runtime whose supervisor gives up is closed and says that it failed.   *)
(* Not so: stop() is called from the supervisor and waits for itself.      *)
GivesUpCleanly ==
  \A g \in Runtimes :
    phase[g] = "exhausted" ~> g \notin store /\ status[g] \in {"failed", "stopped"}

(* One writer at a time has the directory of the bot open.  Not so: the     *)
(* failure path closes a runtime's store without _runtime_lock, and a       *)
(* reconcile or the offline policy opens the next one meanwhile.           *)
OneWriter == Cardinality(store) + (IF offline THEN 1 ELSE 0) <= 1

----------------------------------------------------------------------------
(* The inductive invariant (RuntimeLifecycle_proofs)                       *)

(* Runtimes that are not built yet have no state.                          *)
Unbuilt ==
  \A g \in Runtimes :
    g > built => phase[g] = "idle" /\ stopping[g] = "no" /\ g \notin store

(* Who holds _runtime_lock has emptied the table and stops one runtime.     *)
Holding ==
  /\ reconciling = "no" => captured = "none"
  /\ reconciling = "stopping" =>
       /\ placed = NoRuntime /\ ~offline
       /\ stopping[leaving] \in {"clients", "plugins", "closing", "stopped", "stuck"}
       /\ captured # "none" => built < MaxRuntimes

(* What a runtime does at each stage of its stop().                        *)
Stages ==
  \A g \in Runtimes :
    /\ stopping[g] \in {"plugins", "closing", "stuck"} => phase[g] \in {"idle", "leaving"}
    /\ stopping[g] = "stopped" => phase[g] = "idle"
    /\ phase[g] = "leaving" => stopping[g] \in {"clients", "plugins", "closing", "stuck"}
    /\ phase[g] = "hung" => stopping[g] = "hung"

(* A runtime that works is in the table, or the lock's holder stops it.     *)
Working ==
  \A g \in Runtimes :
    phase[g] \in {"connecting", "connected", "exhausted", "lost"}
      => placed = g \/ leaving = g

(* What the last reconcile is about to start is what the record asks for.   *)
Underway ==
  reconciling = "stopping" /\ pending = 0 =>
    /\ enabled => captured = "current" /\ successor = version
    /\ ~enabled => captured \in {"none", "disabled"}

Counted == version <= updates + 1 /\ pending <= updates + 1

IInv == /\ LifecycleTypeOK /\ Counted
        /\ Unbuilt /\ Holding /\ Stages /\ Working /\ Underway
        /\ PlacedRuns /\ EnabledIsServed /\ DisabledIsDown
=============================================================================
