----------------------------- MODULE PluginHost -----------------------------
(***************************************************************************)
(* The plugin manager (plugin_system/manager.py) and the dispatch of       *)
(* inbound messages to plugins (bridge/runtime.py).  One global instance   *)
(* of every enabled plugin is bound to every running bot.  Whatever        *)
(* changes the set of instances or bindings holds one asyncio lock, and    *)
(* awaits a hook of the plugin between any two of its changes; the inbound *)
(* workers take no lock and walk the live list of bindings.                *)
(*                                                                         *)
(* A task that holds the lock works through a list `todo` of items; each   *)
(* action below is what it does between two awaited hooks.  The lock is    *)
(* granted in any order, a superset of asyncio's first-come order.  A      *)
(* starting bot may be cancelled at any await (BridgeRuntime.stop cancels  *)
(* the supervisor that runs create_runtime_plugins), also while it holds   *)
(* the lock: `torn` remembers that this happened.                          *)
(***************************************************************************)
EXTENDS Integers, Sequences, FiniteSets, SequencesExt

CONSTANTS Plugins,   \* plugin directories
          Contexts,  \* PluginExecutionContexts: a bot makes a new one each start
          Admins,    \* WebUI requests that change plugins
          Workers,   \* inbound workers
          Configs,   \* contents of a plugin's configuration file
          Off,       \* the configuration with enabled = false
          None,
          Trip,      \* consecutive timeouts that open a breaker (3)
          MaxOps,    \* bound: administrative operations
          MaxCalls   \* bound: calls of on_inbound_message

ASSUME PluginHostAssumption ==
    /\ Off \in Configs
    /\ Trip \in Nat \ {0} /\ MaxOps \in Nat /\ MaxCalls \in Nat
    /\ Admins \cap Contexts = {} /\ Plugins \cap Contexts = {}
    /\ None \notin Admins \cup Contexts \cup Plugins
    /\ None \notin [p : Plugins, n : Nat, cfg : Configs]
    /\ IsFiniteSet(Plugins)

VARIABLES
    installed,  \* plugins whose directory exists
    file,       \* file[p]: the plugin's configuration file
    states,     \* _states: the running instance of a plugin, or None
    born,       \* instances made so far, to tell them apart
    alive,      \* instances initialised and not terminated
    loaded,     \* <<i, c>>: on_load of i for c returned, on_unload not called
    attached,   \* _runtime_attachments, in insertion order
    bind,       \* bind[c]: the bindings of c, the list the runtime also holds
    rt,         \* rt[c]: how far the bot with this context is
    lock,       \* the task that holds _lock, or None
    task,       \* task[t]: where an operation is
    worker,     \* worker[w]: the walk of an inbound worker over bind[c]
    breaker,    \* breaker[c][p]: the circuit breaker
    ops, calls, \* counted against the bounds
    overlap,    \* plugins with an update that ran beside another operation
    torn        \* a start was cancelled while it held the lock

host == <<installed, file, states, born, alive, loaded, attached, bind>>
vars == <<host, rt, lock, task, worker, breaker, ops, calls, overlap, torn>>

Tasks == Admins \cup Contexts
Enabled(c) == c # Off
InstanceOf(p, n, c) == [p |-> p, n |-> n, cfg |-> c]
Idle == [op |-> "idle", pc |-> "idle", todo |-> <<>>, p |-> None, prev |-> None,
         cand |-> None, old |-> None, left |-> <<>>, back |-> <<>>]
Resting == [c |-> None, pos |-> 0, inst |-> None, probe |-> FALSE]
Closed == [n |-> 0, st |-> "closed", probe |-> FALSE]

Bound(c) == ToSet(bind[c])
PositionOf(c, p) == {k \in DOMAIN bind[c] : bind[c][k].p = p}
\* The elements of a sequence that are in S, in their order.
Kept(s, S) ==
    LET kept[n \in 0 .. Len(s)] ==
          IF n = 0 THEN <<>>
          ELSE IF s[n] \in S THEN Append(kept[n - 1], s[n])
          ELSE kept[n - 1]
    IN  kept[Len(s)]

ContextsWith(p) == Kept(attached, {c \in Contexts : PositionOf(c, p) # {}})

(* RocketCatPluginManager.initialize has run: every enabled plugin has its   *)
(* instance, no bot is attached.                                             *)
Init ==
    /\ installed = Plugins
    /\ file \in [Plugins -> Configs]
    /\ states = [p \in Plugins |-> IF Enabled(file[p]) THEN InstanceOf(p, 1, file[p]) ELSE None]
    /\ born = [p \in Plugins |-> IF Enabled(file[p]) THEN 1 ELSE 0]
    /\ alive = {states[p] : p \in Plugins} \ {None}
    /\ loaded = {}
    /\ attached = <<>>
    /\ bind = [c \in Contexts |-> <<>>]
    /\ rt = [c \in Contexts |-> "fresh"]
    /\ lock = None
    /\ task = [t \in Tasks |-> Idle]
    /\ worker = [w \in Workers |-> Resting]
    /\ breaker = [c \in Contexts |-> [p \in Plugins |-> Closed]]
    /\ ops = 0 /\ calls = 0
    /\ overlap = {} /\ torn = FALSE

(***************************************************************************)
(* Operations are requested.  What they do before they wait for the lock   *)
(* happens here.                                                           *)
(***************************************************************************)
Item(kind, p, c) == [do |-> kind, p |-> p, cfg |-> c]
Concerned(t) == {task[t].todo[k].p : k \in DOMAIN task[t].todo} \cup {task[t].p}
\* The plugins for which a new operation on S overlaps an update, or is one.
Overlapping(S, isUpdate) ==
    {p \in S : \E t \in Tasks : /\ p \in Concerned(t)
                                /\ isUpdate \/ task[t].op = "update"}

Request(a, op, todo, p, prev) ==
    /\ task[a] = Idle
    /\ ops < MaxOps
    /\ task' = [task EXCEPT ![a] = [Idle EXCEPT !.op = op, !.pc = "wait", !.todo = todo,
                                                !.p = p, !.prev = prev]]
    /\ overlap' = overlap \cup Overlapping({todo[k].p : k \in DOMAIN todo}, op = "update")
    /\ ops' = ops + 1

(* update_plugin_config (and set_plugin_enabled): the file is written before *)
(* the lock is asked for; its earlier bytes are kept for the way back.       *)
UpdateConfig(a, p, c) ==
    /\ p \in installed
    /\ Request(a, "update", <<Item("replace", p, c)>>, p, file[p])
    /\ file' = [file EXCEPT ![p] = c]
    /\ UNCHANGED <<installed, states, born, alive, loaded, attached, bind, rt, lock,
                   worker, breaker, calls, torn>>

(* reload_plugin: the descriptor is read before the lock is asked for. *)
ReloadPlugin(a, p) ==
    /\ p \in installed
    /\ Request(a, "reload", <<Item("replace", p, file[p])>>, p, None)
    /\ UNCHANGED <<host, rt, lock, worker, breaker, calls, torn>>

(* uninstall_plugin: the instance goes under the lock, the directory with    *)
(* its release.                                                              *)
Uninstall(a, p) ==
    /\ p \in installed
    /\ Request(a, "uninstall", <<Item("drop", p, None)>>, p, None)
    /\ UNCHANGED <<host, rt, lock, worker, breaker, calls, torn>>

SyncItems(kind) ==
    LET known == SetToSeq(Plugins)
    IN [k \in DOMAIN known |-> Item(kind, known[k], None)]

(* reconcile_all(force=True), after a configuration import. *)
ReconcileForced(a) ==
    /\ Request(a, "reconcile", SyncItems("force"), None, None)
    /\ UNCHANGED <<host, rt, lock, worker, breaker, calls, torn>>

(* RocketCatPluginManager.shutdown, when every bot is stopped. *)
Shutdown(a) ==
    /\ \A c \in Contexts : rt[c] = "gone"
    /\ \A t \in Tasks : task[t] = Idle
    /\ ops < MaxOps
    /\ ops' = MaxOps
    /\ task' = [task EXCEPT ![a] =
                  [Idle EXCEPT !.op = "shutdown", !.pc = "wait",
                     !.todo = [k \in DOMAIN attached |-> Item("detach", attached[k], None)]
                              \o SyncItems("drop")]]
    /\ UNCHANGED <<host, rt, lock, worker, breaker, calls, overlap, torn>>

(* _start_clients: create_runtime_plugins first runs reconcile_all, then     *)
(* asks for the lock again to attach the new context.                        *)
StartBot(c) ==
    /\ rt[c] = "fresh"
    /\ rt' = [rt EXCEPT ![c] = "starting"]
    /\ task' = [task EXCEPT ![c] = [Idle EXCEPT !.op = "prepare", !.pc = "wait",
                                                !.todo = SyncItems("sync")]]
    /\ overlap' = overlap \cup Overlapping(Plugins, FALSE)
    /\ UNCHANGED <<host, lock, worker, breaker, ops, calls, torn>>

(* stop() of a bot that is still starting: the supervisor is cancelled where *)
(* it awaits.  _stop_clients then finds no bindings and does not call        *)
(* shutdown_runtime_plugins: what the start had attached stays attached.     *)
CancelStart(c) ==
    /\ rt[c] = "starting"
    /\ rt' = [rt EXCEPT ![c] = "gone"]
    /\ task' = [task EXCEPT ![c] = Idle]
    /\ lock' = IF lock = c THEN None ELSE lock
    /\ torn' = (torn \/ lock = c)
    /\ UNCHANGED <<host, worker, breaker, ops, calls, overlap>>

(* _stop_clients of a running bot: the clients have stopped and with them    *)
(* the inbound workers.  Without bindings the context is not detached.       *)
StopBot(c) ==
    /\ rt[c] = "up"
    /\ worker' = [w \in Workers |-> IF worker[w].c = c THEN Resting ELSE worker[w]]
    /\ breaker' = [breaker EXCEPT ![c] = [p \in Plugins |-> Closed]]
    /\ IF bind[c] = <<>>
       THEN rt' = [rt EXCEPT ![c] = "gone"] /\ UNCHANGED task
       ELSE /\ rt' = [rt EXCEPT ![c] = "stopping"]
            /\ task' = [task EXCEPT ![c] = [Idle EXCEPT !.op = "detach", !.pc = "wait",
                                                        !.todo = <<Item("detach", c, None)>>]]
    /\ UNCHANGED <<host, lock, ops, calls, overlap, torn>>

(***************************************************************************)
(* Under the lock.                                                         *)
(***************************************************************************)
Outside == <<rt, worker, breaker, ops, calls, overlap, torn>>

\* The lock is free for a waiting task, or its next item is due.
Turn(t) == /\ \/ lock = None /\ task[t].pc = "wait"
              \/ lock = t /\ task[t].pc = "next"
           /\ lock' = t

\* The first item of `todo` is done.
Done(t, todo) == task' = [task EXCEPT ![t].pc = "next", ![t].todo = Tail(todo),
                                      ![t].cand = None, ![t].old = None,
                                      ![t].left = <<>>, ![t].back = <<>>]
ItemDone(t) == Done(t, task[t].todo)

(* _deactivate_state_locked up to its first hook: the state is gone first.   *)
StartDeactivate(t, p, todo) ==
    /\ states' = [states EXCEPT ![p] = None]
    /\ IF states[p] = None
       THEN Done(t, todo)
       ELSE task' = [task EXCEPT ![t].pc = "drop", ![t].todo = todo, ![t].old = states[p],
                                 ![t].left = ContextsWith(p), ![t].back = <<>>]

(* _replace_plugin_locked up to its first hook.  The module of a plugin      *)
(* whose directory is gone cannot be loaded.                                 *)
StartReplace(t, p, c, todo) ==
    IF Enabled(c)
    THEN /\ UNCHANGED states
         /\ IF p \in installed
            THEN /\ task' = [task EXCEPT ![t].pc = "init", ![t].todo = todo,
                                         ![t].cand = InstanceOf(p, born[p] + 1, c)]
                 /\ born' = [born EXCEPT ![p] = @ + 1]
            ELSE /\ task' = [task EXCEPT ![t].pc = "failed", ![t].todo = todo]
                 /\ UNCHANGED born
    ELSE StartDeactivate(t, p, todo) /\ UNCHANGED born

\* What reconcile_all still has to do: items that ask for nothing are passed over.
Wanted(p) == p \in installed /\ Enabled(file[p])
Due(h) == \/ h.do \in {"replace", "drop", "attach", "detach"}
          \/ h.do = "sync" /\ (Wanted(h.p) # (states[h.p] # None))
          \/ h.do = "force" /\ (Wanted(h.p) \/ states[h.p] # None)
Pending(t) ==
    LET due == {k \in DOMAIN task[t].todo : Due(task[t].todo[k])}
    IN IF due = {} THEN <<>>
       ELSE SubSeq(task[t].todo, CHOOSE k \in due : \A j \in due : k <= j, Len(task[t].todo))

(* One item of the operation: what a replace, an uninstall or one round of   *)
(* reconcile_all's loops does up to its first hook.                          *)
TakeItem(t) ==
    /\ Turn(t) /\ Pending(t) # <<>>
    /\ LET todo == Pending(t)
           h == Head(todo)
       IN \/ h.do = "replace" /\ StartReplace(t, h.p, h.cfg, todo)
          \/ h.do \in {"sync", "force"} /\ Wanted(h.p) /\ StartReplace(t, h.p, file[h.p], todo)
          \/ /\ h.do = "drop" \/ (h.do \in {"sync", "force"} /\ ~Wanted(h.p))
             /\ StartDeactivate(t, h.p, todo)
             /\ UNCHANGED born
    /\ UNCHANGED <<installed, file, alive, loaded, attached, bind, Outside>>

(* on_initialize of the candidate returns or raises (an instance that fails  *)
(* to initialise is dropped, not terminated).                                *)
Initialised(t, ok) ==
    /\ lock = t /\ task[t].pc = "init"
    /\ alive' = IF ok THEN alive \cup {task[t].cand} ELSE alive
    /\ task' = IF ok THEN [task EXCEPT ![t].pc = "load", ![t].left = attached]
                     ELSE [task EXCEPT ![t].pc = "failed"]
    /\ UNCHANGED <<installed, file, states, born, loaded, attached, bind, lock, Outside>>

(* on_load of the candidate for the next attachment returns or raises. *)
CandidateLoad(t, ok) ==
    /\ lock = t /\ task[t].pc = "load" /\ task[t].left # <<>>
    /\ LET c == Head(task[t].left)
       IN IF ok
          THEN /\ loaded' = loaded \cup {<<task[t].cand, c>>}
               /\ task' = [task EXCEPT ![t].left = Tail(@), ![t].back = <<c>> \o @]
          ELSE /\ task' = [task EXCEPT ![t].pc = "undo"]
               /\ UNCHANGED loaded
    /\ UNCHANGED <<installed, file, states, born, alive, attached, bind, lock, Outside>>

(* The candidate could not be bound everywhere: on_unload where it was,      *)
(* newest first, then on_terminate.                                          *)
UndoCandidate(t) ==
    /\ lock = t /\ task[t].pc = "undo"
    /\ LET i == task[t].cand
       IN IF task[t].back # <<>>
          THEN /\ loaded' = loaded \ {<<i, Head(task[t].back)>>}
               /\ task' = [task EXCEPT ![t].back = Tail(@)]
               /\ UNCHANGED alive
          ELSE /\ alive' = alive \ {i}
               /\ task' = [task EXCEPT ![t].pc = "failed"]
               /\ UNCHANGED loaded
    /\ UNCHANGED <<installed, file, states, born, attached, bind, lock, Outside>>

(* Mutated form: the swap reaches only the attachment it saw first. *)
SwapFirst(t) ==
    /\ lock = t /\ task[t].pc = "load" /\ task[t].left = <<>>
    /\ LET i == task[t].cand
           new == [p |-> i.p, inst |-> i]
       IN /\ bind' = [c \in Contexts |->
                        IF attached = <<>> \/ c # Head(attached) THEN bind[c]
                        ELSE IF PositionOf(c, i.p) = {} THEN Append(bind[c], new)
                        ELSE [k \in DOMAIN bind[c] |->
                                IF k \in PositionOf(c, i.p) THEN new ELSE bind[c][k]]]
          /\ states' = [states EXCEPT ![i.p] = i]
          /\ IF states[i.p] = None THEN ItemDone(t)
             ELSE task' = [task EXCEPT ![t].pc = "retire", ![t].old = states[i.p],
                                       ![t].left = Reverse(ContextsWith(i.p))]
    /\ UNCHANGED <<installed, file, born, alive, loaded, attached, lock, Outside>>

(* Every attachment is loaded: one step without an await swaps the bindings  *)
(* in place (or appends), the generation and the state, and revokes the      *)
(* dashboard; then the old instance is unloaded, last attachment first.      *)
SwapInstances(t) ==
    /\ lock = t /\ task[t].pc = "load" /\ task[t].left = <<>>
    /\ LET i == task[t].cand
           new == [p |-> i.p, inst |-> i]
       IN /\ bind' = [c \in Contexts |->
                        IF c \notin ToSet(attached) THEN bind[c]
                        ELSE IF PositionOf(c, i.p) = {} THEN Append(bind[c], new)
                        ELSE [k \in DOMAIN bind[c] |->
                                IF k \in PositionOf(c, i.p) THEN new ELSE bind[c][k]]]
          /\ states' = [states EXCEPT ![i.p] = i]
          /\ IF states[i.p] = None THEN ItemDone(t)
             ELSE task' = [task EXCEPT ![t].pc = "retire", ![t].old = states[i.p],
                                       ![t].left = Reverse(ContextsWith(i.p))]
    /\ UNCHANGED <<installed, file, born, alive, loaded, attached, lock, Outside>>

(* The old instance: on_unload for each attachment it was bound to, then     *)
(* on_terminate.  Hooks that raise are logged.                               *)
RetireOld(t) ==
    /\ lock = t /\ task[t].pc = "retire"
    /\ LET i == task[t].old
       IN IF task[t].left # <<>>
          THEN /\ loaded' = loaded \ {<<i, Head(task[t].left)>>}
               /\ task' = [task EXCEPT ![t].left = Tail(@)]
               /\ UNCHANGED alive
          ELSE /\ alive' = alive \ {i}
               /\ ItemDone(t)
               /\ UNCHANGED loaded
    /\ UNCHANGED <<installed, file, states, born, attached, bind, lock, Outside>>

(* Mutated form: a binding leaves the live list only when every hook ran. *)
DropAfterHooks(t) ==
    /\ lock = t /\ task[t].pc = "drop"
    /\ LET i == task[t].old
       IN IF task[t].left # <<>>
          THEN /\ loaded' = loaded \ {<<i, Head(task[t].left)>>}
               /\ task' = [task EXCEPT ![t].left = Tail(@)]
               /\ UNCHANGED <<alive, bind>>
          ELSE /\ alive' = alive \ {i}
               /\ bind' = [c \in Contexts |-> Kept(bind[c], {b \in Bound(c) : b.inst # i})]
               /\ ItemDone(t)
               /\ UNCHANGED loaded
    /\ UNCHANGED <<installed, file, states, born, attached, lock, Outside>>

(* _deactivate_state_locked, one attachment after the other: the binding is  *)
(* taken out of the live list, then on_unload is awaited; on_terminate last. *)
DropInstance(t) ==
    /\ lock = t /\ task[t].pc = "drop"
    /\ LET i == task[t].old
       IN IF task[t].left # <<>>
          THEN LET c == Head(task[t].left)
               IN /\ bind' = [bind EXCEPT ![c] = Kept(@, {b \in Bound(c) : b.p # i.p})]
                  /\ loaded' = loaded \ {<<i, c>>}
                  /\ task' = [task EXCEPT ![t].left = Tail(@)]
                  /\ UNCHANGED alive
          ELSE /\ alive' = alive \ {i}
               /\ ItemDone(t)
               /\ UNCHANGED <<loaded, bind>>
    /\ UNCHANGED <<installed, file, states, born, attached, lock, Outside>>

(* create_runtime_plugins after its reconcile: the context is attached, then *)
(* on_load of every running instance is awaited in turn.                     *)
StartAttach(c) ==
    /\ Turn(c) /\ task[c].op = "attach" /\ task[c].todo # <<>>
    /\ attached' = Append(attached, c)
    /\ task' = [task EXCEPT ![c].pc = "bind",
                            ![c].left = SetToSeq({p \in Plugins : states[p] # None})]
    /\ UNCHANGED <<installed, file, states, born, alive, loaded, bind, Outside>>

(* An on_load that raises leaves this plugin unbound for this bot. *)
BindNext(c, ok) ==
    /\ lock = c /\ task[c].pc = "bind"
    /\ IF task[c].left = <<>>
       THEN ok /\ ItemDone(c) /\ UNCHANGED <<loaded, bind>>
       ELSE LET p == Head(task[c].left)
            IN /\ task' = [task EXCEPT ![c].left = Tail(@)]
               /\ IF ok
                  THEN /\ loaded' = loaded \cup {<<states[p], c>>}
                       /\ bind' = [bind EXCEPT ![c] = Append(@, [p |-> p, inst |-> states[p]])]
                  ELSE UNCHANGED <<loaded, bind>>
    /\ UNCHANGED <<installed, file, states, born, alive, attached, lock, Outside>>

(* shutdown_runtime_plugins and _detach_runtime_locked: the attachment is    *)
(* taken out first, its list is cleared when every on_unload has returned.   *)
StartDetach(t) ==
    /\ Turn(t) /\ task[t].todo # <<>>
    /\ Head(task[t].todo).do = "detach"
    /\ LET c == Head(task[t].todo).p
       IN /\ attached' = Kept(attached, Contexts \ {c})
          /\ task' = [task EXCEPT ![t].pc = "unbind", ![t].left = Reverse(bind[c])]
    /\ UNCHANGED <<installed, file, states, born, alive, loaded, bind, Outside>>

UnbindNext(t) ==
    /\ lock = t /\ task[t].pc = "unbind"
    /\ LET c == Head(task[t].todo).p
       IN IF task[t].left # <<>>
          THEN /\ loaded' = loaded \ {<<Head(task[t].left).inst, c>>}
               /\ task' = [task EXCEPT ![t].left = Tail(@)]
               /\ UNCHANGED bind
          ELSE /\ bind' = [bind EXCEPT ![c] = <<>>]
               /\ ItemDone(t)
               /\ UNCHANGED loaded
    /\ UNCHANGED <<installed, file, states, born, alive, attached, lock, Outside>>

(* Mutated form: a failed update leaves its configuration in the file. *)
FailKeepsFile(t) ==
    /\ lock = t /\ task[t].pc = "failed" /\ task[t].op \in {"update", "reload"}
    /\ lock' = None
    /\ task' = [task EXCEPT ![t] = Idle]
    /\ UNCHANGED <<host, Outside>>

(* The replacement raised.  An update puts its earlier bytes back and, like  *)
(* a reload, ends; reconcile_all isolates the plugin and goes on.            *)
FailItem(t) ==
    /\ lock = t /\ task[t].pc = "failed"
    /\ LET p == Head(task[t].todo).p
       IN \/ /\ task[t].op \in {"update", "reload"}
             /\ file' = IF task[t].op = "update" THEN [file EXCEPT ![p] = task[t].prev] ELSE file
             /\ lock' = None
             /\ task' = [task EXCEPT ![t] = Idle]
             /\ UNCHANGED states
          \/ /\ task[t].op \in {"reconcile", "prepare"}
             /\ IF states[p] # None
                THEN StartDeactivate(t, p, task[t].todo)
                ELSE ItemDone(t) /\ UNCHANGED states
             /\ UNCHANGED <<file, lock>>
    /\ UNCHANGED <<installed, born, alive, loaded, attached, bind, Outside>>

(* The operation is through and releases the lock.  uninstall_plugin removes *)
(* the directory in the same step; a bot that ran reconcile_all goes back to *)
(* the lock to attach; create_runtime_plugins hands its list to the runtime. *)
Finish(t) ==
    /\ \/ lock = t /\ task[t].pc = "next"
       \/ lock = None /\ task[t].pc = "wait"
    /\ Pending(t) = <<>>
    /\ lock' = None
    /\ installed' = IF task[t].op = "uninstall" THEN installed \ {task[t].p} ELSE installed
    /\ task' = [task EXCEPT ![t] =
                  IF task[t].op = "prepare"
                  THEN [Idle EXCEPT !.op = "attach", !.pc = "wait",
                                    !.todo = <<Item("attach", t, None)>>]
                  ELSE Idle]
    /\ rt' = IF task[t].op = "attach" THEN [rt EXCEPT ![t] = "up"]
             ELSE IF task[t].op = "detach" THEN [rt EXCEPT ![t] = "gone"]
             ELSE rt
    /\ UNCHANGED <<file, states, born, alive, loaded, attached, bind, worker, breaker, ops, calls, overlap, torn>>

(***************************************************************************)
(* Inbound messages: _dispatch_inbound_message_plugins.                    *)
(***************************************************************************)
\* The breaker lets a call through: closed, or expired with no probe under way.
Admits(b) == b.st = "closed" \/ (b.st = "expired" /\ ~b.probe)

(* The walk over the live list goes on at position k with breakers B: the    *)
(* next plugin that wants the message and is admitted is called.             *)
CallFrom(w, c, k, B) ==
    \E j \in k..Len(bind[c]) :
        LET b == bind[c][j]
            probing == B[b.p].st = "expired"
        IN /\ Admits(B[b.p])
           /\ calls < MaxCalls
           /\ calls' = calls + 1
           /\ worker' = [worker EXCEPT ![w] = [c |-> c, pos |-> j, inst |-> b.inst,
                                                probe |-> probing]]
           /\ breaker' = [breaker EXCEPT ![c] = [B EXCEPT ![b.p].probe = probing]]

(* A message arrives and some plugin is called. *)
Message(w, c) ==
    /\ worker[w] = Resting
    /\ rt[c] = "up"
    /\ CallFrom(w, c, 1, breaker[c])
    /\ UNCHANGED <<host, rt, lock, task, ops, overlap, torn>>

(* The breaker after a call: a timeout counts and opens it at Trip, an       *)
(* exception or a result closes it.                                          *)
Settled(b, how) ==
    IF how # "timeout" THEN Closed
    ELSE [n |-> IF b.n >= Trip THEN Trip ELSE b.n + 1,
          st |-> IF b.n + 1 >= Trip THEN "open" ELSE b.st,
          probe |-> FALSE]

(* on_inbound_message ends, and in the same step the walk goes on, or ends   *)
(* (at the end of the list, or because the plugin returned False).           *)
PluginReturns(w, how) ==
    /\ worker[w].inst # None
    /\ LET c == worker[w].c
           p == worker[w].inst.p
           B == [breaker[c] EXCEPT ![p] = Settled(@, how)]
       IN \/ how # "swallow" /\ CallFrom(w, c, worker[w].pos + 1, B)
          \/ /\ worker' = [worker EXCEPT ![w] = Resting]
             /\ breaker' = [breaker EXCEPT ![c] = B]
             /\ UNCHANGED calls
    /\ UNCHANGED <<host, rt, lock, task, ops, overlap, torn>>

(* 60 s pass after a breaker opened.  A call ends within 5 s, so none that   *)
(* began before is still under way.                                          *)
BreakerExpires(c, p) ==
    /\ breaker[c][p].st = "open"
    /\ \A w \in Workers : worker[w].c = c /\ worker[w].inst # None => worker[w].inst.p # p
    /\ breaker' = [breaker EXCEPT ![c][p].st = "expired"]
    /\ UNCHANGED <<host, rt, lock, task, worker, ops, calls, overlap, torn>>

Requests(a) ==
    \/ \E p \in Plugins, c \in Configs : UpdateConfig(a, p, c)
    \/ \E p \in Plugins : ReloadPlugin(a, p) \/ Uninstall(a, p)
    \/ ReconcileForced(a)
    \/ Shutdown(a)

Bots(c) == StartBot(c) \/ CancelStart(c) \/ StopBot(c) \/ StartAttach(c)
           \/ \E ok \in BOOLEAN : BindNext(c, ok)

Locked(t) ==
    \/ TakeItem(t) \/ UndoCandidate(t) \/ SwapInstances(t)
    \/ \E ok \in BOOLEAN : Initialised(t, ok) \/ CandidateLoad(t, ok)
    \/ RetireOld(t) \/ DropInstance(t) \/ StartDetach(t) \/ UnbindNext(t)
    \/ FailItem(t) \/ Finish(t)

Inbound(w) ==
    \/ \E c \in Contexts : Message(w, c)
    \/ \E how \in {"ok", "swallow", "raise", "timeout"} : PluginReturns(w, how)

Next ==
    \/ \E a \in Admins : Requests(a)
    \/ \E c \in Contexts : Bots(c)
    \/ \E t \in Tasks : Locked(t)
    \/ \E w \in Workers : Inbound(w)
    \/ \E c \in Contexts, p \in Plugins : BreakerExpires(c, p)

Spec == Init /\ [][Next]_vars

-----------------------------------------------------------------------------
(* Whenever the lock is free, the bindings of every attached bot are of the  *)
(* instances in _states, one per plugin, and on_load and on_unload have been *)
(* paired: the instances loaded on a bot are the ones bound to it.  And the  *)
(* instances that were initialised and not terminated are the ones in        *)
(* _states: no failed candidate, no replaced or deactivated instance is left *)
(* running.  Hooks may raise anywhere in replace, attach, deactivate, detach.*)
NothingLeftOver ==
    lock = None /\ ~torn =>
        /\ \A c \in Contexts : \A k \in DOMAIN bind[c] :
              /\ bind[c][k].inst = states[bind[c][k].p]
              /\ PositionOf(c, bind[c][k].p) = {k}
        /\ loaded = UNION {{<<b.inst, c>> : b \in Bound(c)} : c \in Contexts}
        /\ alive = {states[p] : p \in Plugins} \ {None}

(* An inbound worker, which takes no lock, only ever calls an instance that  *)
(* is loaded on its bot, whatever is being replaced or deactivated: the      *)
(* order of swap, removal and on_unload, even in a start cut off half-way.   *)
CallsEnterLoaded ==
    [][\A w \in Workers :
          worker'[w] # worker[w] /\ worker'[w].inst # None =>
              <<worker'[w].inst, worker'[w].c>> \in loaded]_vars

(* When nothing is under way, a plugin runs what its file says, or not at    *)
(* all (disabled, uninstalled, or isolated after a failure): an update that  *)
(* failed has put the file back.  Updates that overlap another operation on  *)
(* the same plugin are exempt: the first one's way back overwrites the       *)
(* second one's file.                                                        *)
RunningMatchesFile ==
    \A p \in Plugins :
        (\A t \in Tasks : task[t] = Idle) /\ ~torn /\ p \notin overlap
        /\ states[p] # None => /\ p \in installed
                               /\ Enabled(file[p])
                               /\ states[p].cfg = file[p]

-----------------------------------------------------------------------------
(* The inductive invariant behind the three properties                      *)

Instances == [p : Plugins, n : Nat, cfg : Configs]
Bindings == [p : Plugins, inst : Instances]
Items == [do : {"replace"}, p : Plugins, cfg : Configs]
         \cup [do : {"drop", "sync", "force"}, p : Plugins, cfg : {None}]
         \cup [do : {"attach", "detach"}, p : Contexts, cfg : {None}]
Tasking == [op : {"idle", "update", "reload", "uninstall", "reconcile", "shutdown",
                  "prepare", "attach", "detach"},
            pc : {"idle", "wait", "next", "init", "load", "undo", "failed", "retire",
                  "drop", "bind", "unbind"},
            todo : Seq(Items), p : Plugins \cup {None}, prev : Configs \cup {None},
            cand : Instances \cup {None}, old : Instances \cup {None},
            left : Seq(Contexts) \cup Seq(Plugins) \cup Seq(Bindings), back : Seq(Contexts)]

TypeOK ==
    /\ installed \subseteq Plugins /\ file \in [Plugins -> Configs]
    /\ states \in [Plugins -> Instances \cup {None}] /\ born \in [Plugins -> Nat]
    /\ alive \subseteq Instances /\ loaded \subseteq Instances \X Contexts
    /\ attached \in Seq(Contexts) /\ bind \in [Contexts -> Seq(Bindings)]
    /\ rt \in [Contexts -> {"fresh", "starting", "up", "stopping", "gone"}]
    /\ lock \in Tasks \cup {None} /\ task \in [Tasks -> Tasking]
    /\ worker \in [Workers -> [c : Contexts \cup {None}, pos : Nat,
                               inst : Instances \cup {None}, probe : BOOLEAN]]
    /\ breaker \in [Contexts -> [Plugins -> [n : 0 .. Trip, probe : BOOLEAN,
                                             st : {"closed", "open", "expired"}]]]
    /\ ops \in Nat /\ calls \in Nat
    /\ overlap \subseteq Plugins /\ torn \in BOOLEAN

Swapping == {"init", "load", "undo", "failed", "retire", "drop"}
ItemsOf(op) ==
    CASE op = "idle" -> {}
      [] op \in {"update", "reload"} -> {"replace"}
      [] op = "uninstall" -> {"drop"}
      [] op = "reconcile" -> {"force"}
      [] op = "prepare" -> {"sync"}
      [] op = "shutdown" -> {"detach", "drop"}
      [] OTHER -> {op}

(* Whoever is past the lock holds it.  What a task does, and for which bot,  *)
(* follows from its operation; a bot's own task from the stage of the bot.   *)
Working(t) ==
    LET T == task[t]
        h == Head(T.todo)
    IN /\ T.pc \notin {"idle", "wait"} <=> lock = t
       /\ T.pc = "idle" <=> T.op = "idle"
       /\ T.op = "idle" => T = Idle
       /\ T.pc \in {"wait", "next", "init"} => T.back = <<>>
       /\ \A i \in ToSet(T.todo) : /\ i.do \in ItemsOf(T.op)
                                   /\ i.do = "attach" => i.p = t
                                   /\ i.do = "detach" => rt[i.p] \in {"stopping", "gone"}
       /\ T.pc \in Swapping => T.todo # <<>> /\ h.do \in {"replace", "drop", "sync", "force"}
       /\ T.pc = "bind" => T.todo # <<>> /\ h.do = "attach"
       /\ T.pc = "unbind" => T.todo # <<>> /\ h.do = "detach"
       /\ T.op \in {"update", "reload", "uninstall", "attach", "detach"} =>
            /\ Len(T.todo) <= 1
            /\ T.todo = <<>> <=> T.pc = "next"
       /\ T.op \in {"update", "reload", "uninstall"} =>
            /\ T.p \in Plugins
            /\ T.todo # <<>> => h.p = T.p

RoleOf(c) == CASE rt[c] = "starting" -> {"prepare", "attach"}
               [] rt[c] = "stopping" -> {"detach"}
               [] OTHER -> {"idle"}
Attaching(c) == task[c].op = "attach" /\ task[c].pc # "wait"

Roles ==
    /\ \A t \in Tasks : Working(t)
    /\ \A c \in Contexts : task[c].op \in RoleOf(c)
    /\ \A a \in Admins : task[a].op \notin {"prepare", "attach", "detach"}

(* A bot that runs, or is about to, is attached; one that is not as far has   *)
(* no bindings yet.  What a worker walks belongs to a bot that runs.         *)
Attached ==
    /\ \A c \in Contexts : rt[c] = "up" \/ Attaching(c) => c \in ToSet(attached)
    /\ \A c \in Contexts : rt[c] = "fresh" \/ (rt[c] = "starting" /\ ~Attaching(c)) =>
          bind[c] = <<>> /\ c \notin ToSet(attached)
    /\ \A w \in Workers : worker[w].inst # None =>
          worker[w].c \in Contexts /\ rt[worker[w].c] = "up"

(* An attached bot has one binding of a plugin at most, and each is loaded   *)
(* there.  A candidate is newer than what runs or is bound, and an instance  *)
(* that is being unloaded is bound no more where it still has to be.         *)
Numbered(i, p) == i.p = p /\ i.n <= born[p]
Unused(i) == /\ \A p \in Plugins : states[p] # i
             /\ \A c \in Contexts : \A b \in Bound(c) : b.inst # i
OnePerPlugin(c) ==
    \A j, k \in DOMAIN bind[c] : bind[c][j].p = bind[c][k].p => j = k

Binding ==
    /\ \A p \in Plugins : states[p] # None => Numbered(states[p], p)
    /\ \A c \in Contexts :
          /\ OnePerPlugin(c)
          /\ \A b \in Bound(c) : /\ Numbered(b.inst, b.p)
                                 /\ c \in ToSet(attached) => <<b.inst, c>> \in loaded

Changing(t) ==
    LET T == task[t]
        h == Head(T.todo)
    IN /\ T.pc \in {"init", "load", "undo"} =>
            /\ T.cand # None /\ T.cand.p = h.p /\ T.cand.n = born[h.p]
            /\ Unused(T.cand)
       /\ T.pc = "load" =>
            /\ T.left \in Seq(Contexts) /\ ToSet(attached) = ToSet(T.left) \cup ToSet(T.back)
            /\ \A c \in ToSet(T.back) : <<T.cand, c>> \in loaded
       /\ T.pc \in {"retire", "drop"} =>
            /\ T.left \in Seq(Contexts)
            /\ T.old # None /\ T.old.p = h.p /\ \A p \in Plugins : states[p] # T.old
            /\ T.pc = "drop" => states[h.p] = None
       /\ T.pc = "retire" =>
            \A c \in ToSet(attached) : \A b \in Bound(c) : b.inst # T.old
       /\ T.pc = "bind" =>
            /\ T.left \in Seq(Plugins) /\ IsInjective(T.left)
            /\ \A p \in ToSet(T.left) : states[p] # None /\ \A b \in Bound(t) : b.p # p
       /\ T.pc = "unbind" => T.left \in Seq(Bindings) /\ h.p \notin ToSet(attached)

(* Unless a start was torn, bindings, hooks and instances account for each   *)
(* other: what the holder of the lock still has to unload is all there is    *)
(* besides.                                                                  *)
Leaving ==
    IF lock = None THEN {}
    ELSE LET T == task[lock]
         IN CASE T.pc \in {"load", "undo"} -> {<<T.cand, c>> : c \in ToSet(T.back)}
              [] T.pc = "retire" -> {<<T.old, c>> : c \in ToSet(T.left)}
              [] T.pc = "unbind" -> {<<b.inst, Head(T.todo).p>> : b \in ToSet(T.left)}
              [] OTHER -> {}
Besides ==
    IF lock = None THEN {}
    ELSE LET T == task[lock]
         IN CASE T.pc \in {"load", "undo"} -> {T.cand}
              [] T.pc \in {"retire", "drop"} -> {T.old}
              [] OTHER -> {}
Unbinding(c) == lock # None /\ task[lock].pc = "unbind" /\ Head(task[lock].todo).p = c
Dropping(c, i) == lock # None /\ task[lock].pc = "drop" /\ task[lock].old = i
                  /\ c \in ToSet(task[lock].left)

Accounted ==
    /\ \A c \in Contexts : bind[c] = <<>> \/ c \in ToSet(attached) \/ Unbinding(c)
    /\ \A c \in Contexts : \A b \in Bound(c) : b.inst = states[b.p] \/ Dropping(c, b.inst)
    /\ \A l \in loaded : \/ l \in Leaving
                         \/ ~Unbinding(l[2]) /\ \E b \in Bound(l[2]) : b.inst = l[1]
    /\ alive = ({states[p] : p \in Plugins} \ {None}) \cup Besides

(* Unless updates overlapped, at most one operation that replaces a plugin    *)
(* is under way beside nothing else about it, and what runs is what the file *)
(* says, or said before an update that has not come through.                 *)
Runs(p, c) == states[p] # None => p \in installed /\ Enabled(c) /\ states[p].cfg = c
Updates(t, p) == task[t].op = "update" /\ task[t].p = p
Earlier(t) == task[t].pc \in {"wait", "init", "load", "undo", "failed"}

Matching ==
    /\ \A p \in Plugins \ overlap :
          /\ (\A t \in Tasks : ~(Updates(t, p) /\ Earlier(t))) => Runs(p, file[p])
          /\ \A t \in Tasks : Updates(t, p) /\ Earlier(t) => Runs(p, task[t].prev)
          /\ \A t, u \in Tasks : Updates(t, p) /\ u # t => p \notin Concerned(u)
    /\ \A t \in Tasks :
          /\ \A i \in ToSet(task[t].todo) :
               i.do = "replace" /\ i.p \notin overlap => i.cfg = file[i.p]
          /\ task[t].pc \in {"init", "load", "undo"} /\ task[t].cand.p \notin overlap =>
               /\ task[t].cand.p \in installed /\ Enabled(task[t].cand.cfg)
               /\ task[t].cand.cfg = file[task[t].cand.p]
          /\ task[t].op = "update" => task[t].prev \in Configs
          /\ task[t].op = "uninstall" /\ task[t].pc # "wait" =>
               task[t].pc \in {"drop", "next"} /\ states[task[t].p] = None

PluginInv ==
    /\ TypeOK /\ Roles /\ Attached /\ Binding /\ Matching
    /\ \A t \in Tasks : Changing(t)
    /\ ~torn => Accounted
=============================================================================
