---------------------------- MODULE ControlPlane ----------------------------
(***************************************************************************)
(* Configuration of one shell (shell/manager.py, registry.py, settings.py, *)
(* shell/webui.py, shell/app.py): settings, bots with their OneBot         *)
(* transports and plugin configurations, in memory and in four files that  *)
(* are written one after the other; the login sessions of the WebUI; and   *)
(* the release switch that must find the WebUI on its port again.          *)
(*                                                                         *)
(* The manager's _lock is never held across an await: what it protects is  *)
(* one step.  _configuration_transaction_lock is held while runtimes are   *)
(* reconciled or a release is downloaded, and is granted first come first  *)
(* served.  A crash may come between any two file writes; a write may fail.*)
(***************************************************************************)
EXTENDS Integers, Sequences, FiniteSets, SequencesExt

CONSTANTS BotIds, Reqs,
          Passwords, Ports,  \* values of the settings of the WebUI
          Listen,            \* ports on which a bot may listen
          Default,           \* the password of a new installation
          MaxOps,            \* bound: operations
          MaxFaults,         \* bound: failed writes and crashes
          None

ASSUME ControlAssumption ==
    /\ IsFiniteSet(BotIds) /\ Default \in Passwords /\ Ports # {} /\ None \notin Ports \cup Passwords \cup Listen
    /\ MaxOps \in Nat /\ MaxFaults \in Nat

Client == [type |-> "websocket-client", ep |-> None]
Transports == {Client} \cup {[type |-> "http-server", ep |-> e] : e \in Listen}
Records == {[on |-> o, tr |-> t] : o \in BOOLEAN, t \in Transports}
\* Lists of bots without repetition: _validate_card_order_list refuses others.
Lists == {o \in BoundedSeq(BotIds, Cardinality(BotIds)) : IsInjective(o)}
Tables == UNION {[S -> Records] : S \in SUBSET BotIds}
NoBots == [b \in {} |-> [on |-> FALSE, tr |-> Client]]

VARIABLES
    app,      \* "up" or "down"
    mem,      \* settings, bots and plugin configuration in memory
    disk,     \* the files: set, bots, trans, plug
    torn,     \* bots.json and onebot_transports.json are of different saves
    acked,    \* history: the types every completely saved bot may have
    strayed,  \* a refused or failed request left memory and files apart
    gate,     \* the WebUI: pw it asks for, port it listens on
    login,    \* sessions: the passwords they were opened with
    req,      \* req[r]: [pc, kind] of a request under the configuration lock
    queue,    \* requests that hold (first) or await the configuration lock
    switch,   \* the release switch under way: [port, saved], or None
    ops, faults

vars == <<app, mem, disk, torn, acked, strayed, gate, login, req, queue, switch, ops, faults>>

Fresh == [pw |-> Default, port |-> CHOOSE p \in Ports : TRUE, order |-> <<>>]
Quiet == [r \in Reqs |-> [pc |-> "idle", kind |-> None]]
Types(bots) == [b \in DOMAIN bots |-> {bots[b].tr.type}]
Flags(bots) == [b \in DOMAIN bots |-> bots[b].on]
Wires(bots) == [b \in DOMAIN bots |-> bots[b].tr]
FilesOf(m) == [set |-> m.set, bots |-> Flags(m.bots), trans |-> Wires(m.bots), plug |-> m.plug]

Init ==
    /\ app = "up"
    /\ mem = [set |-> Fresh, bots |-> NoBots, plug |-> 0]
    /\ disk = FilesOf(mem)
    /\ torn = FALSE /\ acked = Types(NoBots) /\ strayed = FALSE
    /\ gate = [pw |-> Default, port |-> Fresh.port] /\ login = {}
    /\ req = Quiet /\ queue = <<>> /\ switch = None
    /\ ops = 0 /\ faults = 0

(***************************************************************************)
(* Files.                                                                  *)
(***************************************************************************)
Order == <<"set", "bots", "trans", "plug">>
First(k) == {Order[j] : j \in 1..k}
\* The files after the first k of them were replaced by those of m.
After(k, m) == [f \in DOMAIN disk |-> IF f \in First(k) THEN FilesOf(m)[f] ELSE disk[f]]
Torn(k, m) == torn \/ (k = 2 /\ FilesOf(m).trans # disk.trans)

\* _transport_listener_endpoint: only an enabled bot listens.
ListensAt(rec) == IF rec.on THEN rec.tr.ep ELSE None
Conflict(bots, b) ==
    \E c \in DOMAIN bots \ {b} : ListensAt(bots[b]) # None /\ ListensAt(bots[c]) = ListensAt(bots[b])

(* BotRegistry.load: the transport of a bot comes from the second file; a    *)
(* bot that is not there has the websocket client of old releases.           *)
LoadBots(d) ==
    [b \in DOMAIN d.bots |->
        [on |-> d.bots[b], tr |-> IF b \in DOMAIN d.trans THEN d.trans[b] ELSE Client]]

(* History: what the bots were saved with before stays with them, and those  *)
(* in lax were given a transport that names no type.                         *)
May(b, lax) == acked[b] \cup IF b \in lax THEN {Client.type} ELSE {}
Settled(bots, lax) == [b \in DOMAIN bots |-> IF b \in DOMAIN acked THEN May(b, lax) ELSE Types(bots)[b]]
\* An import (4 files) puts bots of its own in the place of all.
Kept(n, m, lax) == IF n = 4 THEN Types(m.bots) ELSE Settled(m.bots, lax)

(* _persist_after_bot_change_locked, and for an import the plugin files: all *)
(* n files are written.                                                      *)
Saved(n, m, lax) ==
    /\ disk' = After(n, m)
    /\ torn' = torn
    /\ acked' = IF n >= 3 THEN Kept(n, m, lax) ELSE acked

(* BotRegistry.save fails: its two files are put back, unless that fails     *)
(* too.  The settings were written before it.                                *)
SaveFails(n, m, lax) ==
    /\ faults < MaxFaults
    /\ faults' = faults + 1
    /\ acked' = [b \in DOMAIN acked \cap DOMAIN m.bots |-> May(b, lax)]
    /\ \/ n >= 1 /\ disk' = After(0, m) /\ torn' = torn
       \/ n >= 2 /\ disk' = After(1, m) /\ torn' = torn
       \/ n >= 3 /\ disk' = After(2, m) /\ torn' = Torn(2, m)

(* The process dies in the middle of a save. *)
Dies(n, m, lax) ==
    /\ faults < MaxFaults
    /\ faults' = faults + 1
    /\ app' = "down"
    /\ \E k \in 0..n :
          /\ disk' = After(k, m)
          /\ torn' = Torn(k, m)
          /\ acked' = IF k >= 3 THEN Kept(n, m, lax) ELSE acked
    /\ req' = Quiet /\ queue' = <<>> /\ login' = {}
    /\ UNCHANGED <<mem, strayed, gate, switch>>

Step == app = "up" /\ ops < MaxOps /\ ops' = ops + 1

(* An operation on the bots: memory first, then the files.  When a write     *)
(* fails, memory keeps the change.                                           *)
ChangeBots(m, lax) ==
    \/ /\ mem' = m
       /\ \/ Saved(3, m, lax) /\ UNCHANGED <<faults, strayed>>
          \/ SaveFails(3, m, lax) /\ strayed' = TRUE
       /\ UNCHANGED <<app, gate, login, req, queue, switch>>
    \/ Dies(3, m, lax)

(* Mutated form: the type of an update is not looked at. *)
AnyType(b, rec, typed) == TRUE

(* _normalize_bot_payload: an update that names a type must name the bot's.  *)
(* One whose transport names none (typed is FALSE) is let pass.              *)
SameType(b, rec, typed) == typed /\ b \in DOMAIN mem.bots => rec.tr.type = mem.bots[b].tr.type

\* normalize_transport: but a transport that names no type is a websocket client.
Normalized(rec, typed) == typed \/ rec.tr = Client

\* The table with the record of b put in.
With(b, rec) == [c \in DOMAIN mem.bots \cup {b} |-> IF c = b THEN rec ELSE mem.bots[c]]

(* _validate_bot and _validate_transport_listener_conflicts: an enabled bot  *)
(* listens where no other enabled bot and not the WebUI listens now.         *)
Valid(b, rec) == ~Conflict(With(b, rec), b) /\ ListensAt(rec) # gate.port

(* create_bot and update_bot.  Without a transport in its payload an update  *)
(* keeps the one there is.                                                   *)
PutBot(b, rec, typed) ==
    /\ Step
    /\ SameType(b, rec, typed) /\ Normalized(rec, typed) /\ Valid(b, rec)
    /\ b \in DOMAIN mem.bots => rec # mem.bots[b]
    /\ ChangeBots([mem EXCEPT !.bots = With(b, rec)], IF typed THEN {} ELSE {b})

(* delete_bot. *)
DeleteBot(b) ==
    /\ Step
    /\ b \in DOMAIN mem.bots
    /\ ChangeBots([mem EXCEPT !.bots = [c \in DOMAIN @ \ {b} |-> @[c]]], {})

(* _disable_bot_after_rocketchat_failure. *)
DisableBot(b) ==
    /\ Step
    /\ b \in DOMAIN mem.bots /\ mem.bots[b].on
    /\ ChangeBots([mem EXCEPT !.bots[b].on = FALSE], {})

(***************************************************************************)
(* Requests under the configuration lock.                                  *)
(***************************************************************************)
(* What a settings request asks for, in the order in which it is checked;    *)
(* bad is the first field that is refused, if any.                           *)
SettingsOps == {[pw |-> w, port |-> p, bad |-> x] :
                  w \in Passwords \cup {None}, p \in Ports \cup {None},
                  x \in {"none", "port", "limit"}}

(* _build_import_bots: an imported table is validated as a whole, with the   *)
(* port imported with it.                                                    *)
ImportOps == {op \in [set : [pw : Passwords, port : Ports], bots : Tables] :
                \A b \in DOMAIN op.bots :
                    ~Conflict(op.bots, b) /\ ListensAt(op.bots[b]) # op.set.port}
Kinds == {"settings", "order", "import", "switch"}

(* A request of the WebUI.  What it carries is looked at under the lock. *)
Ask(r, kind) ==
    /\ Step
    /\ req[r].pc = "idle"
    /\ kind = "switch" => switch = None
    /\ req' = [req EXCEPT ![r] = [pc |-> "asked", kind |-> kind]]
    /\ queue' = Append(queue, r)
    /\ UNCHANGED <<app, mem, disk, torn, acked, strayed, gate, login, switch, faults>>

Holds(r) == app = "up" /\ queue # <<>> /\ Head(queue) = r

\* The handler returns or raises, and the next request has the lock.
Return(r) ==
    /\ queue' = Tail(queue)
    /\ req' = [req EXCEPT ![r] = [pc |-> "idle", kind |-> None]]

(* Mutated form: only the request that holds the lock is looked at. *)
NeverBusy == FALSE

\* _update_shutdown_task or an active transaction.
Busy == switch # None

(* 409: a release switch is under way. *)
Refuse(r) ==
    /\ Holds(r) /\ req[r].pc = "asked"
    /\ Busy
    /\ Return(r)
    /\ UNCHANGED <<app, mem, disk, torn, acked, strayed, gate, login, switch, ops, faults>>

Asked(r, kind) == Holds(r) /\ req[r].pc = "asked" /\ req[r].kind = kind /\ ~Busy
Goes(r) == req' = [req EXCEPT ![r].pc = IF @ = "asked" /\ req[r].kind = "switch" THEN "prepare" ELSE "apply"]

\* update_settings up to the field that is refused: these are already in memory.
Merged(op) ==
    [mem EXCEPT !.set.pw = IF op.pw = None THEN @ ELSE op.pw,
                !.set.port = IF op.port = None \/ op.bad = "port" THEN @ ELSE op.port]

(* update_settings: assigned field by field, then written; a field that is   *)
(* refused raises before the write.                                          *)
UpdateSettings(r, op) ==
    /\ Asked(r, "settings")
    /\ LET m == Merged(op)
       IN \/ /\ op.bad # "none"
             /\ mem' = m
             /\ strayed' = (strayed \/ m # mem)
             /\ Return(r)
             /\ UNCHANGED <<app, disk, torn, acked, gate, login, switch, faults>>
          \/ /\ op.bad = "none"
             /\ mem' = m
             /\ Saved(1, m, {})
             /\ Goes(r)
             /\ UNCHANGED <<app, strayed, gate, login, queue, switch, faults>>
          \/ /\ op.bad = "none"
             /\ mem' = m
             /\ SaveFails(1, m, {})
             /\ strayed' = TRUE
             /\ Return(r)
             /\ UNCHANGED <<app, gate, login, switch>>
          \/ /\ op.bad = "none"
             /\ Dies(1, m, {})
    /\ UNCHANGED ops

(* _build_import_card_order: the list that is imported, or the one there is, *)
(* made canonical for the imported bots: those it names first, then the      *)
(* others.  As any list may be imported, this is any order of these bots.    *)
ImportOrders(bots) == {o \in Lists : ToSet(o) = bots}

Imported(op) ==
    {[set |-> [pw |-> op.set.pw, port |-> op.set.port, order |-> o],
      bots |-> op.bots, plug |-> mem.plug + 1] : o \in ImportOrders(DOMAIN op.bots)}

(* update_card_order: a list made from a view that is out of date is refused. *)
UpdateOrder(r, list) ==
    /\ Asked(r, "order")
    /\ LET m == [mem EXCEPT !.set.order = list]
       IN \/ /\ ToSet(list) # DOMAIN mem.bots
             /\ Return(r)
             /\ UNCHANGED <<app, mem, disk, torn, acked, strayed, gate, login, switch, faults>>
          \/ /\ ToSet(list) = DOMAIN mem.bots
             /\ mem' = m
             /\ \/ Saved(1, m, {}) /\ UNCHANGED <<strayed, faults>>
                \/ SaveFails(1, m, {}) /\ strayed' = TRUE
             /\ Return(r)
             /\ UNCHANGED <<app, gate, login, switch>>
          \/ /\ ToSet(list) = DOMAIN mem.bots
             /\ Dies(1, m, {})
    /\ UNCHANGED ops

(* Mutated form: the way back forgets the transports. *)
RollBackBots(k, m) ==
    /\ disk' = [FilesOf(mem) EXCEPT !.plug = disk.plug, !.trans = After(k, m).trans]
    /\ acked' = Settled(mem.bots, {})

(* The way back of an import that failed after k files: settings, bots and   *)
(* plugin files of before are written.                                       *)
RollBack(k, m) ==
    /\ disk' = [FilesOf(mem) EXCEPT !.plug = disk.plug]
    /\ acked' = Settled(mem.bots, {})

(* It fails in turn after j files, of the k that differ by then: transports  *)
(* of the import may stay, and no type is held to from then on.              *)
RollBackFails(j, k, m) ==
    /\ disk' = [f \in DOMAIN disk |-> IF f \in First(j) THEN FilesOf(mem)[f] ELSE After(k, m)[f]]
    /\ acked' = Types(NoBots)

(* import_configuration: settings, bots and plugin files are replaced in     *)
(* turn; if a write fails, memory is put back and all are written again.     *)
Import(r, op) ==
    /\ Asked(r, "import")
    /\ \E m \in Imported(op) :
          \/ /\ mem' = m
             /\ Saved(4, m, {})
             /\ Goes(r)
             /\ UNCHANGED <<app, strayed, gate, login, queue, switch, faults>>
          \/ /\ faults < MaxFaults
             /\ faults' = faults + 1
             /\ \/ RollBack(4, m) /\ UNCHANGED <<torn, strayed>>
                \/ \E k \in {1, 3, 4}, j \in 0..3 :
                      j < k /\ RollBackFails(j, k, m) /\ torn' = TRUE /\ strayed' = TRUE
             /\ Return(r)
             /\ UNCHANGED <<app, mem, gate, login, switch>>
          \/ Dies(4, m, {})
    /\ UNCHANGED ops

\* _apply_access_password: a new password ends every session.
Sessions(pw) == IF pw = gate.pw THEN login ELSE {}

(* Runtimes are reconciled; then the handler takes over the password that    *)
(* the manager has now.                                                      *)
Applied(r) ==
    /\ Holds(r) /\ req[r].pc = "apply"
    /\ gate' = [gate EXCEPT !.pw = mem.set.pw]
    /\ login' = Sessions(mem.set.pw)
    /\ Return(r)
    /\ UNCHANGED <<app, mem, disk, torn, acked, strayed, switch, ops, faults>>

(* Reconciling fails: the request is answered with an error although its     *)
(* files are written, and the WebUI keeps the password it has.               *)
ApplyFails(r) ==
    /\ Holds(r) /\ req[r].pc = "apply"
    /\ faults < MaxFaults /\ faults' = faults + 1
    /\ strayed' = TRUE
    /\ Return(r)
    /\ UNCHANGED <<app, mem, disk, torn, acked, gate, login, switch, ops>>

(* _handle_update_switch: refused while the configured port is not the one   *)
(* in use; then the release is prepared with the lock held.                  *)
StartSwitch(r) ==
    /\ Asked(r, "switch")
    /\ IF mem.set.port = gate.port
       THEN Goes(r) /\ UNCHANGED queue
       ELSE Return(r)
    /\ UNCHANGED <<app, mem, disk, torn, acked, strayed, gate, login, switch, ops, faults>>

(* prepare_switch returns: the transaction probes the port of now. *)
Prepared(r, ok) ==
    /\ Holds(r) /\ req[r].pc = "prepare"
    /\ switch' = IF ok THEN [port |-> gate.port, saved |-> disk.set = mem.set] ELSE None
    /\ Return(r)
    /\ UNCHANGED <<app, mem, disk, torn, acked, strayed, gate, login, ops, faults>>

(* The helper does not become ready: the service stays. *)
SwitchFails ==
    /\ app = "up" /\ switch # None
    /\ switch' = None
    /\ UNCHANGED <<app, mem, disk, torn, acked, strayed, gate, login, req, queue, ops, faults>>

(***************************************************************************)
(* Sessions, stop and start.                                               *)
(***************************************************************************)
(* _handle_login: a session for whoever knows the password. *)
Login(pw) ==
    /\ app = "up"
    /\ pw = gate.pw
    /\ login' = login \cup {pw}
    /\ UNCHANGED <<app, mem, disk, torn, acked, strayed, gate, req, queue, switch, ops, faults>>

(* A session is logged out or expires. *)
SessionEnds(pw) ==
    /\ app = "up" /\ pw \in login
    /\ login' = login \ {pw}
    /\ UNCHANGED <<app, mem, disk, torn, acked, strayed, gate, req, queue, switch, ops, faults>>

(* The shell stops: asked to, for the release switch, or it dies. *)
Stop ==
    /\ app = "up"
    /\ faults < MaxFaults \/ switch # None
    /\ faults' = IF switch # None THEN faults ELSE faults + 1
    /\ app' = "down"
    /\ req' = Quiet /\ queue' = <<>> /\ login' = {}
    /\ UNCHANGED <<mem, disk, torn, acked, strayed, gate, switch, ops>>

\* ShellManager.initialize reads settings and bots.
Loaded == [set |-> disk.set, bots |-> LoadBots(disk), plug |-> disk.plug]

(* The configured port is bound or, unless a release switch starts the       *)
(* shell, another one.                                                       *)
Bindable == IF switch # None THEN {disk.set.port} ELSE Ports

(* initialize writes the files of the bots again; then the WebUI starts. *)
Start ==
    /\ app = "down"
    /\ app' = "up"
    /\ mem' = Loaded
    /\ disk' = [disk EXCEPT !.bots = Flags(Loaded.bots), !.trans = Wires(Loaded.bots)]
    /\ acked' = Settled(Loaded.bots, {})
    /\ strayed' = FALSE
    /\ \E p \in Bindable : gate' = [pw |-> disk.set.pw, port |-> p]
    /\ switch' = None
    /\ UNCHANGED <<torn, login, req, queue, ops, faults>>

Next ==
    \/ \E b \in BotIds : DeleteBot(b) \/ DisableBot(b) \/ \E rec \in Records, typed \in BOOLEAN : PutBot(b, rec, typed)
    \/ \E r \in Reqs : \/ \E kind \in Kinds : Ask(r, kind)
                       \/ Asked(r, "settings") /\ \E op \in SettingsOps : UpdateSettings(r, op)
                       \/ Asked(r, "order") /\ \E list \in Lists : UpdateOrder(r, list)
                       \/ Asked(r, "import") /\ \E op \in ImportOps : Import(r, op)
                       \/ Refuse(r) \/ Applied(r) \/ ApplyFails(r)
                       \/ StartSwitch(r) \/ Prepared(r, TRUE) \/ Prepared(r, FALSE)
    \/ SwitchFails \/ Stop \/ Start
    \/ \E pw \in Passwords : Login(pw) \/ SessionEnds(pw)

Spec == Init /\ [][Next]_vars
-----------------------------------------------------------------------------
(* A release switch prepared from saved settings finds the port it probes in *)
(* the settings file until the shell is started again: no other request, and *)
(* no operation on the bots, changes it under the switch.                    *)
SwitchKeepsPort ==
    switch # None /\ switch.saved => disk.set.port = switch.port

(* While the shell runs, its settings, bots, transports and plugin files are *)
(* those on disk, after every operation, every import that failed and every  *)
(* restart, unless a request was refused halfway or a write failed           *)
(* (strayed).  And when no request holds the configuration lock, the WebUI   *)
(* asks for the password in the file, and every session was opened with it.  *)
MemoryIsOnDisk ==
    /\ app = "up" /\ ~strayed =>
          /\ disk = FilesOf(mem)
          /\ queue = <<>> => gate.pw = disk.set.pw
    /\ login \subseteq {gate.pw}

(* No two enabled bots listen on one endpoint, unless a crash or a failed    *)
(* way back left the two files of the bots from different saves.  And a bot  *)
(* keeps the type of transport of its first complete save, or of the import  *)
(* it came with, through updates, failed writes, crashes and restarts.  Two  *)
(* exceptions: an update whose transport names no type may have made it a    *)
(* websocket client, and an import whose way back failed (RollBackFails)     *)
(* holds no bot to its type until it is saved or loaded again.               *)
TransportsFit ==
    app = "up" =>
        /\ ~torn => \A b \in DOMAIN mem.bots : ~Conflict(mem.bots, b)
        /\ \A b \in DOMAIN mem.bots \cap DOMAIN acked : mem.bots[b].tr.type \in acked[b]

(* README.md:661: the type is fixed once the bot is created.  So no          *)
(* operation of a running shell but an import changes it.  The code does, by *)
(* an update whose transport names no type.                                  *)
TypeIsFixed ==
    [][app = "up" /\ app' = "up" /\ mem'.plug = mem.plug =>
         \A b \in DOMAIN mem.bots \cap DOMAIN mem'.bots : mem'.bots[b].tr.type = mem.bots[b].tr.type]_vars

-----------------------------------------------------------------------------
(* The invariant the properties rest on                                      *)

Settings == [pw : Passwords, port : Ports, order : Lists]
PerBot(T) == UNION {[S -> T] : S \in SUBSET BotIds}

TypeOK ==
    /\ app \in {"up", "down"} /\ torn \in BOOLEAN /\ strayed \in BOOLEAN
    /\ mem \in [set : Settings, bots : Tables, plug : Nat]
    /\ disk \in [set : Settings, bots : PerBot(BOOLEAN), trans : PerBot(Transports), plug : Nat]
    /\ acked \in PerBot(SUBSET {"websocket-client", "http-server"})
    /\ gate \in [pw : Passwords, port : Ports] /\ login \subseteq Passwords
    /\ req \in [Reqs -> [pc : {"idle", "asked", "prepare", "apply"}, kind : Kinds \cup {None}]]
    /\ queue \in Seq(Reqs)
    /\ switch = None \/ switch \in [port : Ports, saved : BOOLEAN]
    /\ ops \in Nat /\ faults \in Nat

(* A request past its checks holds the lock and no switch is under way; one  *)
(* that prepares a switch has found the configured port in use.              *)
Locked ==
    /\ app = "down" => req = Quiet /\ queue = <<>> /\ login = {}
    /\ \A r \in Reqs : req[r].pc \in {"apply", "prepare"} =>
          queue # <<>> /\ Head(queue) = r /\ switch = None
    /\ \A r \in Reqs : req[r].pc = "prepare" => mem.set.port = gate.port

(* The settings do not change under a switch.                                *)
PortIsSaved ==
    switch # None /\ switch.saved =>
        disk.set.port = switch.port /\ (app = "up" => disk.set = mem.set)

(* Memory and files agree, and the WebUI asks for the password in memory     *)
(* except while a request still has to hand it over.                         *)
Written ==
    /\ app = "up" /\ ~strayed =>
          /\ disk = FilesOf(mem)
          /\ (\A r \in Reqs : req[r].pc # "apply") => gate.pw = mem.set.pw
    /\ login \subseteq {gate.pw}

NoClash(bots) == \A b \in DOMAIN bots : ~Conflict(bots, b)

(* Memory and the file of the transports hold every saved bot to its types;  *)
(* what would be loaded now has no clash either.                             *)
Fitting ==
    /\ DOMAIN acked \subseteq DOMAIN disk.trans
    /\ \A b \in DOMAIN acked : disk.trans[b].type \in acked[b]
    /\ app = "up" => /\ DOMAIN acked \subseteq DOMAIN mem.bots
                     /\ \A b \in DOMAIN acked : mem.bots[b].tr.type \in acked[b]
    /\ ~torn => NoClash(LoadBots(disk)) /\ (app = "up" => NoClash(mem.bots))

ControlInv == TypeOK /\ Locked /\ PortIsSaved /\ Written /\ Fitting
=============================================================================
