----------------------------- MODULE HotStorage -----------------------------
(***************************************************************************)
(* RuntimeStateEngine and RuntimeStateMutationBatch of                      *)
(* rocketcat_shell/bridge/hot_storage.py: the surrogate ids of the messages *)
(* of one bot, the window of stored messages with its indexes, the private  *)
(* room and the context room the bot answers in, and how all of it comes    *)
(* back from the snapshot and the journal after a crash or a restart.       *)
(*                                                                          *)
(* The tasks that change the state are translations of inbound messages     *)
(* (translator_inbound.translate), which apply their mutations at once and  *)
(* enqueue them when they end, and OneBot actions, which enqueue what they  *)
(* change directly. JournalWriter is the detailed model of the writer       *)
(* thread; here it is a queue, a journal of which a prefix is on disk, and  *)
(* a snapshot, which replaces the old one before the journal is truncated:  *)
(* a kill in between leaves the new snapshot with the old journal.          *)
(***************************************************************************)
EXTENDS Integers, Sequences, FiniteSets, SequencesExt

CONSTANTS
  Msgs,         (* source ids of messages                                    *)
  Quotes,       (* the messages a message quotes, in order                   *)
  Direct,       (* the messages written in direct rooms                      *)
  RoomOf,       (* the room of a message                                     *)
  TimeOf,       (* the timestamp of a message, positive                      *)
  SenderOf,     (* its sender                                                *)
  Tasks,        (* tasks that run translate()                                *)
  Windows,      (* the values message_index_max_entries takes                *)
  QueueMax,     (* _QUEUE_CAPACITY                                           *)
  None,         (* no room bound, no message in hand                         *)
  MaxWork,      (* bound: translations, actions, changes of the window and   *)
                (* rotations in a behaviour                                  *)
  MaxEnds       (* bound: crashes and clean stops in a behaviour             *)

ASSUME HotStorageAssumption ==
  /\ Quotes \in [Msgs -> Seq(Msgs)] /\ Direct \subseteq Msgs
  /\ TimeOf \in [Msgs -> Nat \ {0}]
  /\ Windows \subseteq Nat \ {0} /\ QueueMax \in Nat \ {0}
  /\ None \notin Msgs /\ \A m \in Msgs : RoomOf[m] # None
  /\ {MaxWork, MaxEnds} \subseteq Nat

VARIABLES
  mem,        (* the fields of the engine                                    *)
  task,       (* the translations under way and their batches                *)
  accepted,   (* records accepted by the writer                              *)
  logged,     (* records written to the journal file                         *)
  flushed,    (* how many of them the file holds for certain                 *)
  saved,      (* the state in runtime.snapshot.bin, None: there is no file   *)
  rotation,   (* the rotation under way: its next step, the state captured   *)
              (* and whether it is the last one, of close(); or None         *)
  setting,    (* message_index_max_entries in the configuration              *)
  up,         (* the process runs                                            *)
  settled,    (* ghost: <<surrogate, source>> pairs that reached the disk    *)
  origin,     (* ghost: the state the records of the journal continue        *)
  coherent,   (* ghost: no restart has replayed them over another state that *)
              (* has one of their surrogates for another message             *)
  work, ends  (* counts of MaxWork and MaxEnds                               *)

files == <<logged, flushed, saved, rotation>>
ghosts == <<settled, origin, coherent>>
counts == <<work, ends>>
hotVars == <<mem, task, accepted, files, setting, up, ghosts, counts>>

(* Tasks run until the store is closed.                                     *)
Runs == up /\ (rotation # None => ~rotation.last)

-----------------------------------------------------------------------------
(* The engine: one record of its fields, and what its methods make of it.  *)

Nothing == [x \in {} |-> x]
PutAt(f, k, v) == [x \in DOMAIN f \cup {k} |-> IF x = k THEN v ELSE f[x]]
Drop(f, k) == Restrict(f, DOMAIN f \ {k})
Senders == {SenderOf[m] : m \in Msgs}

Fresh(w) ==
  [window |-> w, counter |-> 0, forward |-> Nothing, reverse |-> Nothing,
   order |-> <<>>, bySource |-> Nothing, bySurrogate |-> Nothing,
   pairs |-> [s \in Senders |-> <<>>], private |-> None,
   context |-> [room |-> None, time |-> 0]]

(* The latest message of a context and sender is the last one of the pair's *)
(* order that is still stored. Messages of direct rooms have no context.    *)
Refreshed(order, stored) ==
  LET live == {i \in DOMAIN order : order[i] \in stored}
  IN  IF live = {} THEN <<>> ELSE SubSeq(order, 1, Max(live))

(* Mutated form: the index by surrogate keeps the removed message.          *)
RemoveFromSourceOnly(st, m) ==
  [st EXCEPT !.bySource = Drop(@, m),
             !.pairs = [p \in Senders |-> RemoveFirst(@[p], m)]]

_remove_message_entry_locked(st, m) ==
  IF m \notin DOMAIN st.bySource THEN st
  ELSE LET left == Drop(st.bySource, m)
           order == RemoveFirst(st.pairs[SenderOf[m]], m)
       IN  [st EXCEPT
              !.bySource = left,
              !.bySurrogate = Drop(@, st.bySource[m].surrogate),
              !.pairs = IF m \in Direct THEN @ ELSE
                          [@ EXCEPT ![SenderOf[m]] = Refreshed(order, DOMAIN left)]]

_index_latest_context_sender_locked(st, m) ==
  IF m \in Direct THEN st
  ELSE [st EXCEPT !.pairs[SenderOf[m]] = Append(RemoveFirst(@, m), m)]

(* put_message, the batch's put_message and the replay of a message_put    *)
PutMessage(st, e) ==
  LET cleared == _remove_message_entry_locked(st, e.source)
  IN  _index_latest_context_sender_locked(
        [cleared EXCEPT !.bySource = PutAt(@, e.source, e),
                        !.bySurrogate = PutAt(@, e.surrogate, e)], e.source)

PutMessages(st, entries) == FoldLeft(PutMessage, st, entries)

(* One turn of the loop of _trim_message_window_locked                     *)
Expire(st, m) ==
  LET unmapped == IF m \notin DOMAIN st.forward THEN st
                  ELSE [st EXCEPT !.reverse = Drop(@, st.forward[m]),
                                  !.forward = Drop(@, m)]
  IN  _remove_message_entry_locked([unmapped EXCEPT !.order = Tail(@)], m)

_trim_message_window_locked(st) ==
  FoldLeft(Expire, st, SubSeq(st.order, 1, Len(st.order) - st.window))

(* _allocate_mapping_locked, with the surrogate the counter gives: an       *)
(* existing mapping stays as it is.                                         *)
MapMessage(st, m, surrogate) ==
  IF m \in DOMAIN st.forward THEN st
  ELSE _trim_message_window_locked(
         [st EXCEPT !.counter = Max({@, surrogate}),
                    !.forward = PutAt(@, m, surrogate),
                    !.reverse = PutAt(@, surrogate, m),
                    !.order = Append(@, m)])

Allocate(st, m) == MapMessage(st, m, st.counter + 1)

(* A binding that carries a timestamp does not replace a newer one; the     *)
(* outbound translator binds without a timestamp, here 0, and always does.  *)
ContextRefused(st, b) == b.time # 0 /\ st.context.time > b.time
BindContext(st, b) == IF ContextRefused(st, b) THEN st ELSE [st EXCEPT !.context = b]
BindPrivate(st, room) == [st EXCEPT !.private = room]

-----------------------------------------------------------------------------
(* Mutations, as journalled, and their replay                              *)

IdPut(m, surrogate) == [op |-> "id_put", source |-> m, surrogate |-> surrogate]
MessagePut(e) == [op |-> "message_put", entry |-> e]
PrivateBind(room) == [op |-> "private_bind", room |-> room]
ContextBind(b) == [op |-> "context_bind", entry |-> b]
MessageRebuild(active) == [op |-> "message_rebuild", active |-> active]

(* Mutated form: the record replaces a mapping that there is already.       *)
ReplaceMapping(st, m, surrogate) ==
  IF m \in DOMAIN st.forward
  THEN [st EXCEPT !.forward = PutAt(@, m, surrogate), !.reverse = PutAt(@, surrogate, m)]
  ELSE MapMessage(st, m, surrogate)

(* The replay of an id_put, with the surrogate of the record. A surrogate   *)
(* that is taken is not looked for.                                         *)
_apply_id_put(st, m, surrogate) == MapMessage(st, m, surrogate)

(* The members of S, the ones with the smaller keys first.                  *)
InOrder(S, key) ==
  CHOOSE s \in [1..Cardinality(S) -> S] :
    /\ \A m \in S : \E i \in DOMAIN s : s[i] = m
    /\ \A i, j \in DOMAIN s : i < j => key[s[i]] <= key[s[j]]

(* The stored messages that still have a mapping are kept, in the order of  *)
(* their surrogates; the mappings themselves are not touched.               *)
_apply_message_rebuild(st, active) ==
  LET kept == InOrder(DOMAIN st.bySource \cap DOMAIN active, active)
      bare == [st EXCEPT !.bySource = Nothing, !.bySurrogate = Nothing,
                         !.pairs = [s \in Senders |-> <<>>]]
  IN  PutMessages(bare, [i \in DOMAIN kept |->
                           [source |-> kept[i], surrogate |-> active[kept[i]]]])

_apply_record(st, mutation) ==
  CASE mutation.op = "id_put" -> _apply_id_put(st, mutation.source, mutation.surrogate)
    [] mutation.op = "message_put" -> PutMessage(st, mutation.entry)
    [] mutation.op = "private_bind" -> BindPrivate(st, mutation.room)
    [] mutation.op = "context_bind" -> BindContext(st, mutation.entry)
    [] mutation.op = "message_rebuild" -> _apply_message_rebuild(st, mutation.active)

_apply_batch(st, mutations) == FoldLeft(_apply_record, st, mutations)

(* What build_runtime_hot_stores finds: the snapshot, which brings its own  *)
(* window size with it, then the records of the journal.                    *)
Replayed(base, records) == FoldLeft(_apply_batch, base, records)

(* A snapshot has no index by surrogate: it is built from the messages. If  *)
(* several have one surrogate, the code takes the last one put, the model   *)
(* any.                                                                     *)
Loaded(st) ==
  LET entries == Range(st.bySource)
  IN  [st EXCEPT !.bySurrogate = [s \in {e.surrogate : e \in entries} |->
                                    CHOOSE e \in entries : e.surrogate = s]]

(* set_message_window_size, then rebuild_message_window                     *)
Resized(st, w) == _trim_message_window_locked([st EXCEPT !.window = w])
ResizeRecords(st, w) ==
  IF Len(st.order) > w THEN <<<<MessageRebuild(Resized(st, w).forward)>>>> ELSE <<>>

-----------------------------------------------------------------------------
IdleTask == [pc |-> "idle", msg |-> None, ids |-> <<>>, batch |-> <<>>]

HotInit ==
  /\ setting \in Windows
  /\ mem = Fresh(setting) /\ saved = None
  /\ task = [t \in Tasks |-> IdleTask]
  /\ accepted = <<>> /\ logged = <<>> /\ flushed = 0 /\ rotation = None
  /\ up = TRUE /\ settled = {} /\ origin = Fresh(setting)
  /\ coherent = TRUE
  /\ work = 0 /\ ends = 0

(* The batch allocates the ids of several messages one after the other; it  *)
(* records those that were new and keeps all of them for the event.         *)
get_or_create_mapping(acc, m) ==
  LET next == Allocate(acc.st, m)
      new == m \notin DOMAIN acc.st.forward
      id == IF new THEN next.counter ELSE next.forward[m]
  IN  [st |-> next, ids |-> Append(acc.ids, id),
       batch |-> IF new THEN Append(acc.batch, IdPut(m, id)) ELSE acc.batch]

AllocateAll(st, batch, msgs) ==
  FoldLeft(get_or_create_mapping, [st |-> st, ids |-> <<>>, batch |-> batch], msgs)

(* translate() up to the lookups it awaits: with several quotes the quoted  *)
(* messages get their ids first, then the message does, and the private or  *)
(* context room is bound. No other task handles the same message.           *)
TranslateBegin(t, m) ==
  /\ Runs /\ work < MaxWork /\ task[t].pc = "idle"
  /\ \A other \in Tasks : task[other].msg # m
  /\ LET quoted == IF Len(Quotes[m]) > 1 THEN Quotes[m] ELSE <<>>
         made == AllocateAll(mem, <<>>, Append(quoted, m))
         bound == [room |-> RoomOf[m], time |-> TimeOf[m]]
         binding == IF m \in Direct THEN <<PrivateBind(RoomOf[m])>>
                    ELSE IF ContextRefused(made.st, bound) THEN <<>>
                    ELSE <<ContextBind(bound)>>
     IN  /\ mem' = IF m \in Direct THEN BindPrivate(made.st, RoomOf[m])
                                   ELSE BindContext(made.st, bound)
         /\ task' = [task EXCEPT ![t] = [pc |-> "translating", msg |-> m,
                       ids |-> made.ids, batch |-> made.batch \o binding]]
  /\ work' = work + 1
  /\ UNCHANGED <<accepted, files, setting, up, ghosts, ends>>

(* The end of translate(): a single quoted message gets its id now, quoted  *)
(* messages that could not be fetched are stored from the quotation, and    *)
(* the message is stored under the id it was given at the beginning.        *)
_persist_translated_event(t) ==
  /\ Runs /\ task[t].pc = "translating"
  /\ LET m == task[t].msg
         several == Len(Quotes[m]) > 1
         made == AllocateAll(mem, task[t].batch, IF several THEN <<>> ELSE Quotes[m])
         own == [source |-> m, surrogate |-> task[t].ids[Len(task[t].ids)]]
         snippet(i) == [source |-> Quotes[m][i], surrogate |-> task[t].ids[i]]
     IN  \E used \in SUBSET (IF several THEN DOMAIN Quotes[m] ELSE {}) :
           LET kept == InOrder(used, [i \in used |-> i])
               entries == Append([i \in DOMAIN kept |-> snippet(kept[i])], own)
           IN  /\ mem' = PutMessages(made.st, entries)
               /\ task' = [task EXCEPT ![t].pc = "ending", ![t].batch =
                    made.batch \o [i \in DOMAIN entries |-> MessagePut(entries[i])]]
  /\ UNCHANGED <<accepted, files, setting, up, ghosts, counts>>

(* translate() raises, is cancelled or finds nothing to deliver: what the   *)
(* batch has applied stays applied, and the finally block commits it.       *)
TranslateFails(t) ==
  /\ Runs /\ task[t].pc = "translating"
  /\ task' = [task EXCEPT ![t].pc = "ending"]
  /\ UNCHANGED <<mem, accepted, files, setting, up, ghosts, counts>>

(* commit(), which waits while the queue is full                            *)
commit(t) ==
  /\ Runs /\ task[t].pc = "ending"
  /\ task[t].batch # <<>> => Len(accepted) < QueueMax
  /\ accepted' = IF task[t].batch = <<>> THEN accepted ELSE Append(accepted, task[t].batch)
  /\ task' = [task EXCEPT ![t] = IdleTask]
  /\ UNCHANGED <<mem, files, setting, up, ghosts, counts>>

(* _record: the caller waits for room in the queue and gives up after 15 s, *)
(* when the engine has changed already.                                     *)
Accept(mutations) ==
  \/ Len(accepted) < QueueMax /\ accepted' = Append(accepted, mutations)
  \/ Len(accepted) = QueueMax /\ accepted' = accepted

(* DurableIdMap.get_or_create by a OneBot action that has sent a message    *)
allocate_mapping(m) ==
  /\ Runs /\ work < MaxWork /\ m \notin DOMAIN mem.forward
  /\ mem' = Allocate(mem, m)
  /\ Accept(<<IdPut(m, mem.counter + 1)>>)
  /\ work' = work + 1
  /\ UNCHANGED <<task, files, setting, up, ghosts, ends>>

(* The outbound translator binds the context to the room it answers in.     *)
bind_context_room(room) ==
  /\ Runs /\ work < MaxWork /\ mem.context.room # None
  /\ LET bound == [room |-> room, time |-> 0]
     IN  mem' = BindContext(mem, bound) /\ Accept(<<ContextBind(bound)>>)
  /\ work' = work + 1
  /\ UNCHANGED <<task, files, setting, up, ghosts, ends>>

(* Saving message_index_max_entries sets the size and tidies the window.    *)
rebuild_message_indexes(w) ==
  /\ Runs /\ work < MaxWork /\ w # setting
  /\ setting' = w /\ mem' = Resized(mem, w)
  /\ IF ResizeRecords(mem, w) = <<>> THEN accepted' = accepted
                                     ELSE Accept(ResizeRecords(mem, w)[1])
  /\ work' = work + 1
  /\ UNCHANGED <<task, files, up, ghosts, ends>>

-----------------------------------------------------------------------------
(* The writer thread and the files                                         *)

MappedIn(batch) ==
  {<<batch[i].surrogate, batch[i].source>> : i \in {j \in DOMAIN batch : batch[j].op = "id_put"}}
MappedBy(records) == UNION {MappedIn(records[i]) : i \in DOMAIN records}

Given(st) == {<<s, st.reverse[s]>> : s \in DOMAIN st.reverse}
Functional(given) == \A p, q \in given : p[1] = q[1] => p[2] = q[2]

WriteRecord ==
  /\ up /\ rotation = None /\ accepted # <<>>
  /\ logged' = Append(logged, Head(accepted)) /\ accepted' = Tail(accepted)
  /\ UNCHANGED <<mem, task, flushed, saved, rotation, setting, up, ghosts, counts>>

FlushJournal ==
  /\ up /\ rotation = None /\ flushed < Len(logged)
  /\ flushed' = Len(logged) /\ settled' = settled \cup MappedBy(logged)
  /\ UNCHANGED <<mem, task, accepted, logged, saved, rotation, setting, up,
                 origin, coherent, counts>>

(* The state is copied as it is, whatever is still queued or in an open     *)
(* batch: those records follow in the new journal.                          *)
CaptureState(last) ==
  /\ up /\ rotation = None
  /\ rotation' = [step |-> "replace", capture |-> mem, last |-> last]
  /\ UNCHANGED <<mem, task, accepted, logged, flushed, saved, setting, up, ghosts, ends>>

_write_snapshot_and_rotate ==
  /\ work < MaxWork /\ work' = work + 1
  /\ logged # <<>> /\ CaptureState(FALSE)

(* stop(): the translations have ended, and the writer has drained its      *)
(* queue and flushes before it leaves a snapshot.                           *)
close ==
  /\ ends < MaxEnds /\ accepted = <<>> /\ flushed = Len(logged)
  /\ \A t \in Tasks : task[t].pc = "idle"
  /\ CaptureState(TRUE) /\ UNCHANGED work

Rotates(step) == rotation # None /\ rotation.step = step

(* The rotation goes on: the new file replaces the old snapshot, closing    *)
(* the journal flushes it, and only then it is truncated.                   *)
InstallSnapshot ==
  /\ Rotates("replace") /\ rotation' = [rotation EXCEPT !.step = "close"]
  /\ saved' = rotation.capture /\ settled' = settled \cup Given(rotation.capture)
  /\ UNCHANGED <<mem, task, accepted, logged, flushed, setting, up, origin, coherent, counts>>

CloseHandle ==
  /\ Rotates("close") /\ rotation' = [rotation EXCEPT !.step = "truncate"]
  /\ flushed' = Len(logged) /\ settled' = settled \cup MappedBy(logged)
  /\ UNCHANGED <<mem, task, accepted, logged, saved, setting, up, origin, coherent, counts>>

ProcessEnds ==
  /\ mem' = Fresh(setting) /\ accepted' = <<>>
  /\ task' = [t \in Tasks |-> IdleTask] /\ up' = FALSE
  /\ ends' = ends + 1

TruncateJournal ==
  /\ Rotates("truncate") /\ rotation' = None
  /\ logged' = <<>> /\ flushed' = 0 /\ origin' = Loaded(rotation.capture)
  /\ IF rotation.last THEN ProcessEnds ELSE UNCHANGED <<mem, task, accepted, up, ends>>
  /\ UNCHANGED <<saved, setting, settled, coherent, work>>

(* The process dies, between any two steps of a rotation too: any part of   *)
(* the journal beyond the flushed prefix may have reached the file.         *)
ProcessDies ==
  /\ up /\ ends < MaxEnds /\ rotation' = None
  /\ \E n \in flushed..Len(logged) :
       /\ logged' = SubSeq(logged, 1, n) /\ flushed' = n
       /\ settled' = settled \cup MappedBy(SubSeq(logged, 1, n))
  /\ ProcessEnds
  /\ UNCHANGED <<saved, setting, origin, coherent, work>>

(* A snapshot that cannot be decoded, or has another version, is passed     *)
(* over with a warning: the journal is then replayed on an empty state.     *)
load_snapshot_payload ==
  {Fresh(setting)} \cup (IF saved = None THEN {} ELSE {Loaded(saved)})

(* Whenever the process comes back it reads the files, then brings the      *)
(* window to the configured size.                                           *)
build_runtime_hot_stores ==
  /\ ~up
  /\ \E base \in load_snapshot_payload :
       LET replayed == Replayed(base, logged)
       IN  /\ mem' = Resized(replayed, setting)
           /\ accepted' = ResizeRecords(replayed, setting)
           /\ origin' = base
           /\ coherent' = (coherent /\ (\/ base = origin
                                        \/ Functional(Given(base) \cup MappedBy(logged))))
  /\ up' = TRUE
  /\ UNCHANGED <<task, files, setting, settled, counts>>

HotNext ==
  \/ \E t \in Tasks :
       \/ \E m \in Msgs : TranslateBegin(t, m)
       \/ _persist_translated_event(t) \/ TranslateFails(t) \/ commit(t)
  \/ \E m \in Msgs : allocate_mapping(m)
  \/ \E room \in {RoomOf[m] : m \in Msgs} : bind_context_room(room)
  \/ \E w \in Windows : rebuild_message_indexes(w)
  \/ WriteRecord \/ FlushJournal \/ _write_snapshot_and_rotate \/ close
  \/ InstallSnapshot \/ CloseHandle \/ TruncateJournal
  \/ ProcessDies \/ build_runtime_hot_stores

HotSpec == HotInit /\ [][HotNext]_hotVars

-----------------------------------------------------------------------------
(* Properties                                                               *)

(* The forward and the reverse map of the message ids are each other's      *)
(* inverse, the window's order lists every mapped message once and no       *)
(* other, the window is never larger than its size, and the counter is not  *)
(* behind any id in use: in the running engine and after every recovery.    *)
IdMapAlwaysAgrees ==
  up => /\ DOMAIN mem.reverse = {mem.forward[m] : m \in DOMAIN mem.forward}
        /\ \A m \in DOMAIN mem.forward : mem.reverse[mem.forward[m]] = m
        /\ ToSet(mem.order) = DOMAIN mem.forward
        /\ Len(mem.order) = Cardinality(DOMAIN mem.forward)
        /\ Len(mem.order) <= mem.window
        /\ \A s \in DOMAIN mem.reverse : s <= mem.counter

(* This holds unless a restart has replayed a journal over another state    *)
(* than the one it continues, and the two had one surrogate for two         *)
(* messages: _apply_id_put then maps both to it. The other state may be an  *)
(* empty one (the snapshot was passed over, or there was none and the size  *)
(* of the window had changed) or a newer one: a kill between                *)
(* tmp_path.replace and the truncation leaves the new snapshot with the old *)
(* journal. Over another state that agrees with the journal about the       *)
(* messages of the surrogates, every replay is covered.                     *)
IdMapAgrees == coherent => IdMapAlwaysAgrees

(* An id that has reached the disk never becomes the id of another message, *)
(* whatever is lost in crashes: replaying restores a counter that is past   *)
(* every id the files mention.                                              *)
SettledIdsKeepTheirMessage ==
  up => \A p \in settled : p[1] \in DOMAIN mem.reverse => mem.reverse[p[1]] = p[2]

(* The stored message that get_msg finds under a surrogate is the one found *)
(* under its source, and the latest message of a context and sender is      *)
(* still stored.                                                            *)
MessageIndexesAgree ==
  up => /\ \A s \in DOMAIN mem.bySurrogate :
             /\ mem.bySurrogate[s].surrogate = s
             /\ mem.bySurrogate[s].source \in DOMAIN mem.bySource
             /\ mem.bySource[mem.bySurrogate[s].source] = mem.bySurrogate[s]
        /\ \A p \in Senders : ToSet(mem.pairs[p]) \subseteq DOMAIN mem.bySource

-----------------------------------------------------------------------------
(* The inductive invariant (JournalWriter_proofs).                          *)

Surrogates == Nat \ {0}
Rooms == {RoomOf[m] : m \in Msgs}
Entries == [source : Msgs, surrogate : Surrogates]
IsMutation(x) ==
  \/ x.op = "id_put" /\ x.source \in Msgs /\ x.surrogate \in Surrogates
  \/ x.op = "message_put" /\ x.entry \in Entries
  \/ x.op \in {"private_bind", "context_bind"}
  \/ /\ x.op = "message_rebuild"
     /\ \A m \in DOMAIN x.active : x.active[m] \in Surrogates

(* A sequence of mutations, all of them well-formed.                        *)
IsBatch(batch) ==
  /\ batch = [i \in 1..Len(batch) |-> batch[i]] /\ Len(batch) \in Nat
  /\ \A i \in 1..Len(batch) : IsMutation(batch[i])
AreBatches(records) ==
  /\ records = [i \in 1..Len(records) |-> records[i]] /\ Len(records) \in Nat
  /\ \A i \in 1..Len(records) : IsBatch(records[i])

Fields ==
  {"window", "counter", "forward", "reverse", "order", "bySource", "bySurrogate",
   "pairs", "private", "context"}

Engine(st) ==
  /\ st = [field \in Fields |-> st[field]]
  /\ st.window \in Surrogates /\ st.counter \in Nat /\ st.order \in Seq(Msgs)
  /\ DOMAIN st.forward \subseteq Msgs /\ st.forward \in [DOMAIN st.forward -> Surrogates]
  /\ DOMAIN st.reverse \subseteq Surrogates /\ st.reverse \in [DOMAIN st.reverse -> Msgs]
  /\ st.pairs \in [Senders -> Seq(Msgs)]

(* The indexes of the stored messages, whatever the mappings are.           *)
Indexed(st) ==
  /\ DOMAIN st.bySource \subseteq Msgs /\ IsFiniteSet(DOMAIN st.bySource)
  /\ \A m \in DOMAIN st.bySource : st.bySource[m] \in Entries /\ st.bySource[m].source = m
  /\ \A s \in DOMAIN st.bySurrogate :
       LET e == st.bySurrogate[s]
       IN  e.surrogate = s /\ e.source \in DOMAIN st.bySource /\ st.bySource[e.source] = e
  /\ \A p \in Senders : \A i \in DOMAIN st.pairs[p] :
       /\ st.pairs[p][i] \in DOMAIN st.bySource \ Direct /\ SenderOf[st.pairs[p][i]] = p
       /\ \A j \in DOMAIN st.pairs[p] : st.pairs[p][i] = st.pairs[p][j] => i = j

(* The maps of the message ids, whatever the size of the window.            *)
Mapped(st) ==
  /\ \A m \in DOMAIN st.forward :
       st.forward[m] \in DOMAIN st.reverse /\ st.reverse[st.forward[m]] = m
  /\ \A s \in DOMAIN st.reverse :
       /\ st.reverse[s] \in DOMAIN st.forward /\ st.forward[st.reverse[s]] = s
       /\ s <= st.counter
  /\ \A i \in DOMAIN st.order :
       /\ st.order[i] \in DOMAIN st.forward
       /\ \A j \in DOMAIN st.order : st.order[i] = st.order[j] => i = j
  /\ \A m \in DOMAIN st.forward : \E i \in DOMAIN st.order : st.order[i] = m

Windowed(st) == Mapped(st) /\ Len(st.order) <= st.window

(* A state contradicts none of the surrogates given.                        *)
Fits(st, given) ==
  \A p \in given : p[1] \in DOMAIN st.reverse => st.reverse[p[1]] = p[2]
Pending == MappedBy(accepted) \cup UNION {MappedIn(task[t].batch) : t \in Tasks}

(* A task between the steps of a translation.                               *)
Translation(tk) ==
  /\ tk = [field \in {"pc", "msg", "ids", "batch"} |-> tk[field]]
  /\ tk.pc \in {"idle", "translating", "ending"} /\ IsBatch(tk.batch)
  /\ tk.pc = "translating" =>
       LET quoted == Len(Quotes[tk.msg])
       IN  /\ tk.msg \in Msgs /\ tk.ids \in Seq(Surrogates)
           /\ Len(tk.ids) = IF quoted > 1 THEN quoted + 1 ELSE 1

Stored ==
  /\ Engine(mem) /\ Indexed(mem)
  /\ Engine(origin) /\ Indexed(origin)
  /\ saved # None => Engine(saved) /\ Indexed(saved)
  /\ rotation # None => /\ up /\ Engine(rotation.capture) /\ Indexed(rotation.capture)
                        /\ rotation = [f \in {"step", "capture", "last"} |-> rotation[f]]
  /\ AreBatches(accepted) /\ AreBatches(logged)
  /\ flushed \in 0..Len(logged) /\ setting \in Windows
  /\ up \in BOOLEAN /\ coherent \in BOOLEAN
  /\ DOMAIN task = Tasks
  /\ \A t \in Tasks : Translation(task[t]) /\ (~up => task[t] = IdleTask)

(* What the first n records of the journal give.                            *)
After(n) == Replayed(origin, SubSeq(logged, 1, n))

(* A state that the records still to come may be replayed over.             *)
Behind(st) == st.counter <= mem.counter /\ Fits(st, Pending)

(* Every prefix of the journal gives maps that agree, and so does it with   *)
(* any of the records that are still to come, which will follow the journal *)
(* as it is or, after a rotation, the state captured; the surrogates in     *)
(* these were given by the counter, each to one message.                    *)
Replayable ==
  coherent =>
    /\ \A n \in 0..Len(logged) : Windowed(After(n))
    /\ saved # None => Windowed(saved)
    /\ up => /\ Windowed(mem) /\ Functional(Pending) /\ Fits(mem, Pending)
             /\ \A p \in Pending : p[1] <= mem.counter
             /\ Behind(After(Len(logged)))
             /\ rotation # None => Windowed(rotation.capture) /\ Behind(rotation.capture)

HotInv == Stored /\ Replayable
=============================================================================
