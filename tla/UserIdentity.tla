---------------------------- MODULE UserIdentity ----------------------------
(***************************************************************************)
(* UserIdentityRegistry of rocketcat_shell/bridge/user_identity.py: the     *)
(* one-to-one table of Rocket.Chat users and OneBot ids that the bots of a  *)
(* server share, its SQLite database, its caches, and the calls on it by    *)
(* the bots and by the WebUI.                                               *)
(*                                                                          *)
(* A call looks at the caches in the event loop, joins a call in flight for *)
(* the same thing or queues a job for the single thread of the executor,    *)
(* and goes on when the loop is told that the job is done: at once when it  *)
(* waits for the job itself, two rounds of callbacks later when it waits    *)
(* for a flight. The thread commits its transaction, gives up the lock and  *)
(* then updates the caches.                                                 *)
(***************************************************************************)
EXTENDS Integers, Sequences, FiniteSets, SequencesExt

CONSTANTS
  Users, Bots,
  Callers,     (* tasks of the event loop                                    *)
  Size,        (* USER_ID_TABLE_SIZE                                         *)
  Primary,     (* the slot the hash of a user gives                          *)
  Profiles,    (* what is known of a user: names and flags                   *)
  CacheMax,    (* cache_max_entries                                          *)
  None,        (* no mapping, no profile given                               *)
  Error,       (* the answer of a call that raises                           *)
  MaxCalls     (* bound: calls in a behaviour                                *)

Slots == 0 .. Size - 1

ASSUME IdentityAssumption ==
  /\ Size \in Nat \ {0} /\ Primary \in [Users -> Slots] /\ CacheMax \in Nat \ {0}
  /\ None \notin Users /\ None \notin Profiles /\ None # Error /\ Error \notin Users
  /\ IsFiniteSet(Callers)

VARIABLES
  store,    (* the database: user_mappings, bot_users, active conflicts      *)
  draft,    (* what the transaction of a batch has made of it so far         *)
  byUser,   (* the cached mappings                                           *)
  byId,     (* the cached users of OneBot ids                                *)
  seen,     (* bot_user_seen                                                 *)
  queue,    (* the jobs of the executor: their callers                       *)
  thread,   (* what the running job has still to do, or Idle                 *)
  loop,     (* callbacks of the event loop that are due, in their order      *)
  inflight, (* the callers whose flights can be joined                       *)
  call,     (* what a caller asked for                                       *)
  pc,       (* where it is                                                   *)
  joined,   (* the caller whose job or flight it waits for                   *)
  value,    (* the id an ensure was given before it touches its bot          *)
  valid,    (* history: what was so since it called                          *)
  excused,  (* history: what it may be told besides, see ToldIsCurrent       *)
  told,     (* history: the calls that returned in the last step             *)
  past,     (* history: the tables replaced since nothing was under way,   *)
            (* see PastBy                                                  *)
  calls     (* how many calls there were                                     *)

caches == <<byUser, byId, seen>>
tasks == <<call, pc, joined, value>>
history == <<valid, excused, past>>
identityVars == <<store, draft, caches, queue, thread, loop, inflight, tasks, history, told, calls>>

Idle == [todo |-> "idle", users |-> {}]
NoCall == [op |-> "none", bot |-> None, users |-> {}, arg |-> None, rev |-> 0]

IdentityInit ==
  /\ store = [rows |-> <<>>, members |-> {}, conflicts |-> {}] /\ draft = store
  /\ byUser = <<>> /\ byId = <<>> /\ seen = {}
  /\ queue = <<>> /\ thread = Idle /\ loop = <<>> /\ inflight = {}
  /\ call = [c \in Callers |-> NoCall] /\ pc = [c \in Callers |-> "idle"]
  /\ joined = [c \in Callers |-> c] /\ value = [c \in Callers |-> None]
  /\ valid = [c \in Callers |-> {}] /\ excused = [c \in Callers |-> {}] /\ told = {} /\ past = {} /\ calls = 0

-----------------------------------------------------------------------------
(* The table                                                                *)

Mapped(s) == DOMAIN s.rows
Owners(s, id) == {u \in Mapped(s) : s.rows[u].id = id}
Put(f, k, v) == [x \in DOMAIN f \cup {k} |-> IF x = k THEN v ELSE f[x]]
Drop(f, ks) == Restrict(f, DOMAIN f \ ks)

Slot(u, offset) == (Primary[u] + offset) % Size
FreeOffsets(s, u) == {k \in Slots : Owners(s, Slot(u, k)) = {}}

(* The first free slot after the primary one; whoever holds the primary     *)
(* slot is recorded as the incumbent of a conflict.                         *)
InsertRow(s, u, n) ==
  LET k == Min(FreeOffsets(s, u))
      row == [id |-> Slot(u, k), profile |-> n, rev |-> 1]
      conflict == [inc |-> CHOOSE v \in Owners(s, Primary[u]) : TRUE, dis |-> u, id |-> row.id]
  IN [s EXCEPT !.rows = Put(s.rows, u, row),
               !.conflicts = @ \cup (IF k = 0 THEN {} ELSE {conflict})]

UpdateRow(s, u, n) ==
  IF n \in {None, s.rows[u].profile} THEN s
  ELSE [s EXCEPT !.rows[u].profile = n, !.rows[u].rev = @ + 1]

EnsureRow(s, b, u, n) ==
  LET t == IF u \in Mapped(s) THEN UpdateRow(s, u, n) ELSE InsertRow(s, u, n)
  IN [t EXCEPT !.members = @ \cup {<<b, u>>}]

-----------------------------------------------------------------------------
(* The caches                                                               *)

(* Mutated form: the id a user had before stays in the cache.               *)
CacheKeepsOldId(mappings) ==
  /\ byUser' = [u \in DOMAIN byUser \cup DOMAIN mappings |->
                  IF u \in DOMAIN mappings THEN mappings[u] ELSE byUser[u]]
  /\ byId' = [id \in DOMAIN byId \cup {mappings[u].id : u \in DOMAIN mappings} |->
                IF \E u \in DOMAIN mappings : mappings[u].id = id
                THEN CHOOSE u \in DOMAIN mappings : mappings[u].id = id ELSE byId[id]]

(* _cache for each mapping, and the eviction of the oldest entries: which   *)
(* ones those are depends on who was touched last.                          *)
_cache(mappings) ==
  LET new == [u \in DOMAIN byUser \cup DOMAIN mappings |->
                IF u \in DOMAIN mappings THEN mappings[u] ELSE byUser[u]]
      kept == {k \in SUBSET DOMAIN new :
                 Cardinality(k) = IF Cardinality(DOMAIN new) > CacheMax THEN CacheMax
                                  ELSE Cardinality(DOMAIN new)}
  IN \E k \in kept :
       /\ Cardinality(DOMAIN mappings) <= CacheMax => DOMAIN mappings \subseteq k
       /\ byUser' = Restrict(new, k)
       /\ byId' = [id \in {new[u].id : u \in k} |-> CHOOSE u \in k : new[u].id = id]

(* Mutated form: the users of ids stay in the cache.                        *)
InvalidateUserOnly(u) == byUser' = Drop(byUser, {u}) /\ UNCHANGED byId

invalidate_cache(u) ==
  /\ byUser' = Drop(byUser, {u})
  /\ byId' = IF u \in DOMAIN byUser THEN Drop(byId, {byUser[u].id}) ELSE byId

CacheMatches(u, n) == u \in DOMAIN byUser /\ n \in {None, byUser[u].profile}

-----------------------------------------------------------------------------
(* Calls, in the event loop                                                 *)

(* What the caller of an operation is told when the table is s              *)
Value(s, what) ==
  LET u == CHOOSE v \in what.users : TRUE
  IN CASE what.op = "find" -> IF Owners(s, what.arg) = {} THEN None
                              ELSE CHOOSE v \in Owners(s, what.arg) : TRUE
       [] what.op \in {"ensure", "get"} -> IF u \in Mapped(s) THEN s.rows[u].id ELSE None
       [] OTHER -> None

Values(what) == {Value(s, what) : s \in past \cup {store}}

Answer(what, v, may, besides) == [call |-> what, value |-> v, valid |-> may, excused |-> besides]

Begin(c) ==
  /\ pc[c] = "idle" /\ calls < MaxCalls /\ calls' = calls + 1
  /\ UNCHANGED <<store, draft, caches, thread, loop, past>>

(* A call that needs no job, or no other one, returns at once.               *)
Tell(what, v, besides) ==
  /\ told' = {Answer(what, v, Values(what), besides)}
  /\ UNCHANGED <<queue, inflight, tasks, valid, excused>>

Hit(what, v) == Tell(what, v, {})

Asks(c, what, besides) ==
  /\ call' = [call EXCEPT ![c] = what] /\ valid' = [valid EXCEPT ![c] = Values(what)]
  /\ excused' = [excused EXCEPT ![c] = besides] /\ told' = {}

Wait(c, what, leader, besides) ==
  /\ Asks(c, what, besides) /\ UNCHANGED value
  /\ pc' = [pc EXCEPT ![c] = "waiting"] /\ joined' = [joined EXCEPT ![c] = leader]

(* _run_database                                                            *)
Submit(c, what) == queue' = Append(queue, c) /\ Wait(c, what, c, {}) /\ UNCHANGED inflight

(* What is left to do when the mapping of a user is known: an ensure goes   *)
(* on until its bot is known to have the user.                              *)
Completes(what, v) ==
  v = Error \/ what.op # "ensure" \/ \A u \in what.users : <<what.bot, u>> \in seen

Touches(c, v) ==
  /\ pc' = [pc EXCEPT ![c] = "touching"] /\ joined' = [joined EXCEPT ![c] = c]
  /\ value' = [value EXCEPT ![c] = v] /\ queue' = Append(queue, c)

(* A call for the same thing is in flight until the callback of its task    *)
(* has removed it; the bot is not part of the key.                          *)
SameKey(one, other) == [one EXCEPT !.bot = None] = [other EXCEPT !.bot = None]

Flights(what) == {d \in inflight : SameKey(call[d], what)}

(* The task of the flight is completed, and its callback is due.            *)
Landed(d) == {k \in DOMAIN loop : loop[k].kind = "cleanup" /\ loop[k].caller = d}

Join(c, what, d) ==
  IF Landed(d) = {} THEN Wait(c, what, d, excused[d]) /\ UNCHANGED <<queue, inflight>>
  ELSE LET v == loop[CHOOSE k \in Landed(d) : TRUE].value
           besides == excused[d] \cup valid[d]
       IN IF Completes(what, v) THEN Tell(what, v, besides)
          ELSE Asks(c, what, besides) /\ Touches(c, v) /\ UNCHANGED inflight

_run_singleflight(c, what) ==
  \/ /\ Flights(what) = {} /\ inflight' = inflight \cup {c}
     /\ queue' = Append(queue, c) /\ Wait(c, what, c, {})
  \/ \E d \in Flights(what) : Join(c, what, d)

ensure_mapping(c, b, u, n) ==
  LET what == [op |-> "ensure", bot |-> b, users |-> {u}, arg |-> n, rev |-> 0]
  IN /\ Begin(c)
     /\ IF CacheMatches(u, n) /\ <<b, u>> \in seen THEN Hit(what, byUser[u].id)
        ELSE _run_singleflight(c, what)

(* Mappings for all users of a room, in one transaction and without profile *)
ensure_mappings(c, b) ==
  LET what == [op |-> "batch", bot |-> b, users |-> Users, arg |-> None, rev |-> 0]
  IN /\ Begin(c)
     /\ IF \A u \in Users : CacheMatches(u, None) /\ <<b, u>> \in seen THEN Hit(what, None)
        ELSE Submit(c, what)

get_by_user_id(c, u) ==
  LET what == [op |-> "get", bot |-> None, users |-> {u}, arg |-> None, rev |-> 0]
  IN /\ Begin(c)
     /\ IF u \in DOMAIN byUser THEN Hit(what, byUser[u].id) ELSE _run_singleflight(c, what)

get_by_onebot_id(c, id) ==
  LET what == [op |-> "find", bot |-> None, users |-> Users, arg |-> id, rev |-> 0]
  IN /\ Begin(c)
     /\ IF id \in DOMAIN byId /\ byId[id] \in DOMAIN byUser THEN Hit(what, byId[id])
        ELSE _run_singleflight(c, what)

(* The rows of the users a bot knows                                        *)
list_mappings(b) == {u \in Mapped(store) : <<b, u>> \in store.members}

(* The WebUI sends the revision of the row it listed.                       *)
AdminCall(op, c, b, u, arg) ==
  /\ u \in list_mappings(b) /\ Begin(c)
  /\ Submit(c, [op |-> op, bot |-> b, users |-> {u}, arg |-> arg, rev |-> store.rows[u].rev])

override_onebot_id(c, b, u, id) == AdminCall("override", c, b, u, id)
delete_mapping(c, b, u) == AdminCall("delete", c, b, u, None)

-----------------------------------------------------------------------------
(* The thread of the executor                                               *)

(* COMMIT: the new table, and in "thread" what the job does without lock    *)
Commit(new, todo) ==
  /\ store' = new /\ draft' = new /\ thread' = todo
  /\ past' = IF new.rows = store.rows THEN past ELSE past \cup {store}
  /\ valid' = [c \in Callers |-> valid[c] \cup (IF pc[c] = "idle" THEN {} ELSE {Value(new, call[c])})]

(* A change is made when the caches have it too, and the results of flights  *)
(* that may be older have been heard of.                                    *)
PastBy(l) == IF \A k \in DOMAIN l : l[k].kind # "task" THEN {} ELSE past

NoChange(todo) == thread' = todo /\ draft' = store /\ UNCHANGED <<store, past, valid>>

JobRaises == NoChange([todo |-> "raise", users |-> {}])

EnsureJob(what) ==
  LET u == CHOOSE v \in what.users : TRUE IN
  IF CacheMatches(u, what.arg)
  THEN Commit([store EXCEPT !.members =
                 @ \cup (IF <<what.bot, u>> \in seen THEN {} ELSE {<<what.bot, u>>})],
              [todo |-> "cache", users |-> {}])
  ELSE IF u \notin Mapped(store) /\ FreeOffsets(store, u) = {} THEN JobRaises
  ELSE Commit(EnsureRow(store, what.bot, u, what.arg), [todo |-> "cache", users |-> {u}])

BatchJob(what) == NoChange([todo |-> "batch", users |-> what.users])

(* A lookup that finds nothing caches nothing, and one that finds its       *)
(* answer in the cache neither. The user of an id is read first and the     *)
(* mapping of this user afterwards, in FinishJob, without the lock.         *)
LookupJob(what) ==
  IF what.op = "find" /\ what.arg \in DOMAIN byId
  THEN NoChange([todo |-> "read", users |-> {byId[what.arg]}])
  ELSE NoChange([todo |-> "cache",
                 users |-> IF what.op = "find" THEN Owners(store, what.arg)
                           ELSE (what.users \cap Mapped(store)) \ DOMAIN byUser])

Listed(what, u) ==
  <<what.bot, u>> \in store.members /\ store.rows[u].rev = what.rev

(* The conflicts that displaced the user are resolved; the users who have   *)
(* the id as their primary one become incumbents of new ones.               *)
Overridden(s, u, id) ==
  [s EXCEPT !.rows[u].id = id, !.rows[u].rev = @ + 1,
            !.conflicts = {k \in @ : k.dis # u} \cup
               {[inc |-> v, dis |-> u, id |-> id] : v \in {w \in Mapped(s) \ {u} : Primary[w] = id}}]

OverrideJob(what) ==
  LET u == CHOOSE v \in what.users : TRUE IN
  IF ~Listed(what, u) \/ Owners(store, what.arg) \ {u} # {} THEN JobRaises
  ELSE Commit(Overridden(store, u, what.arg), [todo |-> "override", users |-> {u}])

(* Mutated form: only the conflicts that displaced the user are resolved.   *)
DeleteLeavesConflicts(what) ==
  LET u == CHOOSE v \in what.users : TRUE IN
  IF ~Listed(what, u) THEN JobRaises
  ELSE Commit([rows |-> Drop(store.rows, {u}),
               members |-> {m \in store.members : m[2] # u},
               conflicts |-> {k \in store.conflicts : k.dis # u}],
              [todo |-> "delete", users |-> {u}])

(* The rows of bot_users go with the mapping (ON DELETE CASCADE).           *)
DeleteJob(what) ==
  LET u == CHOOSE v \in what.users : TRUE IN
  IF ~Listed(what, u) THEN JobRaises
  ELSE Commit([rows |-> Drop(store.rows, {u}),
               members |-> {m \in store.members : m[2] # u},
               conflicts |-> {k \in store.conflicts : u \notin {k.inc, k.dis}}],
              [todo |-> "delete", users |-> {u}])

(* The foreign key refuses a member without a mapping.                      *)
TouchJob(what) ==
  LET u == CHOOSE v \in what.users : TRUE IN
  IF u \notin Mapped(store) THEN JobRaises
  ELSE Commit([store EXCEPT !.members = @ \cup {<<what.bot, u>>}],
              [todo |-> "cache", users |-> {}])

RunJob ==
  /\ queue # <<>> /\ thread = Idle
  /\ LET c == Head(queue) IN
       IF pc[c] = "touching" THEN TouchJob(call[c])
       ELSE CASE call[c].op = "ensure"   -> EnsureJob(call[c])
              [] call[c].op = "batch"    -> BatchJob(call[c])
              [] call[c].op = "override" -> OverrideJob(call[c])
              [] call[c].op = "delete"   -> DeleteJob(call[c])
              [] OTHER                   -> LookupJob(call[c])
  /\ told' = {} /\ UNCHANGED <<caches, queue, loop, inflight, tasks, excused, calls>>

(* The users of a batch are inserted one by one, in any order; the table    *)
(* being full rolls the whole transaction back.                             *)
InsertNext ==
  /\ thread.todo = "batch"
  /\ \E u \in thread.users :
       IF u \notin Mapped(draft) /\ FreeOffsets(draft, u) = {} THEN JobRaises
       ELSE /\ draft' = EnsureRow(draft, call[Head(queue)].bot, u, None)
            /\ thread' = [thread EXCEPT !.users = @ \ {u}]
            /\ UNCHANGED <<store, past, valid>>
  /\ told' = {} /\ UNCHANGED <<caches, queue, loop, inflight, tasks, excused, calls>>

CommitBatch ==
  /\ thread = [todo |-> "batch", users |-> {}]
  /\ Commit(draft, [todo |-> "cache", users |-> call[Head(queue)].users])
  /\ told' = {} /\ UNCHANGED <<caches, queue, loop, inflight, tasks, excused, calls>>

Remembers(what, c) ==
  IF pc[c] = "touching" \/ what.op \in {"ensure", "batch", "override"}
  THEN {<<what.bot, u>> : u \in what.users} ELSE {}

(* What the second half of a job returns                                    *)
Result(what) ==
  CASE thread.todo = "raise" -> Error
    [] thread.todo = "read"  -> IF thread.users \subseteq DOMAIN byUser
                                THEN CHOOSE u \in thread.users : TRUE ELSE None
    [] OTHER -> Value(store, what)

(* The loop hears of it: who waits for a flight waits for its task.         *)
FinishJob ==
  /\ thread.todo \notin {"idle", "batch"}
  /\ LET c == Head(queue)
         what == call[c]
     IN /\ CASE thread.todo \in {"cache", "override"} ->
                  /\ _cache(Restrict(store.rows, thread.users))
                  /\ seen' = seen \cup Remembers(what, c)
             [] thread.todo = "delete" ->
                  /\ invalidate_cache(CHOOSE u \in thread.users : TRUE)
                  /\ seen' = {m \in seen : m[2] \notin thread.users}
             [] OTHER -> UNCHANGED caches
        /\ loop' = Append(loop, [kind |-> IF c \in inflight THEN "task" ELSE "wake",
                                 caller |-> c, value |-> Result(what)])
  /\ queue' = Tail(queue) /\ thread' = Idle /\ past' = PastBy(loop')
  /\ told' = {} /\ UNCHANGED <<store, draft, inflight, tasks, valid, excused, calls>>

-----------------------------------------------------------------------------
(* A job is done. The one caller of a job resumes; the task of a flight     *)
(* completes, which makes its callbacks due, the removal of the flight      *)
(* before those that make the callers due.                                  *)

Resumed(c) == {d \in Callers : pc[d] \in {"waiting", "touching"} /\ joined[d] = c}

(* The loop runs the callback that is due and appends those it makes due.   *)
Hear(kind, due) ==
  /\ loop # <<>> /\ Head(loop).kind = kind /\ loop' = Tail(loop) \o due
  /\ past' = IF thread = Idle THEN PastBy(loop') ELSE past
  /\ UNCHANGED <<store, draft, seen, thread, calls>>

CompleteTask ==
  /\ Hear("task", <<[Head(loop) EXCEPT !.kind = "cleanup"]>>) /\ told' = {}
  /\ UNCHANGED <<byUser, byId, queue, inflight, tasks, valid, excused>>

cleanup ==
  LET c == Head(loop).caller
      wake(d) == [kind |-> "wake", caller |-> d, value |-> Head(loop).value]
  IN
  /\ loop # <<>>
  /\ \E order \in SetToSeqs(Resumed(c)) :
       Hear("cleanup", [i \in DOMAIN order |-> wake(order[i])])
  /\ inflight' = inflight \ {c}
  /\ joined' = [d \in Callers |-> IF d \in Resumed(c) THEN d ELSE joined[d]]
  /\ told' = {} /\ UNCHANGED <<byUser, byId, queue, call, pc, value, valid, excused>>

(* An ensure goes on, once, for the list of its bot.                        *)
Touch ==
  LET c == Head(loop).caller
      v == Head(loop).value
  IN /\ Hear("wake", <<>>)
     /\ pc[c] = "waiting" /\ ~Completes(call[c], v) /\ Touches(c, v)
     /\ told' = {} /\ UNCHANGED <<byUser, byId, inflight, call, valid, excused>>

(* The manager drops what is cached of a user whose mapping was changed. A   *)
(* lookup that has just read the user of an id then finds no mapping.       *)
Dropped(c, v) == IF call[c].op \in {"override", "delete"} /\ v # Error THEN call[c].users ELSE {}

Return ==
  LET c == Head(loop).caller
      v == Head(loop).value
      given == IF pc[c] = "touching" /\ v # Error THEN value[c] ELSE v
      misled == IF thread.todo = "read" /\ thread.users \subseteq Dropped(c, v)
                THEN Resumed(Head(queue)) ELSE {}
  IN /\ Hear("wake", <<>>)
     /\ pc[c] = "touching" \/ Completes(call[c], v)
     /\ told' = {Answer(call[c], given, valid[c], excused[c])}
     /\ IF Dropped(c, v) # {} THEN invalidate_cache(CHOOSE u \in Dropped(c, v) : TRUE)
        ELSE UNCHANGED <<byUser, byId>>
     /\ pc' = [pc EXCEPT ![c] = "idle"] /\ call' = [call EXCEPT ![c] = NoCall]
     /\ value' = [value EXCEPT ![c] = None] /\ valid' = [valid EXCEPT ![c] = {}]
     /\ excused' = [d \in Callers |-> IF d = c THEN {}
                                      ELSE excused[d] \cup (IF d \in misled THEN {None} ELSE {})]
     /\ UNCHANGED <<queue, inflight, joined>>

-----------------------------------------------------------------------------
BotCall(c) ==
  \/ \E b \in Bots, u \in Users, n \in Profiles \cup {None} : ensure_mapping(c, b, u, n)
  \/ \E b \in Bots : ensure_mappings(c, b)
  \/ \E u \in Users : get_by_user_id(c, u)
  \/ \E id \in Slots : get_by_onebot_id(c, id)

WebUICall(c) ==
  \E b \in Bots, u \in Users :
     \/ \E id \in Slots : override_onebot_id(c, b, u, id)
     \/ delete_mapping(c, b, u)

IdentityNext == (\E c \in Callers : BotCall(c) \/ WebUICall(c))
        \/ RunJob \/ InsertNext \/ CommitBatch \/ FinishJob
        \/ CompleteTask \/ cleanup \/ Touch \/ Return

IdentitySpec == IdentityInit /\ [][IdentityNext]_identityVars

-----------------------------------------------------------------------------
(* Properties                                                               *)

(* Whenever the thread is not between a commit and its second half, the     *)
(* caches tell what the database holds, of users, of ids and of members.    *)
CachesAgree ==
  thread = Idle =>
     /\ \A u \in DOMAIN byUser : u \in Mapped(store) /\ byUser[u] = store.rows[u]
     /\ \A id \in DOMAIN byId : byId[id] \in DOMAIN byUser /\ byUser[byId[id]].id = id
     /\ seen \subseteq store.members

(* README: the OneBot id of a user is unique, whatever collides, is         *)
(* overridden, deleted or inserted again.  An active conflict is about two  *)
(* users that have mappings, and tells the id the displaced one has: the    *)
(* warnings name the right people.                                         *)
ConflictsAreCurrent ==
  /\ \A u, v \in Mapped(store) : store.rows[u].id = store.rows[v].id => u = v
  /\ \A k \in store.conflicts :
       /\ {k.inc, k.dis} \subseteq Mapped(store) /\ k.inc # k.dis
       /\ store.rows[k.dis].id = k.id

(* A caller is told an id or a user that was so at some time since it        *)
(* called; a change is made when its job is done and the tasks of flights   *)
(* done by then are completed (PastBy). So nobody is told an id that was     *)
(* overridden or deleted by a call that had returned, whether from a cache  *)
(* or from a call it joined, but for two gaps. A call may join a flight      *)
(* whose task is completed, and is told what was so since the flight began. *)
(* And the lookup of an id may find no mapping when the cache is            *)
(* invalidated between its two reads.                                       *)
(* A bot that is told the id of a user has the user in its list, even when   *)
(* the call of another bot created the mapping, unless the mapping is being *)
(* deleted at that very time.                                               *)
ToldIsCurrent ==
  \A t \in told : t.value # Error =>
    /\ t.call.op \in {"ensure", "get", "find"} => t.value \in t.valid \cup t.excused
    /\ t.call.op = "ensure" =>
         \/ {<<t.call.bot, u>> : u \in t.call.users} \subseteq store.members
         \/ \E d \in Callers : pc[d] = "waiting" /\ call[d].op = "delete"

AnswersAreCurrent == [][ToldIsCurrent']_identityVars

(* Without the two gaps: not so, and not checked (README, section 5).       *)
AnswersAreAlwaysCurrent ==
  [][\A t \in told' : t.value # Error /\ t.call.op \in {"ensure", "get", "find"} =>
                      t.value \in t.valid]_identityVars

-----------------------------------------------------------------------------
(* The inductive invariant behind the three properties                      *)

Named == Profiles \cup {None}
Rows == [id : Slots, profile : Named, rev : Nat]
IsMapping(f) == DOMAIN f \subseteq Users /\ f \in [DOMAIN f -> Rows]
IsTable(s) ==
  /\ s = [rows |-> s.rows, members |-> s.members, conflicts |-> s.conflicts]
  /\ IsMapping(s.rows) /\ s.members \subseteq Bots \X Users
  /\ s.conflicts \subseteq [inc : Users, dis : Users, id : Slots]
Outcomes == Users \cup Slots \cup {None}
Whats == [op : {"none", "ensure", "batch", "get", "find", "override", "delete"},
          bot : Bots \cup {None}, users : SUBSET Users,
          arg : Named \cup Slots, rev : Nat]

IdentityTypeOK ==
  /\ IsTable(store) /\ IsTable(draft) /\ \A s \in past : IsTable(s)
  /\ IsMapping(byUser) /\ DOMAIN byId \subseteq Slots /\ byId \in [DOMAIN byId -> Users]
  /\ seen \subseteq Bots \X Users /\ queue \in Seq(Callers)
  /\ thread \in [todo : {"idle", "batch", "raise", "read", "cache", "override", "delete"},
                 users : SUBSET Users]
  /\ loop \in Seq([kind : {"task", "cleanup", "wake"}, caller : Callers, value : Outcomes \cup {Error}])
  /\ inflight \subseteq Callers
  /\ call \in [Callers -> Whats] /\ pc \in [Callers -> {"idle", "waiting", "touching"}]
  /\ joined \in [Callers -> Callers] /\ value \in [Callers -> Outcomes \cup {Error}]
  /\ valid \in [Callers -> SUBSET Outcomes] /\ excused \in [Callers -> SUBSET Outcomes] /\ calls \in Nat

(* A table as the database constraints and the conflicts have it            *)
Current(s) ==
  /\ \A u, v \in Mapped(s) : s.rows[u].id = s.rows[v].id => u = v
  /\ \A k \in s.conflicts : /\ k.inc \in Mapped(s) /\ k.dis \in Mapped(s) /\ k.inc # k.dis
                            /\ s.rows[k.dis].id = k.id
  /\ \A m \in s.members : m[2] \in Mapped(s)

TablesCurrent == Current(store) /\ Current(draft) /\ \A s \in past : Current(s)

(* What the callers fill in                                                 *)
Proper(what) ==
  /\ what.op \in {"ensure", "get", "override", "delete"} => \E u \in Users : what.users = {u}
  /\ what.op = "override" => what.arg \in Slots
  /\ what.op = "ensure" => what.arg \in Named
  /\ what.op \notin {"none", "get", "find"} => what.bot \in Bots

(* Whose job is queued or heard of is waiting for it, once; whoever joined  *)
(* another caller asked for the same, and waits for its flight.             *)
Asked(c) ==
  /\ Proper(call[c])
  /\ pc[c] = "touching" => /\ call[c].op = "ensure" /\ joined[c] = c /\ c \notin inflight
                           /\ value[c] \in valid[c] \cup excused[c]
  /\ pc[c] = "waiting" => /\ pc[joined[c]] = "waiting" /\ joined[joined[c]] = joined[c]
                          /\ SameKey(call[c], call[joined[c]])
                          /\ joined[c] = c \/ joined[c] \in inflight
  /\ pc[c] # "idle" => call[c].op # "none" /\ Value(store, call[c]) \in valid[c]
  /\ c \in inflight => pc[c] = "waiting" /\ joined[c] = c /\ call[c].op \in {"ensure", "get", "find"}

Submitted(c) == pc[c] # "idle" /\ joined[c] = c

Lines ==
  /\ \A c \in Callers : Asked(c)
  /\ \A j \in DOMAIN queue : Submitted(queue[j])
  /\ \A k \in DOMAIN loop : /\ Submitted(loop[k].caller)
                            /\ loop[k].kind # "wake" <=> loop[k].caller \in inflight
  /\ \A i, j \in DOMAIN queue : queue[i] = queue[j] => i = j
  /\ \A i, j \in DOMAIN loop : loop[i].caller = loop[j].caller => i = j
  /\ \A j \in DOMAIN queue, k \in DOMAIN loop : queue[j] # loop[k].caller

(* The second read of a lookup is about the user that has the id; when that *)
(* one is no longer cached, those who wait are excused.                     *)
ReadsUser(c, u) ==
  /\ thread.users = {u} /\ u \in Owners(store, call[c].arg)
  /\ u \notin DOMAIN byUser => \A d \in Resumed(c) : None \in excused[d]

(* Where the job of the thread stands: what its transaction has done, and    *)
(* what it has still to put into the caches or to take out of them.         *)
Working ==
  LET c == Head(queue)
      what == call[c]
  IN /\ thread.todo # "idle" => queue # <<>>
     /\ thread.todo = "idle" => thread.users = {}
     /\ thread.todo # "batch" => draft = store
     /\ thread.todo = "batch" =>
          /\ what.op = "batch" /\ pc[c] = "waiting" /\ thread.users \subseteq what.users
          /\ Mapped(store) \subseteq Mapped(draft) /\ store.members \subseteq draft.members
          /\ \A u \in Mapped(store) : draft.rows[u] = store.rows[u]
          /\ \A u \in what.users \ thread.users : <<what.bot, u>> \in draft.members
     /\ thread.todo = "read" =>
          /\ what.op = "find" /\ pc[c] = "waiting"
          /\ \E u \in Users : ReadsUser(c, u)
     /\ thread.todo \in {"cache", "override"} =>
          thread.users \subseteq Mapped(store) /\ Remembers(what, c) \subseteq store.members
     /\ thread.todo = "delete" =>
          what.op = "delete" /\ pc[c] = "waiting" /\ thread.users = what.users

Unsettled == IF thread.todo \in {"cache", "override", "delete"} THEN thread.users ELSE {}

(* The caches tell what the database holds, but for what the thread is about *)
(* to settle; and even that was so when or after the last call began.       *)
Cached ==
  /\ \A id \in DOMAIN byId : byId[id] \in DOMAIN byUser /\ byUser[byId[id]].id = id
  /\ \A u \in DOMAIN byUser \ Unsettled : u \in Mapped(store) /\ byUser[u] = store.rows[u]
  /\ \A u \in DOMAIN byUser : \E s \in past \cup {store} :
        u \in Mapped(s) /\ s.rows[u].id = byUser[u].id
  /\ \A m \in seen : m \in store.members \/ (thread.todo = "delete" /\ m[2] \in thread.users)

(* A result on its way was so while each of those who wait for it did, or    *)
(* they are excused; until the task of a flight is completed, that goes for *)
(* whoever may join it too. And a user that was entered for a bot is still  *)
(* there, unless a deletion is the next thing the loop hears of.            *)
DeletedAfter(k) ==
  thread.todo = "delete" \/ \E j \in DOMAIN loop : k < j /\ call[loop[j].caller].op = "delete"

Heard(k) ==
  LET c == loop[k].caller
  IN loop[k].value # Error =>
       /\ loop[k].kind = "task" =>
            \/ loop[k].value \in excused[c]
            \/ \E s \in past \cup {store} : loop[k].value = Value(s, call[c])
       /\ \A d \in Resumed(c) : loop[k].value \in valid[d] \cup excused[d]
       /\ pc[c] = "touching" =>
            {<<call[c].bot, u>> : u \in call[c].users} \subseteq store.members \/ DeletedAfter(k)

IdentityInv ==
  /\ IdentityTypeOK /\ TablesCurrent /\ Lines /\ Working /\ Cached
  /\ \A k \in DOMAIN loop : Heard(k)
  /\ ToldIsCurrent
=============================================================================
