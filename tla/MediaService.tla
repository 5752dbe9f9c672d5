---------------------------- MODULE MediaService ----------------------------
(***************************************************************************)
(* The media service (bridge/media.py, bridge/media_publication.py): the   *)
(* bots of one shell share a cache directory, its coordinator with merged  *)
(* downloads, a cleanup thread, and the table of published URLs that the   *)
(* WebUI serves.  Messages received with encrypted media are decrypted     *)
(* into the cache and published; remote media that is sent is downloaded   *)
(* into the cache and uploaded to Rocket.Chat by one of two endpoints,     *)
(* whose answers may be lost.                                              *)
(*                                                                         *)
(* A media item is told apart by its origin only; its file in the cache is *)
(* named after its content and has a version (its modification time).      *)
(***************************************************************************)
EXTENDS Integers, Sequences, FiniteSets

CONSTANTS Bots, Tasks,
          Enc,       \* encrypted attachments, received
          Urls,      \* remote media, sent
          MaxPub,    \* entries of the publication table
          MaxFiles,  \* bound: versions of a file
          MaxTokens, \* bound: tokens handed out
          MaxStarts, \* bound: starts of a bot
          None

ASSUME MediaAssumption ==
    /\ Enc \cap Urls = {}
    /\ MaxPub \in Nat \ {0} /\ MaxFiles \in Nat /\ MaxTokens \in Nat /\ MaxStarts \in Nat
    /\ None \notin Bots

Items == Enc \cup Urls
Modern == "rooms.media"
Legacy == "rooms.upload"

VARIABLES
    bot,      \* bot[b]: "down", "starting" (awaits the first cleanup), "up"
    starts,   \* counted against MaxStarts
    coord,    \* MediaCacheCoordinator: members, owner, started, loop
    cut,      \* a start was cancelled while it ran the first cleanup
    cleaner,  \* the cleanup thread: [keep, left], or None
    file,     \* file[i]: version of the cached file, 0 when absent
    ver,      \* ver[i]: versions of the file written so far
    temp,     \* temp[i]: the temporary file of the item's download exists
    flight,   \* inflight[i]: the bot whose session downloads, or None
    pub,      \* _entries, oldest first: [tok, b, i, v]
    index,    \* _tokens_by_path[b][i]: token, or 0
    token,    \* tokens handed out
    task,     \* task[t]: [pc, b, i, ep, fell, e2ee]
    pref,     \* pref[b]: _plain_upload_endpoint_preference
    legacyOk, \* legacyOk[b]: capabilities.allows_legacy_upload_fallback
    server,   \* endpoints the server has
    posted,   \* posted[t]: messages the server posted for the send t
    told      \* told[t]: what the caller of the send was told

cache == <<cleaner, file, ver, temp, flight, coord, cut>>
urls == <<pub, index, token>>
sends == <<pref, legacyOk, server, posted, told>>
vars == <<bot, starts, cache, urls, task, sends>>

Idle == [pc |-> "idle", b |-> None, i |-> None, ep |-> None, fell |-> FALSE, e2ee |-> FALSE]
Fresh == [members |-> {}, owner |-> None, started |-> FALSE, loop |-> FALSE]

Init ==
    /\ bot = [b \in Bots |-> "down"] /\ starts = 0
    /\ coord = Fresh /\ cut = FALSE /\ cleaner = None
    /\ file = [i \in Items |-> 0] /\ ver = [i \in Items |-> 0]
    /\ temp = [i \in Items |-> FALSE]
    /\ flight = [i \in Items |-> None]
    /\ pub = <<>> /\ index = [b \in Bots |-> [i \in Items |-> 0]] /\ token = 0
    /\ task = [t \in Tasks |-> Idle]
    /\ pref = [b \in Bots |-> None] /\ legacyOk = [b \in Bots |-> TRUE]
    /\ server \in {{Legacy}, {Legacy, Modern}}
    /\ posted = [t \in Tasks |-> 0] /\ told = [t \in Tasks |-> "nothing"]

(***************************************************************************)
(* The coordinator and its cleanup.                                        *)
(***************************************************************************)
Published == {pub[k].i : k \in DOMAIN pub}
\* _cleanup_media_cache begins: what is published now is protected.
Sweep == [keep |-> Published, left |-> Items]

(* RocketChatMediaBridge.start: the first member runs a cleanup in a thread  *)
(* and waits for it; others return at once.  The client has read the         *)
(* server's version, or could not and assumes the oldest capabilities.       *)
StartBot(b) ==
    /\ bot[b] = "down" /\ starts < MaxStarts
    /\ starts' = starts + 1
    /\ coord' = [coord EXCEPT !.members = @ \cup {b},
                              !.owner = IF @ = None THEN b ELSE @,
                              !.started = TRUE]
    /\ bot' = [bot EXCEPT ![b] = IF coord.started THEN "up" ELSE "starting"]
    /\ cleaner' = IF coord.started THEN cleaner ELSE Sweep
    /\ \E known \in BOOLEAN :
          legacyOk' = [legacyOk EXCEPT ![b] = known => Legacy \in server]
    /\ UNCHANGED <<cut, file, ver, temp, flight, urls, task, pref, server, posted, told>>

(* The first cleanup is through: the cleanup loop is created. *)
StartLoop(b) ==
    /\ bot[b] = "starting" /\ cleaner = None
    /\ bot' = [bot EXCEPT ![b] = "up"]
    /\ coord' = [coord EXCEPT !.loop = TRUE]
    /\ UNCHANGED <<starts, cut, cleaner, file, ver, temp, flight, urls, task, sends>>

(* Every half hour, or when the policy of the owner changes. *)
CleanupAgain ==
    /\ coord.loop /\ cleaner = None
    /\ cleaner' = Sweep
    /\ UNCHANGED <<bot, starts, coord, cut, file, ver, temp, flight, urls, task, sends>>

(* The thread takes the next file of the directory, a cached file or the     *)
(* temporary file of a download: it keeps it, or removes it because of its   *)
(* age or the size of the cache.                                             *)
CleanNext(i, how) ==
    /\ cleaner # None
    /\ i \in cleaner.left
    /\ cleaner' = [cleaner EXCEPT !.left = @ \ {i}]
    /\ file' = IF how = "file" /\ i \notin cleaner.keep THEN [file EXCEPT ![i] = 0] ELSE file
    /\ temp' = IF how = "temp" THEN [temp EXCEPT ![i] = FALSE] ELSE temp
    /\ UNCHANGED <<bot, starts, coord, cut, ver, flight, urls, task, sends>>

CleanDone ==
    /\ cleaner # None /\ cleaner.left = {}
    /\ cleaner' = None
    /\ UNCHANGED <<bot, starts, coord, cut, file, ver, temp, flight, urls, task, sends>>

(* Mutated form: the index keeps the tokens of removed entries. *)
TokensStay(S, idx) == idx

\* MediaPublicationService._remove_token and _evict_old_entries, for the entries of S.
WithoutTokens(S, idx) ==
    [b \in Bots |-> [i \in Items |-> IF idx[b][i] \in S THEN 0 ELSE idx[b][i]]]

(* The table without the entries whose tokens are in S; the others keep their *)
(* order.                                                                    *)
WithoutEntries(S, table) ==
    LET kept[n \in 0 .. Len(table)] ==
          IF n = 0 THEN <<>>
          ELSE IF table[n].tok \in S THEN kept[n - 1]
          ELSE Append(kept[n - 1], table[n])
    IN  kept[Len(table)]

\* invalidate_bot: the URLs of a bot.
TokensOf(b) == {pub[k].tok : k \in {n \in DOMAIN pub : pub[n].b = b}}

Left(b) == coord.members \ {b}

(* Mutated form: the owner's release cancels the downloads of everyone. *)
ReleaseOwner(b) ==
    IF Left(b) = {} \/ coord.owner = b
    THEN /\ coord' = [Fresh EXCEPT !.members = Left(b), !.started = Left(b) # {},
                                   !.loop = coord.loop /\ Left(b) # {},
                                   !.owner = IF Left(b) = {} THEN None ELSE CHOOSE c \in Left(b) : TRUE]
         /\ flight' = [i \in Items |-> None]
         /\ temp' = [i \in Items |-> IF i \in Enc /\ flight[i] # None THEN FALSE ELSE temp[i]]
    ELSE /\ coord' = [coord EXCEPT !.members = Left(b)]
         /\ UNCHANGED <<flight, temp>>

(* MediaCacheCoordinator.release: the last member stops the loop and cancels *)
(* the downloads; a decryption removes its temporary file, a download does   *)
(* not.                                                                      *)
Release(b) ==
    IF Left(b) = {}
    THEN /\ coord' = Fresh
         /\ flight' = [i \in Items |-> None]
         /\ temp' = [i \in Items |-> IF i \in Enc /\ flight[i] # None THEN FALSE ELSE temp[i]]
    ELSE /\ coord' = [coord EXCEPT !.members = Left(b),
                                   !.owner = IF @ = b THEN CHOOSE c \in Left(b) : TRUE ELSE @]
         /\ UNCHANGED <<flight, temp>>

(* RocketChatClient.stop and RocketChatMediaBridge.stop: the bot's tasks are *)
(* over, the coordinator is released, the bot's URLs are invalidated.  A bot *)
(* that is still starting is cancelled in its await.                         *)
StopBot(b) ==
    /\ bot[b] # "down"
    /\ bot' = [bot EXCEPT ![b] = "down"]
    /\ cut' = (Left(b) # {} /\ (cut \/ bot[b] = "starting"))
    /\ Release(b)
    /\ task' = [t \in Tasks |-> IF task[t].b = b THEN Idle ELSE task[t]]
    /\ told' = [t \in Tasks |-> IF task[t].b = b THEN "cancelled" ELSE told[t]]
    /\ index' = WithoutTokens(TokensOf(b), index) /\ pub' = WithoutEntries(TokensOf(b), pub)
    /\ pref' = [pref EXCEPT ![b] = None] /\ legacyOk' = [legacyOk EXCEPT ![b] = TRUE]
    /\ UNCHANGED <<starts, cleaner, file, ver, token, server, posted>>

(***************************************************************************)
(* Downloads into the cache, one at a time for an item.                    *)
(***************************************************************************)
\* singleflight: the task joins the download under way or begins one.
Join(t, b, i) ==
    /\ task[t].pc = "idle" /\ told[t] = "nothing"
    /\ bot[b] = "up"
    /\ task' = [task EXCEPT ![t] = [Idle EXCEPT !.pc = "wait", !.b = b, !.i = i]]
    /\ flight' = [flight EXCEPT ![i] = IF @ = None THEN b ELSE @]
    /\ temp' = IF flight[i] = None THEN [temp EXCEPT ![i] = TRUE] ELSE temp
    /\ UNCHANGED <<bot, starts, coord, cut, cleaner, file, ver, urls, sends>>

(* A message with encrypted media arrives: _materialize_media_reference. *)
BeginReceive(t, b, i) == i \in Enc /\ Join(t, b, i)

(* Remote media is to be sent: download_remote_media. *)
BeginSend(t, b, i) == i \in Urls /\ Join(t, b, i)

\* The download is over: who waited for it goes on with the file or without it.
Landed(i, ok) ==
    /\ flight[i] # None
    /\ ok => temp[i] /\ ver[i] < MaxFiles
    /\ flight' = [flight EXCEPT ![i] = None]
    /\ task' = [t \in Tasks |->
                  IF task[t].pc # "wait" \/ task[t].i # i THEN task[t]
                  ELSE [task[t] EXCEPT !.pc = IF ok THEN "have" ELSE "none"]]
    /\ UNCHANGED <<bot, starts, coord, cut, cleaner, urls, sends>>

\* A new file stands under the name of the content.
Written(i) == ver' = [ver EXCEPT ![i] = @ + 1] /\ file' = [file EXCEPT ![i] = ver[i] + 1]

(* _download_decrypt_media_to_cache_uncached: the temporary file becomes the *)
(* file named after the content unless that exists, and is removed in any    *)
(* case; it fails for the server, the size limit, the hash, the key, or a    *)
(* temporary file that the cleanup took.                                     *)
DecryptEnds(i, ok) ==
    /\ i \in Enc
    /\ Landed(i, ok)
    /\ temp' = [temp EXCEPT ![i] = FALSE]
    /\ IF ok /\ file[i] = 0 THEN Written(i) ELSE UNCHANGED <<file, ver>>

(* _download_remote_media_to_cache_uncached: the temporary file replaces the *)
(* one named after the content.                                              *)
DownloadEnds(i, ok) ==
    /\ i \in Urls
    /\ Landed(i, ok)
    /\ temp' = [temp EXCEPT ![i] = FALSE]
    /\ IF ok THEN Written(i) ELSE UNCHANGED <<file, ver>>

(***************************************************************************)
(* Publication.                                                            *)
(***************************************************************************)
Entry(tok, b, i, v) == [tok |-> tok, b |-> b, i |-> i, v |-> v]

\* The table has this version of the file.
Current(b, i, v) == \E k \in DOMAIN pub : pub[k].tok = index[b][i] /\ pub[k].v = v

(* publish: a table entry for this version of the file is moved to the end;  *)
(* otherwise the stale one goes, a new token comes, and the oldest entries   *)
(* over the limit are evicted.                                               *)
Publish(b, i, v) ==
    LET others == WithoutEntries({index[b][i]}, pub) IN
    IF Current(b, i, v)
    THEN pub' = Append(others, Entry(index[b][i], b, i, v)) /\ UNCHANGED <<index, token>>
    ELSE LET all == Append(others, Entry(token + 1, b, i, v))
             over == IF Len(all) > MaxPub THEN Len(all) - MaxPub ELSE 0
             gone == {all[k].tok : k \in 1 .. over}
         IN /\ token < MaxTokens
            /\ token' = token + 1
            /\ pub' = SubSeq(all, over + 1, Len(all))
            /\ index' = WithoutTokens(gone, [index EXCEPT ![b][i] = token + 1])

(* A received message is built: resolve_onebot_media_file_ref publishes the  *)
(* file; without a file, or without the download, the segment is left out.   *)
Receive(t) ==
    /\ task[t].i \in Enc /\ task[t].pc \in {"have", "none"}
    /\ task' = [task EXCEPT ![t] = Idle]
    /\ told' = [told EXCEPT ![t] = "received"]
    /\ IF task[t].pc = "have" /\ file[task[t].i] # 0
       THEN Publish(task[t].b, task[t].i, file[task[t].i])
       ELSE UNCHANGED urls
    /\ UNCHANGED <<bot, starts, cache, pref, legacyOk, server, posted>>

(* prepare_cached_onebot_event_media: an event that is read again carries    *)
(* its media; the cached file is written once more if it is gone.            *)
Republish(b, i) ==
    /\ bot[b] = "up" /\ ver[i] < MaxFiles
    /\ IF file[i] = 0 THEN Written(i) ELSE UNCHANGED <<file, ver>>
    /\ Publish(b, i, file'[i])
    /\ UNCHANGED <<bot, starts, coord, cut, cleaner, temp, flight, task, sends>>

(* The upstream fetches a URL it was given (WebUI route, resolve): the entry *)
(* is served while the file is the published one, otherwise it is removed.   *)
Resolve(k) ==
    /\ k \in DOMAIN pub
    /\ LET e == pub[k]
           rest == WithoutEntries({e.tok}, pub)
       IN IF file[e.i] = e.v
          THEN pub' = Append(rest, e) /\ UNCHANGED index
          ELSE pub' = rest /\ index' = WithoutTokens({e.tok}, index)
    /\ UNCHANGED <<bot, starts, cache, token, task, sends>>

(***************************************************************************)
(* Uploads.                                                                *)
(***************************************************************************)
Other(ep) == IF ep = Modern THEN Legacy ELSE Modern
Finished(t, what) ==
    /\ task' = [task EXCEPT ![t] = Idle]
    /\ told' = [told EXCEPT ![t] = what]

\* upload_plain_file: the endpoint that worked last, or the modern one.
Primary(b) == IF legacyOk[b] /\ pref[b] # None THEN pref[b] ELSE Modern

(* send_image_url: without the download the link is posted as text, or       *)
(* nothing is in a thread that is forwarded; with it the file is uploaded    *)
(* unless the cleanup took it meanwhile: encrypted where the room is, by the *)
(* modern endpoint alone.                                                    *)
StartUpload(t, e2ee) ==
    /\ task[t].i \in Urls
    /\ \/ /\ task[t].pc = "none"
          /\ \/ task' = [task EXCEPT ![t].pc = "text"] /\ UNCHANGED told
             \/ Finished(t, "failed")
       \/ /\ task[t].pc = "have" /\ file[task[t].i] = 0
          /\ Finished(t, "failed")
       \/ /\ task[t].pc = "have" /\ file[task[t].i] # 0
          /\ task' = [task EXCEPT ![t].pc = "upload", ![t].e2ee = e2ee,
                                  ![t].ep = IF e2ee THEN Modern ELSE Primary(task[t].b)]
          /\ UNCHANGED told
    /\ UNCHANGED <<bot, starts, cache, urls, pref, legacyOk, server, posted>>

Posts(t) == posted' = [posted EXCEPT ![t] = @ + 1]

(* Mutated form: any failed attempt is repeated with the other endpoint. *)
AlwaysFallBack(t, incompatible) ==
    IF ~task[t].fell /\ ~task[t].e2ee
    THEN /\ task' = [task EXCEPT ![t].pc = "upload", ![t].ep = Other(@), ![t].fell = TRUE]
         /\ UNCHANGED told
    ELSE Finished(t, "failed")

(* What upload_plain_file does with an attempt that yielded nothing: only an *)
(* endpoint that does not exist sends it to the other one, only once, and    *)
(* only for a server that may still have both.                               *)
GiveUpOrFallBack(t, incompatible) ==
    IF incompatible /\ ~task[t].fell /\ ~task[t].e2ee /\ legacyOk[task[t].b]
    THEN /\ task' = [task EXCEPT ![t].pc = "upload", ![t].ep = Other(@), ![t].fell = TRUE]
         /\ UNCHANGED told
    ELSE Finished(t, "failed")

(* _upload_plain_file_via_endpoint: the legacy endpoint posts the message    *)
(* with the upload, the modern one only stores the file.                     *)
UploadAnswered(t, answer) ==
    /\ task[t].pc = "upload"
    /\ (answer = "incompatible") = (task[t].ep \notin server)
    /\ \/ /\ answer \in {"incompatible", "refused"}
          /\ GiveUpOrFallBack(t, answer = "incompatible")
          /\ UNCHANGED <<pref, posted>>
       \/ /\ answer = "lost"
          /\ IF task[t].ep = Legacy THEN Posts(t) ELSE UNCHANGED posted
          /\ GiveUpOrFallBack(t, FALSE)
          /\ UNCHANGED pref
       \/ /\ answer = "ok" /\ task[t].ep = Legacy
          /\ Posts(t)
          /\ pref' = [pref EXCEPT ![task[t].b] = Legacy]
          /\ Finished(t, "sent")
       \/ /\ answer = "ok" /\ task[t].ep = Modern
          /\ task' = [task EXCEPT ![t].pc = "confirm"]
          /\ UNCHANGED <<pref, posted, told>>
    /\ UNCHANGED <<bot, starts, cache, urls, legacyOk, server>>

(* rooms.mediaConfirm posts the message.  A lost answer raises and the send  *)
(* has failed for its caller.                                                *)
ConfirmAnswered(t, answer) ==
    /\ task[t].pc = "confirm"
    /\ \/ /\ answer = "ok"
          /\ Posts(t)
          /\ pref' = IF task[t].e2ee THEN pref ELSE [pref EXCEPT ![task[t].b] = Modern]
          /\ Finished(t, "sent")
       \/ /\ answer = "lost"
          /\ Posts(t)
          /\ Finished(t, "failed")
          /\ UNCHANGED pref
       \/ /\ answer = "refused"
          /\ Finished(t, "failed")
          /\ UNCHANGED <<pref, posted>>
       \/ /\ answer = "incompatible"
          /\ GiveUpOrFallBack(t, TRUE)
          /\ UNCHANGED <<pref, posted>>
    /\ UNCHANGED <<bot, starts, cache, urls, legacyOk, server>>

(* send_remote_media_fallback: one text message with the link. *)
TextAnswered(t, answer) ==
    /\ task[t].pc = "text"
    /\ answer \in {"ok", "lost", "refused"}
    /\ IF answer = "refused" THEN UNCHANGED posted ELSE Posts(t)
    /\ Finished(t, IF answer = "ok" THEN "sent" ELSE "failed")
    /\ UNCHANGED <<bot, starts, cache, urls, pref, legacyOk, server>>

(* The server is upgraded while bots run. *)
Upgrade ==
    /\ server # {Modern}
    /\ server' = IF server = {Legacy} THEN {Legacy, Modern} ELSE {Modern}
    /\ UNCHANGED <<bot, starts, cache, urls, task, pref, legacyOk, posted, told>>

Answers == {"ok", "lost", "refused", "incompatible"}

Next ==
    \/ \E b \in Bots : StartBot(b) \/ StartLoop(b) \/ StopBot(b)
    \/ CleanupAgain \/ CleanDone
    \/ \E i \in Items, how \in {"keep", "file", "temp"} : CleanNext(i, how)
    \/ \E t \in Tasks, b \in Bots, i \in Items : BeginReceive(t, b, i) \/ BeginSend(t, b, i)
    \/ \E i \in Items, ok \in BOOLEAN : DecryptEnds(i, ok) \/ DownloadEnds(i, ok)
    \/ \E b \in Bots, i \in Enc : Republish(b, i)
    \/ \E t \in Tasks : Receive(t) \/ StartUpload(t, TRUE) \/ StartUpload(t, FALSE)
    \/ \E k \in DOMAIN pub : Resolve(k)
    \/ \E t \in Tasks, a \in Answers :
          UploadAnswered(t, a) \/ ConfirmAnswered(t, a) \/ TextAnswered(t, a)
    \/ Upgrade

Spec == Init /\ [][Next]_vars

-----------------------------------------------------------------------------
(* The publication table and its index by bot and path name the same         *)
(* entries, at most MaxPub of them, through eviction, replaced versions,     *)
(* stale URLs and stopped bots.                                              *)
IndexAgrees ==
    /\ Len(pub) <= MaxPub
    /\ \A k \in DOMAIN pub : index[pub[k].b][pub[k].i] = pub[k].tok
    /\ \A b \in Bots, i \in Items :
          index[b][i] # 0 => \E k \in DOMAIN pub : pub[k].tok = index[b][i]

(* Nothing is posted twice for one send, whichever endpoint is missing or    *)
(* whichever answer is lost, and what the caller is told was sent has been   *)
(* posted.                                                                   *)
PostedOnce ==
    \A t \in Tasks : /\ posted[t] <= 1
                     /\ told[t] = "sent" => posted[t] = 1

(* A task that waits for a download waits for one that is under way: bots    *)
(* leaving the coordinator do not take the downloads of the others along.    *)
(* While a bot uses the cache its cleanup is running or about to be, and     *)
(* with the last bot it is gone.  A start cancelled in its first cleanup is  *)
(* exempt: `started` stays set and nobody creates the loop.                  *)
MembersAreServed ==
    /\ \A t \in Tasks : task[t].pc = "wait" => flight[task[t].i] # None
    /\ coord.members = {b \in Bots : bot[b] # "down"}
    /\ coord.members # {} /\ ~cut =>
          coord.loop \/ \E b \in Bots : bot[b] = "starting"
    /\ coord.loop => coord.members # {}

-----------------------------------------------------------------------------
(* The invariant the properties rest on                                      *)

Job == [pc : {"idle", "wait", "have", "none", "text", "upload", "confirm"},
        b : Bots \cup {None}, i : Items \cup {None}, ep : {Modern, Legacy, None},
        fell : BOOLEAN, e2ee : BOOLEAN]

TypeOK ==
    /\ bot \in [Bots -> {"down", "starting", "up"}] /\ starts \in Nat
    /\ coord \in [members : SUBSET Bots, owner : Bots \cup {None},
                  started : BOOLEAN, loop : BOOLEAN]
    /\ cut \in BOOLEAN
    /\ file \in [Items -> Nat] /\ ver \in [Items -> Nat] /\ temp \in [Items -> BOOLEAN]
    /\ flight \in [Items -> Bots \cup {None}]
    /\ pub \in Seq([tok : Nat \ {0}, b : Bots, i : Items, v : Nat])
    /\ index \in [Bots -> [Items -> Nat]] /\ token \in Nat
    /\ task \in [Tasks -> Job]
    /\ pref \in [Bots -> {Modern, Legacy, None}] /\ legacyOk \in [Bots -> BOOLEAN]
    /\ server \subseteq {Modern, Legacy}
    /\ posted \in [Tasks -> Nat]
    /\ told \in [Tasks -> {"nothing", "cancelled", "received", "sent", "failed"}]

(* Tokens are handed out once, and the index points at the entry of its own  *)
(* bot and file.                                                             *)
Indexed ==
    /\ Len(pub) <= MaxPub
    /\ \A k \in DOMAIN pub : /\ pub[k].tok <= token
                             /\ index[pub[k].b][pub[k].i] = pub[k].tok
    /\ \A k, n \in DOMAIN pub : pub[k].tok = pub[n].tok => k = n
    /\ \A b \in Bots, i \in Items :
          index[b][i] # 0 => \E k \in DOMAIN pub :
                               pub[k].tok = index[b][i] /\ pub[k].b = b /\ pub[k].i = i

(* A task at work belongs to a bot that is up, and its caller, who was told  *)
(* nothing yet, has seen nothing posted.                                     *)
AtWork ==
    \A t \in Tasks :
      /\ task[t].pc # "idle" => /\ task[t].b \in Bots /\ bot[task[t].b] = "up"
                                /\ task[t].i \in Items /\ told[t] = "nothing"
      /\ told[t] = "nothing" => posted[t] = 0

MediaInv == /\ TypeOK /\ Indexed /\ AtWork /\ PostedOnce /\ MembersAreServed
            /\ coord.started => coord.members # {}
=============================================================================
