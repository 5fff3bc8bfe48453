----------------------------- MODULE UploadQueue -----------------------------
(***************************************************************************)
(* athenad's uploads.  JSON-RPC workers put files into upload_queue and    *)
(* cancel them, upload handlers take them out again, and everybody saves   *)
(* the queue to the param AthenadUploadQueue for the next start of         *)
(* athenad.  The threads share upload_queue, cancelled_uploads and         *)
(* cur_upload_items and no lock of their own: an action ends wherever      *)
(* another thread may come in between with a visible effect.               *)
(*                                                                         *)
(* A URL stands for one without its query, and a call names one file.      *)
(* Priorities, which only order the queue, are left out: any queued item   *)
(* may be the next.  Every look at the age of an item, the network and the *)
(* websocket may find what it likes.                                       *)
(***************************************************************************)
EXTENDS Integers, FiniteSets

CONSTANTS
  Handlers,        \* upload_handler threads
  Workers,         \* jsonrpc_handler threads
  Urls,
  MAX_RETRY_COUNT,
  MaxItems,        \* bound on the uploads ever accepted
  MaxDisconnects,  \* bound on how often the websocket closes
  MaxCrashes       \* bound on how often athenad dies

ASSUME BoundsAssumption == {MAX_RETRY_COUNT, MaxItems, MaxDisconnects, MaxCrashes} \subseteq Nat

Ids     == 1..MaxItems
Items   == [id : Ids, url : Urls, retry_count : 0..MAX_RETRY_COUNT]
NoItem  == [id |-> 0]

VARIABLES
  upload_queue,       \* set of Items
  cancelled_uploads,  \* set of Ids
  AthenadUploadQueue, \* the param: set of Items
  handler,            \* what each upload_handler is doing, and with which item
  worker,             \* what each jsonrpc_handler is doing
  end_event,          \* the websocket is closed
  disconnects, crashes,
  accepted,           \* history: ids put into the queue
  finished,           \* history: ids given back by no one, uploaded or not
  uploads,            \* history: successful uploads of each id
  doomed              \* history: ids cancelled while in the queue

history == <<accepted, finished, uploads, doomed>>
bounds  == <<disconnects, crashes>>
vars == <<upload_queue, cancelled_uploads, AthenadUploadQueue, handler, worker, end_event,
          bounds, history>>

IdleHandler == [pc |-> "top", item |-> NoItem, count |-> FALSE, then |-> "top", snapshot |-> {}]
IdleWorker  == [pc |-> "idle", url |-> "none", id |-> 0, items |-> {}]

Init ==
  /\ upload_queue = {} /\ cancelled_uploads = {} /\ AthenadUploadQueue = {}
  /\ handler = [h \in Handlers |-> IdleHandler]
  /\ worker = [w \in Workers |-> IdleWorker]
  /\ end_event = FALSE
  /\ disconnects = 0 /\ crashes = 0
  /\ accepted = {} /\ finished = {} /\ doomed = {}
  /\ uploads = [i \in Ids |-> 0]

\* The values of cur_upload_items: a handler shows its item from the moment it has stored
\* it until it has put it back or comes back to the top of its loop.
CurUploadItems ==
  {handler[h].item : h \in {g \in Handlers : handler[g].pc \notin {"get", "got"}}} \ {NoItem}

\* The items that listUploadQueue shows and UploadQueueCache.cache saves.
Uncancelled(items) == {i \in items : i.id \notin cancelled_uploads}

-----------------------------------------------------------------------------
(* upload_handler *)

Go(h, pc) == handler' = [handler EXCEPT ![h].pc = pc]

Finish(h, pc) ==
  /\ handler' = [handler EXCEPT ![h] = [IdleHandler EXCEPT !.pc = pc, !.item = handler[h].item]]
  /\ finished' = finished \cup {handler[h].item.id}

HandlerUnchanged ==
  UNCHANGED <<worker, end_event, bounds, accepted, doomed>>

Top(h) ==
  /\ handler[h].pc = "top"
  /\ handler' = [handler EXCEPT ![h].pc = IF end_event THEN "ended" ELSE "get",
                                ![h].item = IF end_event THEN @ ELSE NoItem]
  /\ UNCHANGED <<upload_queue, cancelled_uploads, AthenadUploadQueue, finished, uploads>>
  /\ HandlerUnchanged

\* upload_queue.get, which times out on an empty queue
Get(h) ==
  /\ handler[h].pc = "get"
  /\ \/ \E item \in upload_queue :
          /\ upload_queue' = upload_queue \ {item}
          /\ handler' = [handler EXCEPT ![h].pc = "got", ![h].item = item]
     \/ upload_queue = {} /\ Go(h, "top") /\ UNCHANGED upload_queue
  /\ UNCHANGED <<cancelled_uploads, AthenadUploadQueue, finished, uploads>>
  /\ HandlerUnchanged

\* Retrying an item, counted as a failure of its own or not; then says what comes after.
GoRetry(h, count, then) ==
  handler' = [handler EXCEPT ![h].pc = "retry", ![h].count = count, ![h].then = then]

\* Defect: a cancelled item is only hidden from the lists.
IsCancelled_Hidden(item) == FALSE

IsCancelled(item) == item.id \in cancelled_uploads

\* From taking the item to the decision to upload it.
Check(h) ==
  LET item == handler[h].item IN
  /\ handler[h].pc = "got"
  /\ \/ /\ IsCancelled(item)
        /\ cancelled_uploads' = cancelled_uploads \ {item.id}
        /\ Finish(h, "top")
     \/ /\ ~IsCancelled(item)
        /\ \/ Finish(h, "top")    \* too old
           \/ GoRetry(h, FALSE, "top") /\ UNCHANGED finished    \* the network is metered
           \/ Go(h, "upload") /\ UNCHANGED finished
        /\ UNCHANGED cancelled_uploads
  /\ UNCHANGED <<upload_queue, AthenadUploadQueue, uploads>>
  /\ HandlerUnchanged

\* _do_upload and what becomes of it
Upload(h) ==
  /\ handler[h].pc = "upload"
  /\ \/ /\ Finish(h, "cache")                           \* 200, 201, 401, 403, 412
        /\ uploads' = [uploads EXCEPT ![handler[h].item.id] = @ + 1]
     \/ /\ \E then \in {"cache", "top"} : GoRetry(h, TRUE, then)    \* another status; a timeout
        /\ UNCHANGED <<finished, uploads>>
     \/ /\ GoRetry(h, FALSE, "top")                      \* AbortTransferException
        /\ UNCHANGED <<finished, uploads>>
     \/ /\ Finish(h, "top")                             \* any other exception: the file is gone
        /\ UNCHANGED uploads
  /\ UNCHANGED <<upload_queue, cancelled_uploads, AthenadUploadQueue>>
  /\ HandlerUnchanged

\* Defect: no transfer counts.
NewRetryCount_Never(item, count) == item.retry_count

NewRetryCount(item, count) == IF count THEN item.retry_count + 1 ELSE item.retry_count

MayRetry(item) == item.retry_count < MAX_RETRY_COUNT

\* retry_upload: an item that has been retried too often is dropped.
Retry(h) ==
  LET item == handler[h].item
      count == handler[h].count IN
  /\ handler[h].pc = "retry"
  /\ IF MayRetry(item)
     THEN /\ upload_queue' = upload_queue \cup {[item EXCEPT !.retry_count = NewRetryCount(item, count)]}
          /\ handler' = [handler EXCEPT ![h].pc = "retryCache", ![h].count = FALSE]
          /\ UNCHANGED finished
     ELSE Finish(h, handler[h].then) /\ UNCHANGED upload_queue
  /\ UNCHANGED <<cancelled_uploads, AthenadUploadQueue, uploads>>
  /\ HandlerUnchanged

\* UploadQueueCache.cache in two steps, after a retry and after an upload.
ReadQueue(h) ==
  /\ \E pc \in {<<"retryCache", "retrySave">>, <<"cache", "save">>} :
       /\ handler[h].pc = pc[1]
       /\ handler' = [handler EXCEPT ![h].pc = pc[2], ![h].snapshot = Uncancelled(upload_queue)]
  /\ UNCHANGED <<upload_queue, cancelled_uploads, AthenadUploadQueue, finished, uploads>>
  /\ HandlerUnchanged

Save(h) ==
  /\ AthenadUploadQueue' = handler[h].snapshot
  /\ \/ /\ handler[h].pc = "retrySave"
        /\ handler' = [handler EXCEPT ![h] = [IdleHandler EXCEPT !.pc = handler[h].then]]
     \/ /\ handler[h].pc = "save"
        /\ handler' = [handler EXCEPT ![h] = [IdleHandler EXCEPT !.item = handler[h].item]]
  /\ UNCHANGED <<upload_queue, cancelled_uploads, finished, uploads>>
  /\ HandlerUnchanged

Handler(h) == Top(h) \/ Get(h) \/ Check(h) \/ Upload(h) \/ Retry(h) \/ ReadQueue(h) \/ Save(h)

-----------------------------------------------------------------------------
(* jsonrpc_handler: one call of uploadFilesToUrls or of cancelUpload. *)

WorkerUnchanged ==
  UNCHANGED <<handler, end_event, bounds, finished, uploads>>

\* uploadFilesToUrls, up to the first half of listUploadQueue: a copy of upload_queue
Request(w) ==
  /\ worker[w].pc = "idle" /\ ~end_event
  /\ \E url \in Urls :
       worker' = [worker EXCEPT ![w] = [IdleWorker EXCEPT !.pc = "list", !.url = url, !.items = upload_queue]]
  /\ UNCHANGED <<upload_queue, cancelled_uploads, AthenadUploadQueue, accepted, doomed>>
  /\ WorkerUnchanged

\* listUploadQueue adds cur_upload_items.  A URL that is listed already is skipped, and so is
\* a file that does not exist.
List(w) ==
  LET listed == Uncancelled(worker[w].items \cup CurUploadItems) IN
  /\ worker[w].pc = "list"
  /\ \/ worker' = [worker EXCEPT ![w] = [IdleWorker EXCEPT !.pc = "cache"]]
     \/ /\ \A i \in listed : i.url # worker[w].url
        /\ Cardinality(accepted) < MaxItems
        /\ worker' = [worker EXCEPT ![w].pc = "put", ![w].items = {}]
  /\ UNCHANGED <<upload_queue, cancelled_uploads, AthenadUploadQueue, accepted, doomed>>
  /\ WorkerUnchanged

Put(w) ==
  /\ worker[w].pc = "put"
  /\ Cardinality(accepted) < MaxItems
  /\ LET id == Cardinality(accepted) + 1 IN
       /\ upload_queue' = upload_queue \cup {[id |-> id, url |-> worker[w].url, retry_count |-> 0]}
       /\ accepted' = accepted \cup {id}
  /\ worker' = [worker EXCEPT ![w] = [IdleWorker EXCEPT !.pc = "cache"]]
  /\ UNCHANGED <<cancelled_uploads, AthenadUploadQueue, doomed>>
  /\ WorkerUnchanged

CacheRead(w) ==
  /\ worker[w].pc = "cache"
  /\ worker' = [worker EXCEPT ![w].pc = "save", ![w].items = Uncancelled(upload_queue)]
  /\ UNCHANGED <<upload_queue, cancelled_uploads, AthenadUploadQueue, accepted, doomed>>
  /\ WorkerUnchanged

CacheSave(w) ==
  /\ worker[w].pc = "save"
  /\ AthenadUploadQueue' = worker[w].items
  /\ worker' = [worker EXCEPT ![w] = IdleWorker]
  /\ UNCHANGED <<upload_queue, cancelled_uploads, accepted, doomed>>
  /\ WorkerUnchanged

\* cancelUpload looks for the id in upload_queue and only then adds it to cancelled_uploads.
CancelUpload(w) ==
  /\ worker[w].pc = "idle" /\ ~end_event
  /\ \E item \in upload_queue :
       worker' = [worker EXCEPT ![w] = [IdleWorker EXCEPT !.pc = "cancel", !.id = item.id]]
  /\ UNCHANGED <<upload_queue, cancelled_uploads, AthenadUploadQueue, accepted, doomed>>
  /\ WorkerUnchanged

Cancel(w) ==
  LET id == worker[w].id IN
  /\ worker[w].pc = "cancel"
  /\ cancelled_uploads' = cancelled_uploads \cup {id}
  /\ doomed' = IF \E i \in upload_queue : i.id = id THEN doomed \cup {id} ELSE doomed
  /\ worker' = [worker EXCEPT ![w] = IdleWorker]
  /\ UNCHANGED <<upload_queue, AthenadUploadQueue, accepted>>
  /\ WorkerUnchanged

Call(w)   == Request(w) \/ CancelUpload(w)
Answer(w) == List(w) \/ Put(w) \/ CacheRead(w) \/ CacheSave(w) \/ Cancel(w)

-----------------------------------------------------------------------------
(* The websocket and the process. *)

Disconnect ==
  /\ ~end_event /\ disconnects < MaxDisconnects
  /\ end_event' = TRUE
  /\ disconnects' = disconnects + 1
  /\ UNCHANGED <<upload_queue, cancelled_uploads, AthenadUploadQueue, handler, worker, crashes, history>>

\* Defect: the saved queue is loaded for every connection.
Reload_Always == upload_queue \cup AthenadUploadQueue

Reload == upload_queue

\* handle_long_poll has joined its threads; main clears cur_upload_items and starts new ones.
Reconnect ==
  /\ end_event
  /\ \A h \in Handlers : handler[h].pc = "ended"
  /\ \A w \in Workers : worker[w].pc = "idle"
  /\ end_event' = FALSE
  /\ handler' = [h \in Handlers |-> IdleHandler]
  /\ upload_queue' = Reload
  /\ UNCHANGED <<cancelled_uploads, AthenadUploadQueue, worker, bounds, history>>

\* athenad dies and starts again: UploadQueueCache.initialize.
Crash ==
  /\ crashes < MaxCrashes
  /\ crashes' = crashes + 1
  /\ upload_queue' = AthenadUploadQueue
  /\ cancelled_uploads' = {} /\ doomed' = {}
  /\ handler' = [h \in Handlers |-> IdleHandler]
  /\ worker' = [w \in Workers |-> IdleWorker]
  /\ end_event' = FALSE
  /\ finished' = accepted \ {i.id : i \in AthenadUploadQueue}
  /\ UNCHANGED <<AthenadUploadQueue, disconnects, accepted, uploads>>

Next ==
  \/ \E h \in Handlers : Handler(h)
  \/ \E w \in Workers : Call(w) \/ Answer(w)
  \/ Disconnect \/ Reconnect \/ Crash

\* Threads run; the backend's calls, the network and the failures happen or not.
Fairness ==
  /\ \A h \in Handlers : WF_vars(Handler(h))
  /\ \A w \in Workers : WF_vars(Answer(w))
  /\ WF_vars(Reconnect)

Spec == Init /\ [][Next]_vars /\ Fairness

-----------------------------------------------------------------------------
HandlerPCs == {"top", "get", "got", "upload", "retry", "retryCache", "retrySave", "cache", "save", "ended"}
WorkerPCs  == {"idle", "list", "put", "cache", "save", "cancel"}

HandlerStates == [pc : HandlerPCs, item : Items \cup {NoItem}, count : BOOLEAN,
                  then : {"top", "cache"}, snapshot : SUBSET Items]
WorkerStates  == [pc : WorkerPCs, url : Urls \cup {"none"}, id : Ids \cup {0}, items : SUBSET Items]

\* A handler is answerable for an item from taking it until it has finished it or put it back.
Works(h) == handler[h].pc \in {"got", "upload", "retry"}

\* Every variable keeps its type: no item's retry_count passes the limit, and a handler that works
\* has an item to work on.
TypeOK ==
  /\ upload_queue \subseteq Items /\ AthenadUploadQueue \subseteq Items
  /\ cancelled_uploads \subseteq Ids
  /\ handler \in [Handlers -> HandlerStates]
  /\ \A h \in Handlers : Works(h) => handler[h].item \in Items
  /\ worker \in [Workers -> WorkerStates]
  /\ \A w \in Workers : worker[w].pc \in {"list", "put"} => worker[w].url \in Urls
  /\ \A w \in Workers : worker[w].pc = "cancel" => worker[w].id \in Ids
  /\ end_event \in BOOLEAN /\ disconnects \in Nat /\ crashes \in Nat
  /\ accepted \subseteq Ids /\ finished \subseteq Ids /\ doomed \subseteq Ids
  /\ uploads \in [Ids -> Nat]

Queued(id) == \E i \in upload_queue : i.id = id

Holds(h, id) == Works(h) /\ handler[h].item.id = id

Held(id) == \E h \in Handlers : Holds(h, id)

\* Whatever the handlers, the workers and the websocket do, an accepted upload is never lost
\* and never worked on twice at a time: it is in the queue once, or with one handler, or
\* finished.  (A crash finishes what was not saved.)
OnePlace ==
  /\ \A i, j \in upload_queue : i.id = j.id => i = j
  /\ \A g, h \in Handlers : \A id \in Ids : Holds(g, id) /\ Holds(h, id) => g = h
  /\ \A id \in accepted :
       IF id \in finished THEN ~Queued(id) /\ ~Held(id) ELSE Queued(id) <=> ~Held(id)

\* An accepted upload (one id) is uploaded successfully once, or once more for every crash that came
\* before it was recorded.  A file is not: a URL that two workers enqueue at a time, each before the
\* other's put, has two ids and is uploaded for both.
UploadedOnce == \A id \in Ids : uploads[id] <= 1 + crashes

\* An upload cancelled while it waits in the queue is not started, however often it had been
\* put back and by whomever it is taken.
CancelledNotStarted == \A h \in Handlers : handler[h].pc = "upload" => handler[h].item.id \notin doomed

\* The network is found metered, or the websocket closed.
Interruption(h) == handler[h].pc # "retry" /\ handler'[h].pc = "retry" /\ ~handler'[h].count

\* Once uploads are no longer interrupted, every accepted one comes to an end.
Drains ==
  <>[][~end_event /\ \A h \in Handlers : ~Interruption(h)]_vars => <>[](accepted \subseteq finished)

\* An upload that is nowhere has ended.
UploadState ==
  [id \in Ids |-> IF id \notin accepted THEN "new"
                  ELSE IF Held(id) THEN "working"
                  ELSE IF Queued(id) THEN "waiting" ELSE "ended"]

Abstract == INSTANCE Uploads WITH state <- UploadState, restarts <- crashes

\* Queue, handlers and param together keep the promise of Uploads: no step of the concurrent
\* threads, but a crash, moves two uploads, revives one that has ended or ends one that nobody works on.
KeepsPromise == Abstract!Spec
=============================================================================
