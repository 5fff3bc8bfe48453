-------------------------- MODULE UploadQueueProofs --------------------------
(***************************************************************************)
(* The safety of UploadQueue for any number of handlers, workers, uploads, *)
(* disconnections and crashes.                                             *)
(***************************************************************************)
EXTENDS UploadQueue, TLAPS, FiniteSetTheorems

HandlerType ==
  /\ handler \in [Handlers -> HandlerStates]
  /\ \A h \in Handlers : Works(h) => handler[h].item \in Items

WorkerOK(r) ==
  /\ r.pc \in {"list", "put"} => r.url \in Urls
  /\ r.pc = "cancel" => r.id \in Ids

WorkerType == worker \in [Workers -> WorkerStates] /\ \A w \in Workers : WorkerOK(worker[w])

\* What one step makes of a handler.
LEMMA HandlerStep ==
  ASSUME HandlerType, NEW h \in Handlers, NEW r \in HandlerStates,
         r.pc \in {"got", "upload", "retry"} => r.item \in Items,
         handler' = [handler EXCEPT ![h] = r]
  PROVE  HandlerType'
  BY DEF HandlerType, Works

\* A handler that finishes its item is idle, at one of two places.
LEMMA FinishType ==
  ASSUME HandlerType, NEW h \in Handlers, NEW pc \in {"top", "cache"}, Finish(h, pc)
  PROVE  HandlerType'
  <1> DEFINE r == [IdleHandler EXCEPT !.pc = pc, !.item = handler[h].item]
  <1>1. handler' = [handler EXCEPT ![h] = r]
    BY DEF Finish
  <1>2. handler[h] \in HandlerStates
    BY DEF HandlerType
  <1>3. r \in HandlerStates /\ r.pc \notin {"got", "upload", "retry"}
    BY <1>2 DEF HandlerStates, HandlerPCs, IdleHandler
  <1> HIDE DEF r
  <1> QED
    BY <1>1, <1>3, HandlerStep

\* A handler that only goes on keeps its item.
LEMMA GoType ==
  ASSUME HandlerType, NEW h \in Handlers, NEW pc \in HandlerPCs, Go(h, pc),
         pc \in {"got", "upload", "retry"} => handler[h].item \in Items
  PROVE  HandlerType'
  <1> DEFINE r == [handler[h] EXCEPT !.pc = pc]
  <1>1. handler' = [handler EXCEPT ![h] = r]
    BY DEF Go, HandlerType
  <1>2. handler[h] \in HandlerStates
    BY DEF HandlerType
  <1>3. r \in HandlerStates /\ r.pc = pc /\ r.item = handler[h].item
    BY <1>2 DEF HandlerStates
  <1> HIDE DEF r
  <1> QED
    BY <1>1, <1>3, HandlerStep

\* A handler that goes on to retry_upload keeps its type.
LEMMA GoRetryType ==
  ASSUME HandlerType, NEW h \in Handlers, NEW count \in BOOLEAN, NEW then \in {"top", "cache"},
         GoRetry(h, count, then), handler[h].item \in Items
  PROVE  HandlerType'
  <1> DEFINE r == [handler[h] EXCEPT !.pc = "retry", !.count = count, !.then = then]
  <1>1. handler' = [handler EXCEPT ![h] = r]
    BY DEF GoRetry, HandlerType, HandlerStates
  <1>2. handler[h] \in HandlerStates
    BY DEF HandlerType
  <1>3. r \in HandlerStates /\ r.item = handler[h].item
    BY <1>2 DEF HandlerStates, HandlerPCs
  <1> HIDE DEF r
  <1> QED
    BY <1>1, <1>3, HandlerStep

\* At the head of its loop a handler keeps its type.
LEMMA TopType == ASSUME HandlerType, NEW h \in Handlers, Top(h) PROVE HandlerType'
  <1> DEFINE r == [handler[h] EXCEPT !.pc = IF end_event THEN "ended" ELSE "get",
                                     !.item = IF end_event THEN @ ELSE NoItem]
  <1>1. handler' = [handler EXCEPT ![h] = r]
    BY DEF Top, HandlerType, HandlerStates
  <1>2. handler[h] \in HandlerStates
    BY DEF HandlerType
  <1>3. r \in HandlerStates /\ r.pc \notin {"got", "upload", "retry"}
    BY <1>2 DEF HandlerStates, HandlerPCs
  <1> HIDE DEF r
  <1> QED
    BY <1>1, <1>3, HandlerStep

\* A handler that takes an item has one.
LEMMA GetType == ASSUME TypeOK, HandlerType, NEW h \in Handlers, Get(h) PROVE HandlerType'
  <1>1. CASE Go(h, "top")
    BY <1>1, GoType DEF HandlerPCs
  <1>2. ASSUME NEW item \in upload_queue,
               handler' = [handler EXCEPT ![h].pc = "got", ![h].item = item]
        PROVE  HandlerType'
    <2> DEFINE r == [handler[h] EXCEPT !.pc = "got", !.item = item]
    <2>1. handler' = [handler EXCEPT ![h] = r]
      BY <1>2 DEF HandlerType, HandlerStates
    <2>2. handler[h] \in HandlerStates /\ item \in Items
      BY DEF TypeOK
    <2>3. r \in HandlerStates /\ r.item \in Items
      BY <2>2 DEF HandlerStates, HandlerPCs
    <2> HIDE DEF r
    <2> QED
      BY <2>1, <2>3, HandlerStep
  <1> QED
    BY <1>1, <1>2 DEF Get

\* The checks before an upload keep the item.
LEMMA CheckType == ASSUME HandlerType, NEW h \in Handlers, Check(h) PROVE HandlerType'
  <1>1. handler[h].item \in Items
    BY DEF HandlerType, Check, Works
  <1>2. Finish(h, "top") \/ GoRetry(h, FALSE, "top") \/ Go(h, "upload")
    BY DEF Check
  <1> QED
    BY <1>1, <1>2, FinishType, GoRetryType, GoType DEF HandlerPCs

\* An upload keeps the item, or ends with it.
LEMMA UploadType == ASSUME HandlerType, NEW h \in Handlers, Upload(h) PROVE HandlerType'
  <1>1. handler[h].item \in Items
    BY DEF HandlerType, Upload, Works
  <1>2. \/ Finish(h, "top") \/ Finish(h, "cache") \/ GoRetry(h, FALSE, "top")
        \/ \E then \in {"cache", "top"} : GoRetry(h, TRUE, then)
    BY DEF Upload
  <1> QED
    BY <1>1, <1>2, FinishType, GoRetryType

\* retry_upload keeps the handler's type.
LEMMA RetryType == ASSUME HandlerType, NEW h \in Handlers, Retry(h) PROVE HandlerType'
  <1>1. handler[h] \in HandlerStates /\ handler[h].then \in {"top", "cache"}
    BY DEF HandlerType, HandlerStates
  <1>2. CASE Finish(h, handler[h].then)
    BY <1>1, <1>2, FinishType
  <1>3. CASE handler' = [handler EXCEPT ![h].pc = "retryCache", ![h].count = FALSE]
    <2> DEFINE r == [handler[h] EXCEPT !.pc = "retryCache", !.count = FALSE]
    <2>1. handler' = [handler EXCEPT ![h] = r]
      BY <1>3 DEF HandlerType, HandlerStates
    <2>2. r \in HandlerStates /\ r.pc \notin {"got", "upload", "retry"}
      BY <1>1 DEF HandlerStates, HandlerPCs
    <2> HIDE DEF r
    <2> QED
      BY <2>1, <2>2, HandlerStep
  <1> QED
    BY <1>2, <1>3 DEF Retry

\* A snapshot for the param is a set of items.
LEMMA ReadQueueType == ASSUME TypeOK, HandlerType, NEW h \in Handlers, ReadQueue(h) PROVE HandlerType'
  <1>1. PICK pc \in {"retrySave", "save"} :
          handler' = [handler EXCEPT ![h].pc = pc, ![h].snapshot = Uncancelled(upload_queue)]
    <2>1. PICK p \in {<<"retryCache", "retrySave">>, <<"cache", "save">>} :
            handler' = [handler EXCEPT ![h].pc = p[2], ![h].snapshot = Uncancelled(upload_queue)]
      BY DEF ReadQueue
    <2>2. p[2] \in {"retrySave", "save"}
      BY DEF ReadQueue
    <2> QED
      BY <2>1, <2>2
  <1> DEFINE r == [handler[h] EXCEPT !.pc = pc, !.snapshot = Uncancelled(upload_queue)]
  <1>2. handler' = [handler EXCEPT ![h] = r]
    BY <1>1 DEF HandlerType, HandlerStates
  <1>3. handler[h] \in HandlerStates /\ Uncancelled(upload_queue) \in SUBSET Items
    BY DEF TypeOK, Uncancelled
  <1>4. r \in HandlerStates /\ r.pc \notin {"got", "upload", "retry"}
    BY <1>3 DEF HandlerStates, HandlerPCs
  <1> HIDE DEF r
  <1> QED
    BY <1>2, <1>4, HandlerStep

\* Saving a snapshot brings the handler back to its loop.
LEMMA SaveType == ASSUME HandlerType, NEW h \in Handlers, Save(h) PROVE HandlerType'
  <1>1. handler[h] \in HandlerStates
    BY DEF HandlerType
  <1>2. CASE handler' = [handler EXCEPT ![h] = [IdleHandler EXCEPT !.pc = handler[h].then]]
    <2>1. [IdleHandler EXCEPT !.pc = handler[h].then] \in HandlerStates
      BY <1>1 DEF IdleHandler, HandlerStates, HandlerPCs
    <2>2. [IdleHandler EXCEPT !.pc = handler[h].then].pc \notin {"got", "upload", "retry"}
      BY <1>1 DEF IdleHandler, HandlerStates
    <2> QED
      BY <1>2, <2>1, <2>2, HandlerStep
  <1>3. CASE handler' = [handler EXCEPT ![h] = [IdleHandler EXCEPT !.item = handler[h].item]]
    <2>1. [IdleHandler EXCEPT !.item = handler[h].item] \in HandlerStates
      BY <1>1 DEF IdleHandler, HandlerStates, HandlerPCs
    <2>2. [IdleHandler EXCEPT !.item = handler[h].item].pc \notin {"got", "upload", "retry"}
      BY DEF IdleHandler
    <2> QED
      BY <1>3, <2>1, <2>2, HandlerStep
  <1> QED
    BY <1>2, <1>3 DEF Save

\* The variables other than those of the threads
StoreType ==
  /\ upload_queue \subseteq Items /\ AthenadUploadQueue \subseteq Items
  /\ cancelled_uploads \subseteq Ids
  /\ end_event \in BOOLEAN /\ disconnects \in Nat /\ crashes \in Nat
  /\ accepted \subseteq Ids /\ finished \subseteq Ids /\ doomed \subseteq Ids
  /\ uploads \in [Ids -> Nat]

\* TypeOK is the types of the handlers, of the workers and of the store.
LEMMA TypeParts ==
  /\ TypeOK <=> StoreType /\ HandlerType /\ WorkerType
  /\ TypeOK' <=> StoreType' /\ HandlerType' /\ WorkerType'
  BY DEF TypeOK, StoreType, HandlerType, WorkerType, WorkerOK, Works

\* Finishing and retrying keep the histories' types.
LEMMA HistoryType ==
  ASSUME StoreType, NEW h \in Handlers, handler[h].item \in Items
  PROVE  /\ \A pc : Finish(h, pc) => finished' \subseteq Ids
         /\ [uploads EXCEPT ![handler[h].item.id] = @ + 1] \in [Ids -> Nat]
  <1>1. handler[h].item.id \in Ids
    BY DEF Items
  <1>3. [uploads EXCEPT ![handler[h].item.id] = @ + 1] \in [Ids -> Nat]
    BY <1>1 DEF StoreType
  <1>4. \A pc : Finish(h, pc) => finished' \subseteq Ids
    BY <1>1 DEF StoreType, Finish
  <1> QED
    BY <1>3, <1>4

\* What a handler does to queue and param keeps their types.
LEMMA HandlerStore == ASSUME TypeOK, NEW h \in Handlers, Handler(h) PROVE StoreType'
  <1> USE TypeParts
  <1>1. CASE Top(h)
    BY <1>1 DEF StoreType, Top, HandlerUnchanged, bounds
  <1>2. CASE Get(h)
    BY <1>2 DEF StoreType, Get, HandlerUnchanged, bounds
  <1>3. CASE Check(h)
    <2>1. handler[h].item \in Items
      BY <1>3 DEF HandlerType, Works, Check
    <2> QED
      BY <1>3, <2>1, HistoryType DEF StoreType, Check, HandlerUnchanged, bounds
  <1>4. CASE Upload(h)
    <2>1. handler[h].item \in Items
      BY <1>4 DEF HandlerType, Works, Upload
    <2> QED
      BY <1>4, <2>1, HistoryType DEF StoreType, Upload, HandlerUnchanged, bounds
  <1>5. CASE Retry(h)
    <2>1. handler[h].item \in Items /\ handler[h].count \in BOOLEAN
      BY <1>5 DEF HandlerType, HandlerStates, Works, Retry
    <2>2. MayRetry(handler[h].item) =>
            [handler[h].item EXCEPT !.retry_count = NewRetryCount(handler[h].item, handler[h].count)] \in Items
      BY <2>1, BoundsAssumption DEF MayRetry, NewRetryCount, Items
    <2> QED
      BY <1>5, <2>1, <2>2, HistoryType DEF StoreType, Retry, HandlerUnchanged, bounds
  <1>6. CASE ReadQueue(h)
    BY <1>6 DEF StoreType, ReadQueue, HandlerUnchanged, bounds
  <1>7. CASE Save(h)
    <2>1. handler[h].snapshot \subseteq Items
      BY DEF HandlerType, HandlerStates
    <2> QED
      BY <1>7, <2>1 DEF StoreType, Save, HandlerUnchanged, bounds
  <1> QED
    BY <1>1, <1>2, <1>3, <1>4, <1>5, <1>6, <1>7 DEF Handler

\* A handler's step is of its type.
LEMMA HandlerStepType == ASSUME TypeOK, NEW h \in Handlers, Handler(h) PROVE TypeOK'
  <1>1. HandlerType'
    BY TypeParts, TopType, GetType, CheckType, UploadType, RetryType, ReadQueueType, SaveType DEF Handler
  <1>2. worker' = worker
    BY DEF Handler, Top, Get, Check, Upload, Retry, ReadQueue, Save, HandlerUnchanged
  <1>3. WorkerType'
    BY <1>2, TypeParts DEF WorkerType
  <1> QED
    BY <1>1, <1>3, HandlerStore, TypeParts

\* What one step makes of a worker.
LEMMA WorkerStep ==
  ASSUME WorkerType, NEW w \in Workers, NEW r \in WorkerStates, WorkerOK(r),
         worker' = [worker EXCEPT ![w] = r]
  PROVE  WorkerType'
  BY DEF WorkerType

\* The states that a worker takes on.
LEMMA WorkerTypes ==
  LET Fits(r) == r \in WorkerStates /\ WorkerOK(r) IN
  /\ Fits(IdleWorker)
  /\ Fits([IdleWorker EXCEPT !.pc = "cache"])
  /\ \A id \in Ids : Fits([IdleWorker EXCEPT !.pc = "cancel", !.id = id])
  /\ \A url \in Urls : \A items \in SUBSET Items :
       Fits([IdleWorker EXCEPT !.pc = "list", !.url = url, !.items = items])
  BY DEF IdleWorker, WorkerStates, WorkerPCs, WorkerOK

\* The numbers of uploads: the next one is free until there are MaxItems.
LEMMA NextId ==
  ASSUME accepted \subseteq Ids
  PROVE  /\ Cardinality(accepted) \in Nat
         /\ Cardinality(accepted) < MaxItems => Cardinality(accepted) + 1 \in Ids
  <1>1. IsFiniteSet(Ids)
    BY FS_Interval, BoundsAssumption DEF Ids
  <1>2. Cardinality(accepted) \in Nat
    BY <1>1, FS_Subset, FS_CardinalityType
  <1> QED
    BY <1>2, BoundsAssumption DEF Ids

\* A call of the backend starts a worker.
LEMMA CallType == ASSUME TypeOK, NEW w \in Workers, Call(w) PROVE TypeOK'
  <1> USE TypeParts
  <1>1. WorkerType'
    <2>1. CASE Request(w)
      <3>1. PICK url \in Urls : worker' =
              [worker EXCEPT ![w] = [IdleWorker EXCEPT !.pc = "list", !.url = url, !.items = upload_queue]]
        BY <2>1 DEF Request
      <3> QED
        BY <3>1, WorkerTypes, WorkerStep DEF StoreType
    <2>2. CASE CancelUpload(w)
      <3>1. PICK item \in upload_queue :
              worker' = [worker EXCEPT ![w] = [IdleWorker EXCEPT !.pc = "cancel", !.id = item.id]]
        BY <2>2 DEF CancelUpload
      <3>2. item.id \in Ids
        BY DEF StoreType, Items
      <3> QED
        BY <3>1, <3>2, WorkerTypes, WorkerStep
    <2> QED
      BY <2>1, <2>2 DEF Call
  <1>2. StoreType' /\ handler' = handler
    BY DEF StoreType, Call, Request, CancelUpload, WorkerUnchanged, bounds
  <1>3. HandlerType'
    BY <1>2 DEF HandlerType, Works
  <1> QED
    BY <1>1, <1>2, <1>3

\* What a worker does for its call keeps every type.
LEMMA AnswerType == ASSUME TypeOK, NEW w \in Workers, Answer(w) PROVE TypeOK'
  <1> USE TypeParts
  <1>0. worker[w] \in WorkerStates /\ upload_queue \subseteq Items
    BY DEF WorkerType, StoreType
  <1>2. handler' = handler
    BY DEF Answer, List, Put, CacheRead, CacheSave, Cancel, WorkerUnchanged
  <1>3. HandlerType'
    BY <1>2 DEF HandlerType, Works
  <1>4. CASE List(w)
    <2>1. StoreType'
      BY <1>4 DEF StoreType, List, WorkerUnchanged, bounds
    <2>2. CASE worker' = [worker EXCEPT ![w] = [IdleWorker EXCEPT !.pc = "cache"]]
      BY <2>2, <2>1, <1>3, WorkerTypes, WorkerStep
    <2>3. CASE worker' = [worker EXCEPT ![w].pc = "put", ![w].items = {}]
      <3> DEFINE r == [worker[w] EXCEPT !.pc = "put", !.items = {}]
      <3>1. worker' = [worker EXCEPT ![w] = r]
        BY <2>3 DEF WorkerType, WorkerStates
      <3>2. r \in WorkerStates /\ r.pc = "put" /\ r.url = worker[w].url
        BY <1>0 DEF WorkerStates, WorkerPCs, WorkerOK
      <3>3. worker[w].url \in Urls
        BY <1>4 DEF List, WorkerType, WorkerOK
      <3> HIDE DEF r
      <3> QED
        BY <3>1, <3>2, <3>3, <2>1, <1>3, WorkerStep DEF WorkerOK
    <2> QED
      BY <1>4, <2>2, <2>3 DEF List
  <1>5. CASE Put(w)
    <2>1. WorkerType'
      BY <1>5, WorkerTypes, WorkerStep DEF Put
    <2>2. [id |-> Cardinality(accepted) + 1, url |-> worker[w].url, retry_count |-> 0] \in Items
      BY <1>5, NextId, BoundsAssumption DEF Put, Items, WorkerType, WorkerOK, StoreType
    <2>3. StoreType'
      BY <1>5, <2>2, NextId DEF Put, StoreType, WorkerUnchanged, bounds
    <2> QED
      BY <2>1, <2>3, <1>3
  <1>6. CASE CacheRead(w)
    <2> DEFINE r == [worker[w] EXCEPT !.pc = "save", !.items = Uncancelled(upload_queue)]
    <2>1. worker' = [worker EXCEPT ![w] = r]
      BY <1>6 DEF CacheRead, WorkerType, WorkerStates
    <2>2. r \in WorkerStates /\ WorkerOK(r)
      BY <1>0 DEF WorkerStates, WorkerPCs, Uncancelled, WorkerOK
    <2>3. StoreType'
      BY <1>6 DEF StoreType, CacheRead, WorkerUnchanged, bounds
    <2> HIDE DEF r
    <2> QED
      BY <2>1, <2>2, <2>3, <1>3, WorkerStep
  <1>7. CASE CacheSave(w)
    <2>1. worker[w].items \subseteq Items
      BY <1>0 DEF WorkerStates
    <2>2. StoreType'
      BY <1>7, <2>1 DEF StoreType, CacheSave, WorkerUnchanged, bounds
    <2>3. WorkerType'
      BY <1>7, WorkerTypes, WorkerStep DEF CacheSave
    <2> QED
      BY <2>2, <2>3, <1>3
  <1>8. CASE Cancel(w)
    <2>1. worker[w].id \in Ids
      BY <1>8 DEF Cancel, WorkerType, WorkerOK
    <2>2. StoreType'
      BY <1>8, <2>1 DEF StoreType, Cancel, WorkerUnchanged, bounds
    <2>3. WorkerType'
      BY <1>8, WorkerTypes, WorkerStep DEF Cancel
    <2> QED
      BY <2>2, <2>3, <1>3
  <1> QED
    BY <1>4, <1>5, <1>6, <1>7, <1>8 DEF Answer

\* An idle handler holds nothing.
LEMMA IdleTypes == IdleHandler \in HandlerStates /\ IdleHandler.pc \notin {"got", "upload", "retry"}
  BY DEF IdleHandler, HandlerStates, HandlerPCs

\* athenad starts with everything of its type.
LEMMA InitType == Init => TypeOK
  <1> SUFFICES ASSUME Init PROVE TypeOK
    OBVIOUS
  <1>1. StoreType
    BY DEF Init, StoreType
  <1>2. HandlerType
    BY IdleTypes DEF Init, HandlerType, Works
  <1>3. WorkerType
    BY WorkerTypes DEF Init, WorkerType
  <1> QED
    BY <1>1, <1>2, <1>3, TypeParts

\* A closed websocket, a reconnect and a crash keep every type.
LEMMA EnvironmentType ==
  ASSUME TypeOK, Disconnect \/ Reconnect \/ Crash
  PROVE  TypeOK'
  <1> USE TypeParts
  <1>1. CASE Disconnect
    BY <1>1 DEF Disconnect, StoreType, HandlerType, WorkerType, Works, history
  <1>2. CASE Reconnect
    <2>1. StoreType'
      BY <1>2 DEF Reconnect, Reload, StoreType, history, bounds
    <2>2. HandlerType'
      BY <1>2, IdleTypes DEF Reconnect, HandlerType, Works
    <2> QED
      BY <1>2, <2>1, <2>2 DEF Reconnect, WorkerType
  <1>3. CASE Crash
    <2>0. /\ finished' \subseteq accepted /\ crashes' = crashes + 1
          /\ upload_queue' = AthenadUploadQueue /\ cancelled_uploads' = {} /\ doomed' = {}
          /\ end_event' = FALSE
          /\ UNCHANGED <<AthenadUploadQueue, disconnects, accepted, uploads>>
      BY <1>3 DEF Crash
    <2>1. StoreType'
      <3>1. crashes' \in Nat /\ disconnects' \in Nat
        BY <2>0 DEF StoreType
      <3>2. uploads' \in [Ids -> Nat]
        BY <2>0 DEF StoreType
      <3>3. upload_queue' \subseteq Items /\ AthenadUploadQueue' \subseteq Items
        BY <2>0 DEF StoreType
      <3>4. accepted' \subseteq Ids /\ finished' \subseteq Ids /\ doomed' \subseteq Ids /\ cancelled_uploads' \subseteq Ids
        BY <2>0 DEF StoreType
      <3> QED
        BY <2>0, <3>1, <3>2, <3>3, <3>4 DEF StoreType
    <2>2. HandlerType'
      BY <1>3, IdleTypes DEF Crash, HandlerType, Works
    <2>3. WorkerType'
      BY <1>3, WorkerTypes DEF Crash, WorkerType
    <2> QED
      BY <2>1, <2>2, <2>3
  <1> QED
    BY <1>1, <1>2, <1>3

\* Every step keeps every type.
LEMMA NextType == TypeOK /\ [Next]_vars => TypeOK'
  <1> SUFFICES ASSUME TypeOK, [Next]_vars PROVE TypeOK'
    OBVIOUS
  <1>1. CASE UNCHANGED vars
    BY <1>1 DEF vars, history, bounds, TypeOK, Works
  <1> QED
    BY <1>1, HandlerStepType, CallType, AnswerType, EnvironmentType DEF Next

-----------------------------------------------------------------------------
\* Every variable keeps its type: no item passes the limit of retries, for any limit.
THEOREM TypeCorrect == Spec => []TypeOK
  BY InitType, NextType, PTL DEF Spec

-----------------------------------------------------------------------------
(* What a step means for the place of the uploads *)

Others(h) == \A g \in Handlers \ {h} : handler'[g] = handler[g]

Takes(h) ==
  /\ ~Works(h) /\ handler'[h].pc = "got" /\ Others(h)
  /\ handler'[h].item \in upload_queue
  /\ upload_queue' = upload_queue \ {handler'[h].item}
  /\ UNCHANGED <<accepted, finished>>

GivesBack(h) ==
  /\ Works(h) /\ ~Works(h)' /\ Others(h)
  /\ \E item \in Items : item.id = handler[h].item.id /\ upload_queue' = upload_queue \cup {item}
  /\ UNCHANGED <<accepted, finished>>

Ends(h) ==
  /\ Works(h) /\ ~Works(h)' /\ Others(h)
  /\ finished' = finished \cup {handler[h].item.id}
  /\ UNCHANGED <<upload_queue, accepted>>

Accepts ==
  /\ \E item \in Items :
       /\ item.id = Cardinality(accepted) + 1
       /\ upload_queue' = upload_queue \cup {item}
       /\ accepted' = accepted \cup {item.id}
  /\ UNCHANGED <<handler, finished>>

\* No upload changes its place.
Rests ==
  /\ \A h \in Handlers : (Works(h)' <=> Works(h)) /\ (Works(h) => handler'[h].item = handler[h].item)
  /\ UNCHANGED <<upload_queue, accepted, finished>>

\* One handler goes on, working or not as before.
LEMMA RestsOne ==
  ASSUME HandlerType, NEW h \in Handlers, Others(h),
         Works(h)' <=> Works(h), Works(h) => handler'[h].item = handler[h].item,
         UNCHANGED <<upload_queue, accepted, finished>>
  PROVE  Rests
  BY DEF Rests, Others, Works

\* A handler that finishes its item ends the upload and no other.
LEMMA FinishEnds ==
  ASSUME HandlerType, NEW h \in Handlers, NEW pc \in {"top", "cache"}, Works(h), Finish(h, pc),
         UNCHANGED <<upload_queue, accepted>>
  PROVE  Ends(h)
  <1>1. handler' = [handler EXCEPT ![h] = [IdleHandler EXCEPT !.pc = pc, !.item = handler[h].item]]
    BY DEF Finish
  <1>2. [IdleHandler EXCEPT !.pc = pc, !.item = handler[h].item].pc = pc
    BY DEF IdleHandler
  <1>3. handler'[h].pc = pc /\ Others(h)
    BY <1>1, <1>2 DEF HandlerType, Others
  <1> QED
    BY <1>3 DEF Ends, Finish, Works

\* Going on to retry_upload moves no upload.
LEMMA GoRetryRests ==
  ASSUME HandlerType, NEW h \in Handlers, NEW count, NEW then, Works(h), GoRetry(h, count, then),
         UNCHANGED <<upload_queue, accepted, finished>>
  PROVE  Rests
  <1>1. handler[h] \in HandlerStates
    BY DEF HandlerType
  <1>2. handler' = [handler EXCEPT ![h] = [handler[h] EXCEPT !.pc = "retry", !.count = count, !.then = then]]
    BY <1>1 DEF GoRetry, HandlerType, HandlerStates
  <1>3. handler'[h].pc = "retry" /\ handler'[h].item = handler[h].item /\ Others(h)
    BY <1>1, <1>2 DEF HandlerType, HandlerStates, Others
  <1> QED
    BY <1>3, RestsOne DEF Works

\* A handler's step is its own.
LEMMA HandlerFrame ==
  ASSUME TypeOK, NEW h \in Handlers, Handler(h)
  PROVE  Others(h)
  BY DEF TypeOK, Others, Handler, Top, Get, Check, Upload, Retry, ReadQueue, Save, Go, GoRetry, Finish

\* A handler takes an item, gives it back, ends it, or leaves every upload where it is.
LEMMA HandlerKinds ==
  ASSUME TypeOK, NEW h \in Handlers, Handler(h)
  PROVE  Takes(h) \/ GivesBack(h) \/ Ends(h) \/ Rests
  <1>0. HandlerType /\ handler[h] \in HandlerStates
    BY TypeParts DEF HandlerType
  <1>1. CASE Top(h)
    <2>1. handler' = [handler EXCEPT ![h] = [handler[h] EXCEPT
                         !.pc = IF end_event THEN "ended" ELSE "get", !.item = IF end_event THEN @ ELSE NoItem]]
      BY <1>0, <1>1 DEF Top, HandlerType, HandlerStates
    <2>2. ~Works(h) /\ ~Works(h)' /\ Others(h)
      BY <1>0, <1>1, <2>1 DEF Top, HandlerType, HandlerStates, Works, Others
    <2> QED
      BY <1>0, <1>1, <2>2, RestsOne DEF Top, HandlerUnchanged
  <1>2. CASE Get(h)
    <2>1. CASE Go(h, "top") /\ UNCHANGED upload_queue
      <3>1. handler' = [handler EXCEPT ![h] = [handler[h] EXCEPT !.pc = "top"]]
        BY <2>1, <1>0 DEF Go, HandlerType, HandlerStates
      <3>2. ~Works(h) /\ ~Works(h)' /\ Others(h)
        BY <1>0, <1>2, <3>1 DEF Get, HandlerType, HandlerStates, Works, Others
      <3> QED
        BY <1>0, <1>2, <2>1, <3>2, RestsOne DEF Get, HandlerUnchanged
    <2>2. ASSUME NEW item \in upload_queue, upload_queue' = upload_queue \ {item},
                 handler' = [handler EXCEPT ![h].pc = "got", ![h].item = item]
          PROVE  Takes(h)
      <3>1. handler' = [handler EXCEPT ![h] = [handler[h] EXCEPT !.pc = "got", !.item = item]]
        BY <2>2, <1>0 DEF HandlerType, HandlerStates
      <3>2. handler'[h].pc = "got" /\ handler'[h].item = item /\ Others(h)
        BY <1>0, <3>1 DEF HandlerType, HandlerStates, Others
      <3> QED
        BY <1>2, <2>2, <3>2 DEF Takes, Get, Works, HandlerUnchanged
    <2> QED
      BY <1>2, <2>1, <2>2 DEF Get
  <1>3. CASE Check(h)
    <2>1. Works(h) /\ UNCHANGED <<upload_queue, accepted>>
      BY <1>3 DEF Check, Works, HandlerUnchanged
    <2>2. CASE Go(h, "upload") /\ UNCHANGED finished
      <3>1. handler' = [handler EXCEPT ![h] = [handler[h] EXCEPT !.pc = "upload"]]
        BY <2>2, <1>0 DEF Go, HandlerType, HandlerStates
      <3>2. handler'[h].pc = "upload" /\ handler'[h].item = handler[h].item /\ Others(h)
        BY <1>0, <3>1 DEF HandlerType, HandlerStates, Others
      <3> QED
        BY <1>0, <2>1, <2>2, <3>2, RestsOne DEF Works
    <2>3. CASE Finish(h, "top")
      BY <1>0, <2>1, <2>3, FinishEnds
    <2>4. CASE GoRetry(h, FALSE, "top") /\ UNCHANGED finished
      BY <1>0, <2>1, <2>4, GoRetryRests
    <2> QED
      BY <1>3, <2>2, <2>3, <2>4 DEF Check
  <1>4. CASE Upload(h)
    <2>1. Works(h) /\ UNCHANGED <<upload_queue, accepted>>
      BY <1>4 DEF Upload, Works, HandlerUnchanged
    <2>2. CASE Finish(h, "cache") \/ Finish(h, "top")
      BY <1>0, <2>1, <2>2, FinishEnds
    <2>3. CASE (\E count, then : GoRetry(h, count, then)) /\ UNCHANGED finished
      BY <1>0, <2>1, <2>3, GoRetryRests
    <2> QED
      BY <1>4, <2>2, <2>3 DEF Upload
  <1>5. CASE Retry(h)
    <2>1. Works(h) /\ handler[h].item \in Items /\ handler[h].count \in BOOLEAN /\ handler[h].then \in {"top", "cache"}
      BY <1>5, <1>0 DEF Retry, Works, HandlerType, HandlerStates
    <2>2. CASE MayRetry(handler[h].item)
      <3>1. handler' = [handler EXCEPT ![h] = [handler[h] EXCEPT !.pc = "retryCache", !.count = FALSE]]
        BY <1>5, <2>2, <1>0 DEF Retry, HandlerType, HandlerStates
      <3>2. handler'[h].pc = "retryCache" /\ Others(h)
        BY <1>0, <3>1 DEF HandlerType, HandlerStates, Others
      <3> DEFINE item == [handler[h].item EXCEPT
                            !.retry_count = NewRetryCount(handler[h].item, handler[h].count)]
      <3>3. item \in Items /\ item.id = handler[h].item.id
        BY <2>1, <2>2, BoundsAssumption DEF MayRetry, NewRetryCount, Items
      <3>4. upload_queue' = upload_queue \cup {item} /\ UNCHANGED <<accepted, finished>>
        BY <1>5, <2>2 DEF Retry, HandlerUnchanged
      <3> HIDE DEF item
      <3> QED
        BY <2>1, <3>2, <3>3, <3>4 DEF GivesBack, Works
    <2>3. CASE ~MayRetry(handler[h].item)
      <3>1. Finish(h, handler[h].then) /\ UNCHANGED <<upload_queue, accepted>>
        BY <1>5, <2>3 DEF Retry, HandlerUnchanged
      <3> QED
        BY <1>0, <2>1, <3>1, FinishEnds
    <2> QED
      BY <2>2, <2>3
  <1>6. CASE ReadQueue(h)
    <2>1. PICK p \in {<<"retryCache", "retrySave">>, <<"cache", "save">>} :
            /\ handler[h].pc = p[1]
            /\ handler' = [handler EXCEPT ![h].pc = p[2], ![h].snapshot = Uncancelled(upload_queue)]
      BY <1>6 DEF ReadQueue
    <2>2. handler' = [handler EXCEPT ![h] =
                        [handler[h] EXCEPT !.pc = p[2], !.snapshot = Uncancelled(upload_queue)]]
      BY <1>0, <2>1 DEF HandlerType, HandlerStates
    <2>3. handler'[h].pc = p[2] /\ Others(h)
      BY <1>0, <2>2 DEF HandlerType, HandlerStates, Others
    <2>4. ~Works(h) /\ ~Works(h)'
      BY <2>1, <2>3 DEF Works
    <2> QED
      BY <1>0, <1>6, <2>3, <2>4, RestsOne DEF ReadQueue, HandlerUnchanged
  <1>7. CASE Save(h)
    <2>1. CASE handler' = [handler EXCEPT ![h] = [IdleHandler EXCEPT !.pc = handler[h].then]]
      <3>1. [IdleHandler EXCEPT !.pc = handler[h].then].pc \in {"top", "cache"}
        BY <1>0 DEF IdleHandler, HandlerStates
      <3> QED
        BY <1>0, <1>7, <2>1, <3>1, RestsOne DEF Save, HandlerUnchanged, HandlerType, Works, Others
    <2>2. CASE handler' = [handler EXCEPT ![h] = [IdleHandler EXCEPT !.item = handler[h].item]]
      <3>1. [IdleHandler EXCEPT !.item = handler[h].item].pc = "top"
        BY DEF IdleHandler
      <3> QED
        BY <1>0, <1>7, <2>2, <3>1, RestsOne DEF Save, HandlerUnchanged, HandlerType, Works, Others
    <2> QED
      BY <1>7, <2>1, <2>2 DEF Save
  <1> QED
    BY <1>1, <1>2, <1>3, <1>4, <1>5, <1>6, <1>7 DEF Handler

\* A worker accepts one upload, or moves none.
LEMMA WorkerKinds ==
  ASSUME TypeOK, NEW w \in Workers, Call(w) \/ Answer(w)
  PROVE  Accepts \/ (Rests /\ UNCHANGED handler)
  <1>1. CASE Put(w)
    <2> DEFINE item == [id |-> Cardinality(accepted) + 1, url |-> worker[w].url, retry_count |-> 0]
    <2>1. item \in Items
      BY <1>1, NextId, BoundsAssumption DEF Put, Items, TypeOK
    <2>2. item.id = Cardinality(accepted) + 1
      OBVIOUS
    <2>3. /\ upload_queue' = upload_queue \cup {item} /\ accepted' = accepted \cup {Cardinality(accepted) + 1}
          /\ UNCHANGED <<handler, finished>>
      BY <1>1 DEF Put, WorkerUnchanged
    <2> HIDE DEF item
    <2> QED
      BY <2>1, <2>2, <2>3 DEF Accepts
  <1>2. CASE Call(w) \/ List(w) \/ CacheRead(w) \/ CacheSave(w) \/ Cancel(w)
    <2>1. UNCHANGED <<handler, upload_queue, accepted, finished>>
      BY <1>2 DEF Call, Request, CancelUpload, List, CacheRead, CacheSave, Cancel, WorkerUnchanged
    <2> QED
      BY <2>1 DEF Rests, Works
  <1> QED
    BY <1>1, <1>2 DEF Answer

\* A disconnection moves nothing; a reconnection finds every handler at its end.
LEMMA SocketKinds == ASSUME TypeOK, Disconnect \/ Reconnect PROVE Rests
  <1>1. CASE Disconnect
    BY <1>1 DEF Disconnect, Rests, Works, history
  <1>2. CASE Reconnect
    BY <1>2, IdleTypes DEF Reconnect, Reload, Rests, Works, history
  <1> QED
    BY <1>1, <1>2

-----------------------------------------------------------------------------
(* OnePlace is not inductive: a restart takes the queue from the param, which is somebody's *)
(* snapshot of it, and a new upload must get a number that no other has.                    *)

Unique(items) == \A i, j \in items : i.id = j.id => i = j
Known(items)  == Unique(items) /\ \A i \in items : i.id \in accepted

Numbered == accepted = 1..Cardinality(accepted)

Snapshots ==
  /\ Known(AthenadUploadQueue)
  /\ \A h \in Handlers : Known(handler[h].snapshot)
  /\ \A w \in Workers : Known(worker[w].items)

Placed ==
  /\ Known(upload_queue)
  /\ \A h \in Handlers : Works(h) => handler[h].item.id \in accepted
  /\ finished \subseteq accepted
  /\ OnePlace

Inv == TypeOK /\ Numbered /\ Snapshots /\ Placed

\* What is part of known items is known.
LEMMA KnownSubset ==
  ASSUME NEW S, NEW T \in SUBSET S, Known(S)
  PROVE  Known(T)
  BY DEF Known, Unique

\* What is known stays so.
LEMMA KnownGrows ==
  ASSUME NEW S, Known(S), accepted \subseteq accepted'
  PROVE  Unique(S) /\ \A i \in S : i.id \in accepted'
  BY DEF Known, Unique

\* Taking an upload keeps every one in one place.
LEMMA TakesPlaced ==
  ASSUME TypeOK, Placed, NEW h \in Handlers, Takes(h)
  PROVE  Placed'
  <1> DEFINE item == handler'[h].item
  <1>1. item \in upload_queue /\ item.id \in accepted /\ item.id \in Ids /\ item.id \notin finished
    BY DEF Takes, TypeOK, Items, Placed, Known, OnePlace, Queued
  <1>2. \A g \in Handlers : ~Holds(g, item.id)
    BY <1>1 DEF Placed, OnePlace, Queued, Held
  <1>3. \A g \in Handlers : \A id \in Ids : Holds(g, id)' <=> Holds(g, id) \/ (g = h /\ id = item.id)
    BY DEF Takes, Holds, Works, Others
  <1>4. \A id \in Ids : Queued(id)' <=> Queued(id) /\ id # item.id
    BY <1>1 DEF Takes, Queued, Placed, OnePlace
  <1>5. Known(upload_queue)'
    BY DEF Takes, Placed, Known, Unique
  <1>6. \A g \in Handlers : Works(g)' => handler'[g].item.id \in accepted'
    BY <1>1 DEF Takes, Placed, Works, Others
  <1>7. OnePlace'
    <2>1. \A i, j \in upload_queue' : i.id = j.id => i = j
      BY DEF Takes, Placed, OnePlace
    <2>2. \A f, g \in Handlers : \A id \in Ids : Holds(f, id)' /\ Holds(g, id)' => f = g
      BY <1>2, <1>3 DEF Placed, OnePlace
    <2>3. \A id \in accepted' : IF id \in finished' THEN ~Queued(id)' /\ ~Held(id)' ELSE Queued(id)' <=> ~Held(id)'
      <3> SUFFICES ASSUME NEW id \in accepted
                   PROVE  IF id \in finished THEN ~Queued(id)' /\ ~Held(id)' ELSE Queued(id)' <=> ~Held(id)'
        BY DEF Takes
      <3>1. id \in Ids
        BY DEF TypeOK
      <3>2. Held(id)' <=> Held(id) \/ id = item.id
        BY <3>1, <1>3 DEF Held
      <3>3. Queued(item.id) /\ ~Held(item.id)
        BY <1>1, <1>2 DEF Queued, Held
      <3> HIDE DEF item
      <3> QED
        BY <3>1, <3>2, <3>3, <1>1, <1>4 DEF Placed, OnePlace
    <2> QED
      BY <2>1, <2>2, <2>3 DEF OnePlace
  <1> QED
    BY <1>5, <1>6, <1>7 DEF Placed, Takes

\* So does giving it back.
LEMMA GivesBackPlaced ==
  ASSUME TypeOK, Placed, NEW h \in Handlers, GivesBack(h)
  PROVE  Placed'
  <1> PICK item \in Items : item.id = handler[h].item.id /\ upload_queue' = upload_queue \cup {item}
    BY DEF GivesBack
  <1>1. item.id \in Ids /\ item.id \in accepted /\ Holds(h, item.id)
    BY DEF GivesBack, Placed, Holds, Items
  <1>2. ~Queued(item.id) /\ item.id \notin finished /\ \A g \in Handlers : Holds(g, item.id) => g = h
    BY <1>1 DEF Placed, OnePlace, Held
  <1>3. \A g \in Handlers : \A id \in Ids : Holds(g, id)' <=> Holds(g, id) /\ g # h
    BY DEF GivesBack, Holds, Works, Others
  <1>4. \A id \in Ids : Queued(id)' <=> Queued(id) \/ id = item.id
    BY DEF Queued
  <1>5. Known(upload_queue)'
    BY <1>1, <1>2 DEF GivesBack, Placed, Known, Unique, Queued
  <1>6. \A g \in Handlers : Works(g)' => handler'[g].item.id \in accepted'
    BY DEF GivesBack, Placed, Works, Others
  <1>7. OnePlace'
    <2>1. \A i, j \in upload_queue' : i.id = j.id => i = j
      BY <1>5 DEF Known, Unique
    <2>2. \A f, g \in Handlers : \A id \in Ids : Holds(f, id)' /\ Holds(g, id)' => f = g
      BY <1>3 DEF Placed, OnePlace
    <2>3. ASSUME NEW id \in accepted
          PROVE  IF id \in finished THEN ~Queued(id)' /\ ~Held(id)' ELSE Queued(id)' <=> ~Held(id)'
      <3>1. id \in Ids
        BY DEF TypeOK
      <3>2. Held(id)' <=> Held(id) /\ id # item.id
        <4>1. CASE id = item.id
          BY <4>1, <3>1, <1>2, <1>3 DEF Held
        <4>2. CASE id # item.id
          <5>1. ~Holds(h, id)
            BY <4>2 DEF Holds
          <5> QED
            BY <4>2, <5>1, <3>1, <1>3 DEF Held
        <4> QED
          BY <4>1, <4>2
      <3> QED
        BY <3>1, <3>2, <1>2, <1>4 DEF Placed, OnePlace
    <2> QED
      BY <2>1, <2>2, <2>3 DEF OnePlace, GivesBack
  <1> QED
    BY <1>5, <1>6, <1>7 DEF Placed, GivesBack

\* So does ending it.
LEMMA EndsPlaced ==
  ASSUME TypeOK, Placed, NEW h \in Handlers, Ends(h)
  PROVE  Placed'
  <1> DEFINE ended == handler[h].item.id
  <1>1. ended \in accepted /\ Holds(h, ended) /\ finished' = finished \cup {ended} /\ ended \in Ids
    BY DEF Ends, Placed, Holds, TypeOK
  <1>2. ~Queued(ended) /\ \A g \in Handlers : Holds(g, ended) => g = h
    BY <1>1 DEF Placed, OnePlace, Held
  <1>3. \A g \in Handlers : \A id \in Ids : Holds(g, id)' <=> Holds(g, id) /\ g # h
    BY DEF Ends, Holds, Works, Others
  <1>4. \A id \in Ids : Queued(id)' <=> Queued(id)
    BY DEF Ends, Queued
  <1>5. Known(upload_queue)'
    BY DEF Ends, Placed, Known, Unique
  <1>6. \A g \in Handlers : Works(g)' => handler'[g].item.id \in accepted'
    BY DEF Ends, Placed, Works, Others
  <1>7. OnePlace'
    <2>1. \A i, j \in upload_queue' : i.id = j.id => i = j
      BY <1>5 DEF Known, Unique
    <2>2. \A f, g \in Handlers : \A id \in Ids : Holds(f, id)' /\ Holds(g, id)' => f = g
      BY <1>3 DEF Placed, OnePlace
    <2>3. ASSUME NEW id \in accepted
          PROVE  IF id \in finished' THEN ~Queued(id)' /\ ~Held(id)' ELSE Queued(id)' <=> ~Held(id)'
      <3>1. id \in Ids
        BY DEF TypeOK
      <3>2. Held(id)' <=> Held(id) /\ id # ended
        <4>1. CASE id = ended
          BY <4>1, <3>1, <1>2, <1>3 DEF Held
        <4>2. CASE id # ended
          <5>1. ~Holds(h, id)
            BY <4>2 DEF Holds
          <5> QED
            BY <4>2, <5>1, <3>1, <1>3 DEF Held
        <4> QED
          BY <4>1, <4>2
      <3> HIDE DEF ended
      <3> QED
        BY <3>1, <3>2, <1>1, <1>2, <1>4 DEF Placed, OnePlace
    <2> QED
      BY <2>1, <2>2, <2>3 DEF OnePlace, Ends
  <1> QED
    BY <1>1, <1>5, <1>6, <1>7 DEF Placed, Ends

\* The next number is above all that have been given.
LEMMA NextIdNew == ASSUME TypeOK, Numbered PROVE Cardinality(accepted) + 1 \notin accepted
  BY NextId DEF Numbered, TypeOK

\* So does accepting it, because its id is new.
LEMMA AcceptsPlaced ==
  ASSUME TypeOK, Numbered, Placed, Accepts
  PROVE  Placed'
  <1> PICK item \in Items : /\ item.id = Cardinality(accepted) + 1
                            /\ upload_queue' = upload_queue \cup {item}
                            /\ accepted' = accepted \cup {item.id}
    BY DEF Accepts
  <1>1. item.id \in Ids /\ item.id \notin accepted
    BY NextIdNew DEF Items
  <1>2. ~Queued(item.id) /\ ~Held(item.id) /\ item.id \notin finished
    BY <1>1 DEF Placed, Known, Queued, Held, Holds
  <1>3. \A id \in Ids : (Queued(id)' <=> Queued(id) \/ id = item.id) /\ (Held(id)' <=> Held(id))
    BY DEF Queued, Held, Holds, Works, Accepts
  <1>4. Known(upload_queue)'
    BY <1>1 DEF Placed, Known, Unique
  <1>5. \A g \in Handlers : Works(g)' => handler'[g].item.id \in accepted'
    BY DEF Accepts, Placed, Works
  <1>6. OnePlace'
    <2>1. \A i, j \in upload_queue' : i.id = j.id => i = j
      BY <1>4 DEF Known, Unique
    <2>2. \A f, g \in Handlers : \A id \in Ids : Holds(f, id)' /\ Holds(g, id)' => f = g
      BY DEF Placed, OnePlace, Holds, Works, Accepts
    <2>3. ASSUME NEW id \in accepted'
          PROVE  IF id \in finished THEN ~Queued(id)' /\ ~Held(id)' ELSE Queued(id)' <=> ~Held(id)'
      <3>1. id \in Ids /\ (id \in accepted \/ id = item.id)
        BY <1>1 DEF TypeOK
      <3> QED
        BY <3>1, <1>1, <1>2, <1>3 DEF Placed, OnePlace
    <2> QED
      BY <2>1, <2>2, <2>3 DEF OnePlace, Accepts
  <1> QED
    BY <1>4, <1>5, <1>6 DEF Placed, Accepts

\* So does what moves none.
LEMMA RestsPlaced == ASSUME Placed, Rests PROVE Placed'
  <1>1. \A id : (Queued(id)' <=> Queued(id)) /\ \A h \in Handlers : Holds(h, id)' <=> Holds(h, id)
    BY DEF Rests, Queued, Holds, Works
  <1>2. \A id : Held(id)' <=> Held(id)
    BY <1>1 DEF Held
  <1>3. OnePlace'
    BY <1>1, <1>2 DEF Rests, Placed, OnePlace
  <1>4. \A h \in Handlers : Works(h)' => handler'[h].item.id \in accepted'
    BY DEF Rests, Placed, Works
  <1> QED
    BY <1>3, <1>4 DEF Rests, Placed, Known, Unique

\* A handler's snapshot is the one it had, empty, or the queue as it is now.
LEMMA HandlerSnapshot ==
  ASSUME HandlerType, NEW h \in Handlers, Handler(h), NEW g \in Handlers
  PROVE  handler'[g].snapshot \in {handler[g].snapshot, {}, Uncancelled(upload_queue)}
  <1>0. handler[g] \in HandlerStates /\ handler[h] \in HandlerStates
    BY DEF HandlerType
  <1>1. CASE Top(h)
    BY <1>0, <1>1 DEF Top, HandlerType, HandlerStates
  <1>2. \A pc : Finish(h, pc) => handler'[g].snapshot \in {handler[g].snapshot, {}}
    <2> SUFFICES ASSUME NEW pc, Finish(h, pc) PROVE handler'[g].snapshot \in {handler[g].snapshot, {}}
      OBVIOUS
    <2> DEFINE r == [IdleHandler EXCEPT !.pc = pc, !.item = handler[h].item]
    <2>1. handler' = [handler EXCEPT ![h] = r]
      BY DEF Finish
    <2>2. r.snapshot = {}
      BY DEF IdleHandler
    <2> HIDE DEF r
    <2> QED
      BY <2>1, <2>2 DEF HandlerType
  <1>3. \A pc : Go(h, pc) => handler'[g].snapshot = handler[g].snapshot
    BY <1>0 DEF Go, HandlerType, HandlerStates
  <1>4. \A count, then : GoRetry(h, count, then) => handler'[g].snapshot = handler[g].snapshot
    BY <1>0 DEF GoRetry, HandlerType, HandlerStates
  <1>5. CASE Get(h)
    <2>1. CASE Go(h, "top")
      BY <1>3, <2>1
    <2>2. ASSUME NEW item \in upload_queue, handler' = [handler EXCEPT ![h].pc = "got", ![h].item = item]
          PROVE  handler'[g].snapshot = handler[g].snapshot
      BY <1>0, <2>2 DEF HandlerType, HandlerStates
    <2> QED
      BY <1>5, <2>1, <2>2 DEF Get
  <1>6. CASE Check(h)
    BY <1>2, <1>3, <1>4, <1>6 DEF Check
  <1>7. CASE Upload(h)
    BY <1>2, <1>4, <1>7 DEF Upload
  <1>8. CASE Retry(h)
    <2>1. CASE handler' = [handler EXCEPT ![h].pc = "retryCache", ![h].count = FALSE]
      BY <1>0, <2>1 DEF HandlerType, HandlerStates
    <2> QED
      BY <1>2, <1>8, <2>1 DEF Retry
  <1>9. CASE ReadQueue(h)
    <2>1. PICK p : handler' = [handler EXCEPT ![h].pc = p, ![h].snapshot = Uncancelled(upload_queue)]
      BY <1>9 DEF ReadQueue
    <2> QED
      BY <1>0, <2>1 DEF HandlerType, HandlerStates
  <1>10. CASE Save(h)
    BY <1>0, <1>10 DEF Save, IdleHandler, HandlerType
  <1> QED
    BY <1>1, <1>5, <1>6, <1>7, <1>8, <1>9, <1>10 DEF Handler

\* The queue is known, and what is left of it after cancelling too.
LEMMA KnownQueue == ASSUME Placed PROVE Known(Uncancelled(upload_queue)) /\ Known(upload_queue) /\ Known({})
  BY DEF Placed, Known, Unique, Uncancelled

\* A snapshot stays one of uploads that were accepted, each once.
LEMMA HandlerSnapshots ==
  ASSUME Inv, NEW h \in Handlers, Handler(h)
  PROVE  Snapshots'
  <1>1. UNCHANGED <<accepted, worker>>
    BY DEF Handler, Top, Get, Check, Upload, Retry, ReadQueue, Save, HandlerUnchanged
  <1>2. \A g \in Handlers : Known(handler'[g].snapshot)
    BY HandlerSnapshot, KnownQueue, TypeParts DEF Inv, Snapshots
  <1>3. AthenadUploadQueue' \in {AthenadUploadQueue, handler[h].snapshot}
    BY DEF Handler, Top, Get, Check, Upload, Retry, ReadQueue, Save
  <1>4. Known(AthenadUploadQueue')
    BY <1>3 DEF Inv, Snapshots
  <1> QED
    BY <1>1, <1>2, <1>4 DEF Snapshots, Inv, Known

\* The snapshots of workers are known.
LEMMA WorkerSnapshots ==
  ASSUME Inv, NEW w \in Workers, Call(w) \/ Answer(w)
  PROVE  Snapshots'
  <1>1. UNCHANGED handler /\ accepted \subseteq accepted'
    <2>1. CASE Call(w)
      BY <2>1 DEF Call, Request, CancelUpload, WorkerUnchanged, IdleWorker
    <2>2. CASE List(w) \/ CacheRead(w) \/ CacheSave(w) \/ Cancel(w)
      BY <2>2 DEF List, CacheRead, CacheSave, Cancel, WorkerUnchanged
    <2>3. CASE Put(w)
      BY <2>3 DEF Put, WorkerUnchanged
    <2> QED
      BY <2>1, <2>2, <2>3 DEF Answer
  <1>2. AthenadUploadQueue' \in {AthenadUploadQueue, worker[w].items}
    <2>1. CASE Call(w)
      BY <2>1 DEF Call, Request, CancelUpload, IdleWorker
    <2>2. CASE Answer(w)
      BY <2>2 DEF Answer, List, Put, CacheRead, CacheSave, Cancel
    <2> QED
      BY <2>1, <2>2
  <1>3. \A v \in Workers : worker'[v].items \in {worker[v].items, {}, upload_queue, Uncancelled(upload_queue)}
    <2> TAKE v \in Workers
    <2>0. worker \in [Workers -> WorkerStates] /\ worker[v] \in WorkerStates /\ worker[w] \in WorkerStates
      BY TypeParts DEF Inv, WorkerType
    <2>1. CASE Request(w)
      BY <2>0, <2>1 DEF Request, IdleWorker
    <2>2. CASE CancelUpload(w)
      BY <2>0, <2>2 DEF CancelUpload, IdleWorker
    <2>3. CASE List(w)
      BY <2>0, <2>3 DEF List, IdleWorker, WorkerStates
    <2>4. CASE CacheRead(w)
      BY <2>0, <2>4 DEF CacheRead, WorkerStates
    <2>5. CASE Put(w)
      BY <2>0, <2>5 DEF Put, IdleWorker
    <2>6. CASE CacheSave(w) \/ Cancel(w)
      BY <2>0, <2>6 DEF CacheSave, Cancel, IdleWorker
    <2> QED
      BY <2>1, <2>2, <2>3, <2>4, <2>5, <2>6 DEF Call, Answer
  <1>4. \A v \in Workers : Known(worker'[v].items)
    BY <1>3, KnownQueue DEF Inv, Snapshots
  <1>5. Known(AthenadUploadQueue')
    BY <1>2 DEF Inv, Snapshots
  <1> QED
    BY <1>1, <1>4, <1>5 DEF Snapshots, Inv, Known

\* The accepted ids are the first numbers, so that the next one is new (a hash in the code).
LEMMA NumberedStep ==
  ASSUME TypeOK, Numbered, Accepts
  PROVE  Numbered'
  <1>1. accepted' = accepted \cup {Cardinality(accepted) + 1}
    BY DEF Accepts
  <1>2. Cardinality(accepted) \in Nat
    BY NextId DEF TypeOK
  <1>3. accepted' = 1..(Cardinality(accepted) + 1)
    BY <1>1, <1>2 DEF Numbered
  <1>4. Cardinality(1..(Cardinality(accepted) + 1)) = Cardinality(accepted) + 1
    BY <1>2, FS_Interval
  <1> QED
    BY <1>3, <1>4 DEF Numbered

\* After a restart everything is in the queue, or lost and done with.
LEMMA CrashInv == ASSUME Inv, Crash PROVE Snapshots' /\ Placed' /\ Numbered'
  <1>1. /\ upload_queue' = AthenadUploadQueue
        /\ finished' = accepted \ {i.id : i \in AthenadUploadQueue}
        /\ UNCHANGED <<accepted, AthenadUploadQueue>>
    BY DEF Crash
  <1>2. \A h \in Handlers : ~Works(h)' /\ handler'[h].snapshot = {}
    BY DEF Crash, IdleHandler, Works
  <1>3. \A w \in Workers : worker'[w].items = {}
    BY DEF Crash, IdleWorker
  <1>4. Known(AthenadUploadQueue)
    BY DEF Inv, Snapshots
  <1>5. Snapshots'
    BY <1>1, <1>2, <1>3, <1>4 DEF Snapshots, Known, Unique
  <1>6. OnePlace'
    BY <1>1, <1>2, <1>4 DEF OnePlace, Known, Unique, Queued, Held, Holds
  <1>7. Placed'
    BY <1>1, <1>2, <1>4, <1>6 DEF Placed, Known, Unique
  <1> QED
    BY <1>1, <1>5, <1>7 DEF Inv, Numbered

\* athenad starts with an empty queue.
LEMMA InitInv == Init => Inv
  <1> SUFFICES ASSUME Init PROVE Inv
    OBVIOUS
  <1>1. Snapshots /\ Placed
    BY DEF Init, IdleHandler, IdleWorker, Snapshots, Placed, Known, Unique, OnePlace, Works, Queued, Held, Holds
  <1>2. Numbered
    BY FS_EmptySet DEF Init, Numbered
  <1> QED
    BY <1>1, <1>2, InitType DEF Inv

\* Every step preserves the invariant.
LEMMA NextInv == Inv /\ [Next]_vars => Inv'
  <1> SUFFICES ASSUME Inv, [Next]_vars PROVE Inv'
    OBVIOUS
  <1>0. TypeOK'
    BY NextType DEF Inv
  <1>1. CASE UNCHANGED vars
    <2>1. UNCHANGED <<upload_queue, AthenadUploadQueue, handler, worker, accepted, finished>>
      BY <1>1 DEF vars, history
    <2> QED
      BY <2>1, <1>0 DEF Inv, Numbered, Snapshots, Placed, Known, Unique, OnePlace, Queued, Held, Holds, Works
  <1>2. ASSUME NEW h \in Handlers, Handler(h) PROVE Inv'
    <2>1. Placed'
      BY <1>2, HandlerKinds, TakesPlaced, GivesBackPlaced, EndsPlaced, RestsPlaced DEF Inv
    <2>2. Snapshots'
      BY <1>2, HandlerSnapshots
    <2>3. accepted' = accepted
      BY <1>2 DEF Handler, Top, Get, Check, Upload, Retry, ReadQueue, Save, HandlerUnchanged
    <2> QED
      BY <1>0, <2>1, <2>2, <2>3 DEF Inv, Numbered
  <1>3. ASSUME NEW w \in Workers, Call(w) \/ Answer(w) PROVE Inv'
    <2>1. Snapshots'
      BY <1>3, WorkerSnapshots
    <2>2. Placed' /\ Numbered'
      BY <1>3, WorkerKinds, AcceptsPlaced, RestsPlaced, NumberedStep DEF Inv, Rests, Numbered
    <2> QED
      BY <1>0, <2>1, <2>2 DEF Inv
  <1>4. CASE Disconnect \/ Reconnect
    <2>1. UNCHANGED <<AthenadUploadQueue, worker, accepted>>
      BY <1>4 DEF Disconnect, Reconnect, history
    <2>2. Placed'
      BY <1>4, SocketKinds, RestsPlaced DEF Inv
    <2>3. \A h \in Handlers : handler'[h].snapshot \in {handler[h].snapshot, {}}
      BY <1>4 DEF Disconnect, Reconnect, IdleHandler
    <2>4. Snapshots'
      BY <2>1, <2>3, KnownQueue DEF Inv, Snapshots, Known
    <2> QED
      BY <1>0, <2>1, <2>2, <2>4 DEF Inv, Numbered
  <1>5. CASE Crash
    BY <1>0, <1>5, CrashInv DEF Inv
  <1> QED
    BY <1>1, <1>2, <1>3, <1>4, <1>5 DEF Next

\* The invariant of the queue holds always.
LEMMA Invariance == Spec => []Inv
  BY InitInv, NextInv, PTL DEF Spec

\* An accepted upload is in one place, however many handlers, workers, disconnections and
\* restarts there are: in the queue once, with one handler, or finished.
THEOREM NeverLostNorDoubled == Spec => []OnePlace
  <1>1. Inv => OnePlace
    BY DEF Inv, Placed
  <1> QED
    BY <1>1, Invariance, PTL

-----------------------------------------------------------------------------
(* A cancelled upload is still to be found in cancelled_uploads by whoever takes it, and it *)
(* gets no further than that.                                                               *)

Doomed ==
  \A id \in doomed :
    \/ id \in finished
    \/ id \in cancelled_uploads /\ \A h \in Handlers : Holds(h, id) => handler[h].pc = "got"

\* A handler takes the mark off a cancelled upload only when it ends it.
LEMMA HandlerDoomed ==
  ASSUME Inv, Doomed, NEW h \in Handlers, Handler(h)
  PROVE  Doomed'
  <1>1. doomed' = doomed
    BY DEF Handler, Top, Get, Check, Upload, Retry, ReadQueue, Save, HandlerUnchanged
  <1>2. cancelled_uploads \subseteq cancelled_uploads' \cup finished' /\ finished \subseteq finished'
    BY DEF Handler, Top, Get, Check, Upload, Retry, ReadQueue, Save, Finish
  <1> SUFFICES ASSUME NEW id \in doomed, id \notin finished', NEW g \in Handlers, Holds(g, id)'
               PROVE  handler'[g].pc = "got"
    BY <1>1, <1>2 DEF Doomed
  <1>4. \A f \in Handlers : Holds(f, id) => handler[f].pc = "got"
    BY <1>2 DEF Doomed
  <1>5. id \in cancelled_uploads
    BY <1>2 DEF Doomed
  <1>6. CASE g # h
    <2>1. handler'[g] = handler[g]
      BY <1>6, HandlerFrame DEF Inv, Others
    <2> QED
      BY <2>1, <1>4 DEF Holds, Works
  <1>7. CASE g = h
    <2>1. Takes(h) => handler'[h].pc = "got"
      BY DEF Takes
    <2>2. ~GivesBack(h) /\ ~Ends(h)
      BY <1>7 DEF GivesBack, Ends, Holds
    <2>3. CASE Rests
      <3>1. Holds(h, id)
        BY <1>7, <2>3 DEF Rests, Holds
      <3>2. handler[h].pc = "got" /\ IsCancelled(handler[h].item)
        BY <3>1, <1>4, <1>5 DEF IsCancelled, Holds
      <3>3. Check(h)
        BY <3>2 DEF Handler, Top, Get, Upload, Retry, ReadQueue, Save
      <3>4. id \in finished'
        BY <3>1, <3>2, <3>3 DEF Check, Finish, Holds
      <3> QED
        BY <3>4
    <2> QED
      BY <1>7, <2>1, <2>2, <2>3, HandlerKinds DEF Inv
  <1> QED
    BY <1>6, <1>7

\* Every step keeps cancelled uploads marked, until they are finished.
LEMMA NextDoomed == Inv /\ Doomed /\ [Next]_vars => Doomed'
  <1> SUFFICES ASSUME Inv, Doomed, [Next]_vars PROVE Doomed'
    OBVIOUS
  <1>1. CASE UNCHANGED vars
    BY <1>1 DEF vars, history, Doomed, Holds, Works
  <1>2. ASSUME NEW w \in Workers, Cancel(w) PROVE Doomed'
    <2>1. handler' = handler /\ finished' = finished /\ cancelled_uploads' = cancelled_uploads \cup {worker[w].id}
      BY <1>2 DEF Cancel, WorkerUnchanged
    <2>2. \A id \in doomed' : id \in doomed \/ (id = worker[w].id /\ Queued(id))
      BY <1>2 DEF Cancel, Queued
    <2>3. \A id : Queued(id) => ~Held(id)
      BY DEF Inv, Placed, Known, OnePlace, Queued
    <2> QED
      BY <2>1, <2>2, <2>3 DEF Doomed, Held, Holds, Works
  <1>3. ASSUME NEW w \in Workers, Call(w) \/ List(w) \/ Put(w) \/ CacheRead(w) \/ CacheSave(w) PROVE Doomed'
    <2>1. UNCHANGED <<handler, finished, cancelled_uploads, doomed>>
      <3>1. CASE Call(w)
        BY <3>1, Zenon DEF Call, Request, CancelUpload, WorkerUnchanged
      <3> QED
        BY <1>3, <3>1 DEF List, Put, CacheRead, CacheSave, WorkerUnchanged
    <2> QED
      BY <2>1 DEF Doomed, Holds, Works
  <1>4. CASE Disconnect \/ Reconnect
    <2>1. Rests
      BY <1>4, SocketKinds DEF Inv
    <2>2. UNCHANGED <<doomed, finished, cancelled_uploads>>
      BY <1>4 DEF Disconnect, Reconnect, history
    <2>3. \A h \in Handlers : ~Works(h)' \/ handler'[h] = handler[h]
      BY <1>4, IdleTypes DEF Disconnect, Reconnect, Works
    <2> QED
      BY <2>2, <2>3 DEF Doomed, Holds, Works
  <1>5. CASE Crash
    BY <1>5 DEF Crash, Doomed
  <1> QED
    BY <1>1, <1>2, <1>3, <1>4, <1>5, HandlerDoomed DEF Next, Answer

\* An upload cancelled while it waits is not started, whoever takes it and however often it had
\* been put back before: the threads that set and look at cancelled_uploads need no lock.
THEOREM CancelledStays == Spec => []CancelledNotStarted
  <1>1. Init => Doomed
    BY DEF Init, Doomed
  <1>2. Inv /\ Doomed => CancelledNotStarted
    BY DEF Inv, Placed, OnePlace, Doomed, CancelledNotStarted, Held, Holds, Works
  <1> QED
    BY <1>1, <1>2, Invariance, NextDoomed, PTL DEF Spec

-----------------------------------------------------------------------------
(* What has been uploaded in this life of athenad is finished. *)

Recorded == \A id \in Ids : uploads[id] <= crashes + (IF id \in finished THEN 1 ELSE 0)

\* A handler records an upload when it counts it.
LEMMA HandlerRecorded ==
  ASSUME Inv, Recorded, NEW h \in Handlers, Handler(h)
  PROVE  Recorded'
  <1>0. uploads \in [Ids -> Nat] /\ crashes \in Nat
    BY DEF Inv, TypeOK
  <1>1. crashes' = crashes /\ finished \subseteq finished'
    BY DEF Handler, Top, Get, Check, Upload, Retry, ReadQueue, Save, HandlerUnchanged, Finish, bounds
  <1>2. CASE uploads' = uploads
    BY <1>0, <1>1, <1>2 DEF Recorded
  <1>3. CASE Upload(h) /\ Finish(h, "cache") /\ uploads' = [uploads EXCEPT ![handler[h].item.id] = @ + 1]
    <2> DEFINE id == handler[h].item.id
    <2>1. Holds(h, id) /\ id \in accepted /\ id \in Ids
      BY <1>3 DEF Upload, Holds, Works, Inv, Placed, TypeOK
    <2>2. id \notin finished
      BY <2>1 DEF Inv, Placed, OnePlace, Held
    <2>3. id \in finished'
      BY <1>3 DEF Finish
    <2> QED
      BY <1>0, <1>1, <1>3, <2>1, <2>2, <2>3 DEF Recorded
  <1> QED
    BY <1>2, <1>3 DEF Handler, Top, Get, Check, Upload, Retry, ReadQueue, Save

\* Every step keeps count and record together.
LEMMA NextRecorded == Inv /\ Recorded /\ [Next]_vars => Recorded'
  <1> SUFFICES ASSUME Inv, Recorded, [Next]_vars PROVE Recorded'
    OBVIOUS
  <1>1. CASE UNCHANGED <<uploads, finished, crashes>>
    BY <1>1 DEF Recorded
  <1>2. CASE \E w \in Workers : Call(w) \/ Answer(w)
    <2>1. CASE \E w \in Workers : Call(w)
      BY <2>1, <1>1, Zenon DEF Call, Request, CancelUpload, WorkerUnchanged, bounds
    <2> QED
      BY <1>1, <1>2, <2>1 DEF Answer, List, Put, CacheRead, CacheSave, Cancel, WorkerUnchanged, bounds
  <1>3. CASE Disconnect \/ Reconnect \/ UNCHANGED vars
    BY <1>1, <1>3 DEF Disconnect, Reconnect, vars, history, bounds
  <1>4. CASE Crash
    <2>1. uploads \in [Ids -> Nat] /\ crashes \in Nat /\ crashes' = crashes + 1 /\ uploads' = uploads
      BY <1>4 DEF Crash, Inv, TypeOK
    <2> QED
      BY <2>1 DEF Recorded
  <1> QED
    BY <1>2, <1>3, <1>4, HandlerRecorded DEF Next

\* An accepted upload (one id) is uploaded successfully once, or once more for every crash that came
\* before it was recorded, for any number of handlers, workers and retries.  It says nothing of a URL
\* that was enqueued under two ids.
THEOREM NoSecondUpload == Spec => []UploadedOnce
  <1>1. Init => Recorded
    BY DEF Init, Recorded
  <1>2. Inv /\ Recorded => UploadedOnce
    BY DEF Inv, TypeOK, Recorded, UploadedOnce
  <1> QED
    BY <1>1, <1>2, Invariance, NextRecorded, PTL DEF Spec

-----------------------------------------------------------------------------
(* The refinement of Uploads *)

\* Where an upload is says how Uploads sees it.
LEMMA StateOf ==
  ASSUME Placed, NEW id \in Ids
  PROVE  /\ id \notin accepted => UploadState[id] = "new"
         /\ id \in finished => UploadState[id] = "ended"
         /\ id \in accepted /\ Held(id) => UploadState[id] = "working"
         /\ id \in accepted /\ Queued(id) => UploadState[id] = "waiting"
  <1>1. /\ id \in finished => id \in accepted /\ ~Held(id) /\ ~Queued(id)
        /\ id \in accepted /\ Queued(id) => ~Held(id)
    BY DEF Placed, OnePlace
  <1> QED
    BY <1>1 DEF UploadState

\* The same after a step.
LEMMA StateOfNext ==
  ASSUME Placed', NEW id \in Ids
  PROVE  /\ id \notin accepted' => UploadState'[id] = "new"
         /\ id \in finished' => UploadState'[id] = "ended"
         /\ id \in accepted' /\ Held(id)' => UploadState'[id] = "working"
         /\ id \in accepted' /\ Queued(id)' => UploadState'[id] = "waiting"
  <1>1. /\ id \in finished' => id \in accepted' /\ ~Held(id)' /\ ~Queued(id)'
        /\ id \in accepted' /\ Queued(id)' => ~Held(id)'
    BY DEF Placed, OnePlace
  <1> QED
    BY <1>1 DEF UploadState

\* A step that is about one upload changes the state of no other.
LEMMA OneMoves ==
  ASSUME NEW id \in Ids,
         \A j \in Ids \ {id} : /\ (j \in accepted') = (j \in accepted)
                               /\ Queued(j)' <=> Queued(j)
                               /\ Held(j)' <=> Held(j)
  PROVE  UploadState' = [UploadState EXCEPT ![id] = UploadState'[id]]
  BY DEF UploadState

\* What moves no upload is a stutter of Uploads.
LEMMA RestsAbstract == ASSUME Rests PROVE UNCHANGED UploadState
  <1>1. \A id : Held(id)' <=> Held(id)
    BY DEF Rests, Held, Holds, Works
  <1> QED
    BY <1>1 DEF Rests, UploadState, Queued

\* A handler that works has an upload of its own.
LEMMA WorkingId == ASSUME TypeOK, NEW h \in Handlers, Works(h) PROVE handler[h].item.id \in Ids
  BY DEF TypeOK, Items

\* Taking is Take of Uploads.
LEMMA TakesAbstract ==
  ASSUME Inv, Inv', NEW h \in Handlers, Takes(h)
  PROVE  \E id \in Ids : Abstract!Take(id)
  <1>0. PICK id \in Ids : id = handler'[h].item.id
    BY DEF Takes, Inv, TypeOK, Items
  <1>1. id \in accepted /\ id \in accepted' /\ Queued(id) /\ Held(id)'
    BY <1>0 DEF Takes, Inv, Placed, Known, Queued, Held, Holds, Works
  <1>2. \A j \in Ids \ {id} : Held(j)' <=> Held(j)
    BY <1>0 DEF Takes, Held, Holds, Works, Others
  <1>3. UploadState' = [UploadState EXCEPT ![id] = UploadState'[id]]
    BY <1>0, <1>1, <1>2, OneMoves DEF Takes, Queued
  <1>4. UploadState[id] = "waiting" /\ UploadState'[id] = "working"
    BY <1>1, StateOf, StateOfNext DEF Inv
  <1> QED
    BY <1>1, <1>3, <1>4 DEF Abstract!Take, Abstract!Move

\* Giving back is GiveBack of Uploads.
LEMMA GivesBackAbstract ==
  ASSUME Inv, Inv', NEW h \in Handlers, GivesBack(h)
  PROVE  \E id \in Ids : Abstract!GiveBack(id)
  <1>0. PICK id \in Ids : id = handler[h].item.id
    BY WorkingId DEF GivesBack, Ends, Inv
  <1>1. id \in accepted /\ id \in accepted' /\ Held(id) /\ Queued(id)'
    BY <1>0 DEF GivesBack, Inv, Placed, Queued, Held, Holds
  <1>2. \A j \in Ids \ {id} : Held(j)' <=> Held(j)
    BY <1>0 DEF GivesBack, Held, Holds, Works, Others
  <1>3. UploadState' = [UploadState EXCEPT ![id] = UploadState'[id]]
    BY <1>0, <1>1, <1>2, OneMoves DEF GivesBack, Queued
  <1>4. UploadState[id] = "working" /\ UploadState'[id] = "waiting"
    BY <1>1, StateOf, StateOfNext DEF Inv
  <1> QED
    BY <1>1, <1>3, <1>4 DEF Abstract!GiveBack, Abstract!Move

\* Ending is End of Uploads.
LEMMA EndsAbstract ==
  ASSUME Inv, Inv', NEW h \in Handlers, Ends(h)
  PROVE  \E id \in Ids : Abstract!End(id)
  <1>0. PICK id \in Ids : id = handler[h].item.id
    BY WorkingId DEF GivesBack, Ends, Inv
  <1>1. id \in accepted /\ Held(id) /\ id \in finished' /\ finished' = finished \cup {id}
    BY <1>0 DEF Ends, Inv, Placed, Held, Holds
  <1>2. \A j \in Ids \ {id} : Held(j)' <=> Held(j)
    BY <1>0 DEF Ends, Held, Holds, Works, Others
  <1>3. UploadState' = [UploadState EXCEPT ![id] = UploadState'[id]]
    BY <1>1, <1>2, OneMoves DEF Ends, Queued
  <1>4. UploadState[id] = "working" /\ UploadState'[id] = "ended"
    BY <1>1, StateOf, StateOfNext DEF Inv
  <1> QED
    BY <1>1, <1>3, <1>4 DEF Abstract!End, Abstract!Move

\* Accepting is Accept of Uploads.
LEMMA AcceptsAbstract ==
  ASSUME Inv, Inv', Accepts
  PROVE  \E id \in Ids : Abstract!Accept(id)
  <1> PICK item \in Items : /\ item.id = Cardinality(accepted) + 1
                            /\ upload_queue' = upload_queue \cup {item}
                            /\ accepted' = accepted \cup {item.id}
    BY DEF Accepts
  <1> DEFINE id == item.id
  <1>1. id \in Ids /\ id \notin accepted /\ id \in accepted' /\ Queued(id)'
    BY NextIdNew DEF Inv, Items, Queued
  <1>2. \A j \in Ids \ {id} : Held(j)' <=> Held(j)
    BY DEF Accepts, Held, Holds, Works
  <1>3. UploadState' = [UploadState EXCEPT ![id] = UploadState'[id]]
    BY <1>1, <1>2, OneMoves DEF Accepts, Queued
  <1>4. UploadState[id] = "new" /\ UploadState'[id] = "waiting"
    BY <1>1, StateOf, StateOfNext DEF Inv
  <1> QED
    BY <1>1, <1>3, <1>4 DEF Abstract!Accept, Abstract!Move

\* A crash is Restart of Uploads, with what the param has saved.
LEMMA CrashAbstract == ASSUME Inv, Inv', Crash PROVE Abstract!Restart
  <1> DEFINE saved == {i.id : i \in AthenadUploadQueue}
  <1>1. upload_queue' = AthenadUploadQueue /\ finished' = accepted \ saved /\ accepted' = accepted
    BY DEF Crash
  <1>2. saved \subseteq accepted /\ accepted \subseteq Ids
    BY DEF Inv, Snapshots, Known, TypeOK
  <1>3. \A id \in saved : Queued(id)'
    BY <1>1 DEF Queued
  <1>4. \A id \in accepted : UploadState[id] # "new"
    BY <1>2 DEF UploadState
  <1>5. ASSUME NEW id \in Ids
        PROVE  UploadState'[id] = IF id \in saved THEN "waiting" ELSE IF UploadState[id] = "new" THEN "new" ELSE "ended"
    <2>1. UploadState[id] = "new" <=> id \notin accepted
      BY <1>4, StateOf DEF Inv
    <2> HIDE DEF saved
    <2> QED
      BY <2>1, <1>1, <1>2, <1>3, StateOfNext DEF Inv
  <1>6. saved \in SUBSET {id \in Ids : UploadState[id] # "new"}
    BY <1>2, <1>4
  <1> HIDE DEF saved
  <1>7. UploadState' = [id \in Ids |-> IF id \in saved THEN "waiting"
                                       ELSE IF UploadState[id] = "new" THEN "new" ELSE "ended"]
    BY <1>5 DEF UploadState
  <1> QED
    BY <1>6, <1>7 DEF Abstract!Restart, Crash

\* Nothing but a crash counts as one.
LEMMA NoCrash ==
  ASSUME (\E h \in Handlers : Handler(h)) \/ (\E w \in Workers : Call(w) \/ Answer(w)) \/ Disconnect \/ Reconnect
  PROVE  UNCHANGED crashes
  <1>1. ASSUME NEW h \in Handlers, Handler(h) PROVE UNCHANGED crashes
    BY <1>1 DEF Handler, Top, Get, Check, Upload, Retry, ReadQueue, Save, HandlerUnchanged, bounds, history,
                Finish, Go, GoRetry
  <1>2. ASSUME NEW w \in Workers, Call(w) \/ Answer(w) PROVE UNCHANGED crashes
    BY <1>2 DEF Call, Answer, Request, CancelUpload, List, Put, CacheRead, CacheSave, Cancel,
                WorkerUnchanged, bounds
  <1> QED
    BY <1>1, <1>2 DEF Disconnect, Reconnect, bounds

\* Every step is one of Uploads, or a stutter.
LEMMA StepAbstract == Inv /\ Inv' /\ [Next]_vars => [Abstract!Next]_<<UploadState, crashes>>
  <1> DEFINE Step == Abstract!Next \/ UNCHANGED <<UploadState, crashes>>
  <1> SUFFICES ASSUME Inv, Inv', [Next]_vars PROVE Step
    OBVIOUS
  <1>1. CASE UNCHANGED vars
    BY <1>1 DEF vars, history, bounds, UploadState, Queued, Held, Holds, Works
  <1>2. ASSUME NEW h \in Handlers, Handler(h) PROVE Step
    BY <1>2, HandlerKinds, NoCrash, TakesAbstract, GivesBackAbstract, EndsAbstract, RestsAbstract
       DEF Inv, Abstract!Next
  <1>3. ASSUME NEW w \in Workers, Call(w) \/ Answer(w) PROVE Step
    BY <1>3, WorkerKinds, NoCrash, AcceptsAbstract, RestsAbstract DEF Inv, Abstract!Next
  <1>4. CASE Disconnect \/ Reconnect
    BY <1>4, SocketKinds, NoCrash, RestsAbstract DEF Inv
  <1>5. CASE Crash
    BY <1>5, CrashAbstract DEF Abstract!Next
  <1> QED
    BY <1>1, <1>2, <1>3, <1>4, <1>5 DEF Next

\* Queue, cancellations, handlers and param together are an implementation of Uploads.
THEOREM Implements == Spec => KeepsPromise
  <1>1. Init => Abstract!Init
    BY DEF Init, UploadState, Abstract!Init
  <1> QED
    BY <1>1, Invariance, StepAbstract, PTL DEF Spec, KeepsPromise, Abstract!Spec
=============================================================================
