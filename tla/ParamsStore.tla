----------------------------- MODULE ParamsStore -----------------------------
(***************************************************************************)
(* Params::putNonBlocking: a process hands a param to a thread of its own, *)
(* started on demand, that writes it to disk.  One caller thread pushes to *)
(* the queue and looks at the future of the writer thread; the writer pops *)
(* until the queue is empty and ends, upon which the future becomes ready. *)
(* A value is the number of the put that wrote it.                         *)
(***************************************************************************)
EXTENDS Integers, Sequences

CONSTANTS Keys, MaxPuts   \* MaxPuts bounds the calls of putNonBlocking

ASSUME BoundsAssumption == MaxPuts \in Nat /\ Keys # {}

Nothing == 0
Puts    == [key : Keys, value : 1..MaxPuts]

VARIABLES
  caller,   \* "idle", "pushed" (inside putNonBlocking), "destroyed" (after ~Params)
  queue,
  writer,   \* "none", "pop", "put", "end" (the queue was empty), "ready" (as is its future)
  p,        \* what the writer has popped
  disk,     \* the params
  latest,   \* history: the last value put for each key
  puts, written   \* history: how many were put, and written

storeVars == <<caller, queue, writer, p, disk, latest, puts, written>>

StoreInit ==
  /\ caller = "idle" /\ writer = "none"
  /\ queue = <<>>
  /\ p = [key |-> CHOOSE k \in Keys : TRUE, value |-> Nothing]
  /\ disk = [k \in Keys |-> Nothing] /\ latest = disk
  /\ puts = 0 /\ written = 0

Finished == writer \in {"none", "ready"}

\* putNonBlocking, first half: the value is in the queue.
Push(key) ==
  /\ caller = "idle" /\ puts < MaxPuts
  /\ queue' = Append(queue, [key |-> key, value |-> puts + 1])
  /\ puts' = puts + 1
  /\ latest' = [latest EXCEPT ![key] = puts + 1]
  /\ caller' = "pushed"
  /\ UNCHANGED <<writer, p, disk, written>>

\* Defect: a thread is only started for the first put.
StartsWriter_Once == writer = "none"

\* !future.valid(), or wait_for(0) finds it ready
StartsWriter == Finished

\* putNonBlocking, second half.
Start ==
  /\ caller = "pushed"
  /\ writer' = IF StartsWriter THEN "pop" ELSE writer
  /\ caller' = "idle"
  /\ UNCHANGED <<queue, p, disk, latest, puts, written>>

\* Defect: the newest value is written first.
Popped_Newest == <<queue[Len(queue)], SubSeq(queue, 1, Len(queue) - 1)>>

\* SafeQueue.try_pop
Popped == <<Head(queue), Tail(queue)>>

TryPop ==
  /\ writer = "pop"
  /\ IF queue = <<>>
     THEN writer' = "end" /\ UNCHANGED <<p, queue>>
     ELSE writer' = "put" /\ p' = Popped[1] /\ queue' = Popped[2]
  /\ UNCHANGED <<caller, disk, latest, puts, written>>

\* put: whatever happens before it, the rename is what others see.
Write ==
  /\ writer = "put"
  /\ disk' = [disk EXCEPT ![p.key] = p.value]
  /\ written' = written + 1
  /\ writer' = "pop"
  /\ UNCHANGED <<caller, queue, p, latest, puts>>

\* asyncWriteThread has returned.
Ready ==
  /\ writer = "end"
  /\ writer' = "ready"
  /\ UNCHANGED <<caller, queue, p, disk, latest, puts, written>>

Writer == TryPop \/ Write \/ Ready

\* Defect: the destructor does not wait for the future.
MayDestroy_NoWait == TRUE

MayDestroy == Finished

\* ~Params
Destroy ==
  /\ caller = "idle" /\ MayDestroy
  /\ caller' = "destroyed"
  /\ UNCHANGED <<queue, writer, p, disk, latest, puts, written>>

StoreNext == (\E key \in Keys : Push(key)) \/ Start \/ Writer \/ Destroy

\* The writer thread runs, and a call that has begun returns.
StoreSpec == StoreInit /\ [][StoreNext]_storeVars /\ WF_storeVars(Writer) /\ WF_storeVars(Start)

-----------------------------------------------------------------------------
\* Every variable keeps its type.
StoreTypeOK ==
  /\ caller \in {"idle", "pushed", "destroyed"}
  /\ writer \in {"none", "pop", "put", "end", "ready"}
  /\ queue \in Seq(Puts)
  /\ p \in [key : Keys, value : 0..MaxPuts]
  /\ disk \in [Keys -> 0..MaxPuts] /\ latest \in [Keys -> 0..MaxPuts]
  /\ puts \in 0..MaxPuts /\ written \in 0..puts

\* The puts of a key take effect in their order: when none is on its way, the disk holds the
\* latest value of every key.
LatestWins == queue = <<>> /\ writer # "put" => disk = latest

\* Nothing touches the Params, or the disk on their behalf, once they are destroyed.
NoWriteAfterDestruction == [][caller = "destroyed" => UNCHANGED <<disk, writer>>]_storeVars

\* A put that finds no writer running takes everything to the disk that was left in the
\* queue before it.
FlushesTheQueue ==
  \A n \in 1..MaxPuts : caller = "pushed" /\ Finished /\ puts = n ~> written >= n

\* "assert(queue.empty())" (~Params).
QueueEmptyAtDestruction == caller = "destroyed" => queue = <<>>
=============================================================================
