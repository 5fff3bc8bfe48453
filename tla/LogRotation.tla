----------------------------- MODULE LogRotation -----------------------------
(***************************************************************************)
(* The segments of a drive's log.  encoderd has one thread per camera,     *)
(* which starts and rotates its video by frame id, on its own.  loggerd    *)
(* reads the encoders' packets from one socket each, in any order, and     *)
(* begins a new segment when every encoder has sent a packet of it, or     *)
(* when the segment has become too long.                                   *)
(*                                                                         *)
(* Time is counted in frames.  A camera thread handles a frame before the  *)
(* next one comes, or misses it, which is a malfunction.  An encoder is a  *)
(* camera thread with one encoder.  loggerd and encoderd start together,   *)
(* as manager starts them: loggerd never joins an encoderd that counts     *)
(* segments already.  Sentinels, lock files, preserved segments and the    *)
(* contents of messages are left out.                                      *)
(***************************************************************************)
EXTENDS Integers, FiniteSets, Sequences

CONSTANTS
  Encoders,         \* cameras_logged
  Recorded,         \* those with a video file
  AudioEncoders,    \* those whose file has a sound track
  SegmentFrames,    \* SEGMENT_LENGTH * MAIN_FPS
  LongFrames,       \* SEGMENT_LENGTH * 1.2
  Patience,         \* NO_CAMERA_PATIENCE
  GopSize,
  QueueLimit,       \* MAIN_FPS * 10
  MaxFrame,         \* bound on the frames of a drive
  MaxPackets,       \* bound on the packets that wait in a socket
  MaxMissed,        \* bound on frames that threads miss
  MaxRestarts       \* bound on restarts of encoderd

ASSUME LogRotationAssumption ==
  /\ AudioEncoders \subseteq Recorded /\ Recorded \subseteq Encoders /\ IsFiniteSet(Encoders)
  /\ {SegmentFrames, GopSize, MaxPackets} \subseteq Nat \ {0}
  /\ {LongFrames, Patience, QueueLimit, MaxFrame, MaxMissed, MaxRestarts} \subseteq Nat

VARIABLES
  now,              \* the frame that the cameras show
  streams,          \* the cameras that camerad has
  thread,           \* encoderd's threads
  start_frame_id,
  socket,           \* packets on their way to loggerd
  remote,           \* remote_encoders
  segment,
  ready_to_rotate,
  last_rotate, last_camera_seen,
  missed, restarts,
  video,            \* history: the packets written of each encoder, each with the segment it went to
  sent,             \* history: the frames that each encoder has sent
  forced,           \* history: loggerd has rotated because a segment was too long
  silent            \* history: packets have waited for sound until the queue was full or the segment over

encoderd == <<thread, start_frame_id>>
loggerd  == <<remote, segment, ready_to_rotate, last_rotate, last_camera_seen>>
bounds   == <<missed, restarts>>
vars == <<now, streams, encoderd, socket, loggerd, bounds, video, sent, forced, silent>>

Stopped == [frame |-> -1, pc |-> "recv", ready |-> FALSE, synced |-> FALSE, seg |-> 0, idx |-> 0]

RemoteEncoder ==
  [encoderd_segment_offset |-> 0, current_segment |-> -1, q |-> <<>>, recording |-> FALSE,
   marked_ready_to_rotate |-> FALSE, seen_first_packet |-> FALSE, audio_initialized |-> FALSE]

\* loggerd_thread rotates to segment 0 before it looks at any message.
Init ==
  /\ now = 0
  /\ streams \in (SUBSET Encoders) \ {{}}
  /\ thread = [e \in Encoders |-> Stopped] /\ start_frame_id = 0
  /\ socket = [e \in Encoders |-> <<>>]
  /\ remote = [e \in Encoders |-> RemoteEncoder]
  /\ segment = 0 /\ ready_to_rotate = 0
  /\ last_rotate = 0 /\ last_camera_seen = 0
  /\ missed = 0 /\ restarts = 0
  /\ video = [e \in Encoders |-> {}] /\ sent = [e \in Encoders |-> {}]
  /\ forced = FALSE /\ silent = FALSE

-----------------------------------------------------------------------------
(* encoderd *)

AllReady == \A e \in streams : thread[e].ready

StartAfter(frame) == frame + 2

Later(a, b) == IF a > b THEN a ELSE b

\* Defect: the frames that were encoded are counted, and those that were missed are not.
RollsOver_Counted(t, frame) == t.idx >= SegmentFrames

RollsOver(t, frame) == frame >= (t.seg + 1) * SegmentFrames + start_frame_id'

\* A frame of a synced thread: the encoder is closed and opened again where a segment begins, and
\* the first packet from an encoder is a key frame.
Encode(e, t) ==
  LET seg == IF RollsOver(t, now) THEN t.seg + 1 ELSE t.seg
      idx == IF RollsOver(t, now) THEN 0 ELSE t.idx IN
  /\ thread' = [thread EXCEPT ![e] = [t EXCEPT !.seg = seg, !.idx = idx + 1]]
  /\ socket' = [socket EXCEPT ![e] = Append(@, [frame |-> now, seg |-> seg, key |-> idx % GopSize = 0])]
  /\ sent' = [sent EXCEPT ![e] = @ \cup {now}]

\* sync_encoders finds some thread not ready, or decides where this one starts; then the frame is
\* encoded.
TakeFrame(e) ==
  LET t == [thread[e] EXCEPT !.frame = now] IN
  /\ e \in streams /\ t.pc = "recv" /\ thread[e].frame < now
  /\ IF ~t.synced /\ streams # {e} /\ ~AllReady
     THEN /\ thread' = [thread EXCEPT ![e] = [t EXCEPT !.pc = "update"]]
          /\ UNCHANGED <<start_frame_id, socket, sent>>
     ELSE /\ start_frame_id' = IF ~t.synced /\ streams = {e} THEN Later(start_frame_id, now) ELSE start_frame_id
          /\ IF t.synced \/ now >= start_frame_id'
             THEN Encode(e, [t EXCEPT !.synced = TRUE])
             ELSE thread' = [thread EXCEPT ![e] = t] /\ UNCHANGED <<socket, sent>>
  /\ UNCHANGED <<now, streams, loggerd, bounds, video, forced, silent>>

\* The rest of sync_encoders, during which the other threads go on.
UpdateStart(e) ==
  /\ thread[e].pc = "update"
  /\ start_frame_id' = Later(start_frame_id, StartAfter(thread[e].frame))
  /\ thread' = [thread EXCEPT ![e].ready = TRUE, ![e].pc = "recv"]
  /\ UNCHANGED <<now, streams, socket, loggerd, bounds, video, sent, forced, silent>>

\* A frame is lost: the buffer has been reused, or the camera has not filled it.
MissFrame(e) ==
  /\ e \in streams /\ thread[e].pc = "recv" /\ thread[e].frame < now
  /\ missed < MaxMissed
  /\ missed' = missed + 1
  /\ thread' = [thread EXCEPT ![e].frame = now]
  /\ UNCHANGED <<now, streams, start_frame_id, socket, loggerd, restarts, video, sent, forced, silent>>

\* encoderd is restarted by hand: manager stops it together with loggerd only.
Restart ==
  /\ restarts < MaxRestarts
  /\ restarts' = restarts + 1
  /\ thread' = [e \in Encoders |-> [Stopped EXCEPT !.frame = now]]
  /\ start_frame_id' = 0
  /\ UNCHANGED <<now, streams, socket, loggerd, missed, video, sent, forced, silent>>

Tick ==
  /\ now < MaxFrame
  /\ \A e \in streams : thread[e].frame = now /\ thread[e].pc = "recv" /\ Len(socket[e]) < MaxPackets
  /\ now' = now + 1
  /\ UNCHANGED <<streams, encoderd, socket, loggerd, bounds, video, sent, forced, silent>>

-----------------------------------------------------------------------------
(* loggerd *)

\* Defect: a segment may not be longer than its nominal length.
TimedOut_AtOnce == now - last_rotate > SegmentFrames

TimedOut ==
  /\ now - last_rotate > SegmentFrames
  /\ now - last_camera_seen' > Patience \/ now - last_rotate > LongFrames

all_ready(ready) == ready = Cardinality(Encoders)

OffsetSegment(r, packet) == packet.seg - r.encoderd_segment_offset

\* Packets that wait for sound in their own segment.
Waiting(e, r) == e \in AudioEncoders /\ \E i \in DOMAIN r.q : OffsetSegment(r, r.q[i]) <= segment

\* rotate_if_needed, after every message
Rotate(ready) ==
  /\ IF all_ready(ready) \/ TimedOut
     THEN segment' = segment + 1 /\ ready_to_rotate' = 0 /\ last_rotate' = now
     ELSE ready_to_rotate' = ready /\ UNCHANGED <<segment, last_rotate>>
  /\ forced' = (forced \/ (TimedOut /\ ~all_ready(ready)))
  /\ silent' = (silent \/ \E e \in Encoders :
                   Waiting(e, remote'[e]) /\ (segment' # segment \/ Len(remote'[e].q) > QueueLimit))

\* The first packet that belongs to loggerd's segment opens a new video.
Entered(e, r) ==
  IF r.current_segment = segment THEN r
  ELSE [r EXCEPT !.current_segment = segment,
                 !.marked_ready_to_rotate = FALSE,
                 !.recording = @ /\ e \notin Recorded,
                 !.audio_initialized = @ /\ e \notin Recorded]

Queued(r, packet) == IF Len(r.q) > QueueLimit THEN r ELSE [r EXCEPT !.q = Append(@, packet)]

\* write_encode_data: a video begins with a key frame, and the frames before it are dropped.
Writable(r, packets) ==
  {i \in DOMAIN packets : r.recording \/ \E j \in 1..i : packets[j].key}

\* Defect: what was queued before the rotation is forgotten.
Pending_Forgotten(r) == <<>>

Pending(r) == r.q

Write(e, r, packet) ==
  LET packets == Append(Pending(r), packet)
      written == {packets[i].frame : i \in Writable(r, packets)} IN
  /\ video' = [video EXCEPT ![e] = @ \cup (written \X {segment})]
  /\ remote' = [remote EXCEPT ![e] = [r EXCEPT !.q = <<>>, !.recording = written # {}]]

\* handle_encoder_msg
Receive(e) ==
  LET packet == Head(socket[e])
      r == IF remote[e].seen_first_packet THEN remote[e]
           ELSE [remote[e] EXCEPT !.seen_first_packet = TRUE, !.encoderd_segment_offset = packet.seg]
      newer == OffsetSegment(r, packet) > segment IN
  /\ socket[e] # <<>>
  /\ socket' = [socket EXCEPT ![e] = Tail(@)]
  /\ last_camera_seen' = now
  /\ \/ /\ OffsetSegment(r, packet) = segment
        /\ LET in == Entered(e, r) IN
             IF in.audio_initialized \/ e \notin AudioEncoders
             THEN Write(e, in, packet)
             ELSE remote' = [remote EXCEPT ![e] = Queued(in, packet)] /\ UNCHANGED video
     \/ /\ newer
        /\ remote' = [remote EXCEPT ![e] = [Queued(r, packet) EXCEPT !.marked_ready_to_rotate = TRUE]]
        /\ UNCHANGED video
     \/ /\ OffsetSegment(r, packet) < segment
        /\ remote' = [remote EXCEPT ![e] = [r EXCEPT !.encoderd_segment_offset = -segment]]
        /\ UNCHANGED video
  /\ Rotate(IF newer /\ ~r.marked_ready_to_rotate THEN ready_to_rotate + 1 ELSE ready_to_rotate)
  /\ UNCHANGED <<now, streams, encoderd, bounds, sent>>

\* rawAudioData: every video that is open has sound from now on.
Audio ==
  /\ remote' = [e \in Encoders |->
       [remote[e] EXCEPT !.audio_initialized = @ \/ (e \in AudioEncoders /\ remote[e].current_segment >= 0)]]
  /\ UNCHANGED <<now, streams, encoderd, socket, last_camera_seen, bounds, video, sent>>
  /\ Rotate(ready_to_rotate)

\* Any other message
Other ==
  /\ UNCHANGED <<now, streams, encoderd, socket, remote, last_camera_seen, bounds, video, sent>>
  /\ Rotate(ready_to_rotate)

Next ==
  \/ \E e \in Encoders : TakeFrame(e) \/ UpdateStart(e) \/ MissFrame(e) \/ Receive(e)
  \/ Restart \/ Tick \/ Audio \/ Other

Spec == Init /\ [][Next]_vars

-----------------------------------------------------------------------------
\* All cameras are there, encoderd was not restarted, and the microphone works.
Regular == streams = Encoders /\ restarts = 0 /\ ~forced /\ ~silent

\* The videos of a segment show the same time: whatever the order in which threads and sockets are
\* served, and whatever frames are missed, a frame goes to the segment that its id belongs to,
\* counted from the frame at which all threads started (sync_encoders, rotate_if_needed).
InTheirSegment ==
  Regular =>
    \A e \in Encoders : \A w \in video[e] :
      w[1] >= start_frame_id /\ w[2] = (w[1] - start_frame_id) \div SegmentFrames

\* A frame that was encoded is in a video, or in a queue, or on its way; once, and in no other
\* segment too.
NothingLost ==
  Regular =>
    \A e \in Encoders : \A f \in sent[e] :
      \/ Cardinality({w \in video[e] : w[1] = f}) = 1
      \/ \E i \in DOMAIN socket[e] : socket[e][i].frame = f
      \/ \E i \in DOMAIN remote[e].q : remote[e].q[i].frame = f

\* Segments become too long only when a camera is missing, or misses frames, or encoderd was
\* restarted, or loggerd stalls (which MaxPackets excludes: the next frame waits for room in the sockets):
\* otherwise the encoders agree on every rotation (rotate_if_needed).
FallbackOnlyOnMalfunction ==
  forced => streams # Encoders \/ missed > 0 \/ restarts > 0
=============================================================================
