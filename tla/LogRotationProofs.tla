-------------------------- MODULE LogRotationProofs --------------------------
(***************************************************************************)
(* The segments of all cameras agree, for any number of cameras, any       *)
(* length of a segment and any order in which threads and sockets are      *)
(* served, as long as fewer frames are missed than a segment has: a thread *)
(* begins one segment at a time, and a frame that comes later than that    *)
(* would still go to the segment before its own.                           *)
(*                                                                         *)
(* And when nothing goes wrong the encoders rotate together: no segment is *)
(* cut by time.  A frame that was encoded is not lost then either, as long *)
(* as no camera is a segment behind another, or what a queue holds.        *)
(***************************************************************************)
EXTENDS LogRotation, FiniteSetTheorems, TLAPS

FewMissed == MaxMissed < SegmentFrames

Threads == [frame : Int, pc : {"recv", "update"}, ready : BOOLEAN, synced : BOOLEAN, seg : Nat, idx : Nat]

Packets == [frame : Nat, seg : Nat, key : BOOLEAN]

RemoteEncoders ==
  [encoderd_segment_offset : Int, current_segment : Int, q : Seq(Packets), recording : BOOLEAN,
   marked_ready_to_rotate : BOOLEAN, seen_first_packet : BOOLEAN, audio_initialized : BOOLEAN]

EncoderdOK ==
  /\ now \in Nat /\ start_frame_id \in Nat
  /\ streams \subseteq Encoders
  /\ thread \in [Encoders -> Threads]
  /\ missed \in 0..MaxMissed /\ restarts \in Nat

LoggerdOK ==
  /\ socket \in [Encoders -> Seq(Packets)]
  /\ remote \in [Encoders -> RemoteEncoders]
  /\ segment \in Nat /\ ready_to_rotate \in Nat
  /\ video \in [Encoders -> SUBSET (Nat \X Nat)]
  /\ forced \in BOOLEAN /\ silent \in BOOLEAN

TypeOK == EncoderdOK /\ LoggerdOK

\* All cameras are there, encoderd was not restarted, and fewer frames were missed than a segment has.
Healthy == streams = Encoders /\ restarts = 0 /\ missed < SegmentFrames

\* A frame that belongs to a segment, counted from the start.
Belongs(frame, seg) ==
  /\ start_frame_id + seg * SegmentFrames <= frame
  /\ frame < start_frame_id + (seg + 1) * SegmentFrames

\* The start does not change any more when a thread has begun, and no thread is further ahead of its
\* segment than by the frames that were missed.
Sync(e) ==
  LET t == thread[e] IN
  /\ now - 1 <= t.frame /\ t.frame <= now
  /\ t.pc = "update" => t.frame = now /\ streams # {e}
  /\ t.pc = "update" /\ AllReady => start_frame_id >= now + 2
  /\ t.synced => /\ AllReady \/ streams = {e}
                 /\ start_frame_id + t.seg * SegmentFrames <= t.frame
                 /\ t.frame < start_frame_id + (t.seg + 1) * SegmentFrames + missed
  /\ ~t.synced => /\ t.seg = 0
                  /\ AllReady => t.frame < start_frame_id + missed
                  /\ streams = {e} => start_frame_id = 0

\* What is on its way is labelled with the segment that it belongs to, in order, from segment 0.
OnItsWay(e) ==
  /\ \A i \in DOMAIN socket[e] :
       /\ thread[e].synced
       /\ Belongs(socket[e][i].frame, socket[e][i].seg)
       /\ socket[e][i].seg <= thread[e].seg
       /\ \A j \in 1..i : socket[e][j].seg <= socket[e][i].seg
  /\ ~remote[e].seen_first_packet => IF socket[e] = <<>> THEN ~thread[e].synced
                                     ELSE socket[e][1].seg = 0

\* What loggerd has queued belongs to segment k or to a later one, and so does all that follows.
\* Without a sound track only what comes early is queued.
InOrder(e, k) ==
  LET q == remote[e].q IN
  /\ remote[e].encoderd_segment_offset = 0
  /\ k <= thread[e].seg
  /\ \A i \in DOMAIN socket[e] : k <= socket[e][i].seg
  /\ \A i \in DOMAIN q :
       /\ thread[e].synced
       /\ Belongs(q[i].frame, q[i].seg)
       /\ k <= q[i].seg /\ q[i].seg <= thread[e].seg
       /\ \A j \in DOMAIN socket[e] : q[i].seg <= socket[e][j].seg
  /\ e \notin AudioEncoders /\ ~remote[e].marked_ready_to_rotate => q = <<>>
  /\ \A w \in video[e] : thread[e].synced /\ Belongs(w[1], w[2])

\* An encoder that loggerd has counted in ready_to_rotate is done with segment k.
Ahead(e, k) ==
  /\ remote[e].marked_ready_to_rotate
  /\ k < thread[e].seg
  /\ \A i \in DOMAIN socket[e] : k < socket[e][i].seg
  /\ e \notin AudioEncoders => \A i \in DOMAIN remote[e].q : k < remote[e].q[i].seg

AheadEncoders(k) == {e \in Encoders : Ahead(e, k)}

Orderly(k) == \A e \in Encoders : InOrder(e, k)

IInv ==
  /\ TypeOK
  /\ Healthy => \A e \in Encoders : Sync(e) /\ OnItsWay(e)
  /\ Healthy /\ Regular => Orderly(segment) /\ ready_to_rotate <= Cardinality(AheadEncoders(segment))

-----------------------------------------------------------------------------
(* What the actions do, without the records *)

\* Nothing is sent; or a packet is, with a key frame where a segment begins.
SendsNothing(e) == sent' = sent /\ thread'[e].idx = thread[e].idx

Sends(e, packet) ==
  /\ sent' = [sent EXCEPT ![e] = @ \cup {now}]
  /\ thread'[e].seg # thread[e].seg \/ thread[e].idx = 0 => packet.key

\* The three outcomes of a frame: the thread waits for the others, or for the start, or encodes.
Waits(e) ==
  /\ ~thread[e].synced /\ streams # {e} /\ ~AllReady
  /\ thread'[e].pc = "update" /\ ~thread'[e].synced /\ thread'[e].seg = thread[e].seg
  /\ UNCHANGED <<start_frame_id, socket>>
  /\ SendsNothing(e)

Skips(e) ==
  /\ ~thread[e].synced /\ now < start_frame_id' /\ (streams = {e} \/ AllReady)
  /\ thread'[e].pc = "recv" /\ ~thread'[e].synced /\ thread'[e].seg = thread[e].seg
  /\ UNCHANGED socket
  /\ SendsNothing(e)

Encodes(e) ==
  /\ thread[e].synced \/ streams = {e} \/ AllReady
  /\ thread[e].synced \/ now >= start_frame_id'
  /\ thread'[e].pc = "recv" /\ thread'[e].synced
  /\ thread'[e].seg = IF now >= (thread[e].seg + 1) * SegmentFrames + start_frame_id'
                      THEN thread[e].seg + 1 ELSE thread[e].seg
  /\ \E packet \in Packets : /\ packet.frame = now /\ packet.seg = thread'[e].seg
                             /\ socket' = [socket EXCEPT ![e] = Append(@, packet)]
                             /\ Sends(e, packet)

\* TakeFrame, by its outcomes.
LEMMA TakeFrameDoes ==
  ASSUME TypeOK, NEW e \in Encoders, TakeFrame(e)
  PROVE  /\ e \in streams /\ thread[e].pc = "recv" /\ thread[e].frame < now
         /\ thread' \in [Encoders -> Threads]
         /\ \A d \in Encoders \ {e} : thread'[d] = thread[d]
         /\ thread'[e].frame = now /\ thread'[e].ready = thread[e].ready
         /\ start_frame_id' = IF ~thread[e].synced /\ streams = {e} THEN Later(start_frame_id, now)
                              ELSE start_frame_id
         /\ Waits(e) \/ Skips(e) \/ Encodes(e)
<1> DEFINE t == [thread[e] EXCEPT !.frame = now]
<1>1. /\ thread[e] \in Threads /\ thread \in [Encoders -> Threads] /\ now \in Nat
      /\ socket \in [Encoders -> Seq(Packets)]
  BY DEF TypeOK, EncoderdOK, LoggerdOK
<1>2. /\ e \in streams /\ thread[e].pc = "recv" /\ thread[e].frame < now
  BY <1>1 DEF TakeFrame, Threads
<1>3. /\ t \in Threads /\ t.pc = thread[e].pc /\ t.synced = thread[e].synced /\ t.seg = thread[e].seg
      /\ t.ready = thread[e].ready /\ t.frame = now /\ t.idx = thread[e].idx
  <2>1. now \in Int
    BY <1>1
  <2>2. t \in Threads
    BY <1>1, <2>1, Zenon DEF Threads
  <2> QED
    BY <1>1, <2>2 DEF Threads
<1>4. CASE ~t.synced /\ streams # {e} /\ ~AllReady
  <2> DEFINE u == [t EXCEPT !.pc = "update"]
  <2>1. thread' = [thread EXCEPT ![e] = u] /\ UNCHANGED <<start_frame_id, socket, sent>>
    BY <1>4 DEF TakeFrame
  <2>2. /\ u \in Threads /\ u.pc = "update" /\ u.synced = t.synced /\ u.seg = t.seg
        /\ u.ready = t.ready /\ u.frame = now /\ u.idx = t.idx
    BY <1>3 DEF Threads
  <2> HIDE DEF t, u
  <2> QED
    BY <1>1, <1>2, <1>3, <1>4, <2>1, <2>2 DEF Waits, SendsNothing
<1>5. CASE ~(~t.synced /\ streams # {e} /\ ~AllReady)
  <2>1. /\ start_frame_id' = IF ~t.synced /\ streams = {e} THEN Later(start_frame_id, now) ELSE start_frame_id
        /\ IF t.synced \/ now >= start_frame_id'
           THEN Encode(e, [t EXCEPT !.synced = TRUE])
           ELSE thread' = [thread EXCEPT ![e] = t] /\ UNCHANGED <<socket, sent>>
    BY <1>5 DEF TakeFrame
  <2>5. start_frame_id' \in Nat
    BY <1>1, <2>1 DEF TypeOK, EncoderdOK, Later
  <2>2. CASE t.synced \/ now >= start_frame_id'
    <3> DEFINE s == [t EXCEPT !.synced = TRUE]
               rolls == RollsOver(s, now)
               seg == IF rolls THEN s.seg + 1 ELSE s.seg
               idx == IF rolls THEN 0 ELSE s.idx
               u == [s EXCEPT !.seg = seg, !.idx = idx + 1]
               packet == [frame |-> now, seg |-> seg, key |-> idx % GopSize = 0]
    <3>1. /\ thread' = [thread EXCEPT ![e] = u] /\ socket' = [socket EXCEPT ![e] = Append(@, packet)]
          /\ sent' = [sent EXCEPT ![e] = @ \cup {now}]
      BY <2>1, <2>2 DEF Encode
    <3>2. s \in Threads /\ s.pc = t.pc /\ s.synced /\ s.seg = t.seg /\ s.ready = t.ready /\ s.frame = now
          /\ s.idx = thread[e].idx
      BY <1>3 DEF Threads
    <3>3. rolls <=> now >= (thread[e].seg + 1) * SegmentFrames + start_frame_id'
      BY <1>3, <3>2 DEF RollsOver
    <3> HIDE DEF s, rolls
    <3>4. seg \in Nat /\ idx + 1 \in Nat
      BY <3>2 DEF Threads
    <3>5. packet \in Packets /\ packet.frame = now /\ packet.seg = seg
      <4> HIDE DEF seg, idx
      <4>1. (idx % GopSize = 0) \in BOOLEAN
        BY Zenon
      <4> QED
        BY <1>1, <3>4, <4>1 DEF Packets
    <3>6. /\ u \in Threads /\ u.pc = "recv" /\ u.synced /\ u.seg = seg /\ u.ready = t.ready /\ u.frame = now
      <4> HIDE DEF seg, idx
      <4> QED  BY <1>2, <1>3, <3>2, <3>4 DEF Threads
    <3>7. seg = IF now >= (thread[e].seg + 1) * SegmentFrames + start_frame_id'
                THEN thread[e].seg + 1 ELSE thread[e].seg
      BY <1>3, <3>2, <3>3
    <3>12. ASSUME seg # thread[e].seg \/ thread[e].idx = 0
           PROVE  packet.key
      <4>1. idx = 0
        BY <1>3, <3>2, <3>12
      <4>2. 0 % GopSize = 0
        BY LogRotationAssumption
      <4> QED
        BY <4>1, <4>2
    <3> HIDE DEF t, u, packet, seg
    <3>8. thread'[e] = u /\ thread' \in [Encoders -> Threads] /\ \A d \in Encoders \ {e} : thread'[d] = thread[d]
      BY <1>1, <3>1, <3>6
    <3>9. thread[e].synced \/ streams = {e} \/ AllReady
      BY <1>3, <1>5
    <3>10. thread[e].synced \/ now >= start_frame_id'
      BY <1>3, <2>2
    <3>13. Sends(e, packet)
      BY <3>1, <3>6, <3>8, <3>12 DEF Sends
    <3>11. Encodes(e)
      BY <3>1, <3>5, <3>6, <3>7, <3>8, <3>9, <3>10, <3>13 DEF Encodes
    <3> QED
      BY <1>2, <1>3, <2>1, <3>6, <3>8, <3>11
  <2>3. CASE ~(t.synced \/ now >= start_frame_id')
    <3>1. thread' = [thread EXCEPT ![e] = t] /\ socket' = socket /\ sent' = sent
      BY <2>1, <2>3
    <3>2. now < start_frame_id' /\ ~thread[e].synced /\ ~t.synced
      BY <1>1, <1>3, <2>3, <2>5
    <3>4. streams = {e} \/ AllReady
      BY <1>5, <2>3
    <3> HIDE DEF t
    <3>3. thread'[e] = t /\ thread' \in [Encoders -> Threads] /\ \A d \in Encoders \ {e} : thread'[d] = thread[d]
      BY <1>1, <1>3, <3>1
    <3> QED
      BY <1>2, <1>3, <2>1, <3>1, <3>2, <3>3, <3>4 DEF Skips, SendsNothing
  <2> QED
    BY <2>2, <2>3
<1> QED
  BY <1>4, <1>5

\* What loggerd makes of a packet: it is queued, or written with all that is queued.
LEMMA QueuedDoes ==
  ASSUME NEW r \in RemoteEncoders, NEW packet \in Packets
  PROVE  /\ Queued(r, packet) \in RemoteEncoders
         /\ Queued(r, packet).q \in {r.q, Append(r.q, packet)}
         /\ Queued(r, packet).encoderd_segment_offset = r.encoderd_segment_offset
         /\ Queued(r, packet).marked_ready_to_rotate = r.marked_ready_to_rotate
         /\ Queued(r, packet).seen_first_packet = r.seen_first_packet
         /\ Queued(r, packet).current_segment = r.current_segment
         /\ Queued(r, packet).recording = r.recording
         /\ Queued(r, packet).q = IF Len(r.q) > QueueLimit THEN r.q ELSE Append(r.q, packet)
<1> DEFINE longer == Append(r.q, packet)
           s == [r EXCEPT !.q = longer]
<1>1. IF Len(r.q) > QueueLimit THEN Queued(r, packet) = r ELSE Queued(r, packet) = s
  BY DEF Queued
<1>2. longer \in Seq(Packets)
  BY DEF RemoteEncoders
<1> HIDE DEF longer
<1>3. s \in RemoteEncoders
  BY <1>2, Zenon DEF RemoteEncoders
<1>4. s.q = longer /\ s.encoderd_segment_offset = r.encoderd_segment_offset
      /\ s.marked_ready_to_rotate = r.marked_ready_to_rotate /\ s.seen_first_packet = r.seen_first_packet
      /\ s.current_segment = r.current_segment /\ s.recording = r.recording
  BY DEF RemoteEncoders
<1> HIDE DEF s
<1> QED
  BY <1>1, <1>3, <1>4 DEF longer

\* Entering a segment keeps the type of an encoder's record, its queue and its offset.
LEMMA EnteredDoes ==
  ASSUME TypeOK, NEW e \in Encoders, NEW r \in RemoteEncoders
  PROVE  /\ Entered(e, r) \in RemoteEncoders
         /\ Entered(e, r).q = r.q
         /\ Entered(e, r).encoderd_segment_offset = r.encoderd_segment_offset
         /\ Entered(e, r).seen_first_packet = r.seen_first_packet
         /\ Entered(e, r).current_segment = segment
         /\ Entered(e, r).marked_ready_to_rotate =>
              r.marked_ready_to_rotate /\ r.current_segment = segment
         /\ r.current_segment = segment => Entered(e, r).recording = r.recording
<1> DEFINE rec == r.recording /\ e \notin Recorded
           init == r.audio_initialized /\ e \notin Recorded
           s == [r EXCEPT !.current_segment = segment, !.marked_ready_to_rotate = FALSE,
                          !.recording = rec, !.audio_initialized = init]
<1>1. IF r.current_segment = segment THEN Entered(e, r) = r ELSE Entered(e, r) = s
  BY DEF Entered
<1>2. rec \in BOOLEAN /\ init \in BOOLEAN
  BY Zenon DEF RemoteEncoders
<1>3. segment \in Int
  BY DEF TypeOK, LoggerdOK
<1> HIDE DEF rec, init
<1>4. s \in RemoteEncoders
  BY <1>2, <1>3, Zenon DEF RemoteEncoders
<1>5. s.q = r.q /\ s.encoderd_segment_offset = r.encoderd_segment_offset
      /\ s.seen_first_packet = r.seen_first_packet /\ s.current_segment = segment
      /\ ~s.marked_ready_to_rotate
  BY DEF RemoteEncoders
<1> HIDE DEF s
<1> QED
  BY <1>1, <1>4, <1>5

\* The segment in which the encoder's numbers begin: the first packet tells.
Offset(e) ==
  IF remote[e].seen_first_packet THEN remote[e].encoderd_segment_offset ELSE Head(socket[e]).seg

\* The video of a segment has begun.
Open(e, seg) == remote[e].recording /\ remote[e].current_segment = seg

\* The packets up to this one are written, those before the first key frame of a video excepted.
Records(e, written) ==
  LET packets == Append(remote[e].q, Head(socket[e])) IN
  /\ \A i \in DOMAIN packets :
       Open(e, segment) \/ (\E j \in 1..i : packets[j].key) => packets[i].frame \in written
  /\ written # {} => remote'[e].recording

\* A packet waits, if there is room.
Queues(e) ==
  LET r == remote[e] IN
  /\ remote'[e].q = IF Len(r.q) > QueueLimit THEN r.q ELSE Append(r.q, Head(socket[e]))
  /\ r.current_segment = remote'[e].current_segment => remote'[e].recording = r.recording

\* The three outcomes of a packet: it is of this segment, and written with all that waits or made to
\* wait for sound; or early; or late.
Current(e) ==
  /\ Head(socket[e]).seg - Offset(e) = segment
  /\ remote'[e].encoderd_segment_offset = Offset(e)
  /\ remote'[e].current_segment = segment
  /\ remote'[e].marked_ready_to_rotate =>
       remote[e].marked_ready_to_rotate /\ remote[e].current_segment = segment
  /\ \/ /\ remote'[e].q = <<>>
        /\ \E written : /\ \A f \in written : \/ f = Head(socket[e]).frame
                                              \/ \E i \in DOMAIN remote[e].q : f = remote[e].q[i].frame
                        /\ video' = [video EXCEPT ![e] = @ \cup (written \X {segment})]
                        /\ Records(e, written)
     \/ /\ e \in AudioEncoders
        /\ Queues(e)
        /\ remote'[e].q \in {remote[e].q, Append(remote[e].q, Head(socket[e]))}
        /\ UNCHANGED video

Early(e) ==
  /\ Head(socket[e]).seg - Offset(e) > segment
  /\ remote'[e].encoderd_segment_offset = Offset(e)
  /\ remote'[e].marked_ready_to_rotate
  /\ remote'[e].current_segment = remote[e].current_segment
  /\ Queues(e)
  /\ remote'[e].q \in {remote[e].q, Append(remote[e].q, Head(socket[e]))}
  /\ UNCHANGED video

Late(e) ==
  /\ Head(socket[e]).seg - Offset(e) < segment
  /\ UNCHANGED video

\* Receive, by its outcomes.
LEMMA ReceiveDoes ==
  ASSUME TypeOK, NEW e \in Encoders, Receive(e)
  PROVE  /\ socket[e] # <<>> /\ Head(socket[e]) \in Packets
         /\ socket' = [socket EXCEPT ![e] = Tail(@)]
         /\ remote' \in [Encoders -> RemoteEncoders]
         /\ \A d \in Encoders \ {e} : remote'[d] = remote[d]
         /\ remote'[e].seen_first_packet
         /\ Current(e) \/ Early(e) \/ Late(e)
         /\ Rotate(IF Early(e) /\ ~remote[e].marked_ready_to_rotate
                   THEN ready_to_rotate + 1 ELSE ready_to_rotate)
<1> DEFINE packet == Head(socket[e])
           r == IF remote[e].seen_first_packet THEN remote[e]
                ELSE [remote[e] EXCEPT !.seen_first_packet = TRUE, !.encoderd_segment_offset = packet.seg]
           in == Entered(e, r)
           newer == OffsetSegment(r, packet) > segment
<1>1. /\ socket \in [Encoders -> Seq(Packets)] /\ remote \in [Encoders -> RemoteEncoders]
      /\ socket[e] # <<>> /\ segment \in Nat /\ video \in [Encoders -> SUBSET (Nat \X Nat)]
  BY DEF TypeOK, LoggerdOK, Receive
<1>2. packet \in Packets /\ packet.seg \in Nat /\ remote[e] \in RemoteEncoders
  <2>1. socket[e] \in Seq(Packets) /\ remote[e] \in RemoteEncoders
    BY <1>1
  <2>2. packet \in Packets
    BY <1>1, <2>1
  <2> QED
    BY <2>1, <2>2 DEF Packets
<1>3. /\ r \in RemoteEncoders /\ r.q = remote[e].q /\ r.seen_first_packet
      /\ r.marked_ready_to_rotate = remote[e].marked_ready_to_rotate
      /\ r.encoderd_segment_offset = Offset(e) /\ r.current_segment = remote[e].current_segment
      /\ r.recording = remote[e].recording
  <2>1. CASE remote[e].seen_first_packet
    BY <1>2, <2>1 DEF Offset
  <2>2. CASE ~remote[e].seen_first_packet
    <3> DEFINE s == [remote[e] EXCEPT !.seen_first_packet = TRUE, !.encoderd_segment_offset = packet.seg]
    <3>1. s.q = remote[e].q /\ s.seen_first_packet
          /\ s.marked_ready_to_rotate = remote[e].marked_ready_to_rotate
          /\ s.encoderd_segment_offset = packet.seg /\ s.current_segment = remote[e].current_segment
          /\ s.recording = remote[e].recording
      BY <1>2 DEF RemoteEncoders
    <3>2. s \in RemoteEncoders
      <4>1. packet.seg \in Int
        BY <1>2
      <4> HIDE DEF packet
      <4> QED  BY <1>2, <4>1, Zenon DEF RemoteEncoders
    <3>3. r = s /\ Offset(e) = packet.seg
      BY <2>2 DEF Offset
    <3> HIDE DEF s, r
    <3> QED  BY <3>1, <3>2, <3>3
  <2> QED
    BY <2>1, <2>2
<1>4. OffsetSegment(r, packet) = packet.seg - Offset(e)
  BY <1>3 DEF OffsetSegment
<1>5. /\ socket' = [socket EXCEPT ![e] = Tail(@)]
      /\ \/ /\ OffsetSegment(r, packet) = segment
            /\ IF in.audio_initialized \/ e \notin AudioEncoders
               THEN Write(e, in, packet)
               ELSE remote' = [remote EXCEPT ![e] = Queued(in, packet)] /\ UNCHANGED video
         \/ /\ newer
            /\ remote' = [remote EXCEPT ![e] = [Queued(r, packet) EXCEPT !.marked_ready_to_rotate = TRUE]]
            /\ UNCHANGED video
         \/ /\ OffsetSegment(r, packet) < segment
            /\ remote' = [remote EXCEPT ![e] = [r EXCEPT !.encoderd_segment_offset = -segment]]
            /\ UNCHANGED video
      /\ Rotate(IF newer /\ ~r.marked_ready_to_rotate THEN ready_to_rotate + 1 ELSE ready_to_rotate)
  BY DEF Receive
<1>6. /\ in \in RemoteEncoders /\ in.q = r.q /\ in.encoderd_segment_offset = Offset(e)
      /\ in.seen_first_packet /\ in.current_segment = segment
      /\ in.marked_ready_to_rotate => remote[e].marked_ready_to_rotate /\ remote[e].current_segment = segment
      /\ remote[e].current_segment = segment => in.recording = remote[e].recording
  <2>1. r \in RemoteEncoders
    BY <1>3
  <2>2. r.current_segment = segment => in.recording = r.recording
    BY <2>1, EnteredDoes
  <2> HIDE DEF r
  <2> QED
    BY <1>3, <2>1, <2>2, EnteredDoes
<1> HIDE DEF r, in, packet
<1>7. CASE OffsetSegment(r, packet) = segment
  <2>1. Rotate(IF newer /\ ~r.marked_ready_to_rotate THEN ready_to_rotate + 1 ELSE ready_to_rotate)
    BY <1>5
  <2>2. ~newer /\ ~Early(e)
    BY <1>1, <1>4, <1>7 DEF Early, packet
  <2>3. CASE in.audio_initialized \/ e \notin AudioEncoders
    <3>1. Write(e, in, packet)
      BY <1>1, <1>5, <1>7, <2>3
    <3> DEFINE packets == Append(Pending(in), packet)
               written == {packets[i].frame : i \in Writable(in, packets)}
               wrote == written # {}
               s == [in EXCEPT !.q = <<>>, !.recording = wrote]
    <3>2. /\ video' = [video EXCEPT ![e] = @ \cup (written \X {segment})]
          /\ remote' = [remote EXCEPT ![e] = s]
      BY <3>1 DEF Write
    <3>3. s \in RemoteEncoders /\ s.q = <<>> /\ s.seen_first_packet
          /\ s.encoderd_segment_offset = Offset(e) /\ s.current_segment = segment
          /\ s.marked_ready_to_rotate = in.marked_ready_to_rotate /\ s.recording = wrote
      <4>1. <<>> \in Seq(Packets)
        OBVIOUS
      <4>3. wrote \in BOOLEAN
        BY Zenon
      <4> HIDE DEF wrote
      <4>2. s \in RemoteEncoders
        BY <1>6, <4>1, <4>3, Zenon DEF RemoteEncoders
      <4> QED
        BY <1>6, <4>2 DEF RemoteEncoders
    <3>4. \A f \in written : f = packet.frame \/ \E i \in DOMAIN remote[e].q : f = remote[e].q[i].frame
      <4>1. packets = Append(remote[e].q, packet) /\ remote[e].q \in Seq(Packets)
        BY <1>2, <1>3, <1>6 DEF Pending, RemoteEncoders
      <4> HIDE DEF packets
      <4> QED
        BY <1>2, <4>1 DEF Writable
    <3>7. /\ written # {} => s.recording
          /\ \A i \in DOMAIN Append(remote[e].q, packet) :
               Open(e, segment) \/ (\E j \in 1..i : Append(remote[e].q, packet)[j].key)
                 => Append(remote[e].q, packet)[i].frame \in written
      <4>1. packets = Append(remote[e].q, packet)
        BY <1>3, <1>6 DEF Pending
      <4>2. Open(e, segment) => in.recording
        BY <1>6 DEF Open
      <4> QED
        BY <3>3, <4>1, <4>2 DEF Writable
    <3> HIDE DEF s, written
    <3>5. remote'[e] = s /\ remote' \in [Encoders -> RemoteEncoders]
          /\ \A d \in Encoders \ {e} : remote'[d] = remote[d]
      BY <1>1, <3>2, <3>3
    <3>8. Records(e, written)
      BY <3>5, <3>7 DEF Records, packet
    <3>6. Current(e)
      BY <1>4, <1>6, <1>7, <3>2, <3>3, <3>4, <3>5, <3>8 DEF Current, packet
    <3> QED
      BY <1>1, <1>2, <1>5, <2>1, <2>2, <3>3, <3>5, <3>6 DEF packet
  <2>4. CASE ~(in.audio_initialized \/ e \notin AudioEncoders)
    <3> DEFINE s == Queued(in, packet)
    <3>1. remote' = [remote EXCEPT ![e] = s] /\ UNCHANGED video
      BY <1>1, <1>5, <1>7, <2>4
    <3>2. s \in RemoteEncoders /\ s.q \in {in.q, Append(in.q, packet)} /\ s.seen_first_packet
          /\ s.encoderd_segment_offset = Offset(e) /\ s.current_segment = segment
          /\ s.marked_ready_to_rotate = in.marked_ready_to_rotate /\ s.recording = in.recording
          /\ s.q = IF Len(in.q) > QueueLimit THEN in.q ELSE Append(in.q, packet)
      BY <1>2, <1>6, QueuedDoes
    <3> HIDE DEF s
    <3>5. remote'[e] = s /\ remote' \in [Encoders -> RemoteEncoders]
          /\ \A d \in Encoders \ {e} : remote'[d] = remote[d]
      BY <1>1, <3>1, <3>2
    <3>7. Queues(e)
      BY <1>3, <1>6, <3>2, <3>5 DEF Queues, packet
    <3>6. Current(e)
      BY <1>3, <1>4, <1>6, <1>7, <2>4, <3>1, <3>2, <3>5, <3>7 DEF Current, packet
    <3> QED
      BY <1>1, <1>2, <1>5, <2>1, <2>2, <3>2, <3>5, <3>6 DEF packet
  <2> QED
    BY <2>3, <2>4
<1>8. CASE newer
  <2> DEFINE u == Queued(r, packet)
             s == [u EXCEPT !.marked_ready_to_rotate = TRUE]
  <2>1. remote' = [remote EXCEPT ![e] = s] /\ UNCHANGED video
    BY <1>1, <1>2, <1>3, <1>5, <1>8 DEF OffsetSegment, RemoteEncoders
  <2>2. u \in RemoteEncoders /\ u.q \in {r.q, Append(r.q, packet)} /\ u.seen_first_packet
        /\ u.encoderd_segment_offset = Offset(e) /\ u.current_segment = remote[e].current_segment
        /\ u.q = (IF Len(r.q) > QueueLimit THEN r.q ELSE Append(r.q, packet)) /\ u.recording = r.recording
    BY <1>2, <1>3, QueuedDoes
  <2> HIDE DEF u
  <2>3. s \in RemoteEncoders /\ s.q = u.q /\ s.seen_first_packet
        /\ s.encoderd_segment_offset = Offset(e) /\ s.marked_ready_to_rotate
        /\ s.current_segment = remote[e].current_segment /\ s.recording = u.recording
    BY <2>2 DEF RemoteEncoders
  <2> HIDE DEF s
  <2>5. remote'[e] = s /\ remote' \in [Encoders -> RemoteEncoders]
        /\ \A d \in Encoders \ {e} : remote'[d] = remote[d]
    BY <1>1, <2>1, <2>3
  <2>8. Queues(e)
    BY <1>3, <2>2, <2>3, <2>5 DEF Queues, packet
  <2>6. Early(e)
    BY <1>3, <1>4, <1>8, <2>1, <2>2, <2>3, <2>5, <2>8 DEF Early, packet
  <2>7. Rotate(IF Early(e) /\ ~remote[e].marked_ready_to_rotate
               THEN ready_to_rotate + 1 ELSE ready_to_rotate)
    BY <1>3, <1>5, <1>8, <2>6
  <2> QED
    BY <1>1, <1>2, <1>5, <2>3, <2>5, <2>6, <2>7 DEF packet
<1>9. CASE OffsetSegment(r, packet) < segment
  <2> DEFINE s == [r EXCEPT !.encoderd_segment_offset = -segment]
  <2>0. OffsetSegment(r, packet) \in Int
    BY <1>2, <1>3 DEF OffsetSegment, RemoteEncoders
  <2>1. remote' = [remote EXCEPT ![e] = s] /\ UNCHANGED video
    BY <1>1, <1>5, <1>9, <2>0
  <2>2. -segment \in Int
    BY <1>1
  <2>3. s \in RemoteEncoders /\ s.seen_first_packet
    BY <1>3, <2>2 DEF RemoteEncoders
  <2> HIDE DEF s
  <2>5. remote'[e] = s /\ remote' \in [Encoders -> RemoteEncoders]
        /\ \A d \in Encoders \ {e} : remote'[d] = remote[d]
    BY <1>1, <2>1, <2>3
  <2>6. Late(e) /\ ~Early(e) /\ ~newer
    BY <1>1, <1>4, <1>9, <2>0, <2>1 DEF Late, Early, packet
  <2> QED
    BY <1>1, <1>2, <1>5, <2>3, <2>5, <2>6 DEF packet
<1> QED
  BY <1>5, <1>7, <1>8, <1>9

\* rotate_if_needed: without the fallback, loggerd rotates when all encoders are counted, and nothing
\* of the segment waits for sound.
LEMMA RotateDoes ==
  ASSUME TypeOK, NEW n \in Nat, Rotate(n)
  PROVE  /\ segment' \in Nat /\ ready_to_rotate' \in Nat /\ forced' \in BOOLEAN /\ silent' \in BOOLEAN
         /\ forced => forced'
         /\ silent => silent'
         /\ \/ segment' = segment /\ ready_to_rotate' = n
            \/ /\ segment' = segment + 1 /\ ready_to_rotate' = 0
               /\ n = Cardinality(Encoders) \/ forced'
               /\ silent' \/ \A e \in Encoders : ~Waiting(e, remote'[e])
<1>1. segment \in Nat /\ forced \in BOOLEAN /\ silent \in BOOLEAN
  BY DEF TypeOK, LoggerdOK
<1>2. /\ IF all_ready(n) \/ TimedOut
         THEN segment' = segment + 1 /\ ready_to_rotate' = 0
         ELSE ready_to_rotate' = n /\ segment' = segment
      /\ forced' = (forced \/ (TimedOut /\ ~all_ready(n)))
      /\ silent' = (silent \/ \E e \in Encoders :
                       Waiting(e, remote'[e]) /\ (segment' # segment \/ Len(remote'[e].q) > QueueLimit))
  BY DEF Rotate
<1>3. forced' \in BOOLEAN /\ silent' \in BOOLEAN
  BY <1>2, Zenon
<1>4. (forced => forced') /\ (silent => silent')
  BY <1>2, Zenon
<1>5. CASE all_ready(n) \/ TimedOut
  <2>1. segment' = segment + 1 /\ ready_to_rotate' = 0 /\ segment' # segment
    BY <1>1, <1>2, <1>5
  <2>2. n = Cardinality(Encoders) \/ forced'
    BY <1>2, <1>5, Zenon DEF all_ready
  <2>3. silent' \/ \A e \in Encoders : ~Waiting(e, remote'[e])
    BY <1>2, <2>1, Zenon
  <2> QED
    BY <1>1, <1>3, <1>4, <2>1, <2>2, <2>3
<1>6. CASE ~(all_ready(n) \/ TimedOut)
  BY <1>1, <1>2, <1>3, <1>4, <1>6
<1> QED
  BY <1>5, <1>6

-----------------------------------------------------------------------------
(* The types *)

\* Every step keeps the types.
LEMMA TypeStep ==
  ASSUME TypeOK, [Next]_vars
  PROVE  TypeOK'
<1>1. ASSUME NEW e \in Encoders, TakeFrame(e)
      PROVE  TypeOK'
  <2>1. thread' \in [Encoders -> Threads] /\ start_frame_id' \in Nat
    BY <1>1, TakeFrameDoes DEF TypeOK, EncoderdOK, Later
  <2>2. socket' \in [Encoders -> Seq(Packets)]
    <3>1. CASE socket' = socket
      BY <3>1 DEF TypeOK, LoggerdOK
    <3>2. CASE Encodes(e)
      <4>1. PICK packet \in Packets : socket' = [socket EXCEPT ![e] = Append(@, packet)]
        BY <3>2 DEF Encodes
      <4> QED
        BY <4>1 DEF TypeOK, LoggerdOK
    <3> QED
      BY <1>1, <3>1, <3>2, TakeFrameDoes DEF Waits, Skips
  <2>3. UNCHANGED <<now, streams, loggerd, bounds, video, forced, silent>>
    BY <1>1 DEF TakeFrame
  <2>4. EncoderdOK'
    BY <2>1, <2>3 DEF TypeOK, EncoderdOK, bounds
  <2>5. LoggerdOK'
    BY <2>2, <2>3 DEF TypeOK, LoggerdOK, loggerd
  <2> QED
    BY <2>4, <2>5 DEF TypeOK
<1>2. ASSUME NEW e \in Encoders, UpdateStart(e)
      PROVE  TypeOK'
  <2> DEFINE u == [thread[e] EXCEPT !.ready = TRUE, !.pc = "recv"]
  <2>1. thread' = [thread EXCEPT ![e] = u]
    BY <1>2 DEF UpdateStart, TypeOK, EncoderdOK
  <2>2. u \in Threads
    BY DEF TypeOK, EncoderdOK, Threads
  <2> HIDE DEF u
  <2>3. thread[e].frame \in Int
    BY DEF TypeOK, EncoderdOK, Threads
  <2>4. start_frame_id' \in Nat
    BY <1>2, <2>3 DEF UpdateStart, TypeOK, EncoderdOK, Later, StartAfter
  <2>5. EncoderdOK'
    BY <1>2, <2>1, <2>2, <2>4 DEF UpdateStart, TypeOK, EncoderdOK, bounds
  <2>6. LoggerdOK'
    BY <1>2 DEF UpdateStart, TypeOK, LoggerdOK, loggerd
  <2> QED
    BY <2>5, <2>6 DEF TypeOK
<1>3. ASSUME NEW e \in Encoders, MissFrame(e)
      PROVE  TypeOK'
  <2> DEFINE u == [thread[e] EXCEPT !.frame = now]
  <2>1. thread' = [thread EXCEPT ![e] = u]
    BY <1>3 DEF MissFrame, TypeOK, EncoderdOK
  <2>2. u \in Threads
    <3>1. now \in Int /\ thread[e] \in Threads
      BY DEF TypeOK, EncoderdOK
    <3> QED
      BY <3>1, Zenon DEF Threads
  <2> HIDE DEF u
  <2>3. missed' \in 0..MaxMissed
    BY <1>3, LogRotationAssumption DEF MissFrame, TypeOK, EncoderdOK
  <2>5. EncoderdOK'
    BY <1>3, <2>1, <2>2, <2>3 DEF MissFrame, TypeOK, EncoderdOK
  <2>6. LoggerdOK'
    BY <1>3 DEF MissFrame, TypeOK, LoggerdOK, loggerd
  <2> QED
    BY <2>5, <2>6 DEF TypeOK
<1>4. ASSUME NEW e \in Encoders, Receive(e)
      PROVE  TypeOK'
  <2>1. /\ socket[e] # <<>> /\ Head(socket[e]) \in Packets
        /\ socket' = [socket EXCEPT ![e] = Tail(@)] /\ remote' \in [Encoders -> RemoteEncoders]
        /\ Current(e) \/ Early(e) \/ Late(e)
    BY <1>4, ReceiveDoes
  <2>2. PICK n \in Nat : Rotate(n)
    <3>1. ready_to_rotate \in Nat
      BY DEF TypeOK, LoggerdOK
    <3> QED
      BY <1>4, <3>1, ReceiveDoes
  <2>3. /\ segment' \in Nat /\ ready_to_rotate' \in Nat /\ forced' \in BOOLEAN /\ silent' \in BOOLEAN
    BY <2>2, RotateDoes
  <2>4. socket' \in [Encoders -> Seq(Packets)]
    <3>1. Tail(socket[e]) \in Seq(Packets)
      BY <2>1 DEF TypeOK, LoggerdOK
    <3> QED
      BY <2>1, <3>1 DEF TypeOK, LoggerdOK
  <2>5. video' \in [Encoders -> SUBSET (Nat \X Nat)]
    <3>1. CASE video' = video
      BY <3>1 DEF TypeOK, LoggerdOK
    <3>2. CASE video' # video
      <4>1. PICK written : /\ \A f \in written : \/ f = Head(socket[e]).frame
                                                 \/ \E i \in DOMAIN remote[e].q : f = remote[e].q[i].frame
                           /\ video' = [video EXCEPT ![e] = @ \cup (written \X {segment})]
        BY <2>1, <3>2 DEF Current, Early, Late
      <4>2. \A i \in DOMAIN remote[e].q : remote[e].q[i].frame \in Nat
        <5>1. remote[e].q \in Seq(Packets)
          BY DEF TypeOK, LoggerdOK, RemoteEncoders
        <5>2. \A i \in DOMAIN remote[e].q : remote[e].q[i] \in Packets
          BY <5>1
        <5> QED
          BY <5>2 DEF Packets
      <4>3. written \subseteq Nat
        BY <2>1, <4>1, <4>2 DEF Packets
      <4>4. written \X {segment} \subseteq Nat \X Nat
        BY <4>3 DEF TypeOK, LoggerdOK
      <4> QED
        BY <4>1, <4>4 DEF TypeOK, LoggerdOK
    <3> QED
      BY <3>1, <3>2
  <2>6. EncoderdOK'
    BY <1>4 DEF Receive, TypeOK, EncoderdOK, encoderd, bounds
  <2>7. LoggerdOK'
    BY <2>1, <2>3, <2>4, <2>5 DEF TypeOK, LoggerdOK
  <2> QED
    BY <2>6, <2>7 DEF TypeOK
<1>5. CASE Restart
  <2>1. ASSUME NEW e \in Encoders
        PROVE  [Stopped EXCEPT !.frame = now] \in Threads
    <3>1. now \in Int
      BY DEF TypeOK, EncoderdOK
    <3>2. Stopped \in Threads
      BY DEF Stopped, Threads
    <3> QED
      BY <3>1, <3>2, Zenon DEF Threads
  <2>2. thread' \in [Encoders -> Threads]
    BY <1>5, <2>1 DEF Restart
  <2>3. EncoderdOK'
    BY <1>5, <2>2 DEF Restart, TypeOK, EncoderdOK
  <2>4. LoggerdOK'
    BY <1>5 DEF Restart, TypeOK, LoggerdOK, loggerd
  <2> QED
    BY <2>3, <2>4 DEF TypeOK
<1>6. CASE Tick
  <2>1. EncoderdOK'
    BY <1>6 DEF Tick, TypeOK, EncoderdOK, encoderd, bounds
  <2>2. LoggerdOK'
    BY <1>6 DEF Tick, TypeOK, LoggerdOK, loggerd
  <2> QED
    BY <2>1, <2>2 DEF TypeOK
<1>7. CASE Audio \/ Other
  <2>1. ready_to_rotate \in Nat /\ Rotate(ready_to_rotate)
    BY <1>7 DEF Audio, Other, TypeOK, LoggerdOK
  <2>2. /\ segment' \in Nat /\ ready_to_rotate' \in Nat /\ forced' \in BOOLEAN /\ silent' \in BOOLEAN
    BY <2>1, RotateDoes
  <2>3. remote' \in [Encoders -> RemoteEncoders]
    <3>1. CASE Other
      BY <3>1 DEF Other, TypeOK, LoggerdOK
    <3>2. CASE Audio
      <4>1. ASSUME NEW e \in Encoders, NEW b \in BOOLEAN
            PROVE  [remote[e] EXCEPT !.audio_initialized = b] \in RemoteEncoders
        BY Zenon DEF TypeOK, LoggerdOK, RemoteEncoders
      <4>2. ASSUME NEW e \in Encoders
            PROVE  (\/ remote[e].audio_initialized
                    \/ e \in AudioEncoders /\ remote[e].current_segment >= 0) \in BOOLEAN
        BY Zenon
      <4> QED
        BY <3>2, <4>1, <4>2, Zenon DEF Audio
    <3> QED
      BY <1>7, <3>1, <3>2
  <2>4. UNCHANGED <<now, streams, thread, start_frame_id, socket, missed, restarts, video>>
    BY <1>7 DEF Audio, Other, encoderd, bounds
  <2>5. EncoderdOK'
    BY <2>4 DEF TypeOK, EncoderdOK
  <2>6. LoggerdOK'
    BY <2>2, <2>3, <2>4 DEF TypeOK, LoggerdOK
  <2> QED
    BY <2>5, <2>6 DEF TypeOK
<1>8. CASE UNCHANGED vars
  <2>1. EncoderdOK'
    BY <1>8 DEF vars, TypeOK, EncoderdOK, encoderd, bounds
  <2>2. LoggerdOK'
    BY <1>8 DEF vars, TypeOK, LoggerdOK, loggerd
  <2> QED
    BY <2>1, <2>2 DEF TypeOK
<1> QED
  BY <1>1, <1>2, <1>3, <1>4, <1>5, <1>6, <1>7, <1>8 DEF Next

-----------------------------------------------------------------------------
(* The threads *)

\* Products with the length of a segment are natural numbers.
LEMMA TimesSegment ==
  ASSUME NEW k \in Nat
  PROVE  k * SegmentFrames \in Nat /\ (k + 1) * SegmentFrames = k * SegmentFrames + SegmentFrames
         /\ (k + 1 + 1) * SegmentFrames = k * SegmentFrames + SegmentFrames + SegmentFrames
  BY LogRotationAssumption

\* A frame keeps the threads together.
LEMMA TakeFrameSync ==
  ASSUME TypeOK, Healthy, \A d \in Encoders : Sync(d), NEW e \in Encoders, TakeFrame(e)
  PROVE  /\ \A d \in Encoders : Sync(d)'
         /\ Encodes(e) => Belongs(now, thread[e].seg)' /\ (~thread[e].synced => thread'[e].seg = 0)
         /\ \A d \in Encoders : thread[d].synced => start_frame_id' = start_frame_id
<1>1. /\ e \in streams /\ thread[e].pc = "recv" /\ thread[e].frame < now
      /\ thread' \in [Encoders -> Threads] /\ thread \in [Encoders -> Threads]
      /\ \A d \in Encoders \ {e} : thread'[d] = thread[d]
      /\ thread'[e].frame = now /\ thread'[e].ready = thread[e].ready
      /\ start_frame_id' = IF ~thread[e].synced /\ streams = {e} THEN Later(start_frame_id, now)
                           ELSE start_frame_id
      /\ Waits(e) \/ Skips(e) \/ Encodes(e)
  BY TakeFrameDoes DEF TypeOK, EncoderdOK
<1>2. now' = now /\ streams' = streams /\ missed' = missed
  BY DEF TakeFrame, bounds
<1>3. AllReady' <=> AllReady
  BY <1>1, <1>2 DEF AllReady, Healthy
<1>4. now \in Nat /\ start_frame_id \in Nat /\ missed \in Nat /\ missed < SegmentFrames /\ SegmentFrames \in Nat
  BY LogRotationAssumption DEF TypeOK, EncoderdOK, Healthy
<1>5. \A d \in Encoders : thread[d].seg \in Nat /\ thread[d].frame \in Int
  BY <1>1 DEF Threads
<1>6. \A d \in Encoders \ {e} : start_frame_id' = start_frame_id
  BY <1>1 DEF Healthy
<1>7. ASSUME NEW d \in Encoders \ {e}
      PROVE  Sync(d)'
  BY <1>1, <1>2, <1>3, <1>6, <1>7 DEF Sync
<1>8. Sync(e)
  OBVIOUS
<1>9. Sync(e)' /\ (Encodes(e) => Belongs(now, thread[e].seg)' /\ (~thread[e].synced => thread'[e].seg = 0))
  <2> DEFINE k == thread[e].seg
             p == k * SegmentFrames
  <2>1. /\ k \in Nat /\ p \in Nat /\ (k + 1) * SegmentFrames = p + SegmentFrames
        /\ (k + 1 + 1) * SegmentFrames = p + SegmentFrames + SegmentFrames
    BY <1>5, TimesSegment
  <2>2. 0 * SegmentFrames = 0 /\ 1 * SegmentFrames = SegmentFrames
    BY <1>4
  <2>3. CASE Waits(e)
    BY <1>1, <1>2, <1>3, <1>4, <1>8, <2>3 DEF Sync, Waits, Encodes
  <2>4. CASE Skips(e)
    <3>1. start_frame_id' = start_frame_id
      BY <1>1, <1>4, <1>8, <2>4 DEF Sync, Skips, Later
    <3> QED
      BY <1>1, <1>2, <1>3, <1>4, <1>8, <2>4, <3>1 DEF Sync, Skips, Encodes
  <2>5. CASE Encodes(e)
    <3>1. thread[e].frame = now - 1
      <4>1. now - 1 <= thread[e].frame
        BY <1>8 DEF Sync
      <4> QED
        BY <1>1, <1>4, <1>5, <4>1
    <3>2. CASE thread[e].synced
      <4>1. start_frame_id' = start_frame_id
        BY <1>1, <3>2
      <4>2. start_frame_id + p <= now - 1 /\ now - 1 < start_frame_id + (p + SegmentFrames) + missed
        BY <1>8, <2>1, <3>1, <3>2 DEF Sync
      <4>3. /\ thread'[e].seg = IF now >= (p + SegmentFrames) + start_frame_id THEN k + 1 ELSE k
            /\ thread'[e].synced /\ thread'[e].pc = "recv"
        BY <2>1, <2>5, <4>1 DEF Encodes
      <4>4. Belongs(now, thread[e].seg)'
        <5>1. CASE now >= (p + SegmentFrames) + start_frame_id
          <6>1. thread'[e].seg = k + 1
            BY <4>3, <5>1
          <6> HIDE DEF p
          <6>2. /\ start_frame_id + (p + SegmentFrames) <= now
                 /\ now < start_frame_id + (p + SegmentFrames + SegmentFrames)
            BY <1>4, <2>1, <4>2, <5>1
          <6> QED
            BY <1>2, <2>1, <4>1, <6>1, <6>2 DEF Belongs
        <5>2. CASE ~(now >= (p + SegmentFrames) + start_frame_id)
          <6>1. thread'[e].seg = k
            BY <4>3, <5>2
          <6> HIDE DEF p
          <6>2. start_frame_id + p <= now /\ now < start_frame_id + (p + SegmentFrames)
            BY <1>4, <2>1, <4>2, <5>2
          <6> QED
            BY <1>2, <2>1, <4>1, <6>1, <6>2 DEF Belongs, p
        <5> QED
          BY <5>1, <5>2
      <4>5. AllReady \/ streams = {e}
        BY <1>8, <3>2 DEF Sync
      <4>6. thread'[e].seg \in Nat
        BY <2>1, <4>3
      <4>7. (thread'[e].seg + 1) * SegmentFrames \in Nat
        BY <4>6, TimesSegment, <1>4
      <4>8. /\ start_frame_id' + thread'[e].seg * SegmentFrames <= now
            /\ now < start_frame_id' + (thread'[e].seg + 1) * SegmentFrames + missed
        BY <1>2, <1>4, <4>1, <4>4, <4>7 DEF Belongs
      <4> QED
        BY <1>1, <1>2, <1>3, <1>4, <3>2, <4>1, <4>3, <4>4, <4>5, <4>8 DEF Sync
    <3>3. CASE ~thread[e].synced
      <4>1. k = 0
        BY <1>8, <3>3 DEF Sync
      <4>2. start_frame_id' \in Nat /\ start_frame_id' <= now /\ now < start_frame_id' + SegmentFrames
        <5>1. CASE streams = {e}
          <6>1. start_frame_id = 0
            BY <1>8, <3>3, <5>1 DEF Sync
          <6> QED
            BY <1>1, <1>4, <3>3, <5>1, <6>1, LogRotationAssumption DEF Later
        <5>2. CASE streams # {e}
          <6>1. AllReady /\ now >= start_frame_id' /\ start_frame_id' = start_frame_id
            BY <1>1, <2>5, <3>3, <5>2 DEF Encodes
          <6>2. now - 1 < start_frame_id + missed
            BY <1>8, <3>1, <3>3, <6>1 DEF Sync
          <6> QED
            BY <1>4, <6>1, <6>2
        <5> QED
          BY <5>1, <5>2
      <4>3. /\ ~(now >= (k + 1) * SegmentFrames + start_frame_id') => thread'[e].seg = k
            /\ thread'[e].synced /\ thread'[e].pc = "recv"
        BY <2>5 DEF Encodes
      <4>4. thread'[e].seg = 0
        <5>1. (k + 1) * SegmentFrames = SegmentFrames
          BY <1>4, <4>1
        <5>2. ~(now >= SegmentFrames + start_frame_id')
          <6> DEFINE start == start_frame_id'
          <6>1. start \in Nat /\ now < start + SegmentFrames
            BY <4>2
          <6> HIDE DEF start, k
          <6>2. ~(now >= SegmentFrames + start)
            BY <1>4, <6>1
          <6> QED  BY <6>2 DEF start
        <5> HIDE DEF k
        <5> QED  BY <4>1, <4>3, <5>1, <5>2
      <4>5. Belongs(now, thread[e].seg)'
        <5>1. thread'[e].seg * SegmentFrames = 0 /\ (thread'[e].seg + 1) * SegmentFrames = SegmentFrames
          BY <1>4, <4>4
        <5>2. start_frame_id' + 0 <= now /\ now < start_frame_id' + SegmentFrames
          BY <4>2
        <5> QED
          BY <1>2, <5>1, <5>2 DEF Belongs
      <4>6. AllReady \/ streams = {e}
        BY <2>5, <3>3 DEF Encodes
      <4>7. start_frame_id' + thread'[e].seg * SegmentFrames <= now
            /\ now < start_frame_id' + (thread'[e].seg + 1) * SegmentFrames + missed
        <5>1. thread'[e].seg * SegmentFrames = 0 /\ (thread'[e].seg + 1) * SegmentFrames = SegmentFrames
          BY <1>4, <4>4
        <5> DEFINE start == start_frame_id'
                   y == thread'[e].seg * SegmentFrames
                   x == (thread'[e].seg + 1) * SegmentFrames
        <5>2. start \in Nat /\ start <= now /\ now < start + SegmentFrames
          BY <4>2
        <5> HIDE DEF start, x, y, k
        <5>3. start + y <= now /\ now < start + x + missed
          BY <1>4, <5>1, <5>2 DEF x, y
        <5> QED
          BY <5>3 DEF start, x, y
      <4> QED
        BY <1>1, <1>2, <1>3, <1>4, <4>3, <4>4, <4>5, <4>6, <4>7 DEF Sync
    <3> QED
      BY <3>2, <3>3
  <2> QED
    BY <1>1, <2>3, <2>4, <2>5
<1>10. \A d \in Encoders : thread[d].synced => start_frame_id' = start_frame_id
  BY <1>1, <1>6
<1> QED
  BY <1>7, <1>9, <1>10

\* So do the other steps; the start changes only while nobody has begun.
LEMMA SyncStep ==
  ASSUME TypeOK, Healthy, \A d \in Encoders : Sync(d), [Next]_vars, Healthy'
  PROVE  /\ \A d \in Encoders : Sync(d)'
         /\ \A d \in Encoders : thread[d].synced => start_frame_id' = start_frame_id
<1>1. /\ now \in Nat /\ start_frame_id \in Nat /\ missed \in Nat /\ SegmentFrames \in Nat
      /\ thread \in [Encoders -> Threads]
  BY LogRotationAssumption DEF TypeOK, EncoderdOK
<1>2. \A d \in Encoders : thread[d].seg \in Nat /\ thread[d].frame \in Int
  BY <1>1 DEF Threads
<1>3. CASE \E e \in Encoders : TakeFrame(e)
  BY <1>3, TakeFrameSync
<1>4. ASSUME NEW e \in Encoders, UpdateStart(e)
      PROVE  /\ \A d \in Encoders : Sync(d)'
             /\ \A d \in Encoders : thread[d].synced => start_frame_id' = start_frame_id
  <2> DEFINE u == [thread[e] EXCEPT !.ready = TRUE, !.pc = "recv"]
  <2>1. thread' = [thread EXCEPT ![e] = u]
    BY <1>1, <1>4 DEF UpdateStart
  <2>2. /\ u.frame = thread[e].frame /\ u.ready /\ u.pc = "recv"
        /\ u.synced = thread[e].synced /\ u.seg = thread[e].seg
    BY <1>1 DEF Threads
  <2> HIDE DEF u
  <2>3. /\ \A d \in Encoders \ {e} : thread'[d] = thread[d]
        /\ thread'[e] = u
    BY <1>1, <2>1
  <2>4. thread[e].pc = "update" /\ thread[e].frame = now /\ streams # {e}
    BY <1>4 DEF UpdateStart, Sync
  <2>5. UNCHANGED <<now, streams, missed>> /\ start_frame_id' = Later(start_frame_id, now + 2)
    BY <1>4, <2>4 DEF UpdateStart, StartAfter, bounds
  <2>6. start_frame_id' \in Nat /\ start_frame_id' >= now + 2
    BY <1>1, <2>5 DEF Later
  <2>7. \A d \in Encoders : ~thread[d].synced
    <3> SUFFICES ASSUME NEW d \in Encoders, thread[d].synced
                 PROVE  FALSE
      OBVIOUS
    <3>1. AllReady /\ thread[d].frame <= now
      BY <2>4 DEF Sync, Healthy
    <3>2. start_frame_id >= now + 2
      BY <2>4, <3>1 DEF Sync
    <3>3. start_frame_id + thread[d].seg * SegmentFrames <= thread[d].frame
      BY DEF Sync
    <3>4. thread[d].seg * SegmentFrames \in Nat
      BY <1>2, TimesSegment
    <3> QED
      BY <1>1, <1>2, <3>1, <3>2, <3>3, <3>4
  <2>8. ASSUME NEW d \in Encoders
        PROVE  Sync(d)'
    <3>1. /\ thread'[d].frame = thread[d].frame /\ thread'[d].synced = thread[d].synced
          /\ thread'[d].seg = thread[d].seg /\ (thread'[d].pc = "update" => thread[d].pc = "update")
      BY <2>2, <2>3
    <3>2. thread'[d].frame < start_frame_id' + missed /\ streams # {d}
      BY <1>1, <1>2, <2>4, <2>6, <3>1 DEF Sync, Healthy
    <3> QED
      BY <2>5, <2>6, <2>7, <3>1, <3>2 DEF Sync
  <2> QED
    BY <2>7, <2>8
<1>5. ASSUME NEW e \in Encoders, MissFrame(e)
      PROVE  /\ \A d \in Encoders : Sync(d)'
             /\ \A d \in Encoders : thread[d].synced => start_frame_id' = start_frame_id
  <2> DEFINE u == [thread[e] EXCEPT !.frame = now]
  <2>1. thread' = [thread EXCEPT ![e] = u]
    BY <1>1, <1>5 DEF MissFrame
  <2>2. u.frame = now /\ u.ready = thread[e].ready /\ u.pc = thread[e].pc /\ u.synced = thread[e].synced
        /\ u.seg = thread[e].seg
    BY <1>1 DEF Threads
  <2> HIDE DEF u
  <2>3. /\ \A d \in Encoders \ {e} : thread'[d] = thread[d]
        /\ thread'[e] = u
    BY <1>1, <2>1
  <2>4. thread[e].pc = "recv" /\ thread[e].frame < now
    BY <1>5 DEF MissFrame
  <2>5. UNCHANGED <<now, streams, start_frame_id>> /\ missed' = missed + 1
    BY <1>5 DEF MissFrame
  <2>6. AllReady' <=> AllReady
    BY <2>2, <2>3, <2>5 DEF AllReady, Healthy
  <2>7. \A d \in Encoders : thread[d].seg * SegmentFrames \in Nat /\ (thread[d].seg + 1) * SegmentFrames \in Nat
    BY <1>1, <1>2, TimesSegment
  <2>8. ASSUME NEW d \in Encoders \ {e}
        PROVE  Sync(d)'
    <3> DEFINE x == (thread[d].seg + 1) * SegmentFrames
    <3>1. x \in Nat /\ thread[d].frame \in Int
      BY <1>2, <2>7
    <3>2. thread[d].frame < start_frame_id + x + missed => thread[d].frame < start_frame_id + x + (missed + 1)
      <4> HIDE DEF x
      <4> QED  BY <1>1, <3>1
    <3>3. thread[d].frame < start_frame_id + missed => thread[d].frame < start_frame_id + (missed + 1)
      BY <1>1, <3>1
    <3> QED
      BY <2>3, <2>5, <2>6, <3>2, <3>3 DEF Sync
  <2>9. Sync(e)'
    <3> DEFINE x == (thread[e].seg + 1) * SegmentFrames
               y == thread[e].seg * SegmentFrames
    <3>1. x \in Nat /\ y \in Nat /\ thread[e].frame \in Int
      BY <1>2, <2>7
    <3>4. now - 1 <= thread[e].frame
      BY DEF Sync
    <3>5. thread[e].frame = now - 1
      BY <1>1, <2>4, <3>1, <3>4
    <3>2. thread[e].frame < start_frame_id + x + missed => now < start_frame_id + x + (missed + 1)
      <4> HIDE DEF x
      <4> QED  BY <1>1, <3>1, <3>5
    <3>3. thread[e].frame < start_frame_id + missed => now < start_frame_id + (missed + 1)
      BY <1>1, <3>1, <3>5
    <3>6. start_frame_id + y <= thread[e].frame => start_frame_id + y <= now
      <4> HIDE DEF y
      <4> QED  BY <1>1, <3>1, <3>5
    <3> QED
      BY <1>1, <2>2, <2>3, <2>4, <2>5, <2>6, <3>2, <3>3, <3>6 DEF Sync
  <2> QED
    BY <2>5, <2>8, <2>9
<1>6. CASE Tick
  <2>1. now' = now + 1 /\ UNCHANGED <<streams, thread, start_frame_id, missed>>
        /\ \A d \in Encoders : thread[d].frame = now /\ thread[d].pc = "recv"
    BY <1>6 DEF Tick, encoderd, bounds, Healthy
  <2>2. AllReady' <=> AllReady
    BY <2>1 DEF AllReady
  <2>3. ASSUME NEW d \in Encoders
        PROVE  Sync(d)'
    BY <1>1, <1>2, <2>1, <2>2 DEF Sync
  <2> QED
    BY <2>1, <2>3
<1>7. CASE Restart
  BY <1>7 DEF Restart, Healthy
<1>8. CASE (\E e \in Encoders : Receive(e)) \/ Audio \/ Other \/ UNCHANGED vars
  <2>1. UNCHANGED <<now, streams, thread, start_frame_id, missed>>
    BY <1>8 DEF Receive, Audio, Other, vars, encoderd, bounds
  <2>2. AllReady' <=> AllReady
    BY <2>1 DEF AllReady
  <2>3. ASSUME NEW d \in Encoders
        PROVE  Sync(d)'
    BY <2>1, <2>2 DEF Sync
  <2> QED
    BY <2>1, <2>3
<1> QED
  BY <1>3, <1>4, <1>5, <1>6, <1>7, <1>8 DEF Next

-----------------------------------------------------------------------------
(* The packets *)

\* The indices of a sequence of which the head is taken, or to which an element is appended.
LEMMA TailOf ==
  ASSUME NEW S, NEW s \in Seq(S), s # <<>>
  PROVE  /\ s[1] = Head(s) /\ 1 \in DOMAIN s
         /\ \A i \in DOMAIN Tail(s) : i + 1 \in DOMAIN s /\ Tail(s)[i] = s[i + 1] /\ i \in Nat /\ i >= 1
  OBVIOUS

\* What appending an element leaves, and where the new one is.
LEMMA AppendOf ==
  ASSUME NEW S, NEW s \in Seq(S), NEW x \in S
  PROVE  /\ Append(s, x) # <<>>
         /\ s = <<>> => Append(s, x)[1] = x
         /\ s # <<>> => Append(s, x)[1] = s[1]
         /\ \A i \in DOMAIN Append(s, x) : (i \in DOMAIN s /\ Append(s, x)[i] = s[i]) \/ Append(s, x)[i] = x
         /\ \A i \in DOMAIN Append(s, x) : \A j \in 1..i :
              j \in DOMAIN s \/ (i \notin DOMAIN s /\ Append(s, x)[j] = x)
  OBVIOUS

\* Audio changes nothing but what it is about.
LEMMA AudioDoes ==
  ASSUME TypeOK, Audio, NEW e \in Encoders
  PROVE  /\ remote'[e].q = remote[e].q
         /\ remote'[e].encoderd_segment_offset = remote[e].encoderd_segment_offset
         /\ remote'[e].marked_ready_to_rotate = remote[e].marked_ready_to_rotate
         /\ remote'[e].seen_first_packet = remote[e].seen_first_packet
         /\ remote'[e].current_segment = remote[e].current_segment
         /\ remote'[e].recording = remote[e].recording
<1> DEFINE b == remote[e].audio_initialized \/ (e \in AudioEncoders /\ remote[e].current_segment >= 0)
           u == [remote[e] EXCEPT !.audio_initialized = b]
<1>1. remote'[e] = u
  BY DEF Audio
<1>2. remote[e] \in RemoteEncoders
  BY DEF TypeOK, LoggerdOK
<1> HIDE DEF b
<1> QED
  BY <1>1, <1>2 DEF RemoteEncoders

\* Every step keeps what is on its way in order.
LEMMA OnItsWayStep ==
  ASSUME TypeOK, TypeOK', Healthy, Healthy', [Next]_vars,
         \A d \in Encoders : Sync(d) /\ OnItsWay(d), \A d \in Encoders : Sync(d)',
         \A d \in Encoders : thread[d].synced => start_frame_id' = start_frame_id
  PROVE  \A d \in Encoders : OnItsWay(d)'
<1>1. /\ socket \in [Encoders -> Seq(Packets)] /\ thread \in [Encoders -> Threads]
      /\ \A d \in Encoders : thread[d].seg \in Nat
  BY DEF TypeOK, EncoderdOK, LoggerdOK, Threads
<1>2. ASSUME NEW d \in Encoders, socket'[d] = socket[d],
             thread'[d].synced = thread[d].synced, thread'[d].seg = thread[d].seg,
             remote'[d].seen_first_packet = remote[d].seen_first_packet
      PROVE  OnItsWay(d)'
  BY <1>2 DEF OnItsWay, Belongs
<1>3. ASSUME NEW e \in Encoders, TakeFrame(e)
      PROVE  \A d \in Encoders : OnItsWay(d)'
  <2>1. remote' = remote /\ now' = now
    BY <1>3 DEF TakeFrame, loggerd
  <2>2. \A d \in Encoders \ {e} : thread'[d] = thread[d]
    BY <1>3, TakeFrameDoes
  <2>3. CASE Waits(e) \/ Skips(e)
    <3>1. socket' = socket /\ thread'[e].synced = thread[e].synced /\ thread'[e].seg = thread[e].seg
      <4>1. ~thread[e].synced /\ ~thread'[e].synced
        BY <2>3 DEF Waits, Skips
      <4>2. thread[e].synced \in BOOLEAN /\ thread'[e].synced \in BOOLEAN
        BY DEF TypeOK, EncoderdOK, Threads
      <4> QED
        BY <2>3, <4>1, <4>2 DEF Waits, Skips
    <3> QED
      BY <1>2, <2>1, <2>2, <3>1
  <2>4. CASE Encodes(e)
    <3>1. PICK packet \in Packets : /\ packet.frame = now /\ packet.seg = thread'[e].seg
                                    /\ socket' = [socket EXCEPT ![e] = Append(@, packet)]
      BY <2>4 DEF Encodes
    <3>2. Belongs(now, thread[e].seg)' /\ (~thread[e].synced => thread'[e].seg = 0)
      BY <1>3, <2>4, TakeFrameSync
    <3>3. thread'[e].synced /\ thread[e].seg <= thread'[e].seg /\ thread'[e].seg \in Nat
      <4>1. thread'[e].seg = thread[e].seg + 1 \/ thread'[e].seg = thread[e].seg
        BY <2>4 DEF Encodes
      <4>2. thread'[e].synced
        BY <2>4 DEF Encodes
      <4> QED
        BY <1>1, <4>1, <4>2
    <3>4. socket'[e] = Append(socket[e], packet) /\ socket[e] \in Seq(Packets)
      BY <1>1, <3>1
    <3>5. \A i \in DOMAIN socket[e] :
            /\ Belongs(socket[e][i].frame, socket[e][i].seg)'
            /\ socket[e][i].seg \in Nat /\ socket[e][i].seg <= thread'[e].seg
      <4> SUFFICES ASSUME NEW i \in DOMAIN socket[e]
                   PROVE  /\ Belongs(socket[e][i].frame, socket[e][i].seg)'
                          /\ socket[e][i].seg \in Nat /\ socket[e][i].seg <= thread'[e].seg
        OBVIOUS
      <4>1. socket[e][i] \in Packets /\ socket[e][i] = socket'[e][i]
        BY <3>4
      <4>2. socket[e][i].seg \in Nat
        BY <4>1 DEF Packets
      <4>3. /\ Belongs(socket[e][i].frame, socket[e][i].seg)
             /\ thread[e].synced
             /\ socket[e][i].seg <= thread[e].seg
        BY DEF OnItsWay
      <4> QED
        BY <1>1, <3>3, <4>1, <4>2, <4>3 DEF Belongs
    <3>6. \A i \in DOMAIN socket'[e] : \/ i \in DOMAIN socket[e] /\ socket'[e][i] = socket[e][i]
                                       \/ i \notin DOMAIN socket[e] /\ socket'[e][i] = packet
      BY <3>4
    <3>7. ASSUME NEW i \in DOMAIN socket'[e]
          PROVE  /\ Belongs(socket[e][i].frame, socket[e][i].seg)'
                 /\ socket'[e][i].seg <= thread'[e].seg
                 /\ \A j \in 1..i : socket'[e][j].seg <= socket'[e][i].seg
      <4>1. CASE i \in DOMAIN socket[e] /\ socket'[e][i] = socket[e][i]
        <5>1. \A j \in 1..i : j \in DOMAIN socket[e] /\ socket'[e][j] = socket[e][j]
          BY <3>4, <4>1
        <5>2. \A j \in 1..i : socket[e][j].seg <= socket[e][i].seg
          BY <4>1 DEF OnItsWay
        <5> QED
          BY <3>5, <4>1, <5>1, <5>2 DEF Belongs
      <4>2. CASE i \notin DOMAIN socket[e] /\ socket'[e][i] = packet
        <5>1. \A j \in 1..i : j \in DOMAIN socket'[e]
          BY <3>4
        <5>2. \A j \in 1..i : socket'[e][j].seg <= thread'[e].seg
          BY <3>1, <3>3, <3>5, <3>6, <5>1
        <5>3. Belongs(socket[e][i].frame, socket[e][i].seg)'
          BY <2>1, <3>1, <3>2, <4>2 DEF Belongs
        <5>4. socket'[e][i].seg = thread'[e].seg
          BY <3>1, <4>2
        <5> QED
          BY <3>3, <5>2, <5>3, <5>4
      <4> QED
        BY <3>6, <4>1, <4>2
    <3>8. socket'[e] # <<>> /\ (socket[e] = <<>> => socket'[e][1] = packet)
          /\ (socket[e] # <<>> => socket'[e][1] = socket[e][1])
      BY <3>4, AppendOf
    <3>9. ~remote'[e].seen_first_packet => socket'[e][1].seg = 0
      BY <2>1, <3>1, <3>2, <3>8 DEF OnItsWay
    <3>10. OnItsWay(e)'
      BY <3>3, <3>7, <3>8, <3>9 DEF OnItsWay
    <3>11. ASSUME NEW d \in Encoders \ {e}
           PROVE  OnItsWay(d)'
      BY <1>1, <1>2, <2>1, <2>2, <3>1
    <3> QED
      BY <3>10, <3>11
  <2> QED
    BY <1>3, <2>3, <2>4, TakeFrameDoes
<1>4. ASSUME NEW e \in Encoders, UpdateStart(e) \/ MissFrame(e)
      PROVE  \A d \in Encoders : OnItsWay(d)'
  <2>1. remote' = remote /\ socket' = socket
    BY <1>4 DEF UpdateStart, MissFrame, loggerd
  <2>2. \A d \in Encoders : thread'[d].synced = thread[d].synced /\ thread'[d].seg = thread[d].seg
    <3> DEFINE u == [thread[e] EXCEPT !.ready = TRUE, !.pc = "recv"]
               v == [thread[e] EXCEPT !.frame = now]
    <3>1. thread' = [thread EXCEPT ![e] = u] \/ thread' = [thread EXCEPT ![e] = v]
      BY <1>1, <1>4 DEF UpdateStart, MissFrame
    <3>2. /\ u.synced = thread[e].synced /\ u.seg = thread[e].seg
          /\ v.synced = thread[e].synced /\ v.seg = thread[e].seg
      BY <1>1 DEF Threads
    <3> HIDE DEF u, v
    <3> QED
      BY <1>1, <3>1, <3>2
  <2> QED
    BY <1>2, <2>1, <2>2
<1>5. ASSUME NEW e \in Encoders, Receive(e)
      PROVE  \A d \in Encoders : OnItsWay(d)'
  <2>1. /\ socket[e] # <<>> /\ socket' = [socket EXCEPT ![e] = Tail(@)]
        /\ \A d \in Encoders \ {e} : remote'[d] = remote[d]
        /\ remote'[e].seen_first_packet
    BY <1>5, ReceiveDoes
  <2>2. thread' = thread
    BY <1>5 DEF Receive, encoderd
  <2>3. ASSUME NEW d \in Encoders \ {e}
        PROVE  OnItsWay(d)'
    BY <1>1, <1>2, <2>1, <2>2
  <2>4. \A i \in DOMAIN socket'[e] : /\ i + 1 \in DOMAIN socket[e] /\ i \in Nat /\ i >= 1
                                    /\ socket'[e][i] = socket[e][i + 1]
    BY <1>1, <2>1, TailOf
  <2>5. thread[e].synced
    BY <1>1, <2>1, TailOf DEF OnItsWay
  <2>6. ASSUME NEW i \in DOMAIN socket'[e]
        PROVE  /\ Belongs(socket[e][i].frame, socket[e][i].seg)'
               /\ socket'[e][i].seg <= thread'[e].seg
               /\ \A j \in 1..i : socket'[e][j].seg <= socket'[e][i].seg
    <3>1. Belongs(socket[e][i + 1].frame, socket[e][i + 1].seg) /\ socket[e][i + 1].seg <= thread[e].seg
          /\ \A j \in 1..(i + 1) : socket[e][j].seg <= socket[e][i + 1].seg
      BY <2>4 DEF OnItsWay
    <3>2. \A j \in 1..i : j \in DOMAIN socket'[e] /\ j + 1 \in 1..(i + 1)
      BY <1>1, <2>1, <2>4
    <3> QED
      BY <2>2, <2>4, <2>5, <3>1, <3>2 DEF Belongs
  <2>7. OnItsWay(e)'
    BY <2>1, <2>2, <2>5, <2>6 DEF OnItsWay
  <2> QED
    BY <2>3, <2>7
<1>6. CASE Audio
  BY <1>2, <1>6, AudioDoes DEF Audio, encoderd
<1>7. CASE Other \/ Tick \/ UNCHANGED vars
  BY <1>2, <1>7 DEF Other, Tick, vars, encoderd, loggerd
<1>8. CASE Restart
  BY <1>8 DEF Restart, Healthy
<1> QED
  BY <1>3, <1>4, <1>5, <1>6, <1>7, <1>8 DEF Next

-----------------------------------------------------------------------------
(* loggerd *)

\* More encoders ahead are a larger number.
LEMMA AheadMore ==
  ASSUME NEW S \in SUBSET Encoders, NEW T \in SUBSET Encoders, S \subseteq T
  PROVE  /\ Cardinality(S) \in Nat /\ Cardinality(T) \in Nat /\ Cardinality(S) <= Cardinality(T)
         /\ \A e \in T \ S : Cardinality(S) + 1 <= Cardinality(T)
<1>1. IsFiniteSet(S) /\ IsFiniteSet(T)
  BY LogRotationAssumption, FS_Subset
<1>2. Cardinality(S) \in Nat /\ Cardinality(T) \in Nat /\ Cardinality(S) <= Cardinality(T)
  BY <1>1, FS_Subset, FS_CardinalityType
<1>3. ASSUME NEW e \in T \ S
      PROVE  Cardinality(S) + 1 <= Cardinality(T)
  <2>1. Cardinality(S) # Cardinality(T)
    BY <1>1, <1>3, FS_Subset
  <2> QED
    BY <1>2, <2>1
<1> QED
  BY <1>2, <1>3

\* encoderd only adds packets of its current segment.
LEMMA EncoderdOrder ==
  ASSUME TypeOK, TypeOK', Healthy, Healthy', NEW k \in Nat, Orderly(k),
         \A d \in Encoders : Sync(d) /\ OnItsWay(d),
         NEW e \in Encoders, TakeFrame(e) \/ UpdateStart(e) \/ MissFrame(e),
         \A d \in Encoders : thread[d].synced => start_frame_id' = start_frame_id
  PROVE  Orderly(k)' /\ \A d \in Encoders : Ahead(d, k) => Ahead(d, k)'
<1>1. /\ socket \in [Encoders -> Seq(Packets)] /\ thread \in [Encoders -> Threads]
      /\ \A d \in Encoders : thread[d].seg \in Nat /\ thread'[d].seg \in Nat /\ socket'[d] \in Seq(Packets)
      /\ \A d \in Encoders : remote[d].q \in Seq(Packets)
  BY DEF TypeOK, EncoderdOK, LoggerdOK, Threads, RemoteEncoders
<1>2. remote' = remote /\ video' = video
  BY DEF TakeFrame, UpdateStart, MissFrame, loggerd
<1>3. ASSUME NEW d \in Encoders
      PROVE  /\ thread[d].synced => thread'[d].synced
             /\ thread[d].seg <= thread'[d].seg
             /\ \A i \in DOMAIN socket'[d] : \/ i \in DOMAIN socket[d] /\ socket'[d][i] = socket[d][i]
                                            \/ socket'[d][i].seg = thread'[d].seg
  <2>1. CASE TakeFrame(e) /\ d = e /\ Encodes(e)
    <3>1. PICK packet \in Packets : /\ packet.seg = thread'[e].seg
                                    /\ socket' = [socket EXCEPT ![e] = Append(@, packet)]
      BY <2>1 DEF Encodes
    <3>2. thread'[e].synced /\ (thread'[e].seg = thread[e].seg + 1 \/ thread'[e].seg = thread[e].seg)
      BY <2>1 DEF Encodes
    <3>3. socket'[e] = Append(socket[e], packet) /\ socket[e] \in Seq(Packets)
      BY <1>1, <3>1
    <3> QED
      BY <1>1, <2>1, <3>1, <3>2, <3>3, AppendOf
  <2>2. CASE TakeFrame(e) /\ d = e /\ ~Encodes(e)
    <3>1. socket' = socket /\ ~thread[e].synced /\ thread'[e].seg = thread[e].seg
      BY <2>2, TakeFrameDoes DEF Waits, Skips
    <3> QED
      BY <1>1, <2>2, <3>1
  <2>3. CASE TakeFrame(e) /\ d # e
    <3>1. thread'[d] = thread[d]
      BY <2>3, TakeFrameDoes
    <3>2. socket'[d] = socket[d]
      <4>1. socket' = socket \/ \E packet : socket' = [socket EXCEPT ![e] = Append(@, packet)]
        BY <2>3, TakeFrameDoes DEF Waits, Skips, Encodes
      <4> QED
        BY <1>1, <2>3, <4>1
    <3> QED
      BY <1>1, <3>1, <3>2
  <2>4. CASE UpdateStart(e) \/ MissFrame(e)
    <3> DEFINE u == [thread[e] EXCEPT !.ready = TRUE, !.pc = "recv"]
               v == [thread[e] EXCEPT !.frame = now]
    <3>1. thread' = [thread EXCEPT ![e] = u] \/ thread' = [thread EXCEPT ![e] = v]
      BY <1>1, <2>4 DEF UpdateStart, MissFrame
    <3>2. /\ u.synced = thread[e].synced /\ u.seg = thread[e].seg
          /\ v.synced = thread[e].synced /\ v.seg = thread[e].seg
      BY <1>1 DEF Threads
    <3> HIDE DEF u, v
    <3>3. thread'[d].synced = thread[d].synced /\ thread'[d].seg = thread[d].seg
      BY <1>1, <3>1, <3>2
    <3>4. socket' = socket
      BY <2>4 DEF UpdateStart, MissFrame
    <3> QED
      BY <1>1, <3>3, <3>4
  <2> QED
    BY <2>1, <2>2, <2>3, <2>4
<1>4. ASSUME NEW d \in Encoders
      PROVE  InOrder(d, k)' /\ (Ahead(d, k) => Ahead(d, k)')
  <2>1. InOrder(d, k)
    BY DEF Orderly
  <2>2. k <= thread'[d].seg /\ \A i \in DOMAIN socket'[d] : k <= socket'[d][i].seg
    <3>1. k <= thread'[d].seg
      BY <1>1, <1>3, <2>1 DEF InOrder
    <3>2. \A i \in DOMAIN socket[d] : k <= socket[d][i].seg
      BY <2>1 DEF InOrder
    <3> QED
      BY <1>3, <3>1, <3>2
  <2>3. ASSUME NEW i \in DOMAIN remote[d].q
        PROVE  /\ thread'[d].synced
               /\ Belongs(remote[d].q[i].frame, remote[d].q[i].seg)'
               /\ k <= remote[d].q[i].seg /\ remote[d].q[i].seg <= thread'[d].seg
               /\ \A j \in DOMAIN socket'[d] : remote[d].q[i].seg <= socket'[d][j].seg
    <3>1. /\ thread[d].synced
          /\ Belongs(remote[d].q[i].frame, remote[d].q[i].seg)
          /\ k <= remote[d].q[i].seg /\ remote[d].q[i].seg <= thread[d].seg
          /\ \A j \in DOMAIN socket[d] : remote[d].q[i].seg <= socket[d][j].seg
      BY <2>1 DEF InOrder
    <3>2. remote[d].q[i] \in Packets
      BY <1>1
    <3>3. remote[d].q[i].seg \in Nat
      BY <3>2 DEF Packets
    <3>4. remote[d].q[i].seg <= thread'[d].seg
      BY <1>1, <1>3, <3>1, <3>3
    <3>5. Belongs(remote[d].q[i].frame, remote[d].q[i].seg)'
      BY <1>2, <3>1 DEF Belongs
    <3> QED
      BY <1>3, <3>1, <3>4, <3>5
  <2>4. \A w \in video[d] : thread'[d].synced /\ (start_frame_id' = start_frame_id) /\ Belongs(w[1], w[2])
    BY <1>3, <2>1 DEF InOrder
  <2>5. InOrder(d, k)'
    BY <1>2, <2>1, <2>2, <2>3, <2>4 DEF InOrder, Belongs
  <2>6. ASSUME Ahead(d, k)
        PROVE  Ahead(d, k)'
    <3>1. k < thread'[d].seg
      BY <1>1, <1>3, <2>6 DEF Ahead
    <3>2. \A i \in DOMAIN socket'[d] : k < socket'[d][i].seg
      BY <1>1, <1>3, <2>6, <3>1 DEF Ahead
    <3> QED
      BY <1>2, <2>6, <3>1, <3>2 DEF Ahead
  <2> QED
    BY <2>5, <2>6
<1> QED
  BY <1>4 DEF Orderly

\* loggerd takes a packet in order; an encoder that it counts is ahead.
LEMMA ReceiveOrder ==
  ASSUME TypeOK, TypeOK', Healthy, Healthy', NEW k \in Nat, k = segment, Orderly(k),
         \A d \in Encoders : Sync(d) /\ OnItsWay(d),
         NEW e \in Encoders, Receive(e),
         \A d \in Encoders : thread[d].synced => start_frame_id' = start_frame_id
  PROVE  /\ Orderly(k)' /\ \A d \in Encoders : Ahead(d, k) => Ahead(d, k)'
         /\ Early(e) /\ ~remote[e].marked_ready_to_rotate => Ahead(e, k)' /\ ~Ahead(e, k)
<1>1. /\ socket \in [Encoders -> Seq(Packets)]
      /\ \A d \in Encoders : thread[d].seg \in Nat
      /\ remote[e] \in RemoteEncoders /\ remote[e].q \in Seq(Packets)
      /\ segment \in Nat /\ video \in [Encoders -> SUBSET (Nat \X Nat)]
  BY DEF TypeOK, EncoderdOK, LoggerdOK, Threads, RemoteEncoders
<1>2. /\ socket[e] # <<>> /\ socket' = [socket EXCEPT ![e] = Tail(@)]
      /\ \A d \in Encoders \ {e} : remote'[d] = remote[d]
      /\ Current(e) \/ Early(e) \/ Late(e)
  BY ReceiveDoes
<1>3. thread' = thread /\ start_frame_id' = start_frame_id
  BY DEF Receive, encoderd
<1> DEFINE packet == Head(socket[e])
<1>4. /\ packet = socket[e][1] /\ 1 \in DOMAIN socket[e]
      /\ \A i \in DOMAIN socket'[e] : /\ i + 1 \in DOMAIN socket[e] /\ socket'[e][i] = socket[e][i + 1]
                                      /\ 1 \in 1..(i + 1)
  BY <1>1, <1>2, TailOf
<1>5. packet \in Packets /\ packet.seg \in Nat
  <2>1. packet \in Packets
    BY <1>1, <1>4
  <2> QED
    BY <2>1 DEF Packets
<1>6. InOrder(e, k) /\ OnItsWay(e)
  BY DEF Orderly
<1>7. /\ thread[e].synced /\ Belongs(packet.frame, packet.seg) /\ packet.seg <= thread[e].seg
      /\ \A i \in DOMAIN socket'[e] : packet.seg <= socket'[e][i].seg /\ socket'[e][i].seg \in Nat
  <2>1. \A i \in DOMAIN socket[e] : socket[e][i] \in Packets
    BY <1>1
  <2> QED
    BY <1>4, <1>6, <2>1 DEF OnItsWay, Packets
<1>8. k <= packet.seg
  BY <1>4, <1>6 DEF InOrder
<1>9. Offset(e) = 0
  BY <1>2, <1>4, <1>6 DEF Offset, OnItsWay, InOrder
<1>10. ~Late(e)
  BY <1>5, <1>8, <1>9 DEF Late
<1>11. \A i \in DOMAIN remote[e].q :
         /\ Belongs(remote[e].q[i].frame, remote[e].q[i].seg)
         /\ remote[e].q[i].seg \in Nat /\ k <= remote[e].q[i].seg /\ remote[e].q[i].seg <= packet.seg
         /\ \A j \in DOMAIN socket'[e] : remote[e].q[i].seg <= socket'[e][j].seg
  <2>1. \A i \in DOMAIN remote[e].q : remote[e].q[i] \in Packets
    BY <1>1
  <2> QED
    BY <1>4, <1>6, <2>1 DEF InOrder, Packets
<1>15. ASSUME remote'[e].q \in {remote[e].q, Append(remote[e].q, packet)}, NEW i \in DOMAIN remote'[e].q
       PROVE  /\ thread'[e].synced
              /\ Belongs(remote[e].q[i].frame, remote[e].q[i].seg)'
              /\ k <= remote'[e].q[i].seg /\ remote'[e].q[i].seg <= thread'[e].seg
              /\ \A j \in DOMAIN socket'[e] : remote'[e].q[i].seg <= socket'[e][j].seg
              /\ \/ i \in DOMAIN remote[e].q /\ remote'[e].q[i] = remote[e].q[i]
                 \/ remote'[e].q[i] = packet
  <2>1. (i \in DOMAIN remote[e].q /\ remote'[e].q[i] = remote[e].q[i]) \/ remote'[e].q[i] = packet
    <3>1. CASE remote'[e].q = remote[e].q
      BY <1>15, <3>1
    <3>2. CASE remote'[e].q = Append(remote[e].q, packet)
      BY <1>1, <1>5, <1>15, <3>2, AppendOf
    <3> QED
      BY <1>15, <3>1, <3>2
  <2>2. CASE i \in DOMAIN remote[e].q /\ remote'[e].q[i] = remote[e].q[i]
    <3>1. remote[e].q[i].seg <= thread[e].seg
      BY <1>6, <2>2 DEF InOrder
    <3> HIDE DEF packet
    <3> QED
      BY <1>3, <1>7, <1>11, <2>1, <2>2, <3>1 DEF Belongs
  <2>3. CASE remote'[e].q[i] = packet
    <3> HIDE DEF packet
    <3> QED
      BY <1>3, <1>7, <1>8, <2>1, <2>3 DEF Belongs
  <2> QED
    BY <2>1, <2>2, <2>3
<1>16. k <= thread'[e].seg /\ \A i \in DOMAIN socket'[e] : k <= socket'[e][i].seg
  BY <1>3, <1>4, <1>6 DEF InOrder
<1>17. \A w \in video[e] : thread'[e].synced /\ Belongs(w[1], w[2])
  BY <1>3, <1>6 DEF InOrder
<1>12. ASSUME Current(e)
       PROVE  /\ InOrder(e, k)' /\ (Ahead(e, k) => Ahead(e, k)')
              /\ Early(e) /\ ~remote[e].marked_ready_to_rotate => Ahead(e, k)'
  <2>1. packet.seg = k /\ ~Ahead(e, k)
    BY <1>4, <1>5, <1>9, <1>12 DEF Current, Ahead
  <2>2. remote'[e].encoderd_segment_offset = 0
    BY <1>9, <1>12 DEF Current
  <2>3. ASSUME remote'[e].q = <<>>
        PROVE  InOrder(e, k)'
    <3>1. ASSUME NEW w \in video'[e]
          PROVE  thread'[e].synced /\ Belongs(w[1], w[2])
      <4>1. CASE w \in video[e]
        BY <1>17, <4>1
      <4>2. CASE w \notin video[e]
        <5>1. PICK written : /\ \A f \in written : \/ f = packet.frame
                                                    \/ \E i \in DOMAIN remote[e].q : f = remote[e].q[i].frame
                             /\ video' = [video EXCEPT ![e] = @ \cup (written \X {segment})]
          BY <1>12, <3>1, <4>2 DEF Current
        <5>2. w \in written \X {segment}
          BY <1>1, <3>1, <4>2, <5>1
        <5>3. w[1] \in written /\ w[2] = k
          BY <5>2
        <5>4. CASE w[1] = packet.frame
          BY <1>3, <1>7, <2>1, <5>3, <5>4
        <5>5. CASE \E i \in DOMAIN remote[e].q : w[1] = remote[e].q[i].frame
          <6>1. PICK i \in DOMAIN remote[e].q : w[1] = remote[e].q[i].frame
            BY <5>5
          <6>2. remote[e].q[i].seg = k
            BY <1>11, <2>1
          <6> QED
            BY <1>3, <1>7, <1>11, <5>3, <6>1, <6>2
        <5> QED
          BY <5>1, <5>3, <5>4, <5>5
      <4> QED
        BY <4>1, <4>2
    <3>2. DOMAIN remote'[e].q = {}
      BY <2>3
    <3>3. \A w \in video'[e] : thread'[e].synced /\ Belongs(w[1], w[2])'
      BY <1>3, <3>1 DEF Belongs
    <3> QED
      BY <1>16, <2>2, <2>3, <3>2, <3>3 DEF InOrder
  <2>4. ASSUME remote'[e].q # <<>>
        PROVE  InOrder(e, k)'
    <3>1. /\ e \in AudioEncoders /\ video' = video
          /\ remote'[e].q \in {remote[e].q, Append(remote[e].q, packet)}
      BY <1>12, <2>4 DEF Current
    <3>2. \A w \in video'[e] : thread'[e].synced /\ Belongs(w[1], w[2])'
      BY <1>3, <1>17, <3>1 DEF Belongs
    <3> HIDE DEF packet
    <3> QED
      BY <1>15, <1>16, <2>2, <3>1, <3>2 DEF InOrder
  <2>5. InOrder(e, k)'
    BY <2>3, <2>4
  <2>6. ~Early(e)
    BY <1>1, <1>12 DEF Current, Early
  <2> QED
    BY <2>1, <2>5, <2>6, Zenon
<1>13. ASSUME Early(e)
       PROVE  /\ InOrder(e, k)' /\ (Ahead(e, k) => Ahead(e, k)')
              /\ Early(e) /\ ~remote[e].marked_ready_to_rotate => Ahead(e, k)'
  <2>1. k < packet.seg /\ remote'[e].marked_ready_to_rotate /\ remote'[e].encoderd_segment_offset = 0
        /\ remote'[e].q \in {remote[e].q, Append(remote[e].q, packet)} /\ video' = video
    BY <1>1, <1>5, <1>9, <1>13 DEF Early
  <2> HIDE DEF packet
  <2>2. InOrder(e, k)'
    BY <1>3, <1>15, <1>16, <1>17, <2>1 DEF InOrder, Belongs
  <2>3. k < thread'[e].seg /\ \A i \in DOMAIN socket'[e] : k < socket'[e][i].seg
    BY <1>1, <1>3, <1>5, <1>7, <2>1
  <2>4. ASSUME Ahead(e, k) \/ ~remote[e].marked_ready_to_rotate
        PROVE  Ahead(e, k)'
    <3>1. ASSUME e \notin AudioEncoders
          PROVE  \A i \in DOMAIN remote'[e].q : k < remote'[e].q[i].seg
      <4>1. \A i \in DOMAIN remote[e].q : k < remote[e].q[i].seg
        BY <1>6, <2>4, <3>1 DEF Ahead, InOrder
      <4> QED
        BY <1>15, <2>1, <4>1
    <3> QED
      BY <2>1, <2>3, <3>1 DEF Ahead
  <2> QED
    BY <2>2, <2>4
<1>14. ASSUME NEW d \in Encoders \ {e}
       PROVE  InOrder(d, k)' /\ (Ahead(d, k) => Ahead(d, k)')
  <2>1. socket'[d] = socket[d] /\ remote'[d] = remote[d]
    BY <1>1, <1>2
  <2>2. video'[d] = video[d]
    BY <1>1, <1>2 DEF Current, Early, Late
  <2> QED
    BY <1>3, <2>1, <2>2 DEF Orderly, InOrder, Ahead, Belongs
<1>18. InOrder(e, k)' /\ (Ahead(e, k) => Ahead(e, k)')
       /\ (Early(e) /\ ~remote[e].marked_ready_to_rotate => Ahead(e, k)')
  BY <1>2, <1>10, <1>12, <1>13
<1>19. ~remote[e].marked_ready_to_rotate => ~Ahead(e, k)
  BY DEF Ahead
<1>20. \A d \in Encoders : InOrder(d, k)' /\ (Ahead(d, k) => Ahead(d, k)')
  BY <1>14, <1>18
<1> QED
  BY <1>18, <1>19, <1>20 DEF Orderly

\* A rotation: every encoder is ahead of the segment, and nothing of it waits.
LEMMA RotateOrder ==
  ASSUME TypeOK, TypeOK', Regular', NEW k \in Nat, k = segment, NEW n \in Nat, Rotate(n),
         Orderly(k)', n <= Cardinality(AheadEncoders(k)')
  PROVE  Orderly(segment)' /\ ready_to_rotate' <= Cardinality(AheadEncoders(segment)')
<1>1. ~forced' /\ ~silent'
  BY DEF Regular
<1>2. CASE segment' = segment /\ ready_to_rotate' = n
  BY <1>2 DEF Orderly, InOrder, AheadEncoders, Ahead
<1>3. CASE /\ segment' = segment + 1 /\ ready_to_rotate' = 0 /\ n = Cardinality(Encoders)
           /\ \A e \in Encoders : ~Waiting(e, remote'[e])
  <2>1. IsFiniteSet(Encoders) /\ AheadEncoders(k)' \subseteq Encoders
    BY LogRotationAssumption DEF AheadEncoders
  <2>2. AheadEncoders(k)' = Encoders
    <3> DEFINE S == AheadEncoders(k)'
    <3>1. Cardinality(S) <= Cardinality(Encoders) /\ Cardinality(S) \in Nat /\ Cardinality(Encoders) \in Nat
          /\ (Cardinality(Encoders) = Cardinality(S) => Encoders = S)
      BY <2>1, FS_Subset, FS_CardinalityType
    <3> HIDE DEF S
    <3>2. n <= Cardinality(S)
      BY DEF S
    <3>3. S = Encoders
      BY <1>3, <3>1, <3>2
    <3> QED
      BY <3>3 DEF S
  <2>3. ASSUME NEW e \in Encoders
        PROVE  InOrder(e, segment)'
    <3>1. Ahead(e, k)' /\ InOrder(e, k)'
      BY <2>2 DEF AheadEncoders, Orderly
    <3>2. /\ thread'[e].seg \in Nat
          /\ \A i \in DOMAIN socket'[e] : socket'[e][i].seg \in Nat
          /\ \A i \in DOMAIN remote'[e].q : remote'[e].q[i].seg \in Nat
      <4>1. thread'[e] \in Threads /\ socket'[e] \in Seq(Packets) /\ remote'[e].q \in Seq(Packets)
        BY DEF TypeOK, EncoderdOK, LoggerdOK, RemoteEncoders
      <4>2. /\ \A i \in DOMAIN socket'[e] : socket'[e][i] \in Packets
            /\ \A i \in DOMAIN remote'[e].q : remote'[e].q[i] \in Packets
        BY <4>1
      <4> QED
        BY <4>1, <4>2 DEF Threads, Packets
    <3>3. segment' <= thread'[e].seg /\ \A i \in DOMAIN socket'[e] : segment' <= socket'[e][i].seg
      BY <1>3, <3>1, <3>2 DEF Ahead
    <3>4. \A i \in DOMAIN remote'[e].q : segment' <= remote'[e].q[i].seg
      <4>1. CASE e \notin AudioEncoders
        BY <1>3, <3>1, <3>2, <4>1 DEF Ahead
      <4>2. CASE e \in AudioEncoders
        <5>1. \A i \in DOMAIN remote'[e].q :
                 ~(remote'[e].q[i].seg - remote'[e].encoderd_segment_offset <= segment)
          BY <1>3, <4>2 DEF Waiting, OffsetSegment
        <5>2. remote'[e].encoderd_segment_offset = 0
          BY <3>1 DEF InOrder
        <5> QED
          BY <1>3, <3>2, <5>1, <5>2
      <4> QED
        BY <4>1, <4>2
    <3> QED
      BY <3>1, <3>3, <3>4 DEF InOrder
  <2>4. Cardinality(AheadEncoders(segment)') \in Nat
    <3>1. AheadEncoders(segment)' \subseteq Encoders
      BY DEF AheadEncoders
    <3> QED
      BY <3>1, AheadMore
  <2> QED
    BY <1>3, <2>3, <2>4 DEF Orderly
<1> QED
  BY <1>1, <1>2, <1>3, RotateDoes

\* Every step keeps the order in which loggerd writes.
LEMMA OrderStep ==
  ASSUME TypeOK, TypeOK', Healthy, Healthy', Regular, Regular', [Next]_vars,
         \A d \in Encoders : Sync(d) /\ OnItsWay(d),
         \A d \in Encoders : thread[d].synced => start_frame_id' = start_frame_id,
         Orderly(segment), ready_to_rotate <= Cardinality(AheadEncoders(segment))
  PROVE  Orderly(segment)' /\ ready_to_rotate' <= Cardinality(AheadEncoders(segment)')
<1>1. Healthy /\ Healthy'
  OBVIOUS
<1>2. segment \in Nat /\ ready_to_rotate \in Nat
  BY DEF TypeOK, LoggerdOK
<1> DEFINE k == segment
<1>3. PICK m \in Nat : m = segment
  BY <1>2
<1>4. Orderly(m) /\ ready_to_rotate <= Cardinality(AheadEncoders(m))
  BY <1>3
<1>5. ASSUME Orderly(m)', \A d \in Encoders : Ahead(d, m) => Ahead(d, m)',
             segment' = segment /\ ready_to_rotate' = ready_to_rotate
      PROVE  Orderly(segment)' /\ ready_to_rotate' <= Cardinality(AheadEncoders(segment)')
  <2>1. AheadEncoders(m) \subseteq AheadEncoders(m)' /\ AheadEncoders(m)' \subseteq Encoders
    BY <1>5 DEF AheadEncoders
  <2>2. ready_to_rotate' <= Cardinality(AheadEncoders(m)')
    BY <1>2, <1>4, <1>5, <2>1, AheadMore
  <2>3. segment' = m
    BY <1>3, <1>5
  <2> QED
    BY <1>5, <2>2, <2>3 DEF Orderly, InOrder, AheadEncoders, Ahead
<1>6. ASSUME NEW e \in Encoders, TakeFrame(e) \/ UpdateStart(e) \/ MissFrame(e)
      PROVE  Orderly(segment)' /\ ready_to_rotate' <= Cardinality(AheadEncoders(segment)')
  <2>1. segment' = segment /\ ready_to_rotate' = ready_to_rotate
    BY <1>6 DEF TakeFrame, UpdateStart, MissFrame, loggerd
  <2> QED
    BY <1>1, <1>4, <1>5, <1>6, <2>1, EncoderdOrder
<1>7. ASSUME NEW e \in Encoders, Receive(e)
      PROVE  Orderly(segment)' /\ ready_to_rotate' <= Cardinality(AheadEncoders(segment)')
  <2> DEFINE counts == Early(e) /\ ~remote[e].marked_ready_to_rotate
             n == IF counts THEN ready_to_rotate + 1 ELSE ready_to_rotate
  <2>1. Orderly(m)' /\ (\A d \in Encoders : Ahead(d, m) => Ahead(d, m)')
        /\ (counts => Ahead(e, m)' /\ ~Ahead(e, m))
    BY <1>1, <1>3, <1>4, <1>7, ReceiveOrder
  <2>2. Rotate(n)
    BY <1>7, ReceiveDoes
  <2>3. AheadEncoders(m) \subseteq AheadEncoders(m)' /\ AheadEncoders(m)' \subseteq Encoders
        /\ (counts => e \in AheadEncoders(m)' \ AheadEncoders(m))
    BY <2>1 DEF AheadEncoders
  <2> HIDE DEF counts
  <2>4. n \in Nat /\ n <= Cardinality(AheadEncoders(m)')
    BY <1>2, <1>4, <2>3, AheadMore
  <2> HIDE DEF n
  <2> QED
    BY <1>3, <2>1, <2>2, <2>4, RotateOrder
<1>8. CASE Audio \/ Other
  <2>1. Rotate(ready_to_rotate)
    BY <1>8 DEF Audio, Other
  <2>2. UNCHANGED <<thread, start_frame_id, socket, video>>
    BY <1>8 DEF Audio, Other, encoderd
  <2>3. ASSUME NEW d \in Encoders
        PROVE  /\ remote'[d].q = remote[d].q
               /\ remote'[d].encoderd_segment_offset = remote[d].encoderd_segment_offset
               /\ remote'[d].marked_ready_to_rotate = remote[d].marked_ready_to_rotate
    BY <1>8, AudioDoes DEF Other
  <2>4. Orderly(m)' /\ (\A d \in Encoders : Ahead(d, m) => Ahead(d, m)')
    BY <1>4, <2>2, <2>3 DEF Orderly, InOrder, Ahead, Belongs
  <2>5. AheadEncoders(m) \subseteq AheadEncoders(m)' /\ AheadEncoders(m)' \subseteq Encoders
    BY <2>4 DEF AheadEncoders
  <2>6. ready_to_rotate <= Cardinality(AheadEncoders(m)')
    BY <1>2, <1>4, <2>5, AheadMore
  <2> QED
    BY <1>2, <1>3, <2>1, <2>4, <2>6, RotateOrder
<1>9. CASE Tick \/ UNCHANGED vars
  <2>1. UNCHANGED <<thread, start_frame_id, socket, video, remote, segment, ready_to_rotate>>
    BY <1>9 DEF Tick, vars, encoderd, loggerd
  <2> QED
    BY <1>4, <1>5, <2>1 DEF Orderly, InOrder, Ahead, Belongs
<1>10. CASE Restart
  BY <1>1, <1>10 DEF Restart, Healthy
<1> QED
  BY <1>6, <1>7, <1>8, <1>9, <1>10 DEF Next

-----------------------------------------------------------------------------
\* The invariant holds in every state.
LEMMA Invariance == Spec => []IInv
<1>1. Init => IInv
  <2> SUFFICES ASSUME Init
               PROVE  IInv
    OBVIOUS
  <2>1. Stopped \in Threads /\ RemoteEncoder \in RemoteEncoders
    <3>1. <<>> \in Seq(Packets)
      OBVIOUS
    <3> QED
      BY <3>1 DEF Stopped, RemoteEncoder, Threads, RemoteEncoders
  <2>2. EncoderdOK
    BY <2>1, LogRotationAssumption DEF Init, EncoderdOK
  <2>3. LoggerdOK
    <3>1. <<>> \in Seq(Packets) /\ {} \in SUBSET (Nat \X Nat)
      OBVIOUS
    <3> QED
      BY <2>1, <3>1 DEF Init, LoggerdOK
  <2>4. \A e \in Encoders : Sync(e)
    BY LogRotationAssumption DEF Init, Sync, Stopped, AllReady, Healthy
  <2>5. \A e \in Encoders : OnItsWay(e)
    BY DEF Init, OnItsWay, Stopped, RemoteEncoder
  <2>6. Orderly(segment)
    BY DEF Init, Orderly, InOrder, Stopped, RemoteEncoder
  <2>7. Cardinality(AheadEncoders(segment)) \in Nat
    BY AheadMore DEF AheadEncoders
  <2>8. ready_to_rotate = 0
    BY DEF Init
  <2> QED
    BY <2>2, <2>3, <2>4, <2>5, <2>6, <2>7, <2>8 DEF IInv, TypeOK
<1>2. IInv /\ [Next]_vars => IInv'
  <2> SUFFICES ASSUME IInv, [Next]_vars
               PROVE  IInv'
    OBVIOUS
  <2>1. TypeOK /\ TypeOK'
    BY TypeStep DEF IInv
  <2>2. Healthy' => Healthy
    <3>1. restarts' = restarts \/ restarts' = restarts + 1
      BY DEF Next, TakeFrame, UpdateStart, MissFrame, Receive, Restart, Tick, Audio, Other, vars, bounds
    <3>2. streams' = streams
      BY DEF Next, TakeFrame, UpdateStart, MissFrame, Receive, Restart, Tick, Audio, Other, vars
    <3>3. missed' = missed \/ missed' = missed + 1
      BY DEF Next, TakeFrame, UpdateStart, MissFrame, Receive, Restart, Tick, Audio, Other, vars, bounds
    <3>4. missed \in Nat /\ SegmentFrames \in Nat
      BY <2>1, LogRotationAssumption DEF TypeOK, EncoderdOK
    <3> QED
      BY <2>1, <3>1, <3>2, <3>3, <3>4 DEF Healthy, TypeOK, EncoderdOK
  <2>3. Healthy' /\ Regular' => Regular
    <3>1. (forced => forced') /\ (silent => silent')
      <4>1. (\E n \in Nat : Rotate(n)) \/ (forced' = forced /\ silent' = silent)
        <5>1. ready_to_rotate \in Nat
          BY <2>1 DEF TypeOK, LoggerdOK
        <5>2. ASSUME NEW e \in Encoders, Receive(e)
              PROVE  \E n \in Nat : Rotate(n)
          BY <2>1, <5>1, <5>2, ReceiveDoes
        <5>3. CASE Audio \/ Other
          BY <5>1, <5>3 DEF Audio, Other
        <5>4. CASE \/ Restart \/ Tick \/ (\E e \in Encoders : TakeFrame(e) \/ UpdateStart(e) \/ MissFrame(e))
                   \/ UNCHANGED vars
          BY <5>4 DEF Restart, Tick, TakeFrame, UpdateStart, MissFrame, vars
        <5> QED
          BY <5>2, <5>3, <5>4 DEF Next
      <4> QED
        BY <2>1, <4>1, RotateDoes
    <3> QED
      BY <2>2, <3>1 DEF Regular, Healthy
  <2>4. ASSUME Healthy'
        PROVE  /\ \A d \in Encoders : Sync(d)' /\ OnItsWay(d)'
               /\ \A d \in Encoders : thread[d].synced => start_frame_id' = start_frame_id
    BY <2>1, <2>2, <2>4, SyncStep, OnItsWayStep DEF IInv
  <2>5. ASSUME Healthy', Regular'
        PROVE  Orderly(segment)' /\ ready_to_rotate' <= Cardinality(AheadEncoders(segment)')
    <3> QED
      BY <2>1, <2>2, <2>3, <2>4, <2>5, OrderStep DEF IInv
  <2> QED
    BY <2>1, <2>4, <2>5 DEF IInv
<1> QED
  BY <1>1, <1>2, PTL DEF Spec

\* The types of encoderd's threads, of packets and of loggerd's queues, whatever goes wrong.
THEOREM TypeCorrect == Spec => []TypeOK
<1>1. IInv => TypeOK
  BY DEF IInv
<1> QED
  BY <1>1, Invariance, PTL

\* The quotient of what lies between two multiples.
LEMMA Quotient ==
  ASSUME NEW x \in Int, NEW k \in Nat, NEW d \in Nat \ {0}, k * d <= x, x < (k + 1) * d
  PROVE  k = x \div d
  OBVIOUS

\* As long as fewer frames were missed than a segment has, a frame is in the segment of its id.
LEMMA ByTheirSegment ==
  ASSUME IInv, missed < SegmentFrames
  PROVE  InTheirSegment
<1> SUFFICES ASSUME Regular, NEW e \in Encoders, NEW w \in video[e]
             PROVE  w[1] >= start_frame_id /\ w[2] = (w[1] - start_frame_id) \div SegmentFrames
  BY DEF InTheirSegment
<1>1. w[1] \in Nat /\ w[2] \in Nat /\ start_frame_id \in Nat
  <2>1. w \in Nat \X Nat
    BY DEF IInv, TypeOK, LoggerdOK
  <2> QED
    BY <2>1 DEF IInv, TypeOK, EncoderdOK
<1>2. Belongs(w[1], w[2])
  BY DEF IInv, Regular, Healthy, Orderly, InOrder
<1> DEFINE x == w[1] - start_frame_id
           k == w[2]
           y == k * SegmentFrames
           z == (k + 1) * SegmentFrames
<1>3. SegmentFrames \in Nat \ {0} /\ y \in Nat /\ z \in Nat
  <2>1. SegmentFrames \in Nat \ {0}
    BY LogRotationAssumption
  <2>2. k \in Nat /\ y \in Nat /\ z = y + SegmentFrames
    BY <1>1, TimesSegment
  <2> HIDE DEF y, z
  <2> QED
    BY <2>1, <2>2
<1>4. x \in Int /\ y <= x /\ x < z
  <2> HIDE DEF k
  <2>1. start_frame_id + y <= w[1] /\ w[1] < start_frame_id + z
    BY <1>2 DEF Belongs, k
  <2> HIDE DEF y, z
  <2> QED
    BY <1>1, <1>3, <2>1
<1>5. k = x \div SegmentFrames
  <2> HIDE DEF x, k
  <2> QED  BY <1>1, <1>3, <1>4, Quotient DEF k
<1>6. x >= 0
  <2> HIDE DEF x, y
  <2> QED  BY <1>3, <1>4
<1> QED
  BY <1>1, <1>5, <1>6

\* The videos of a segment show the same time, for any cameras and lengths: whatever the order in
\* which threads and sockets are served, a frame goes to the segment that its id belongs to
\* (sync_encoders, rotate_if_needed).
THEOREM FramesInTheirSegment ==
  ASSUME FewMissed
  PROVE  Spec => []InTheirSegment
<1>1. IInv /\ missed < SegmentFrames => InTheirSegment
  BY ByTheirSegment
<1>2. IInv /\ FewMissed => missed < SegmentFrames
  BY LogRotationAssumption DEF IInv, TypeOK, EncoderdOK, FewMissed
<1>3. FewMissed => (IInv => InTheirSegment)
  BY <1>1, <1>2
<1> QED
  BY <1>3, Invariance, PTL
-----------------------------------------------------------------------------
(* The fallback.  With all cameras there and no frame missed, every encoder sends the same frames   *)
(* and loggerd is behind by what waits in the sockets.  Patience covers that time, so that the      *)
(* encoders' count is complete before a segment is cut by time.                                      *)

\* loggerd keeps up: what waits in a socket is less than a segment, than the patience with the
\* cameras, and than what a segment may be longer.
Prompt ==
  MaxPackets < SegmentFrames /\ MaxPackets <= Patience /\ SegmentFrames + MaxPackets + 1 <= LongFrames

Steady == streams = Encoders /\ restarts = 0 /\ missed = 0

\* The first frame of every encoder: a single one starts at once, several agree in frame 0 on frame 2.
Begin == IF \E e \in Encoders : Encoders = {e} THEN 0 ELSE 2

Boundary(k) == Begin + k * SegmentFrames

\* All threads start in frame 0 and come to the same first frame.
Begins(e) ==
  LET t == thread[e] IN
  /\ t.frame >= -1
  /\ t.synced <=> t.frame >= Begin
  /\ t.synced => start_frame_id = Begin
  /\ IF Begin = 0 THEN start_frame_id = 0
     ELSE /\ start_frame_id \in {0, 2}
          /\ t.ready => start_frame_id = 2 /\ t.frame >= 0
          /\ t.pc = "update" => now = 0
          /\ t.ready \/ t.frame = -1 \/ t.pc = "update"
          /\ now > 0 => t.ready

\* The next frame of an encoder that loggerd receives
NextFrame(e) == IF thread[e].synced THEN thread[e].frame + 1 - Len(socket[e]) ELSE Begin

\* The frames of an encoder come one after the other, and not later than the sockets allow.
Flows(e) ==
  /\ \A i \in DOMAIN socket[e] : socket[e][i].frame = NextFrame(e) + (i - 1)
  /\ Begin <= NextFrame(e)
  /\ now + 1 <= NextFrame(e) + MaxPackets
  /\ NextFrame(e) = Begin \/ NextFrame(e) - 1 <= last_camera_seen

\* loggerd has received a frame of the segment after k.
Done(e, k) == Boundary(k + 1) < NextFrame(e)

DoneEncoders(k) == {e \in Encoders : Done(e, k)}

\* An encoder is marked when it is done; a mark that is left from the segment before goes with the
\* first packet of this one, of which some are still to come.
Counted(e, k) ==
  LET r == remote[e] IN
  /\ r.encoderd_segment_offset = 0 /\ r.current_segment <= k
  /\ Boundary(k) <= NextFrame(e)
  /\ Done(e, k) => r.marked_ready_to_rotate
  /\ r.marked_ready_to_rotate /\ ~Done(e, k) => r.current_segment # k /\ NextFrame(e) < Boundary(k + 1)

Rounds(k) ==
  /\ ready_to_rotate = Cardinality(DoneEncoders(k))
  /\ DoneEncoders(k) # Encoders
  /\ Boundary(k) <= last_rotate + 2
  /\ ~forced

FInv ==
  /\ last_rotate \in Nat /\ last_camera_seen \in Nat
  /\ Steady => Rounds(segment) /\ \A e \in Encoders : Begins(e) /\ Flows(e) /\ Counted(e, segment)

\* Segments are of one length.
LEMMA BoundaryFacts ==
  ASSUME NEW k \in Nat
  PROVE  /\ Begin \in {0, 2} /\ SegmentFrames \in Nat \ {0} /\ MaxPackets \in Nat \ {0}
         /\ Boundary(k) \in Nat /\ Boundary(k + 1) = Boundary(k) + SegmentFrames
         /\ Boundary(k + 1 + 1) = Boundary(k) + SegmentFrames + SegmentFrames
         /\ Boundary(0) = Begin
<1>1. Begin \in {0, 2} /\ SegmentFrames \in Nat \ {0} /\ MaxPackets \in Nat \ {0}
  BY LogRotationAssumption DEF Begin
<1>2. /\ k * SegmentFrames \in Nat /\ (k + 1) * SegmentFrames = k * SegmentFrames + SegmentFrames
      /\ (k + 1 + 1) * SegmentFrames = k * SegmentFrames + SegmentFrames + SegmentFrames
  BY TimesSegment
<1>3. 0 * SegmentFrames = 0
  BY <1>1
<1> DEFINE x == k * SegmentFrames
           y == (k + 1) * SegmentFrames
           z == (k + 1 + 1) * SegmentFrames
<1>4. Boundary(k) = Begin + x /\ Boundary(k + 1) = Begin + y /\ Boundary(k + 1 + 1) = Begin + z
  BY DEF Boundary
<1>5. x \in Nat /\ y = x + SegmentFrames /\ z = x + SegmentFrames + SegmentFrames
  BY <1>2
<1>6. Boundary(0) = Begin
  BY <1>1, <1>3 DEF Boundary
<1> HIDE DEF x, y, z
<1> QED
  BY <1>1, <1>4, <1>5, <1>6

\* A later segment begins later.
LEMMA LaterSegment ==
  ASSUME NEW a \in Nat, NEW b \in Nat, a < b
  PROVE  Boundary(a + 1) <= Boundary(b)
<1> DEFINE c == b - (a + 1)
<1>1. c \in Nat /\ b = (a + 1) + c /\ a + 1 \in Nat
  OBVIOUS
<1> HIDE DEF c
<1>2. c * SegmentFrames \in Nat /\ (a + 1) * SegmentFrames \in Nat
  BY <1>1, TimesSegment, LogRotationAssumption
<1>3. b * SegmentFrames = (a + 1) * SegmentFrames + c * SegmentFrames
  BY <1>1, LogRotationAssumption
<1> DEFINE x == (a + 1) * SegmentFrames
           y == b * SegmentFrames
           z == c * SegmentFrames
<1>4. Boundary(a + 1) = Begin + x /\ Boundary(b) = Begin + y /\ Begin \in {0, 2}
  BY BoundaryFacts DEF Boundary
<1>5. x \in Nat /\ z \in Nat /\ y = x + z
  BY <1>2, <1>3
<1> HIDE DEF x, y, z
<1> QED
  BY <1>4, <1>5

\* With the start at Begin, a packet is of the segment whose boundaries its frame is between.
LEMMA SegmentOf ==
  ASSUME NEW k \in Nat, NEW m \in Nat, NEW x \in Nat, start_frame_id = Begin, Belongs(x, m)
  PROVE  /\ Boundary(k) <= x => k <= m
         /\ x < Boundary(k + 1) => m <= k
<1>1. Boundary(m) <= x /\ x < Boundary(m + 1)
  BY DEF Belongs, Boundary
<1>2. \A j \in Nat : Boundary(j) \in Nat /\ Boundary(j + 1) \in Nat
  BY BoundaryFacts
<1>3. ASSUME m < k PROVE Boundary(m + 1) <= Boundary(k)
  BY <1>3, LaterSegment
<1>4. ASSUME k < m PROVE Boundary(k + 1) <= Boundary(m)
  BY <1>4, LaterSegment
<1> QED
  BY <1>1, <1>2, <1>3, <1>4

\* The length of a sequence of which the head is taken, or to which an element is appended.
LEMMA Lengths ==
  ASSUME NEW S, NEW s \in Seq(S)
  PROVE  /\ Len(s) \in Nat /\ DOMAIN s = 1..Len(s)
         /\ s = <<>> <=> Len(s) = 0
         /\ s # <<>> => Len(Tail(s)) = Len(s) - 1
         /\ \A x \in S : /\ Len(Append(s, x)) = Len(s) + 1
                         /\ \A i \in DOMAIN Append(s, x) : \/ i \in DOMAIN s /\ Append(s, x)[i] = s[i]
                                                           \/ i = Len(s) + 1 /\ Append(s, x)[i] = x
  OBVIOUS

\* What is behind the steps of a thread, and where an encoder stands.
LEMMA StandsAt ==
  ASSUME TypeOK, Healthy, NEW e \in Encoders, Sync(e), OnItsWay(e), Begins(e)
  PROVE  /\ Len(socket[e]) \in Nat /\ NextFrame(e) \in Int
         /\ ~thread[e].synced => Len(socket[e]) = 0
         /\ NextFrame(e) <= now + 1 \/ NextFrame(e) = Begin
<1>1. /\ thread[e] \in Threads /\ socket[e] \in Seq(Packets) /\ now \in Nat
  BY DEF TypeOK, EncoderdOK, LoggerdOK
<1>2. thread[e].frame \in Int /\ thread[e].synced \in BOOLEAN /\ Begin \in {0, 2}
  BY <1>1 DEF Threads, Begin
<1>3. Len(socket[e]) \in Nat /\ DOMAIN socket[e] = 1..Len(socket[e])
  BY <1>1, Lengths
<1>4. ~thread[e].synced => Len(socket[e]) = 0
  <2> SUFFICES ASSUME ~thread[e].synced, Len(socket[e]) # 0
               PROVE  FALSE
    OBVIOUS
  <2>1. 1 \in DOMAIN socket[e]
    BY <1>3
  <2> QED
    BY <2>1 DEF OnItsWay
<1>5. thread[e].frame <= now
  BY DEF Sync
<1> QED
  BY <1>1, <1>2, <1>3, <1>4, <1>5 DEF NextFrame

\* The same of all encoders, in every state.
InPlace == TypeOK /\ Healthy /\ \A e \in Encoders : Sync(e) /\ OnItsWay(e) /\ Begins(e)

NotAhead ==
  \A e \in Encoders : NextFrame(e) \in Int /\ (NextFrame(e) <= now + 1 \/ NextFrame(e) = Begin)

\* No thread is ahead of the frame that the cameras show.
LEMMA AllStand == InPlace => NotAhead
  BY StandsAt DEF InPlace, NotAhead

\* A frame leaves the next one to be received as it is: the threads begin together, and then the
\* frame is appended to the socket.
LEMMA TakeFrameFlow ==
  ASSUME TypeOK, TypeOK', Steady, Healthy, \A d \in Encoders : Sync(d) /\ OnItsWay(d),
         \A d \in Encoders : Begins(d) /\ Flows(d), NEW e \in Encoders, TakeFrame(e)
  PROVE  \A d \in Encoders : Begins(d)' /\ Flows(d)' /\ NextFrame(d)' = NextFrame(d)
<1>1. /\ thread[e].pc = "recv" /\ thread[e].frame < now
      /\ \A d \in Encoders \ {e} : thread'[d] = thread[d]
      /\ thread'[e].frame = now /\ thread'[e].ready = thread[e].ready
      /\ start_frame_id' = IF ~thread[e].synced /\ streams = {e} THEN Later(start_frame_id, now)
                           ELSE start_frame_id
      /\ Waits(e) \/ Skips(e) \/ Encodes(e)
  BY TakeFrameDoes
<1>2. /\ now \in Nat /\ thread[e] \in Threads /\ socket \in [Encoders -> Seq(Packets)] /\ Begin \in {0, 2}
      /\ socket' \in [Encoders -> Seq(Packets)] /\ start_frame_id \in Nat
  BY DEF TypeOK, EncoderdOK, LoggerdOK, Begin
<1>3. thread[e].frame = now - 1 /\ (~thread[e].synced => Len(socket[e]) = 0) /\ Len(socket[e]) \in Nat
  <2>1. now - 1 <= thread[e].frame /\ thread[e].frame \in Int
    BY <1>2 DEF Sync, Threads
  <2> QED
    BY <1>1, <1>2, <2>1, StandsAt
<1>4. UNCHANGED <<now, last_camera_seen>>
  BY DEF TakeFrame, loggerd
<1>5. (Begin = 0 <=> streams = {e}) /\ streams = Encoders
  <2>1. streams = Encoders
    BY DEF Steady
  <2>2. \A d \in Encoders : Encoders = {d} => Encoders = {e}
    OBVIOUS
  <2> QED
    BY <2>1, <2>2 DEF Begin
<1>6. /\ start_frame_id' = start_frame_id
      /\ Encodes(e) <=> (thread[e].synced \/ now >= Begin)
      /\ now = 0 \/ (thread'[e].pc = "recv" /\ (Begin = 0 \/ start_frame_id = 2))
      /\ Begin # 0 => thread'[e].ready \/ thread'[e].pc = "update"
      /\ thread'[e].pc = "update" => now = 0 /\ Begin # 0
      /\ Encodes(e) => start_frame_id = Begin /\ (thread[e].synced \/ now = Begin)
  <2>1. CASE Begin = 0
    <3>1. start_frame_id = 0 /\ (thread[e].synced <=> now > 0)
      BY <1>2, <1>3, <2>1 DEF Begins
    <3>2. start_frame_id' = 0
      BY <1>1, <1>2, <1>5, <2>1, <3>1 DEF Later
    <3>3. ~Waits(e) /\ ~Skips(e)
      BY <1>2, <1>5, <2>1, <3>2 DEF Waits, Skips
    <3> QED
      BY <1>1, <1>2, <2>1, <3>1, <3>2, <3>3 DEF Encodes
  <2>2. CASE Begin # 0
    <3>1. start_frame_id' = start_frame_id /\ Begin = 2
      BY <1>1, <1>2, <1>5, <2>2
    <3>2. CASE now = 0
      <4>1. ~thread[e].ready /\ ~thread[e].synced
        BY <1>2, <1>3, <2>2, <3>1, <3>2 DEF Begins
      <4>2. ~AllReady
        BY <1>5, <4>1 DEF AllReady
      <4>3. Waits(e) /\ ~Encodes(e)
        <5>1. ~Encodes(e)
          BY <1>5, <2>2, <4>1, <4>2 DEF Encodes
        <5>2. ~Skips(e)
          <6>1. TakeFrame(e)
            OBVIOUS
          <6>2. thread' = [thread EXCEPT ![e] = [[thread[e] EXCEPT !.frame = now] EXCEPT !.pc = "update"]]
            BY <1>5, <2>2, <4>1, <4>2 DEF TakeFrame, Threads
          <6>3. thread'[e].pc = "update"
            BY <1>2, <6>2 DEF Threads, TypeOK, EncoderdOK
          <6> QED
            BY <6>3 DEF Skips
        <5> QED
          BY <1>1, <5>1, <5>2
      <4>4. thread'[e].pc = "update" /\ ~(now >= Begin)
        BY <3>1, <3>2, <4>3 DEF Waits
      <4> QED
        BY <2>2, <3>1, <3>2, <4>1, <4>3, <4>4
    <3>3. CASE now > 0
      <4>1. \A d \in Encoders : thread[d].ready
        BY <2>2, <3>3 DEF Begins
      <4>2. AllReady /\ start_frame_id = 2
        BY <1>5, <2>2, <4>1 DEF AllReady, Begins
      <4>3. ~Waits(e)
        BY <4>2 DEF Waits
      <4>4. thread[e].synced <=> now - 1 >= 2
        BY <1>3, <3>1 DEF Begins
      <4> QED
        BY <1>1, <1>2, <2>2, <3>1, <3>3, <4>1, <4>2, <4>3, <4>4 DEF Skips, Encodes
    <3> QED
      BY <1>2, <3>2, <3>3
  <2> QED
    BY <2>1, <2>2
<1>7. Begins(e) /\ Flows(e)
  OBVIOUS
<1>8. thread'[e].synced <=> Encodes(e)
  BY <1>1, <1>6 DEF Waits, Skips, Encodes
<1>9. Begins(e)'
  <2>1. thread'[e].synced <=> now >= Begin
    <3>1. thread[e].synced => now >= Begin
      BY <1>2, <1>3, <1>7 DEF Begins
    <3> QED
      BY <1>6, <1>8, <3>1
  <2> QED
    BY <1>1, <1>2, <1>3, <1>4, <1>6, <1>7, <1>8, <2>1 DEF Begins, Begin
<1>10. NextFrame(e)' = NextFrame(e) /\ \A i \in DOMAIN socket'[e] : socket'[e][i].frame = NextFrame(e) + (i - 1)
  <2>1. CASE ~Encodes(e)
    <3>1. socket' = socket
      BY <1>1, <2>1 DEF Waits, Skips
    <3>2. ~thread[e].synced /\ ~thread'[e].synced
      BY <1>6, <1>8, <2>1
    <3> QED
      BY <1>7, <3>1, <3>2 DEF NextFrame, Flows, Begin
  <2>2. CASE Encodes(e)
    <3>1. PICK packet \in Packets : packet.frame = now /\ socket' = [socket EXCEPT ![e] = Append(@, packet)]
      BY <2>2 DEF Encodes
    <3> DEFINE s == socket[e]
               t == socket'[e]
    <3>2. t = Append(s, packet) /\ s \in Seq(Packets)
      BY <1>2, <3>1
    <3> HIDE DEF s, t
    <3>3. /\ Len(t) = Len(s) + 1 /\ Len(s) \in Nat
          /\ \A i \in DOMAIN t : (i \in DOMAIN s /\ t[i] = s[i]) \/ (i = Len(s) + 1 /\ t[i] = packet)
      BY <3>2, Lengths
    <3>4. NextFrame(e) = now - Len(s)
      <4>1. CASE thread[e].synced
        BY <1>2, <1>3, <4>1 DEF NextFrame, s
      <4>2. CASE ~thread[e].synced
        BY <1>2, <1>3, <1>6, <2>2, <4>2 DEF NextFrame, s
      <4> QED
        BY <4>1, <4>2
    <3>5. NextFrame(e)' = now + 1 - Len(t)
      BY <1>1, <1>8, <2>2 DEF NextFrame, t
    <3>6. \A i \in DOMAIN s : s[i].frame = NextFrame(e) + (i - 1)
      BY <1>7 DEF Flows, s
    <3>7. packet.frame = NextFrame(e) + ((Len(s) + 1) - 1)
      BY <1>2, <3>1, <3>3, <3>4
    <3>8. NextFrame(e)' = NextFrame(e)
      BY <1>2, <3>3, <3>4, <3>5
    <3> QED
      BY <3>3, <3>6, <3>7, <3>8 DEF t
  <2> QED
    BY <2>1, <2>2
<1>11. Flows(e)'
  BY <1>4, <1>7, <1>10 DEF Flows, Begin
<1>12. ASSUME NEW d \in Encoders \ {e}
       PROVE  Begins(d)' /\ Flows(d)' /\ NextFrame(d)' = NextFrame(d)
  <2>1. thread'[d] = thread[d] /\ socket'[d] = socket[d]
    BY <1>1, <1>2 DEF Waits, Skips, Encodes
  <2>2. NextFrame(d)' = NextFrame(d)
    BY <2>1 DEF NextFrame, Begin
  <2>3. Begins(d)'
    BY <1>4, <1>6, <2>1 DEF Begins, Begin
  <2> QED
    BY <1>4, <2>1, <2>2, <2>3 DEF Flows, Begin
<1> QED
  BY <1>9, <1>10, <1>11, <1>12

\* The rest of sync_encoders, in frame 0: every thread raises the start to frame 2.
LEMMA UpdateStartFlow ==
  ASSUME TypeOK, Healthy, \A d \in Encoders : Sync(d),
         \A d \in Encoders : Begins(d) /\ Flows(d), NEW e \in Encoders, UpdateStart(e)
  PROVE  \A d \in Encoders : Begins(d)' /\ Flows(d)' /\ NextFrame(d)' = NextFrame(d)
<1> DEFINE u == [thread[e] EXCEPT !.ready = TRUE, !.pc = "recv"]
<1>1. thread \in [Encoders -> Threads] /\ start_frame_id \in Nat /\ now \in Nat
  BY DEF TypeOK, EncoderdOK
<1>2. thread' = [thread EXCEPT ![e] = u]
  BY <1>1 DEF UpdateStart
<1>3. /\ u.frame = thread[e].frame /\ u.ready /\ u.pc = "recv" /\ u.synced = thread[e].synced
  BY <1>1 DEF Threads
<1> HIDE DEF u
<1>4. (\A d \in Encoders \ {e} : thread'[d] = thread[d]) /\ thread'[e] = u
  BY <1>1, <1>2
<1>5. thread[e].pc = "update" /\ thread[e].frame = now /\ streams # {e}
  BY DEF UpdateStart, Sync
<1>6. Begin = 2 /\ now = 0
  <2>1. Begin # 0
    BY <1>5 DEF Begin, Healthy
  <2> QED
    BY <1>5, <2>1 DEF Begins, Begin
<1>7. UNCHANGED <<now, socket, last_camera_seen>> /\ start_frame_id' = 2
  <2>1. start_frame_id' = Later(start_frame_id, 2) /\ UNCHANGED <<now, socket, last_camera_seen>>
    BY <1>5, <1>6 DEF UpdateStart, StartAfter, loggerd
  <2>2. start_frame_id \in {0, 2}
    BY <1>6 DEF Begins
  <2> QED
    BY <2>1, <2>2 DEF Later
<1>8. ASSUME NEW d \in Encoders
      PROVE  Begins(d)' /\ Flows(d)' /\ NextFrame(d)' = NextFrame(d)
  <2>1. /\ thread'[d].frame = thread[d].frame /\ thread'[d].synced = thread[d].synced
        /\ thread[d].ready => thread'[d].ready
        /\ thread'[d].ready /\ d # e => thread[d].ready
        /\ thread'[d].pc = "update" => thread[d].pc = "update" /\ d # e
        /\ thread[d].pc = "update" => thread'[d].pc = "update" \/ thread'[d].ready
    BY <1>3, <1>4
  <2>2. NextFrame(d)' = NextFrame(d) /\ Flows(d)'
    BY <1>7, <2>1 DEF NextFrame, Flows, Begin
  <2>3. Begins(d)'
    BY <1>1, <1>5, <1>6, <1>7, <2>1 DEF Begins, Begin
  <2> QED
    BY <2>2, <2>3
<1> QED
  BY <1>8

\* The next frame comes when the last one has been handled and the sockets have room.
LEMMA TickFlow ==
  ASSUME TypeOK, Steady, Healthy, \A d \in Encoders : Sync(d) /\ OnItsWay(d),
         \A d \in Encoders : Begins(d) /\ Flows(d), Tick
  PROVE  \A d \in Encoders : Begins(d)' /\ Flows(d)' /\ NextFrame(d)' = NextFrame(d)
<1>1. now \in Nat /\ now' = now + 1
  BY DEF TypeOK, EncoderdOK, Tick
<1>2. UNCHANGED <<thread, start_frame_id, socket, last_camera_seen>>
  BY DEF Tick, encoderd, loggerd
<1>3. ASSUME NEW d \in Encoders
      PROVE  Begins(d)' /\ Flows(d)' /\ NextFrame(d)' = NextFrame(d)
  <2>1. thread[d].frame = now /\ thread[d].pc = "recv" /\ Len(socket[d]) < MaxPackets
    BY DEF Tick, Steady
  <2>2. /\ Len(socket[d]) \in Nat /\ (~thread[d].synced => Len(socket[d]) = 0)
        /\ MaxPackets \in Nat \ {0} /\ Begin \in {0, 2}
    BY StandsAt, LogRotationAssumption DEF Begin
  <2>3. NextFrame(d)' = NextFrame(d)
    BY <1>2 DEF NextFrame, Begin
  <2>4. Begins(d)'
    BY <1>1, <1>2, <2>1 DEF Begins, Begin
  <2>5. now' + 1 <= NextFrame(d) + MaxPackets
    <3>1. CASE thread[d].synced
      <4>1. NextFrame(d) = now + 1 - Len(socket[d])
        BY <2>1, <3>1 DEF NextFrame
      <4> DEFINE n == Len(socket[d])
                 x == NextFrame(d)
      <4>2. n \in Nat /\ n < MaxPackets /\ x = now + 1 - n
        BY <2>1, <2>2, <4>1
      <4> HIDE DEF n, x
      <4>3. now + 1 + 1 <= x + MaxPackets
        BY <1>1, <2>2, <4>2
      <4> QED
        BY <1>1, <4>3 DEF x
    <3>2. CASE ~thread[d].synced
      <4>1. now < Begin
        BY <1>1, <2>1, <2>2, <3>2 DEF Begins
      <4> QED
        BY <1>1, <2>2, <3>2, <4>1 DEF NextFrame
    <3> QED
      BY <3>1, <3>2
  <2>6. Flows(d)'
    BY <1>2, <2>3, <2>5 DEF Flows, Begin
  <2> QED
    BY <2>3, <2>4, <2>6
<1> QED
  BY <1>3

\* An encoder that is not done holds back time: no segment is longer than the patience allows for.
LEMMA InTime ==
  ASSUME Prompt, TypeOK, last_rotate \in Nat, last_camera_seen \in Nat, NEW k \in Nat, Rounds(k),
         \A e \in Encoders : Flows(e) /\ NextFrame(e) \in Int
  PROVE  /\ now + 1 <= Boundary(k + 1) + MaxPackets
         /\ now - last_rotate <= LongFrames
         /\ now - last_rotate > SegmentFrames => now - last_camera_seen <= Patience
<1>1. /\ now \in Nat /\ Begin \in {0, 2} /\ {SegmentFrames, MaxPackets, Patience, LongFrames} \subseteq Nat
      /\ Boundary(k) \in Nat /\ Boundary(k + 1) = Boundary(k) + SegmentFrames
  BY BoundaryFacts, LogRotationAssumption DEF TypeOK, EncoderdOK
<1>2. PICK e \in Encoders : ~Done(e, k)
  BY DEF Rounds, DoneEncoders
<1>3. /\ NextFrame(e) \in Int /\ now + 1 <= NextFrame(e) + MaxPackets
      /\ NextFrame(e) = Begin \/ NextFrame(e) - 1 <= last_camera_seen
  BY DEF Flows
<1>4. NextFrame(e) <= Boundary(k + 1)
  BY <1>1, <1>2, <1>3 DEF Done
<1>5. Boundary(k) <= last_rotate + 2
  BY DEF Rounds
<1> QED
  BY <1>1, <1>3, <1>4, <1>5 DEF Prompt

\* rotate_if_needed: when every encoder is done, each is somewhere in the next segment.
LEMMA RotateRounds ==
  ASSUME Prompt, TypeOK, NEW k \in Nat, k = segment, NEW n \in Nat, Rotate(n), Encoders # {},
         now' = now, last_rotate \in Nat, last_camera_seen' \in Nat,
         now + 1 <= Boundary(k + 1) + MaxPackets, now - last_rotate <= LongFrames,
         now - last_rotate > SegmentFrames => now - last_camera_seen' <= Patience,
         Boundary(k) <= last_rotate + 2, ~forced,
         n = Cardinality(DoneEncoders(k)'),
         \A e \in Encoders : /\ Counted(e, k)' /\ NextFrame(e)' \in Int
                             /\ NextFrame(e)' <= now + 1 \/ NextFrame(e)' = Begin
                             /\ remote'[e].current_segment \in Int
  PROVE  Rounds(segment)' /\ \A e \in Encoders : Counted(e, segment)'
<1>1. /\ now \in Nat /\ Begin \in {0, 2} /\ SegmentFrames \in Nat \ {0}
      /\ {MaxPackets, Patience, LongFrames} \subseteq Nat
      /\ Boundary(k) \in Nat /\ Boundary(k + 1) = Boundary(k) + SegmentFrames
      /\ Boundary(k + 1 + 1) = Boundary(k) + SegmentFrames + SegmentFrames
  BY BoundaryFacts, LogRotationAssumption DEF TypeOK, EncoderdOK
<1>2. ~TimedOut
  BY <1>1 DEF TimedOut
<1>3. IsFiniteSet(Encoders) /\ DoneEncoders(k)' \subseteq Encoders
  BY LogRotationAssumption DEF DoneEncoders
<1>4. n = Cardinality(Encoders) <=> DoneEncoders(k)' = Encoders
  <2> DEFINE S == DoneEncoders(k)'
  <2>1. n = Cardinality(S) /\ S \subseteq Encoders
    BY <1>3
  <2> HIDE DEF S
  <2>2. n = Cardinality(Encoders) <=> S = Encoders
    BY <1>3, <2>1, FS_Subset
  <2> QED
    BY <2>2 DEF S
<1>5. ~forced'
  BY <1>2 DEF Rotate
<1>6. CASE n = Cardinality(Encoders)
  <2>1. segment' = k + 1 /\ ready_to_rotate' = 0 /\ last_rotate' = now
    BY <1>6 DEF Rotate, all_ready
  <2>2. ASSUME NEW e \in Encoders
        PROVE  /\ Boundary(k + 1) < NextFrame(e)' /\ NextFrame(e)' <= now + 1
               /\ NextFrame(e)' < Boundary(k + 1 + 1)
               /\ remote'[e].encoderd_segment_offset = 0 /\ remote'[e].current_segment <= k
    <3> DEFINE x == NextFrame(e)'
    <3>1. Done(e, k)' /\ Counted(e, k)'
      BY <1>4, <1>6 DEF DoneEncoders
    <3>2. Boundary(k + 1) < x
      BY <3>1 DEF Done, Boundary, Begin
    <3>3. x \in Int /\ (x <= now + 1 \/ x = Begin)
      OBVIOUS
    <3> HIDE DEF x
    <3>4. x <= now + 1 /\ x < Boundary(k + 1 + 1)
      <4>1. Boundary(k) >= Begin
        <5>1. k * SegmentFrames \in Nat
          BY TimesSegment
        <5> QED
          BY <1>1, <5>1 DEF Boundary
      <4> QED
        BY <1>1, <3>2, <3>3, <4>1 DEF Prompt
    <3> QED
      BY <3>1, <3>2, <3>4 DEF Counted, x
  <2>3. \A e \in Encoders : ~Done(e, segment)'
    <3> SUFFICES ASSUME NEW e \in Encoders
                 PROVE  ~Done(e, segment)'
      OBVIOUS
    <3>1. Done(e, segment)' <=> Boundary(k + 1 + 1) < NextFrame(e)'
      BY <2>1 DEF Done, Boundary, Begin
    <3> QED
      BY <1>1, <2>2, <3>1
  <2>4. DoneEncoders(segment)' = {} /\ Cardinality({}) = 0
    BY <2>3, FS_EmptySet DEF DoneEncoders
  <2>5. Boundary(k + 1) <= last_rotate' + 2
    <3>1. PICK e \in Encoders : TRUE
      OBVIOUS
    <3> QED
      BY <1>1, <2>1, <2>2, <3>1
  <2>6. ASSUME NEW e \in Encoders
        PROVE  Counted(e, segment)'
    <3>1. /\ Boundary(segment)' = Boundary(k + 1) /\ Boundary(segment + 1)' = Boundary(k + 1 + 1)
          /\ segment' = k + 1
      BY <2>1 DEF Boundary, Begin
    <3>2. remote'[e].current_segment <= segment' /\ remote'[e].current_segment # segment'
      BY <2>1, <2>2
    <3>3. Boundary(k + 1) <= NextFrame(e)'
      BY <1>1, <2>2
    <3> QED
      BY <2>2, <2>3, <3>1, <3>2, <3>3 DEF Counted
  <2> QED
    BY <1>5, <2>1, <2>4, <2>5, <2>6 DEF Rounds, Boundary, Begin
<1>7. CASE n # Cardinality(Encoders)
  <2>1. segment' = k /\ ready_to_rotate' = n /\ last_rotate' = last_rotate
    BY <1>2, <1>7 DEF Rotate, all_ready
  <2>2. ASSUME NEW e \in Encoders
        PROVE  Counted(e, segment)'
    BY <2>1 DEF Counted, Done, Boundary, Begin
  <2>3. DoneEncoders(segment)' = DoneEncoders(k)'
    BY <2>1 DEF DoneEncoders, Done, Boundary, Begin
  <2> QED
    BY <1>4, <1>5, <1>7, <2>1, <2>2, <2>3 DEF Rounds, Boundary, Begin
<1> QED
  BY <1>6, <1>7

\* loggerd takes the next frame of an encoder, and counts the encoder when it is of a later segment.
LEMMA ReceiveFlow ==
  ASSUME TypeOK, TypeOK', Healthy, \A d \in Encoders : Sync(d) /\ OnItsWay(d), NEW k \in Nat, k = segment,
         \A d \in Encoders : Begins(d) /\ Flows(d) /\ Counted(d, k), NEW e \in Encoders, Receive(e)
  PROVE  /\ \A d \in Encoders : Begins(d)' /\ Flows(d)' /\ Counted(d, k)'
         /\ IF Early(e) /\ ~remote[e].marked_ready_to_rotate
            THEN e \notin DoneEncoders(k) /\ DoneEncoders(k)' = DoneEncoders(k) \cup {e}
            ELSE DoneEncoders(k)' = DoneEncoders(k)
<1>1. /\ socket \in [Encoders -> Seq(Packets)] /\ socket[e] \in Seq(Packets) /\ thread[e] \in Threads
      /\ now \in Nat /\ segment \in Nat /\ remote[e] \in RemoteEncoders
  BY DEF TypeOK, EncoderdOK, LoggerdOK
<1>2. /\ socket[e] # <<>> /\ socket' = [socket EXCEPT ![e] = Tail(@)]
      /\ \A d \in Encoders \ {e} : remote'[d] = remote[d] /\ socket'[d] = socket[d]
      /\ Current(e) \/ Early(e) \/ Late(e)
  BY <1>1, ReceiveDoes
<1>3. UNCHANGED <<now, thread, start_frame_id>> /\ last_camera_seen' = now
  BY DEF Receive, encoderd
<1> DEFINE s == socket[e]
           t == socket'[e]
           packet == Head(s)
           x == NextFrame(e)
<1>4. t = Tail(s) /\ s \in Seq(Packets) /\ s # <<>>
  BY <1>1, <1>2
<1>5. /\ packet = s[1] /\ 1 \in DOMAIN s /\ packet \in Packets
      /\ Len(s) \in Nat /\ Len(s) >= 1 /\ Len(t) = Len(s) - 1
      /\ \A i \in DOMAIN t : i + 1 \in DOMAIN s /\ t[i] = s[i + 1] /\ i \in Nat
  <2> HIDE DEF s, t
  <2>1. Len(s) \in Nat /\ Len(s) # 0 /\ Len(t) = Len(s) - 1
    BY <1>4, Lengths
  <2>2. s[1] = Head(s) /\ 1 \in DOMAIN s
    BY <1>4, TailOf
  <2>3. s[1] \in Packets
    BY <1>4, <2>2
  <2> QED
    BY <1>4, <2>1, <2>2, <2>3, TailOf
<1>6. packet.frame \in Nat /\ packet.seg \in Nat
  <2> HIDE DEF packet
  <2> QED  BY <1>5 DEF Packets
<1>7. /\ thread[e].synced /\ Belongs(packet.frame, packet.seg) /\ start_frame_id = Begin
      /\ packet.frame = x
  <2>1. thread[e].synced /\ Belongs(packet.frame, packet.seg)
    BY <1>5 DEF OnItsWay
  <2>2. x \in Int
    BY StandsAt
  <2>3. s[1].frame = x + (1 - 1)
    BY <1>5 DEF Flows
  <2> HIDE DEF s, x, packet
  <2>4. packet.frame = x
    BY <1>5, <2>2, <2>3
  <2> QED
    BY <2>1, <2>4 DEF Begins, packet, s
<1>8. NextFrame(e)' = x + 1 /\ x <= now
  <2>1. thread[e].frame \in Int /\ thread[e].frame <= now /\ x = thread[e].frame + 1 - Len(s)
    BY <1>1, <1>7 DEF Threads, Sync, NextFrame
  <2>2. NextFrame(e)' = thread[e].frame + 1 - Len(t)
    BY <1>3, <1>7 DEF NextFrame
  <2> HIDE DEF x, s, t
  <2> QED
    BY <1>1, <1>5, <2>1, <2>2
<1>9. \A d \in Encoders : Begins(d)'
  BY <1>3 DEF Begins, Begin
<1>10. \A d \in Encoders \ {e} : NextFrame(d)' = NextFrame(d)
  BY <1>2, <1>3 DEF NextFrame, Begin
<1>11. ASSUME NEW d \in Encoders \ {e}
       PROVE  Flows(d)' /\ Counted(d, k)' /\ (Done(d, k)' <=> Done(d, k))
  <2>1. NextFrame(d) = Begin \/ NextFrame(d) - 1 <= now
    BY <1>1, StandsAt
  <2>2. Flows(d)'
    BY <1>2, <1>3, <1>10, <2>1 DEF Flows, Begin
  <2> QED
    BY <1>2, <1>10, <2>2 DEF Counted, Done, Boundary, Begin
<1>12. Flows(e)'
  <2>1. Flows(e) /\ MaxPackets \in Nat /\ Begin \in {0, 2}
    BY BoundaryFacts
  <2>2. \A i \in DOMAIN t : t[i].frame = (x + 1) + (i - 1)
    <3> SUFFICES ASSUME NEW i \in DOMAIN t
                 PROVE  t[i].frame = (x + 1) + (i - 1)
      OBVIOUS
    <3>1. i \in Nat /\ t[i] = s[i + 1] /\ s[i + 1].frame = x + ((i + 1) - 1)
      BY <1>5, <2>1 DEF Flows
    <3>2. x \in Int
      BY <1>6, <1>7
    <3> HIDE DEF x, s, t
    <3> QED
      BY <3>1, <3>2
  <2>3. Begin <= x + 1 /\ now + 1 <= x + 1 + MaxPackets /\ (x + 1) - 1 <= now
    <3>1. Begin <= x /\ now + 1 <= x + MaxPackets
      BY <2>1 DEF Flows
    <3> HIDE DEF x
    <3> QED
      BY <1>1, <1>6, <1>7, <1>8, <2>1, <3>1
  <2> HIDE DEF x
  <2> QED
    BY <1>3, <1>8, <2>2, <2>3 DEF Flows, Begin, t
<1>13. Offset(e) = 0
  BY <1>5 DEF Offset, OnItsWay, Counted
<1>14. /\ Boundary(k) <= x /\ k <= packet.seg /\ (x < Boundary(k + 1) => packet.seg = k)
       /\ (packet.seg = k => x < Boundary(k + 1)) /\ Boundary(k) \in Nat /\ Boundary(k + 1) \in Nat
  <2>1. Boundary(k) <= x
    BY DEF Counted
  <2>2. Boundary(k) <= packet.frame => k <= packet.seg
    BY <1>6, <1>7, SegmentOf
  <2>3. packet.frame < Boundary(k + 1) => packet.seg <= k
    BY <1>6, <1>7, SegmentOf
  <2>4. packet.seg = k => packet.frame < Boundary(k + 1)
    BY <1>7 DEF Belongs, Boundary
  <2>5. Boundary(k) \in Nat /\ Boundary(k + 1) \in Nat
    BY BoundaryFacts
  <2>6. packet.seg \in Nat /\ packet.frame = x
    BY <1>6, <1>7
  <2> HIDE DEF packet, x
  <2> QED
    BY <2>1, <2>2, <2>3, <2>4, <2>5, <2>6
<1>15. ~Late(e)
  <2> HIDE DEF packet
  <2> QED  BY <1>6, <1>13, <1>14 DEF Late, packet
<1>16. /\ remote'[e].encoderd_segment_offset = 0 /\ Counted(e, k)
       /\ Done(e, k)' <=> Boundary(k + 1) < x + 1
       /\ Done(e, k) <=> Boundary(k + 1) < x
       /\ Boundary(k)' = Boundary(k) /\ Boundary(k + 1)' = Boundary(k + 1)
  BY <1>2, <1>8, <1>13, <1>15 DEF Current, Early, Done, Boundary, Begin
<1>17. CASE Current(e)
  <2>1. packet.seg = k
    <3> HIDE DEF packet
    <3> QED  BY <1>6, <1>13, <1>17 DEF Current, packet
  <2>2. x < Boundary(k + 1) /\ x \in Nat
    BY <1>6, <1>7, <1>14, <2>1
  <2> HIDE DEF x
  <2>3. ~Done(e, k)' /\ ~Done(e, k) /\ Boundary(k) <= x + 1
    BY <1>14, <1>16, <2>2
  <2>4. ~remote'[e].marked_ready_to_rotate
    BY <1>16, <1>17, <2>3 DEF Counted, Current
  <2>5. Counted(e, k)'
    BY <1>8, <1>16, <1>17, <2>3, <2>4 DEF Counted, Current
  <2>6. ~Early(e)
    <3>1. ~(Head(socket[e]).seg - Offset(e) > segment)
      BY <1>1, <1>17 DEF Current
    <3> QED
      BY <3>1 DEF Early
  <2>7. DoneEncoders(k)' = DoneEncoders(k)
    BY <1>11, <2>3 DEF DoneEncoders
  <2> QED
    BY <1>9, <1>11, <1>12, <2>5, <2>6, <2>7
<1>18. CASE Early(e)
  <2>1. packet.seg # k
    <3> HIDE DEF packet
    <3> QED  BY <1>6, <1>13, <1>18 DEF Early, packet
  <2>2. ~(x < Boundary(k + 1)) /\ x \in Nat
    BY <1>6, <1>7, <1>14, <2>1
  <2> HIDE DEF x
  <2>3. Done(e, k)' /\ Boundary(k) <= x + 1
    BY <1>14, <1>16, <2>2
  <2>4. Counted(e, k)'
    BY <1>8, <1>16, <1>18, <2>3 DEF Counted, Early
  <2>5. remote[e].marked_ready_to_rotate <=> Done(e, k)
    BY <1>16, <2>2 DEF Counted, x
  <2>6. IF ~remote[e].marked_ready_to_rotate
        THEN e \notin DoneEncoders(k) /\ DoneEncoders(k)' = DoneEncoders(k) \cup {e}
        ELSE DoneEncoders(k)' = DoneEncoders(k)
    BY <1>11, <2>3, <2>5 DEF DoneEncoders
  <2> QED
    BY <1>9, <1>11, <1>12, <1>18, <2>4, <2>6
<1> QED
  BY <1>2, <1>15, <1>17, <1>18

\* While nothing goes wrong loggerd counts every encoder, and does not fall back on the time.
LEMMA SteadyStep ==
  ASSUME Prompt, IInv, IInv', FInv, [Next]_vars, Steady, Steady',
         last_rotate' \in Nat, last_camera_seen' \in Nat
  PROVE  /\ Rounds(segment)'
         /\ \A e \in Encoders : Begins(e)' /\ Flows(e)' /\ Counted(e, segment)'
<1>1. /\ TypeOK /\ TypeOK' /\ Healthy /\ Healthy'
      /\ \A d \in Encoders : Sync(d) /\ OnItsWay(d) /\ Sync(d)' /\ OnItsWay(d)'
  <2>1. Healthy /\ Healthy'
    BY LogRotationAssumption DEF Steady, Healthy
  <2> QED
    BY <2>1 DEF IInv
<1>2. /\ Rounds(segment) /\ last_rotate \in Nat /\ last_camera_seen \in Nat
      /\ \A e \in Encoders : Begins(e) /\ Flows(e) /\ Counted(e, segment)
  BY DEF FInv
<1>3. PICK k \in Nat : k = segment
  BY <1>1 DEF TypeOK, LoggerdOK
<1>4. Rounds(k) /\ \A e \in Encoders : Begins(e) /\ Flows(e) /\ Counted(e, k)
  BY <1>2, <1>3
<1>5. \A e \in Encoders : NextFrame(e) \in Int /\ (NextFrame(e) <= now + 1 \/ NextFrame(e) = Begin)
  BY <1>1, <1>4, StandsAt
<1>6. /\ now + 1 <= Boundary(k + 1) + MaxPackets /\ now - last_rotate <= LongFrames
      /\ now - last_rotate > SegmentFrames => now - last_camera_seen <= Patience
  BY <1>1, <1>2, <1>4, <1>5, InTime
<1>7. now \in Nat /\ ready_to_rotate \in Nat /\ Patience \in Nat /\ Encoders # {}
      /\ Boundary(k) <= last_rotate + 2 /\ ~forced /\ ready_to_rotate = Cardinality(DoneEncoders(k))
  BY <1>1, <1>4, LogRotationAssumption DEF TypeOK, EncoderdOK, LoggerdOK, Rounds, DoneEncoders
<1>8. ASSUME \A e \in Encoders : Begins(e)' /\ Flows(e)' /\ Counted(e, k)',
             NEW n \in Nat, Rotate(n), n = Cardinality(DoneEncoders(k)'),
             now' = now, last_camera_seen' \in {now, last_camera_seen}
      PROVE  Rounds(segment)' /\ \A e \in Encoders : Counted(e, segment)'
  <2>1. ASSUME NEW e \in Encoders
        PROVE  /\ NextFrame(e)' \in Int /\ (NextFrame(e)' <= now + 1 \/ NextFrame(e)' = Begin)
               /\ remote'[e].current_segment \in Int
    <3>1. InPlace'
      BY <1>1, <1>8 DEF InPlace
    <3>2. NotAhead'
      BY <3>1, AllStand, PTL
    <3>3. Begin' = Begin
      BY DEF Begin
    <3>4. remote'[e] \in RemoteEncoders
      BY <1>1 DEF TypeOK, LoggerdOK
    <3> QED
      BY <1>8, <3>2, <3>3, <3>4 DEF RemoteEncoders, NotAhead
  <2>2. now - last_rotate > SegmentFrames => now - last_camera_seen' <= Patience
    <3>1. CASE last_camera_seen' = now
      <4> DEFINE x == last_camera_seen'
      <4>1. x = now
        BY <3>1
      <4> HIDE DEF x
      <4>2. now - x <= Patience
        BY <1>7, <4>1
      <4> QED
        BY <4>2 DEF x
    <3>2. CASE last_camera_seen' = last_camera_seen
      BY <1>6, <3>2
    <3> QED
      BY <1>8, <3>1, <3>2
  <2> QED
    BY <1>1, <1>2, <1>3, <1>6, <1>7, <1>8, <2>1, <2>2, RotateRounds
<1>9. ASSUME \A e \in Encoders : Begins(e)' /\ Flows(e)' /\ NextFrame(e)' = NextFrame(e),
             UNCHANGED <<remote, segment, ready_to_rotate, last_rotate, forced>>
      PROVE  Rounds(segment)' /\ \A e \in Encoders : Counted(e, segment)'
  <2>1. segment' = k
    BY <1>3, <1>9
  <2>2. \A e \in Encoders : Done(e, segment)' <=> Done(e, k)
    BY <1>9, <2>1 DEF Done, Boundary, Begin
  <2>3. DoneEncoders(segment)' = DoneEncoders(k)
    BY <2>2 DEF DoneEncoders
  <2> QED
    BY <1>4, <1>9, <2>1, <2>2, <2>3 DEF Rounds, Counted, Boundary, Begin
<1>10. ASSUME NEW e \in Encoders, TakeFrame(e)
       PROVE  /\ Rounds(segment)'
              /\ \A d \in Encoders : Begins(d)' /\ Flows(d)' /\ Counted(d, segment)'
  <2>1. UNCHANGED <<remote, segment, ready_to_rotate, last_rotate, forced>>
    BY <1>10 DEF TakeFrame, loggerd
  <2> QED
    BY <1>1, <1>4, <1>9, <1>10, <2>1, TakeFrameFlow
<1>11. ASSUME NEW e \in Encoders, UpdateStart(e)
       PROVE  /\ Rounds(segment)'
              /\ \A d \in Encoders : Begins(d)' /\ Flows(d)' /\ Counted(d, segment)'
  <2>1. UNCHANGED <<remote, segment, ready_to_rotate, last_rotate, forced>>
    BY <1>11 DEF UpdateStart, loggerd
  <2> QED
    BY <1>1, <1>4, <1>9, <1>11, <2>1, UpdateStartFlow
<1>12. CASE Tick
  <2>1. UNCHANGED <<remote, segment, ready_to_rotate, last_rotate, forced>>
    BY <1>12 DEF Tick, loggerd
  <2> QED
    BY <1>1, <1>4, <1>9, <1>12, <2>1, TickFlow
<1>13. ASSUME NEW e \in Encoders, Receive(e)
       PROVE  /\ Rounds(segment)'
              /\ \A d \in Encoders : Begins(d)' /\ Flows(d)' /\ Counted(d, segment)'
  <2> DEFINE counts == Early(e) /\ ~remote[e].marked_ready_to_rotate
             n == IF counts THEN ready_to_rotate + 1 ELSE ready_to_rotate
  <2>1. /\ \A d \in Encoders : Begins(d)' /\ Flows(d)' /\ Counted(d, k)'
        /\ IF counts THEN e \notin DoneEncoders(k) /\ DoneEncoders(k)' = DoneEncoders(k) \cup {e}
                     ELSE DoneEncoders(k)' = DoneEncoders(k)
    BY <1>1, <1>3, <1>4, <1>13, ReceiveFlow
  <2>2. Rotate(n) /\ now' = now /\ last_camera_seen' = now
    BY <1>1, <1>13, ReceiveDoes DEF Receive
  <2> HIDE DEF counts
  <2>3. IsFiniteSet(DoneEncoders(k))
    <3>1. DoneEncoders(k) \subseteq Encoders
      BY DEF DoneEncoders
    <3> QED
      BY <3>1, LogRotationAssumption, FS_Subset
  <2>4. n \in Nat /\ n = Cardinality(DoneEncoders(k)')
    <3>1. CASE counts
      <4>1. Cardinality(DoneEncoders(k) \cup {e}) = Cardinality(DoneEncoders(k)) + 1
        BY <2>1, <2>3, <3>1, FS_AddElement
      <4> QED
        BY <1>7, <2>1, <3>1, <4>1
    <3>2. CASE ~counts
      BY <1>7, <2>1, <3>2
    <3> QED
      BY <3>1, <3>2
  <2> HIDE DEF n
  <2> QED
    BY <1>8, <2>1, <2>2, <2>4
<1>14. CASE Audio \/ Other
  <2>1. /\ UNCHANGED <<now, thread, start_frame_id, socket, last_camera_seen>> /\ Rotate(ready_to_rotate)
    BY <1>14 DEF Audio, Other, encoderd
  <2>2. ASSUME NEW d \in Encoders
        PROVE  /\ remote'[d].encoderd_segment_offset = remote[d].encoderd_segment_offset
               /\ remote'[d].marked_ready_to_rotate = remote[d].marked_ready_to_rotate
               /\ remote'[d].current_segment = remote[d].current_segment
    BY <1>1, <1>14, AudioDoes DEF Other
  <2>3. \A d \in Encoders : NextFrame(d)' = NextFrame(d)
    BY <2>1 DEF NextFrame, Begin
  <2>4. \A d \in Encoders : Begins(d)' /\ Flows(d)' /\ Counted(d, k)'
    <3> SUFFICES ASSUME NEW d \in Encoders
                 PROVE  Begins(d)' /\ Flows(d)' /\ Counted(d, k)'
      OBVIOUS
    <3>1. Begins(d)'
      BY <1>4, <2>1 DEF Begins, Begin
    <3>2. Flows(d)'
      BY <1>4, <2>1, <2>3 DEF Flows, Begin
    <3>3. Done(d, k)' <=> Done(d, k)
      BY <2>3 DEF Done, Boundary, Begin
    <3>4. Counted(d, k)'
      BY <1>4, <2>2, <2>3, <3>3 DEF Counted, Boundary, Begin
    <3> QED
      BY <3>1, <3>2, <3>4
  <2>5. DoneEncoders(k)' = DoneEncoders(k)
    BY <2>3 DEF DoneEncoders, Done, Boundary, Begin
  <2> QED
    BY <1>7, <1>8, <2>1, <2>4, <2>5
<1>15. CASE Restart \/ \E e \in Encoders : MissFrame(e)
  <2>1. restarts = 0 /\ missed = 0 /\ restarts' = 0 /\ missed' = 0
    BY DEF Steady
  <2> QED
    BY <1>15, <2>1 DEF Restart, MissFrame
<1>16. CASE UNCHANGED vars
  <2>1. UNCHANGED <<now, thread, start_frame_id, socket, last_camera_seen, remote, segment, ready_to_rotate,
                    last_rotate, forced>>
    BY <1>16 DEF vars, encoderd, loggerd
  <2>2. \A d \in Encoders : NextFrame(d)' = NextFrame(d)
    BY <2>1 DEF NextFrame, Begin
  <2>3. \A d \in Encoders : Begins(d)' /\ Flows(d)'
    BY <1>4, <2>1, <2>2 DEF Begins, Flows, Begin
  <2> QED
    BY <1>9, <2>1, <2>2, <2>3
<1> QED
  BY <1>10, <1>11, <1>12, <1>13, <1>14, <1>15, <1>16 DEF Next

\* loggerd notes the time in frames.
LEMMA TimesNoted ==
  ASSUME TypeOK, [Next]_vars, last_rotate \in Nat, last_camera_seen \in Nat
  PROVE  last_rotate' \in Nat /\ last_camera_seen' \in Nat
<1>1. now \in Nat
  BY DEF TypeOK, EncoderdOK
<1>2. last_camera_seen' \in {now, last_camera_seen}
  BY DEF Next, TakeFrame, UpdateStart, MissFrame, Restart, Tick, Receive, Audio, Other, vars, loggerd
<1>3. last_rotate' = last_rotate \/ \E n : Rotate(n)
  BY DEF Next, TakeFrame, UpdateStart, MissFrame, Restart, Tick, Receive, Audio, Other, vars, loggerd
<1>4. last_rotate' \in {now, last_rotate}
  BY <1>3 DEF Rotate
<1> QED
  BY <1>1, <1>2, <1>4

\* Segments are cut by time only when a camera is missing, a frame was missed or encoderd was
\* restarted, for any number of cameras and any length of a segment, as long as loggerd keeps up
\* (rotate_if_needed): otherwise the encoders agree on every rotation.
THEOREM CountedInTime ==
  ASSUME Prompt
  PROVE  Spec => []FallbackOnlyOnMalfunction
<1>1. Init => FInv
  <2> SUFFICES ASSUME Init
               PROVE  FInv
    OBVIOUS
  <2>1. SegmentFrames \in Nat \ {0} /\ MaxPackets \in Nat \ {0} /\ Begin \in {0, 2} /\ Boundary(0) = Begin
        /\ Boundary(0 + 1) = Boundary(0) + SegmentFrames
    BY BoundaryFacts
  <2>2. ASSUME NEW e \in Encoders
        PROVE  Begins(e) /\ NextFrame(e) = Begin
    BY <2>1 DEF Init, Stopped, Begins, NextFrame
  <2>3. ASSUME NEW e \in Encoders
        PROVE  Flows(e)
    BY <2>1, <2>2 DEF Init, Flows, Prompt
  <2>4. \A e \in Encoders : ~Done(e, 0)
    BY <2>1, <2>2 DEF Done
  <2>5. \A e \in Encoders : Counted(e, 0)
    BY <2>1, <2>2, <2>4 DEF Init, Counted, RemoteEncoder
  <2>6. DoneEncoders(0) = {} /\ Cardinality({}) = 0
    BY <2>4, FS_EmptySet DEF DoneEncoders
  <2>7. Steady => Encoders # {}
    BY DEF Init, Steady
  <2>8. segment = 0 /\ ready_to_rotate = 0 /\ last_rotate = 0 /\ last_camera_seen = 0 /\ ~forced
    BY DEF Init
  <2>9. Steady => Rounds(0)
    BY <2>1, <2>6, <2>7, <2>8 DEF Rounds
  <2> QED
    BY <2>2, <2>3, <2>5, <2>8, <2>9 DEF FInv
<1>2. IInv /\ IInv' /\ FInv /\ [Next]_vars => FInv'
  <2> SUFFICES ASSUME IInv, IInv', FInv, [Next]_vars
               PROVE  FInv'
    OBVIOUS
  <2>1. last_rotate' \in Nat /\ last_camera_seen' \in Nat
    BY TimesNoted DEF IInv, FInv
  <2>2. Steady' => Steady
    <3>1. /\ restarts' = restarts \/ restarts' = restarts + 1
          /\ missed' = missed \/ missed' = missed + 1
          /\ streams' = streams
      BY DEF Next, TakeFrame, UpdateStart, MissFrame, Receive, Restart, Tick, Audio, Other, vars, bounds
    <3>2. restarts \in Nat /\ missed \in Nat
      BY LogRotationAssumption DEF IInv, TypeOK, EncoderdOK
    <3> QED
      BY <3>1, <3>2 DEF Steady
  <2> QED
    BY <2>1, <2>2, SteadyStep DEF FInv
<1>3. IInv /\ FInv => FallbackOnlyOnMalfunction
  BY LogRotationAssumption DEF IInv, TypeOK, EncoderdOK, FInv, Steady, Rounds, FallbackOnlyOnMalfunction
<1> QED
  BY <1>1, <1>2, <1>3, Invariance, PTL DEF Spec

-----------------------------------------------------------------------------
(* Nothing is lost.  What loggerd queues of an encoder that is a segment ahead is bounded by what   *)
(* the others may be behind: as long as that is less than a segment, and than a queue, no packet    *)
(* is dropped.                                                                                       *)

\* No thread and no socket is behind the others by a segment, or by what a queue holds.
Roomy ==
  MaxPackets + MaxMissed < SegmentFrames /\ MaxPackets + MaxMissed <= QueueLimit + 1

\* The first frame of a segment
Border(k) == start_frame_id + k * SegmentFrames

\* The frames that a thread has not sent since it has begun were missed: those after the last one
\* that it has sent before frame b, and those from b on that are not on their way.
Gaps(e) ==
  LET t == thread[e] IN
  /\ ~t.ready /\ t.pc = "recv" /\ ~t.synced => t.frame + 1 <= missed
  /\ ~t.synced => sent[e] = {}
  /\ t.synced => \A b \in Nat :
       b >= start_frame_id /\ (\A f \in sent[e] : f < b) => t.frame + 1 - b <= missed
  /\ \A b \in Nat, i \in DOMAIN socket[e] :
       b >= start_frame_id /\ (\A f \in sent[e] : f < b \/ socket[e][i].frame <= f) =>
         t.frame - b <= Len(socket[e]) - i + missed

\* The frames that wait in the queue and in the socket are in order, without a repetition.
Line(e) ==
  LET q == remote[e].q
      s == socket[e] IN
  /\ \A f \in sent[e] : start_frame_id <= f /\ f <= thread[e].frame
  /\ \A i \in DOMAIN s : s[i].frame \in sent[e] /\ \A j \in 1..(i - 1) : s[j].frame < s[i].frame
  /\ \A i \in DOMAIN q : q[1].frame + (i - 1) <= q[i].frame /\ q[i].frame <= thread[e].frame
  /\ \A i \in DOMAIN q, j \in DOMAIN s : q[i].frame < s[j].frame

\* loggerd has a packet of a segment after k.
Newer(e, k) == \E i \in DOMAIN remote[e].q : k < remote[e].q[i].seg

Newers(k) == {e \in Encoders : Newer(e, k)}

\* An encoder is marked when loggerd has a packet of the next segment; a mark that is left from the
\* segment before goes with the first packet of this one, of which some are still to come.
Marked(e, k) ==
  LET r == remote[e] IN
  /\ r.current_segment <= k /\ \A w \in video[e] : w[2] <= k
  /\ r.marked_ready_to_rotate => thread[e].synced
  /\ Newer(e, k) => r.marked_ready_to_rotate
  /\ r.marked_ready_to_rotate /\ ~Newer(e, k) =>
       /\ r.current_segment # k
       /\ \/ thread[e].seg = k /\ thread[e].frame < Border(k) + MaxPackets + missed
          \/ \E i \in DOMAIN socket[e] : socket[e][i].seg = k
  /\ e \notin AudioEncoders /\ (\E i \in DOMAIN r.q : r.q[i].seg <= k) =>
       r.marked_ready_to_rotate /\ ~Newer(e, k)

\* The count is that of the marks, and some encoder is not yet done with the segment.
Turn(k) ==
  /\ ready_to_rotate = Cardinality(Newers(k)) /\ Newers(k) # Encoders
  /\ now < Border(k + 1) + MaxPackets + missed

\* A video that has not begun begins with a key frame.
Keyed(e) ==
  LET q == remote[e].q
      s == socket[e]
      t == thread[e] IN
  /\ \A i \in DOMAIN q : q[i].key \/ Open(e, q[i].seg) \/ \E j \in 1..(i - 1) : q[j].seg = q[i].seg
  /\ \A i \in DOMAIN s : \/ s[i].key \/ Open(e, s[i].seg)
                         \/ \E j \in 1..(i - 1) : s[j].seg = s[i].seg
                         \/ \E j \in DOMAIN q : q[j].seg = s[i].seg
  /\ t.synced => \/ Open(e, t.seg)
                 \/ \E j \in DOMAIN s : s[j].seg = t.seg
                 \/ \E j \in DOMAIN q : q[j].seg = t.seg
  /\ ~t.synced => t.idx = 0

\* What was sent is written, or waits.
Found(e) ==
  \A f \in sent[e] :
    \/ \E w \in video[e] : w[1] = f
    \/ \E i \in DOMAIN socket[e] : socket[e][i].frame = f
    \/ \E i \in DOMAIN remote[e].q : remote[e].q[i].frame = f

Kept(k) == \A e \in Encoders : Gaps(e) /\ Line(e) /\ Marked(e, k) /\ Keyed(e) /\ Found(e)

NInv ==
  /\ sent \in [Encoders -> SUBSET Nat]
  /\ Healthy /\ Regular => Turn(segment) /\ Kept(segment)

\* What IInv says of a drive in which nothing goes wrong.
Fine(k) == TypeOK /\ Healthy /\ Orderly(k) /\ \A e \in Encoders : Sync(e) /\ OnItsWay(e)

\* A thread that sends nothing: it stands, misses a frame, or does not take it before its start; and
\* one that sends a packet.
Quiet(e) ==
  /\ socket'[e] = socket[e] /\ sent'[e] = sent[e]
  /\ thread'[e].seg = thread[e].seg /\ thread'[e].synced = thread[e].synced /\ thread'[e].idx = thread[e].idx

Stands(e) ==
  /\ Quiet(e) /\ thread'[e].frame = thread[e].frame
  /\ ~thread'[e].ready /\ thread'[e].pc = "recv" => ~thread[e].ready /\ thread[e].pc = "recv"

Misses(e) ==
  /\ Quiet(e) /\ thread'[e].frame = now /\ thread[e].frame + 1 = now /\ missed' = missed + 1
  /\ thread'[e].ready = thread[e].ready /\ thread'[e].pc = thread[e].pc

Holds(e) ==
  /\ Quiet(e) /\ thread'[e].frame = now /\ thread[e].frame + 1 = now
  /\ ~thread[e].synced /\ (thread'[e].ready \/ thread'[e].pc = "update")

Sending(e, packet) ==
  /\ packet.frame = now /\ packet.seg = thread'[e].seg
  /\ socket'[e] = Append(socket[e], packet) /\ sent'[e] = sent[e] \cup {now}
  /\ thread'[e].synced /\ thread'[e].frame = now /\ thread[e].frame + 1 = now
  /\ thread'[e].seg # thread[e].seg \/ thread[e].idx = 0 => packet.key

Grows(e) == \E packet \in Packets : Sending(e, packet)

\* The steps of a thread, by their outcomes.
LEMMA EncoderdDoes ==
  ASSUME TypeOK, Healthy, \A d \in Encoders : Sync(d), sent \in [Encoders -> SUBSET Nat],
         NEW e \in Encoders, TakeFrame(e) \/ UpdateStart(e) \/ MissFrame(e)
  PROVE  /\ UNCHANGED <<now, streams, remote, video, segment, ready_to_rotate>>
         /\ start_frame_id <= start_frame_id' /\ missed <= missed'
         /\ \A d \in Encoders : Stands(d) \/ Misses(d) \/ Holds(d) \/ Grows(d)
         /\ \A d \in Encoders : Grows(d) => Belongs(now, thread[d].seg)'
         /\ \A d \in Encoders : Grows(d) /\ ~thread[d].synced => now <= start_frame_id' + missed
<1>1. /\ thread \in [Encoders -> Threads] /\ socket \in [Encoders -> Seq(Packets)]
      /\ now \in Nat /\ start_frame_id \in Nat /\ missed \in Nat /\ thread[e].frame \in Int
      /\ \A d \in Encoders : thread[d].synced \in BOOLEAN
  BY DEF TypeOK, EncoderdOK, LoggerdOK, Threads
<1>2. UNCHANGED <<now, streams, remote, video, segment, ready_to_rotate>>
  BY DEF TakeFrame, UpdateStart, MissFrame, loggerd
<1>3. now - 1 <= thread[e].frame
  BY DEF Sync
<1>6. ASSUME NEW d \in Encoders, thread'[d] = thread[d], socket'[d] = socket[d], sent'[d] = sent[d]
      PROVE  Stands(d) /\ ~Grows(d)
  <2>1. socket[d] \in Seq(Packets)
    BY <1>1
  <2>2. ASSUME NEW packet \in Packets
        PROVE  socket[d] # Append(socket[d], packet)
    BY <2>1
  <2> QED
    BY <1>6, <2>2 DEF Stands, Quiet, Grows, Sending
<1>4. CASE TakeFrame(e)
  <2>1. /\ thread[e].frame < now /\ thread'[e].frame = now /\ thread'[e].ready = thread[e].ready
        /\ \A d \in Encoders \ {e} : thread'[d] = thread[d]
        /\ start_frame_id' = IF ~thread[e].synced /\ streams = {e} THEN Later(start_frame_id, now)
                             ELSE start_frame_id
        /\ Waits(e) \/ Skips(e) \/ Encodes(e)
    BY <1>4, TakeFrameDoes
  <2>2. thread[e].frame + 1 = now
    <3>1. thread[e].frame < now
      BY <2>1
    <3> QED
      BY <1>1, <1>3, <3>1
  <2>3. missed' = missed /\ missed <= missed' /\ start_frame_id <= start_frame_id'
    BY <1>1, <1>4, <2>1 DEF TakeFrame, bounds, Later
  <2>4. CASE Waits(e) \/ Skips(e)
    <3>1. UNCHANGED <<socket, sent>> /\ thread'[e].idx = thread[e].idx /\ thread'[e].seg = thread[e].seg
      BY <2>4 DEF Waits, Skips, SendsNothing
    <3>2. ~thread[e].synced /\ thread'[e].synced = thread[e].synced
      <4>1. ~thread'[e].synced /\ ~thread[e].synced
        BY <2>4 DEF Waits, Skips
      <4>2. thread'[e].synced \in BOOLEAN /\ thread[e].synced \in BOOLEAN
        <5>1. thread' \in [Encoders -> Threads]
          BY <1>4, TakeFrameDoes
        <5> QED
          BY <1>1, <5>1 DEF Threads
      <4> QED
        BY <4>1, <4>2
    <3>3. thread'[e].ready \/ thread'[e].pc = "update"
      <4>1. CASE Waits(e)
        BY <4>1 DEF Waits
      <4>2. CASE Skips(e) /\ streams = {e}
        <5>1. start_frame_id = 0
          BY <3>2, <4>2 DEF Sync
        <5>2. start_frame_id' = now
          BY <1>1, <2>1, <3>2, <4>2, <5>1 DEF Later
        <5> QED
          BY <1>1, <4>2, <5>2 DEF Skips
      <4>3. CASE Skips(e) /\ AllReady
        BY <2>1, <4>3 DEF AllReady, Healthy
      <4> QED
        BY <2>4, <4>1, <4>2, <4>3 DEF Skips
    <3>4. Holds(e)
      BY <2>1, <2>2, <3>1, <3>2, <3>3 DEF Holds, Quiet
    <3>5. ~Grows(e)
      BY <3>2, <3>4 DEF Holds, Quiet, Grows, Sending
    <3>6. \A d \in Encoders \ {e} : Stands(d) /\ ~Grows(d)
      BY <1>6, <2>1, <3>1
    <3> QED
      BY <1>2, <2>3, <3>4, <3>5, <3>6
  <2>5. CASE Encodes(e)
    <3>1. PICK packet \in Packets : /\ packet.frame = now /\ packet.seg = thread'[e].seg
                                    /\ socket' = [socket EXCEPT ![e] = Append(@, packet)]
                                    /\ Sends(e, packet)
      BY <2>5 DEF Encodes
    <3>2. Belongs(now, thread[e].seg)'
      BY <1>4, <2>5, TakeFrameSync
    <3>3. thread'[e].synced
      BY <2>5 DEF Encodes
    <3>4. Grows(e)
      BY <1>1, <2>1, <2>2, <3>1, <3>3 DEF Grows, Sends, Sending
    <3>5. \A d \in Encoders \ {e} : Stands(d) /\ ~Grows(d)
      <4>1. \A d \in Encoders \ {e} : socket'[d] = socket[d] /\ sent'[d] = sent[d]
        BY <1>1, <3>1 DEF Sends
      <4> QED
        BY <1>6, <2>1, <4>1
    <3>6. ~thread[e].synced => now <= start_frame_id' + missed
      <4>1. CASE streams = {e} /\ ~thread[e].synced
        <5>1. start_frame_id = 0
          BY <4>1 DEF Sync
        <5> QED
          BY <1>1, <2>1, <4>1, <5>1 DEF Later
      <4>2. CASE AllReady /\ streams # {e} /\ ~thread[e].synced
        <5>1. thread[e].frame < start_frame_id + missed /\ start_frame_id' = start_frame_id
          BY <2>1, <4>2 DEF Sync
        <5> QED
          BY <1>1, <2>2, <5>1
      <4> QED
        BY <2>5, <4>1, <4>2 DEF Encodes
    <3> QED
      BY <1>2, <2>3, <3>2, <3>4, <3>5, <3>6
  <2> QED
    BY <2>1, <2>4, <2>5
<1>5. CASE UpdateStart(e) \/ MissFrame(e)
  <2> DEFINE u == [thread[e] EXCEPT !.ready = TRUE, !.pc = "recv"]
             v == [thread[e] EXCEPT !.frame = now]
  <2>1. \/ thread' = [thread EXCEPT ![e] = u]
        \/ thread' = [thread EXCEPT ![e] = v] /\ thread[e].frame < now /\ missed' = missed + 1
    BY <1>1, <1>5 DEF UpdateStart, MissFrame
  <2>2. /\ u.synced = thread[e].synced /\ u.seg = thread[e].seg /\ u.idx = thread[e].idx
        /\ u.frame = thread[e].frame /\ u.ready
        /\ v.synced = thread[e].synced /\ v.seg = thread[e].seg /\ v.idx = thread[e].idx /\ v.frame = now
        /\ v.ready = thread[e].ready /\ v.pc = thread[e].pc
    BY <1>1 DEF Threads
  <2> HIDE DEF u, v
  <2>3. UNCHANGED <<socket, sent>> /\ missed <= missed' /\ start_frame_id <= start_frame_id'
    BY <1>1, <1>5 DEF UpdateStart, MissFrame, Later, StartAfter, bounds
  <2>4. \A d \in Encoders \ {e} : Stands(d) /\ ~Grows(d)
    BY <1>1, <1>6, <2>1, <2>3
  <2>5. Quiet(e)
    BY <1>1, <2>1, <2>2, <2>3 DEF Quiet
  <2>6. Stands(e) \/ Misses(e)
    <3>1. CASE thread' = [thread EXCEPT ![e] = u]
      BY <1>1, <2>2, <2>5, <3>1 DEF Stands
    <3>2. CASE thread' = [thread EXCEPT ![e] = v] /\ thread[e].frame < now /\ missed' = missed + 1
      <4>1. thread[e].frame + 1 = now
        <5>1. thread[e].frame < now
          BY <3>2
        <5> QED
          BY <1>1, <1>3, <5>1
      <4> QED
        BY <1>1, <2>2, <2>5, <3>2, <4>1 DEF Misses
    <3> QED
      BY <2>1, <3>1, <3>2
  <2>7. ~Grows(e)
    <3>1. socket[e] \in Seq(Packets)
      BY <1>1
    <3>2. \A packet \in Packets : socket[e] # Append(socket[e], packet)
      BY <3>1
    <3> QED
      BY <2>3, <3>2 DEF Grows, Sending
  <2> QED
    BY <1>2, <2>3, <2>4, <2>6, <2>7
<1> QED
  BY <1>4, <1>5

\* A frame of a thread that sends nothing was missed.
LEMMA EncoderdGaps ==
  ASSUME TypeOK, Healthy, \A d \in Encoders : Sync(d) /\ OnItsWay(d) /\ Gaps(d) /\ Line(d),
         sent \in [Encoders -> SUBSET Nat],
         TypeOK', Healthy', \A d \in Encoders : Sync(d)',
         \A d \in Encoders : thread[d].synced => start_frame_id' = start_frame_id,
         NEW e \in Encoders, TakeFrame(e) \/ UpdateStart(e) \/ MissFrame(e)
  PROVE  \A d \in Encoders : Gaps(d)'
<1>1. /\ thread \in [Encoders -> Threads] /\ socket \in [Encoders -> Seq(Packets)]
      /\ now \in Nat /\ start_frame_id \in Nat /\ missed \in Nat
  BY DEF TypeOK, EncoderdOK, LoggerdOK
<1>2. missed <= missed' /\ missed' \in Nat /\ start_frame_id' \in Nat
  <2>1. missed <= missed'
    BY EncoderdDoes
  <2>2. missed' \in Nat /\ start_frame_id' \in Nat
    BY LogRotationAssumption DEF TypeOK, EncoderdOK
  <2> QED
    BY <2>1, <2>2
<1>13. \A d \in Encoders : Stands(d) \/ Misses(d) \/ Holds(d) \/ Grows(d)
  BY EncoderdDoes
<1>12. \A d \in Encoders : Grows(d) /\ ~thread[d].synced => now <= start_frame_id' + missed
  BY EncoderdDoes
<1> SUFFICES ASSUME NEW d \in Encoders
             PROVE  Gaps(d)'
  OBVIOUS
<1>3. thread[d].frame \in Int /\ socket[d] \in Seq(Packets)
  BY <1>1 DEF Threads
<1> DEFINE s == socket[d]
           m == missed'
           frame == thread[d].frame
<1>4. m \in Nat /\ missed <= m
  BY <1>2
<1>5. /\ ~thread[d].synced => sent[d] = {} /\ s = <<>>
      /\ ~thread[d].ready /\ thread[d].pc = "recv" /\ ~thread[d].synced => frame + 1 <= missed
  <2>2. ~thread[d].synced => s = <<>>
    <3>1. s # <<>> => 1 \in DOMAIN s
      <4> HIDE DEF s
      <4> QED  BY <1>3, TailOf DEF s
    <3> QED
      BY <3>1 DEF OnItsWay
  <2> QED
    BY <2>2 DEF Gaps
<1>6. /\ thread[d].synced => \A b \in Nat :
           b >= start_frame_id /\ (\A f \in sent[d] : f < b) => frame + 1 - b <= missed
      /\ \A b \in Nat, i \in DOMAIN s :
           b >= start_frame_id /\ (\A f \in sent[d] : f < b \/ s[i].frame <= f) =>
             frame - b <= Len(s) - i + missed
  BY DEF Gaps
<1>7. thread[d].synced => start_frame_id' = start_frame_id
  OBVIOUS
<1>8. CASE Stands(d)
  <2>1. thread'[d].synced = thread[d].synced /\ thread'[d].frame = frame /\ socket'[d] = s /\ sent'[d] = sent[d]
    BY <1>8 DEF Stands, Quiet
  <2> HIDE DEF m
  <2>2. ~thread'[d].ready /\ thread'[d].pc = "recv" /\ ~thread'[d].synced => frame + 1 <= m
    BY <1>1, <1>3, <1>4, <1>5, <1>8, <2>1 DEF Stands
  <2>3. thread'[d].synced => \A b \in Nat :
           b >= start_frame_id' /\ (\A f \in sent[d] : f < b) => frame + 1 - b <= m
    BY <1>1, <1>3, <1>4, <1>6, <1>7, <2>1
  <2>4. ASSUME NEW b \in Nat, NEW i \in DOMAIN s,
               b >= start_frame_id', \A f \in sent[d] : f < b \/ s[i].frame <= f
        PROVE  frame - b <= Len(s) - i + m
    <3>1. start_frame_id' = start_frame_id
      BY <1>5, <1>7, <2>4
    <3>2. frame - b <= Len(s) - i + missed
      BY <1>6, <2>4, <3>1
    <3>3. Len(s) \in Nat /\ i \in Nat
      BY <1>3
    <3> HIDE DEF frame, s
    <3> QED
      BY <1>1, <1>3, <1>4, <3>2, <3>3 DEF frame
  <2>5. ~thread'[d].synced => sent'[d] = {}
    BY <1>5, <2>1
  <2> QED
    BY <1>3, <2>1, <2>2, <2>3, <2>4, <2>5 DEF Gaps, m
<1>9. CASE Misses(d)
  <2>1. thread'[d].synced = thread[d].synced /\ thread'[d].frame = frame + 1 /\ socket'[d] = s /\ sent'[d] = sent[d]
        /\ m = missed + 1 /\ thread'[d].ready = thread[d].ready /\ thread'[d].pc = thread[d].pc
    BY <1>9 DEF Misses, Quiet
  <2> HIDE DEF m
  <2>2. ~thread'[d].ready /\ thread'[d].pc = "recv" /\ ~thread'[d].synced => frame + 1 + 1 <= m
    BY <1>1, <1>3, <1>4, <1>5, <2>1
  <2>3. ASSUME thread'[d].synced, NEW b \in Nat, b >= start_frame_id', \A f \in sent[d] : f < b
        PROVE  frame + 1 + 1 - b <= m
    <3>1. frame + 1 - b <= missed
      BY <1>6, <1>7, <2>1, <2>3
    <3> HIDE DEF frame
    <3> QED
      BY <1>1, <1>3, <2>1, <3>1 DEF frame
  <2>4. ASSUME NEW b \in Nat, NEW i \in DOMAIN s,
               b >= start_frame_id', \A f \in sent[d] : f < b \/ s[i].frame <= f
        PROVE  frame + 1 - b <= Len(s) - i + m
    <3>1. start_frame_id' = start_frame_id
      BY <1>5, <1>7, <2>4
    <3>2. frame - b <= Len(s) - i + missed
      BY <1>6, <2>4, <3>1
    <3>3. Len(s) \in Nat /\ i \in Nat
      BY <1>3
    <3>4. m = missed + 1 /\ frame \in Int
      BY <1>3, <2>1
    <3> HIDE DEF frame, s
    <3> QED
      BY <1>1, <3>2, <3>3, <3>4
  <2>5. ~thread'[d].synced => sent'[d] = {}
    BY <1>5, <2>1
  <2> DEFINE next == thread'[d].frame
  <2>6. next = frame + 1 /\ frame \in Int
    BY <1>3, <2>1
  <2> HIDE DEF next, frame
  <2>7. /\ ~thread'[d].ready /\ thread'[d].pc = "recv" /\ ~thread'[d].synced => next + 1 <= m
        /\ thread'[d].synced => \A b \in Nat :
             b >= start_frame_id' /\ (\A f \in sent[d] : f < b) => next + 1 - b <= m
        /\ \A b \in Nat, i \in DOMAIN s :
             b >= start_frame_id' /\ (\A f \in sent[d] : f < b \/ s[i].frame <= f) =>
               next - b <= Len(s) - i + m
    BY <2>2, <2>3, <2>4, <2>6
  <2> QED
    BY <2>1, <2>5, <2>7 DEF Gaps, m, next
<1>10. CASE Holds(d)
  <2>1. /\ ~thread'[d].synced /\ (thread'[d].ready \/ thread'[d].pc = "update")
        /\ socket'[d] = <<>> /\ sent'[d] = {}
    BY <1>5, <1>10 DEF Holds, Quiet
  <2> QED
    BY <2>1 DEF Gaps
<1>11. CASE Grows(d)
  <2>1. PICK packet \in Packets : Sending(d, packet)
    BY <1>11 DEF Grows
  <2>2. /\ thread'[d].synced /\ thread'[d].frame = frame + 1 /\ now = frame + 1
        /\ socket'[d] = Append(s, packet) /\ sent'[d] = sent[d] \cup {now} /\ packet.frame = now
    BY <2>1 DEF Sending
  <2> HIDE DEF m
  <2>3. ASSUME NEW b \in Nat, \A f \in sent'[d] : f < b
        PROVE  frame + 1 + 1 - b <= m
    <3>1. now < b
      BY <2>2, <2>3
    <3> QED
      BY <1>1, <1>3, <1>4, <2>2, <3>1
  <2>4. ASSUME NEW b \in Nat, NEW i \in DOMAIN Append(s, packet),
               b >= start_frame_id', \A f \in sent'[d] : f < b \/ Append(s, packet)[i].frame <= f
        PROVE  frame + 1 - b <= Len(Append(s, packet)) - i + m
    <3>1. Len(Append(s, packet)) = Len(s) + 1 /\ i \in 1..(Len(s) + 1)
      BY <1>3
    <3>2. CASE i \in DOMAIN s
      <4>1. Append(s, packet)[i] = s[i]
        BY <1>3, <3>2
      <4>2. start_frame_id' = start_frame_id
        BY <1>5, <1>7, <3>2
      <4>3. frame - b <= Len(s) - i + missed
        BY <1>6, <2>2, <2>4, <3>2, <4>1, <4>2
      <4> QED
        BY <1>1, <1>3, <1>4, <3>1, <4>3
    <3>3. CASE i = Len(s) + 1
      <4>1. Append(s, packet)[i].frame = now
        BY <1>3, <2>2, <3>3
      <4>2. frame + 1 - b <= missed
        <5>1. CASE thread[d].synced
          <6>1. \A f \in sent[d] : f < b
            <7> SUFFICES ASSUME NEW f \in sent[d]
                         PROVE  f < b
              OBVIOUS
            <7>1. f \in Nat /\ f <= frame
              BY DEF Line
            <7>2. f < b \/ now <= f
              BY <2>2, <2>4, <4>1
            <7> QED
              BY <1>1, <1>3, <2>2, <7>1, <7>2
          <6> QED
            BY <1>6, <1>7, <2>4, <5>1, <6>1
        <5>2. CASE ~thread[d].synced
          <6>1. now <= start_frame_id' + missed /\ start_frame_id' \in Nat
            BY <1>2, <1>11, <1>12, <5>2
          <6> DEFINE start == start_frame_id'
          <6>2. start \in Nat /\ now <= start + missed /\ b >= start
            BY <2>4, <6>1
          <6> HIDE DEF start
          <6> QED
            BY <1>1, <1>3, <2>2, <6>2
        <5> QED
          BY <5>1, <5>2
      <4> QED
        BY <1>1, <1>3, <1>4, <3>1, <3>3, <4>2
    <3> QED
      BY <1>3, <3>1, <3>2, <3>3
  <2> DEFINE next == thread'[d].frame
  <2>5. next = frame + 1 /\ frame \in Int
    BY <1>3, <2>2
  <2>7. \A b \in Nat, i \in DOMAIN Append(s, packet) :
          b >= start_frame_id' /\ (\A f \in sent'[d] : f < b \/ Append(s, packet)[i].frame <= f) =>
            frame + 1 - b <= Len(Append(s, packet)) - i + m
    BY <2>4
  <2> HIDE DEF next, frame, s
  <2>6. /\ \A b \in Nat : (\A f \in sent'[d] : f < b) => next + 1 - b <= m
        /\ \A b \in Nat, i \in DOMAIN Append(s, packet) :
             b >= start_frame_id' /\ (\A f \in sent'[d] : f < b \/ Append(s, packet)[i].frame <= f) =>
               next - b <= Len(Append(s, packet)) - i + m
    BY <2>3, <2>5, <2>7
  <2> QED
    BY <2>2, <2>6 DEF Gaps, m, next, s
<1> QED
  BY <1>8, <1>9, <1>10, <1>11, <1>13

\* What a thread sends comes after all that it has sent, with a key frame where a video begins.
LEMMA EncoderdLine ==
  ASSUME TypeOK, Healthy, \A d \in Encoders : Sync(d) /\ OnItsWay(d) /\ Line(d) /\ Keyed(d) /\ Found(d) /\ Gaps(d),
         sent \in [Encoders -> SUBSET Nat], TypeOK',
         \A d \in Encoders : thread[d].synced => start_frame_id' = start_frame_id,
         NEW e \in Encoders, TakeFrame(e) \/ UpdateStart(e) \/ MissFrame(e)
  PROVE  \A d \in Encoders : Line(d)' /\ Keyed(d)' /\ Found(d)'
<1>1. /\ thread \in [Encoders -> Threads] /\ socket \in [Encoders -> Seq(Packets)]
      /\ now \in Nat /\ start_frame_id \in Nat
      /\ remote' = remote /\ video' = video
  BY EncoderdDoes DEF TypeOK, EncoderdOK, LoggerdOK
<1>2. \A d \in Encoders : Stands(d) \/ Misses(d) \/ Holds(d) \/ Grows(d)
  BY EncoderdDoes
<1>3. \A d \in Encoders : Grows(d) => Belongs(now, thread[d].seg)'
  BY EncoderdDoes
<1> SUFFICES ASSUME NEW d \in Encoders
             PROVE  Line(d)' /\ Keyed(d)' /\ Found(d)'
  OBVIOUS
<1> DEFINE s == socket[d]
           q == remote[d].q
           frame == thread[d].frame
<1>4. /\ frame \in Int /\ s \in Seq(Packets) /\ q \in Seq(Packets)
      /\ \A i \in DOMAIN s : s[i] \in Packets /\ s[i].frame \in Nat
      /\ \A i \in DOMAIN q : q[i] \in Packets /\ q[i].frame \in Nat
  <2>1. frame \in Int /\ s \in Seq(Packets) /\ q \in Seq(Packets)
    BY <1>1 DEF Threads, TypeOK, LoggerdOK, RemoteEncoders
  <2> HIDE DEF s, q
  <2>2. /\ \A i \in DOMAIN s : s[i] \in Packets
        /\ \A i \in DOMAIN q : q[i] \in Packets
    BY <2>1
  <2> QED
    BY <2>1, <2>2 DEF Packets
<1>5. sent[d] # {} => start_frame_id' = start_frame_id
  BY DEF Gaps
<1>8. remote' = remote /\ video' = video
  BY <1>1
<1>9. \A k : Open(d, k)' <=> Open(d, k)
  BY <1>8, Zenon DEF Open
<1>6. CASE Stands(d) \/ Misses(d) \/ Holds(d)
  <2>1. /\ Quiet(d) /\ frame <= thread'[d].frame
    BY <1>1, <1>4, <1>6 DEF Stands, Misses, Holds
  <2>2. thread'[d].frame \in Int
    BY <1>1, <1>4, <1>6 DEF Stands, Misses, Holds
  <2>3. Line(d)'
    <3> DEFINE next == thread'[d].frame
    <3>1. frame <= next /\ next \in Int
      BY <2>1, <2>2
    <3> HIDE DEF next
    <3>2. \A f \in sent[d] : start_frame_id' <= f /\ f <= next
      <4> SUFFICES ASSUME NEW f \in sent[d]
                   PROVE  start_frame_id' <= f /\ f <= next
        OBVIOUS
      <4>1. f \in Nat /\ start_frame_id <= f /\ f <= frame
        BY DEF Line
      <4> QED
        BY <1>4, <1>5, <3>1, <4>1
    <3>3. \A i \in DOMAIN q : q[i].frame <= next
      <4> SUFFICES ASSUME NEW i \in DOMAIN q
                   PROVE  q[i].frame <= next
        OBVIOUS
      <4>1. q[i].frame \in Nat /\ q[i].frame <= frame
        BY <1>4 DEF Line
      <4> QED
        BY <1>4, <3>1, <4>1
    <3> QED
      BY <1>1, <2>1, <3>2, <3>3 DEF Line, Quiet, next
  <2>4. Keyed(d)'
    <3>1. socket'[d] = s /\ remote'[d].q = q /\ thread'[d].seg = thread[d].seg
          /\ thread'[d].synced = thread[d].synced /\ thread'[d].idx = thread[d].idx
      BY <1>8, <2>1 DEF Quiet
    <3> QED
      BY <1>9, <3>1 DEF Keyed
  <2>5. Found(d)'
    <3>1. socket'[d] = s /\ remote'[d].q = q /\ video'[d] = video[d] /\ sent'[d] = sent[d]
      BY <1>8, <2>1 DEF Quiet
    <3> QED
      BY <3>1 DEF Found
  <2> QED
    BY <2>3, <2>4, <2>5
<1>7. CASE Grows(d)
  <2>1. PICK packet \in Packets : Sending(d, packet)
    BY <1>7 DEF Grows
  <2> DEFINE longer == Append(s, packet)
  <2>2. /\ thread'[d].synced /\ thread'[d].frame = now /\ now = frame + 1 /\ packet.seg = thread'[d].seg
        /\ socket'[d] = longer /\ sent'[d] = sent[d] \cup {now} /\ packet.frame = now
        /\ thread'[d].seg # thread[d].seg \/ thread[d].idx = 0 => packet.key
    BY <2>1 DEF Sending
  <2>3. /\ DOMAIN longer = 1..(Len(s) + 1) /\ DOMAIN s = 1..Len(s) /\ Len(s) \in Nat
        /\ \A i \in DOMAIN s : longer[i] = s[i] /\ i \in DOMAIN longer
        /\ longer[Len(s) + 1] = packet /\ Len(s) + 1 \in DOMAIN longer
    <3> HIDE DEF s
    <3> QED  BY <1>4
  <2> HIDE DEF longer
  <2>4. start_frame_id' <= now /\ start_frame_id' \in Nat
    <3>1. thread'[d].seg \in Nat /\ start_frame_id' \in Nat
      BY DEF TypeOK, EncoderdOK, Threads
    <3>2. start_frame_id' + thread'[d].seg * SegmentFrames <= now
      BY <1>3, <1>7, EncoderdDoes DEF Belongs
    <3> DEFINE p == thread'[d].seg * SegmentFrames
               start == start_frame_id'
    <3>3. p \in Nat /\ start \in Nat /\ start + p <= now
      BY <3>1, <3>2, TimesSegment
    <3> HIDE DEF p, start
    <3>4. start <= now /\ start \in Nat
      BY <1>1, <3>3
    <3> QED
      BY <3>4 DEF start
  <2>5. Line(d)'
    <3>1. \A f \in sent'[d] : start_frame_id' <= f /\ f <= now
      <4> SUFFICES ASSUME NEW f \in sent[d]
                   PROVE  start_frame_id' <= f /\ f <= now
        BY <1>1, <2>2, <2>4
      <4>1. f \in Nat /\ start_frame_id <= f /\ f <= frame
        BY DEF Line
      <4> QED
        BY <1>1, <1>4, <1>5, <2>2, <4>1
    <3>2. ASSUME NEW i \in DOMAIN longer
          PROVE  longer[i].frame \in sent'[d] /\ \A j \in 1..(i - 1) : longer[j].frame < longer[i].frame
      <4>1. \A j \in DOMAIN s : s[j].frame \in sent[d] /\ s[j].frame <= frame
        BY DEF Line
      <4>2. CASE i \in DOMAIN s
        <5>1. \A j \in 1..(i - 1) : j \in DOMAIN s
          BY <2>3, <4>2
        <5> QED
          BY <2>2, <2>3, <4>2, <5>1 DEF Line
      <4>3. CASE i = Len(s) + 1
        <5>1. longer[i].frame = now /\ \A j \in 1..(i - 1) : j \in DOMAIN s
          BY <2>2, <2>3, <4>3
        <5>2. ASSUME NEW j \in 1..(i - 1)
              PROVE  longer[j].frame < now
          <6>1. j \in DOMAIN s /\ longer[j] = s[j] /\ s[j].frame <= frame /\ s[j].frame \in Nat
            BY <1>4, <2>3, <4>1, <5>1
          <6> QED
            BY <1>1, <1>4, <2>2, <6>1
        <5> QED
          BY <2>2, <5>1, <5>2
      <4> QED
        BY <2>3, <4>2, <4>3
    <3>3. ASSUME NEW i \in DOMAIN q
          PROVE  /\ q[1].frame + (i - 1) <= q[i].frame /\ q[i].frame <= now
                 /\ \A j \in DOMAIN longer : q[i].frame < longer[j].frame
      <4>1. q[1].frame + (i - 1) <= q[i].frame /\ q[i].frame <= frame /\ q[i].frame \in Nat
        BY <1>4 DEF Line
      <4>2. q[i].frame < now
        BY <1>1, <1>4, <2>2, <4>1
      <4>3. ASSUME NEW j \in DOMAIN longer
            PROVE  q[i].frame < longer[j].frame
        <5>1. CASE j \in DOMAIN s
          BY <2>3, <5>1 DEF Line
        <5>2. CASE j = Len(s) + 1
          BY <2>2, <2>3, <4>2, <5>2
        <5> QED
          BY <2>3, <5>1, <5>2
      <4> QED
        BY <1>1, <4>1, <4>2, <4>3
    <3> QED
      BY <1>1, <2>2, <3>1, <3>2, <3>3 DEF Line
  <2>6. Keyed(d)'
    <3>1. ASSUME NEW i \in DOMAIN longer
          PROVE  \/ longer[i].key \/ Open(d, longer[i].seg)
                 \/ \E j \in 1..(i - 1) : longer[j].seg = longer[i].seg
                 \/ \E j \in DOMAIN q : q[j].seg = longer[i].seg
      <4>1. CASE i \in DOMAIN s
        <5>1. \A j \in 1..(i - 1) : j \in DOMAIN s
          BY <2>3, <4>1
        <5>2. \/ s[i].key \/ Open(d, s[i].seg)
              \/ \E j \in 1..(i - 1) : s[j].seg = s[i].seg
              \/ \E j \in DOMAIN q : q[j].seg = s[i].seg
          BY <4>1 DEF Keyed
        <5>3. longer[i] = s[i] /\ \A j \in 1..(i - 1) : longer[j] = s[j]
          BY <2>3, <4>1, <5>1
        <5> HIDE DEF longer, q, s
        <5> QED
          BY <5>2, <5>3
      <4>2. CASE i = Len(s) + 1 /\ ~packet.key
        <5>1. thread'[d].seg = thread[d].seg /\ thread[d].synced
          BY <2>2, <4>2 DEF Keyed
        <5>2. \A j \in DOMAIN s : j \in 1..(i - 1)
          BY <2>3, <4>2
        <5> QED
          BY <2>2, <2>3, <4>2, <5>1, <5>2 DEF Keyed
      <4> QED
        BY <2>3, <4>1, <4>2
    <3>2. \E j \in DOMAIN longer : longer[j].seg = thread'[d].seg
      BY <2>2, <2>3
    <3> QED
      BY <1>8, <1>9, <2>2, <3>1, <3>2 DEF Keyed
  <2>7. Found(d)'
    <3> SUFFICES ASSUME NEW f \in sent'[d]
                 PROVE  \/ \E w \in video'[d] : w[1] = f
                        \/ \E i \in DOMAIN socket'[d] : socket'[d][i].frame = f
                        \/ \E i \in DOMAIN remote'[d].q : remote'[d].q[i].frame = f
      BY DEF Found
    <3>1. CASE f \in sent[d]
      <4>1. \/ \E w \in video[d] : w[1] = f
            \/ \E i \in DOMAIN s : s[i].frame = f
            \/ \E i \in DOMAIN remote[d].q : remote[d].q[i].frame = f
        BY <3>1 DEF Found
      <4>2. \A i \in DOMAIN s : i \in DOMAIN longer /\ longer[i] = s[i]
        BY <2>3
      <4>3. socket'[d] = longer /\ video' = video /\ remote' = remote
        BY <1>8, <2>2
      <4> HIDE DEF longer, s
      <4> QED
        BY <4>1, <4>2, <4>3
    <3>2. CASE f = now
      BY <2>2, <2>3, <3>2
    <3> QED
      BY <2>2, <3>1, <3>2
  <2> QED
    BY <2>5, <2>6, <2>7
<1> QED
  BY <1>2, <1>6, <1>7

\* The first frames of segments, as natural numbers.
LEMMA Borders ==
  ASSUME TypeOK, NEW k \in Nat
  PROVE  /\ Border(k) \in Nat /\ Border(k + 1) = Border(k) + SegmentFrames
         /\ Border(k + 1 + 1) = Border(k) + SegmentFrames + SegmentFrames
         /\ start_frame_id <= Border(k)
         /\ SegmentFrames \in Nat /\ MaxPackets \in Nat /\ missed \in Nat /\ missed <= MaxMissed /\ MaxMissed \in Nat
<1> DEFINE p == k * SegmentFrames
           q == (k + 1) * SegmentFrames
           r == (k + 1 + 1) * SegmentFrames
<1>1. SegmentFrames \in Nat /\ MaxPackets \in Nat /\ missed \in Nat /\ missed <= MaxMissed /\ MaxMissed \in Nat
      /\ start_frame_id \in Nat
  BY LogRotationAssumption DEF TypeOK, EncoderdOK
<1>2. p \in Nat /\ q = p + SegmentFrames /\ r = p + SegmentFrames + SegmentFrames
  BY TimesSegment
<1>3. Border(k) = start_frame_id + p /\ Border(k + 1) = start_frame_id + q /\ Border(k + 1 + 1) = start_frame_id + r
  BY DEF Border
<1> HIDE DEF p, q, r
<1> QED
  BY <1>1, <1>2, <1>3

\* A thread that leaves a segment has sent a packet of it, if it has not missed too many frames.
LEMMA EncoderdMarked ==
  ASSUME Roomy, TypeOK, Healthy, NEW k \in Nat,
         \A d \in Encoders : Sync(d) /\ Marked(d, k), sent \in [Encoders -> SUBSET Nat],
         TypeOK', \A d \in Encoders : thread[d].synced => start_frame_id' = start_frame_id,
         NEW e \in Encoders, TakeFrame(e) \/ UpdateStart(e) \/ MissFrame(e)
  PROVE  \A d \in Encoders : Marked(d, k)'
<1>1. \A d \in Encoders : Stands(d) \/ Misses(d) \/ Holds(d) \/ Grows(d)
  BY EncoderdDoes
<1>2. remote' = remote /\ video' = video /\ missed <= missed' /\ now' = now
  BY EncoderdDoes
<1> SUFFICES ASSUME NEW d \in Encoders
             PROVE  Marked(d, k)'
  OBVIOUS
<1> DEFINE r == remote[d]
           t == thread[d]
           u == thread'[d]
           top == Border(k)
           next == top'
           m == missed'
<1>3. /\ t.frame \in Int /\ t.seg \in Nat /\ socket[d] \in Seq(Packets) /\ now \in Nat /\ m \in Nat
      /\ missed \in Nat /\ top \in Nat /\ SegmentFrames \in Nat /\ MaxPackets \in Nat /\ m <= MaxMissed /\ missed <= m
      /\ MaxMissed \in Nat /\ u.frame \in Int
  <2>1. t \in Threads /\ u \in Threads
    BY DEF TypeOK, EncoderdOK
  <2>2. m \in Nat /\ m <= MaxMissed
    BY LogRotationAssumption DEF TypeOK, EncoderdOK
  <2>3. socket[d] \in Seq(Packets) /\ now \in Nat
    BY DEF TypeOK, EncoderdOK, LoggerdOK
  <2> QED
    BY <1>2, <2>1, <2>2, <2>3, Borders DEF Threads
<1>4. t.synced => next = top
  <2>1. t.synced => start_frame_id' = start_frame_id
    OBVIOUS
  <2> QED
    BY <2>1 DEF Border
<1>5. t.synced => u.synced
  BY <1>1 DEF Stands, Misses, Holds, Grows, Quiet, Sending
<1>6. Newer(d, k)' <=> Newer(d, k)
  BY <1>2 DEF Newer
<1>7. ASSUME r.marked_ready_to_rotate, ~Newer(d, k)
      PROVE  \/ u.seg = k /\ u.frame < next + MaxPackets + m
             \/ \E i \in DOMAIN socket'[d] : socket'[d][i].seg = k
  <2>1. t.synced /\ next = top
    BY <1>4, <1>7 DEF Marked
  <2> HIDE DEF next, top, m
  <2>2. CASE \E i \in DOMAIN socket[d] : socket[d][i].seg = k
    <3>1. PICK i \in DOMAIN socket[d] : socket[d][i].seg = k
      BY <2>2
    <3>2. i \in DOMAIN socket'[d] /\ socket'[d][i] = socket[d][i]
      <4>1. CASE socket'[d] = socket[d]
        BY <4>1
      <4>2. CASE \E packet \in Packets : socket'[d] = Append(socket[d], packet)
        BY <1>3, <4>2
      <4> QED
        BY <1>1, <4>1, <4>2 DEF Stands, Misses, Holds, Grows, Quiet, Sending
    <3> QED
      BY <3>1, <3>2
  <2>3. CASE t.seg = k /\ t.frame < top + MaxPackets + missed
    <3>1. CASE Stands(d) \/ Misses(d)
      <4>1. u.seg = t.seg /\ (u.frame = t.frame \/ (u.frame = t.frame + 1 /\ m = missed + 1))
        BY <1>3, <3>1 DEF Stands, Misses, Quiet, m
      <4> HIDE DEF u, t
      <4> QED
        BY <1>3, <2>1, <2>3, <4>1
    <3>2. CASE Grows(d)
      <4>1. PICK packet \in Packets : Sending(d, packet)
        BY <3>2 DEF Grows
      <4>2. socket'[d] = Append(socket[d], packet) /\ packet.seg = u.seg /\ u.frame = now /\ t.frame + 1 = now
        BY <4>1 DEF Sending
      <4>3. Len(socket[d]) + 1 \in DOMAIN socket'[d] /\ socket'[d][Len(socket[d]) + 1] = packet
        BY <1>3, <4>2
      <4>4. u.seg = k
        <5>1. Belongs(now, thread[d].seg)'
          BY <3>2, EncoderdDoes
        <5>2. u.seg = t.seg \/ u.seg = t.seg + 1
          <6>1. u.seg = t.seg \/ ~TakeFrame(e) \/ d # e \/ Encodes(e)
            BY TakeFrameDoes DEF Waits, Skips
          <6>2. TakeFrame(e) /\ d = e
            <7>1. socket'[d] # socket[d]
              BY <1>3, <4>2
            <7>2. UpdateStart(e) \/ MissFrame(e) => socket' = socket
              BY DEF UpdateStart, MissFrame
            <7>3. ASSUME d # e, TakeFrame(e)
                  PROVE  FALSE
              <8>1. thread'[d] = thread[d]
                BY <7>3, TakeFrameDoes
              <8> QED
                BY <1>3, <4>2, <8>1
            <7> QED
              BY <7>1, <7>2, <7>3
          <6> QED
            BY <6>1, <6>2 DEF Encodes
        <5>3. CASE u.seg = k + 1
          <6>1. Border(k + 1) = top + SegmentFrames
            BY Borders DEF top
          <6>2. start_frame_id' = start_frame_id /\ now' = now
            BY <1>2, <2>1
          <6>3. Border(k + 1) <= now
            BY <5>1, <5>3, <6>2 DEF Belongs, Border
          <6> DEFINE c == Border(k + 1)
                     f == t.frame
          <6>4. c = top + SegmentFrames /\ c <= now /\ f < top + MaxPackets + missed /\ f + 1 = now /\ f \in Int
            BY <1>3, <2>3, <4>2, <6>1, <6>3
          <6> HIDE DEF c, f
          <6> QED
            BY <1>3, <6>4 DEF Roomy
        <5> QED
          BY <2>3, <5>2, <5>3
      <4> QED
        BY <4>2, <4>3, <4>4
    <3>3. ~Holds(d)
      BY <2>1 DEF Holds
    <3> QED
      BY <1>1, <3>1, <3>2, <3>3
  <2> QED
    BY <1>7, <2>2, <2>3 DEF Marked, top
<1>8. /\ r.current_segment <= k /\ \A w \in video[d] : w[2] <= k
      /\ r.marked_ready_to_rotate => t.synced
      /\ Newer(d, k) => r.marked_ready_to_rotate
      /\ r.marked_ready_to_rotate /\ ~Newer(d, k) => r.current_segment # k
      /\ d \notin AudioEncoders /\ (\E i \in DOMAIN r.q : r.q[i].seg <= k) =>
           r.marked_ready_to_rotate /\ ~Newer(d, k)
  BY DEF Marked
<1> HIDE DEF next
<1> QED
  BY <1>2, <1>5, <1>6, <1>7, <1>8 DEF Marked, next

\* A frame that belongs to a segment up to k comes before the border of the next, and the others do not.
LEMMA WhereFrames ==
  ASSUME TypeOK, NEW k \in Nat, NEW seg \in Nat, NEW f \in Nat, Belongs(f, seg)
  PROVE  seg <= k <=> f < Border(k + 1)
<1>1. start_frame_id \in Nat /\ SegmentFrames \in Nat
  BY LogRotationAssumption DEF TypeOK, EncoderdOK
<1>2. ASSUME NEW a \in Nat, NEW b \in Nat, a <= b
      PROVE  Border(a) <= Border(b)
  <2> DEFINE c == b - a
  <2>1. c \in Nat /\ b = a + c
    BY <1>2
  <2> HIDE DEF c
  <2>2. b * SegmentFrames = a * SegmentFrames + c * SegmentFrames
    BY <1>1, <2>1
  <2> DEFINE x == a * SegmentFrames
             y == b * SegmentFrames
             z == c * SegmentFrames
  <2>3. x \in Nat /\ z \in Nat /\ y = x + z
    BY <2>1, <2>2, TimesSegment
  <2>4. Border(a) = start_frame_id + x /\ Border(b) = start_frame_id + y
    BY DEF Border
  <2> HIDE DEF x, y, z
  <2> QED
    BY <1>1, <2>3, <2>4
<1>3. /\ Border(k + 1) \in Nat /\ Border(seg) \in Nat /\ Border(seg + 1) \in Nat
      /\ Border(seg) <= f /\ f < Border(seg + 1)
  <2>1. k + 1 \in Nat /\ seg + 1 \in Nat
    OBVIOUS
  <2> QED
    BY <2>1, Borders DEF Belongs, Border
<1>4. CASE seg <= k
  <2>1. Border(seg + 1) <= Border(k + 1)
    BY <1>2, <1>4
  <2> QED
    BY <1>3, <1>4, <2>1
<1>5. CASE ~(seg <= k)
  <2>1. Border(k + 1) <= Border(seg)
    BY <1>2, <1>5
  <2> QED
    BY <1>3, <1>5, <2>1
<1> QED
  BY <1>4, <1>5

\* What loggerd has written or queued of an encoder that it has nothing newer of is of segments up to
\* k: all later frames are in the socket, or were missed.
LEMMA Lag ==
  ASSUME TypeOK, NEW k \in Nat, NEW e \in Encoders, sent \in [Encoders -> SUBSET Nat], InOrder(e, k),
         Gaps(e), Line(e), Marked(e, k), Found(e), thread[e].synced, ~Newer(e, k)
  PROVE  thread[e].frame + 1 - Border(k + 1) <= Len(socket[e]) + missed
<1> DEFINE b == Border(k + 1)
           s == socket[e]
           frame == thread[e].frame
<1>1. /\ b \in Nat /\ b >= start_frame_id /\ start_frame_id \in Nat /\ missed \in Nat /\ k + 1 \in Nat
      /\ frame \in Int /\ s \in Seq(Packets) /\ remote[e].q \in Seq(Packets) /\ SegmentFrames \in Nat
  <2>1. thread[e] \in Threads /\ socket[e] \in Seq(Packets) /\ remote[e].q \in Seq(Packets) /\ start_frame_id \in Nat
    BY DEF TypeOK, EncoderdOK, LoggerdOK, RemoteEncoders
  <2>2. k + 1 \in Nat
    OBVIOUS
  <2> QED
    BY <2>1, <2>2, Borders DEF Threads
<1>2. ASSUME NEW seg \in Nat, NEW f \in Nat, seg <= k, Belongs(f, seg)
      PROVE  f < b
  <2> QED
    BY <1>1, <1>2, WhereFrames
<1>3. ASSUME NEW f \in sent[e], f >= b
      PROVE  \E i \in DOMAIN s : s[i].frame = f
  <2>1. f \in Nat
    OBVIOUS
  <2>2. ~\E w \in video[e] : w[1] = f
    <3> SUFFICES ASSUME NEW w \in video[e], w[1] = f
                 PROVE  FALSE
      OBVIOUS
    <3>1. w \in Nat \X Nat /\ Belongs(w[1], w[2]) /\ w[2] <= k
      BY DEF TypeOK, LoggerdOK, InOrder, Marked
    <3>2. f < b
      BY <1>2, <2>1, <3>1
    <3> QED
      BY <1>1, <1>3, <2>1, <3>2
  <2>3. ~\E i \in DOMAIN remote[e].q : remote[e].q[i].frame = f
    <3> SUFFICES ASSUME NEW i \in DOMAIN remote[e].q, remote[e].q[i].frame = f
                 PROVE  FALSE
      OBVIOUS
    <3>1. remote[e].q[i] \in Packets /\ ~(k < remote[e].q[i].seg) /\ Belongs(remote[e].q[i].frame, remote[e].q[i].seg)
      BY <1>1 DEF InOrder, Newer
    <3>2. remote[e].q[i].seg \in Nat
      BY <3>1 DEF Packets
    <3>3. f < b
      BY <1>2, <2>1, <3>1, <3>2
    <3> QED
      BY <1>1, <1>3, <2>1, <3>3
  <2> QED
    BY <2>2, <2>3 DEF Found
<1>4. Len(s) \in Nat
  BY <1>1
<1>5. CASE \A f \in sent[e] : f < b
  <2>1. frame + 1 - b <= missed
    BY <1>1, <1>5 DEF Gaps
  <2> HIDE DEF frame, b, s
  <2> QED
    BY <1>1, <1>4, <2>1 DEF frame, b, s
<1>6. CASE \E f \in sent[e] : ~(f < b)
  <2>1. 1 \in DOMAIN s
    <3>1. PICK f \in sent[e] : f >= b
      BY <1>1, <1>6
    <3>2. DOMAIN s # {}
      BY <1>3, <3>1
    <3> HIDE DEF s
    <3> QED
      BY <1>1, <3>2
  <2>2. ASSUME NEW f \in sent[e]
        PROVE  f < b \/ s[1].frame <= f
    <3> SUFFICES ASSUME f >= b
                 PROVE  s[1].frame <= f
      BY <1>1
    <3>1. PICK i \in DOMAIN s : s[i].frame = f
      BY <1>3
    <3>2. i = 1 \/ 1 \in 1..(i - 1)
      BY <1>1
    <3>3. s[1].frame <= s[i].frame
      <4>1. s[1] \in Packets /\ s[i] \in Packets
        BY <1>1, <2>1
      <4>2. s[1].frame \in Nat /\ s[i].frame \in Nat
        BY <4>1 DEF Packets
      <4>3. i = 1 \/ s[1].frame < s[i].frame
        BY <3>2 DEF Line
      <4> QED
        BY <4>2, <4>3
    <3> QED
      BY <3>1, <3>3
  <2>3. frame - b <= Len(s) - 1 + missed
    BY <1>1, <2>1, <2>2 DEF Gaps
  <2> HIDE DEF frame, b, s
  <2> QED
    BY <1>1, <1>4, <2>3 DEF frame, b, s
<1> QED
  BY <1>5, <1>6

\* The cameras go on only when no socket is full: the encoder that is not yet done with segment k
\* keeps them from being further.
LEMMA TickTurn ==
  ASSUME TypeOK, Healthy, NEW k \in Nat, Orderly(k), sent \in [Encoders -> SUBSET Nat],
         \A d \in Encoders : Sync(d), Kept(k), Newers(k) # Encoders, Tick
  PROVE  now + 1 < Border(k + 1) + MaxPackets + missed
<1>1. PICK e \in Encoders : ~Newer(e, k)
  BY DEF Newers
<1>2. /\ streams = Encoders /\ now \in Nat /\ start_frame_id \in Nat
      /\ \A d \in Encoders : thread[d].frame = now /\ thread[d].pc = "recv" /\ Len(socket[d]) < MaxPackets
  BY DEF Tick, Healthy, TypeOK, EncoderdOK
<1> DEFINE b == Border(k + 1)
<1>3. b \in Nat /\ start_frame_id <= b /\ MaxPackets \in Nat \ {0} /\ missed \in Nat /\ Len(socket[e]) \in Nat
  <2>1. k + 1 \in Nat /\ socket[e] \in Seq(Packets)
    BY DEF TypeOK, LoggerdOK
  <2>2. Len(socket[e]) \in Nat
    BY <2>1
  <2>3. b \in Nat /\ start_frame_id <= b /\ missed \in Nat
    <3>1. Border(k) \in Nat /\ start_frame_id <= Border(k) /\ SegmentFrames \in Nat /\ missed \in Nat
          /\ Border(k + 1) = Border(k) + SegmentFrames
      BY Borders
    <3> QED
      BY <1>2, <3>1
  <2> QED
    BY <2>2, <2>3, LogRotationAssumption
<1>4. CASE thread[e].synced
  <2>1. now + 1 - b <= Len(socket[e]) + missed
    BY <1>1, <1>2, <1>4, Lag DEF Kept, Orderly
  <2>2. Len(socket[e]) < MaxPackets
    BY <1>2
  <2> HIDE DEF b
  <2> QED
    BY <1>2, <1>3, <2>1, <2>2 DEF b
<1>5. CASE ~thread[e].synced
  <2>1. now + 1 <= start_frame_id + missed
    <3>1. CASE AllReady
      <4>1. now < start_frame_id + missed
        BY <1>2, <1>5, <3>1 DEF Sync
      <4> QED
        BY <1>2, <1>3, <4>1
    <3>2. CASE ~AllReady
      <4>1. PICK d \in Encoders : ~thread[d].ready
        BY <1>2, <3>2 DEF AllReady
      <4>2. ~thread[d].synced
        <5>1. thread[d].synced => streams = {d}
          BY <3>2 DEF Sync
        <5> QED
          BY <1>2, <1>5, <5>1
      <4>3. now + 1 <= missed
        BY <1>2, <4>1, <4>2 DEF Kept, Gaps
      <4> QED
        BY <1>2, <1>3, <4>3
    <3> QED
      BY <3>1, <3>2
  <2> HIDE DEF b
  <2> QED
    BY <1>2, <1>3, <2>1 DEF b
<1> QED
  BY <1>4, <1>5

\* rotate_if_needed, once more: a segment that goes on has an encoder that is not counted, and what
\* waits for sound is in a queue that is not full.
LEMMA RotateKeeps ==
  ASSUME TypeOK, NEW n \in Nat, Rotate(n), ~silent'
  PROVE  /\ segment' = segment => n # Cardinality(Encoders)
         /\ \A e \in Encoders : Waiting(e, remote'[e]) => ~(Len(remote'[e].q) > QueueLimit)
<1>1. segment \in Nat
  BY DEF TypeOK, LoggerdOK
<1>2. n = Cardinality(Encoders) => segment' = segment + 1
  BY DEF Rotate, all_ready
<1>3. \A e \in Encoders : Waiting(e, remote'[e]) => ~(Len(remote'[e].q) > QueueLimit)
  BY Zenon DEF Rotate
<1>4. segment + 1 # segment
  BY <1>1
<1> QED
  BY <1>2, <1>3, <1>4

\* The packet that loggerd takes is the first on its way, of its segment or of a later one.
LEMMA HeadFacts ==
  ASSUME TypeOK, Healthy, NEW k \in Nat, k = segment, Orderly(k), \A d \in Encoders : OnItsWay(d),
         NEW e \in Encoders, Receive(e)
  PROVE  /\ Head(socket[e]) = socket[e][1] /\ 1 \in DOMAIN socket[e] /\ Head(socket[e]) \in Packets
         /\ Len(Tail(socket[e])) = Len(socket[e]) - 1 /\ Len(socket[e]) \in Nat
         /\ \A i \in DOMAIN Tail(socket[e]) : /\ i \in Nat /\ i + 1 \in DOMAIN socket[e]
                                              /\ Tail(socket[e])[i] = socket[e][i + 1]
         /\ \A i \in DOMAIN socket[e] : i = 1 \/ (i - 1 \in DOMAIN Tail(socket[e]) /\ Tail(socket[e])[i - 1] = socket[e][i])
         /\ thread[e].synced /\ Belongs(Head(socket[e]).frame, Head(socket[e]).seg)
         /\ k <= Head(socket[e]).seg /\ Head(socket[e]).seg <= thread[e].seg
         /\ \A i \in DOMAIN socket[e] : socket[e][i] \in Packets /\ Head(socket[e]).seg <= socket[e][i].seg
         /\ \A i \in DOMAIN remote[e].q : /\ remote[e].q[i] \in Packets
                                          /\ k <= remote[e].q[i].seg /\ remote[e].q[i].seg <= Head(socket[e]).seg
         /\ (Current(e) /\ Head(socket[e]).seg = k) \/ (Early(e) /\ Head(socket[e]).seg > k)
         /\ remote'[e].encoderd_segment_offset = 0
<1> DEFINE s == socket[e]
           q == remote[e].q
           packet == Head(s)
<1>1. /\ s \in Seq(Packets) /\ s # <<>> /\ q \in Seq(Packets) /\ segment \in Nat
      /\ Current(e) \/ Early(e) \/ Late(e)
  BY ReceiveDoes DEF TypeOK, LoggerdOK, RemoteEncoders
<1>2. /\ packet = s[1] /\ 1 \in DOMAIN s
      /\ Len(Tail(s)) = Len(s) - 1 /\ Len(s) \in Nat
      /\ \A i \in DOMAIN Tail(s) : i \in Nat /\ i + 1 \in DOMAIN s /\ Tail(s)[i] = s[i + 1]
      /\ \A i \in DOMAIN s : i = 1 \/ (i - 1 \in DOMAIN Tail(s) /\ Tail(s)[i - 1] = s[i])
  <2> HIDE DEF s
  <2>1. s # <<>> /\ s \in Seq(Packets)
    BY <1>1
  <2> QED
    BY <2>1
<1>3. /\ \A i \in DOMAIN s : s[i] \in Packets
      /\ \A i \in DOMAIN q : q[i] \in Packets
  BY <1>1
<1>4. packet \in Packets
  BY <1>2, <1>3
<1>5. InOrder(e, k) /\ OnItsWay(e)
  BY DEF Orderly
<1>6. \A i \in DOMAIN s : 1 \in 1..i
  BY <1>1
<1>7. thread[e].synced /\ Belongs(packet.frame, packet.seg) /\ packet.seg <= thread[e].seg
      /\ \A i \in DOMAIN s : packet.seg <= s[i].seg
  BY <1>2, <1>5, <1>6 DEF OnItsWay
<1>8. k <= packet.seg
  BY <1>2, <1>5 DEF InOrder
<1>9. \A i \in DOMAIN q : k <= q[i].seg /\ q[i].seg <= packet.seg
  BY <1>2, <1>5 DEF InOrder
<1>10. Offset(e) = 0
  BY <1>1, <1>2, <1>5 DEF Offset, OnItsWay, InOrder
<1>11. packet.seg \in Nat /\ packet.seg - Offset(e) = packet.seg
  BY <1>4, <1>10 DEF Packets
<1> HIDE DEF packet
<1>12. (Current(e) /\ packet.seg = k) \/ (Early(e) /\ packet.seg > k)
  BY <1>1, <1>8, <1>11 DEF Current, Early, Late, packet
<1>13. remote'[e].encoderd_segment_offset = 0
  BY <1>10, <1>12 DEF Current, Early
<1> QED
  BY <1>2, <1>3, <1>4, <1>7, <1>8, <1>9, <1>12, <1>13 DEF packet

\* When an encoder is done with the segment, its mark tells whether loggerd has something newer, and
\* only with a sound track does anything of the segment wait.
LEMMA DoneFacts ==
  ASSUME TypeOK, Healthy, NEW k \in Nat, k = segment, Orderly(k), \A d \in Encoders : OnItsWay(d),
         NEW e \in Encoders, Receive(e), Marked(e, k), Head(socket[e]).seg > k
  PROVE  /\ remote[e].marked_ready_to_rotate => Newer(e, k)
         /\ Newer(e, k) => remote[e].marked_ready_to_rotate
         /\ e \notin AudioEncoders => \A i \in DOMAIN remote[e].q : ~(remote[e].q[i].seg <= k)
<1>1. /\ Head(socket[e]).seg <= thread[e].seg
      /\ \A i \in DOMAIN socket[e] : socket[e][i] \in Packets /\ Head(socket[e]).seg <= socket[e][i].seg
      /\ Head(socket[e]).seg \in Nat /\ thread[e].seg \in Nat
  BY HeadFacts DEF Packets, TypeOK, EncoderdOK, Threads
<1>2. thread[e].seg # k
  BY <1>1
<1>3. \A i \in DOMAIN socket[e] : socket[e][i].seg # k
  BY <1>1 DEF Packets
<1> QED
  BY <1>2, <1>3 DEF Marked

\* There is room for what must wait.
LEMMA NoDrop ==
  ASSUME Roomy, TypeOK, TypeOK', Healthy, NEW k \in Nat, k = segment, Orderly(k), Turn(k),
         \A d \in Encoders : Sync(d) /\ OnItsWay(d), sent \in [Encoders -> SUBSET Nat],
         NEW e \in Encoders, Receive(e), Marked(e, k), Line(e), ~silent',
         Early(e) \/ (e \in AudioEncoders /\ Queues(e))
  PROVE  remote'[e].q = Append(remote[e].q, Head(socket[e]))
<1> DEFINE s == socket[e]
           q == remote[e].q
           packet == Head(s)
           long == Len(q)
<1>1. Queues(e)
  BY DEF Early
<1> SUFFICES ASSUME long > QueueLimit
             PROVE  FALSE
  BY <1>1 DEF Queues
<1>2. q \in Seq(Packets) /\ long \in Nat /\ QueueLimit \in Nat /\ remote'[e].q = q
  <2>1. q \in Seq(Packets) /\ QueueLimit \in Nat
    BY LogRotationAssumption DEF TypeOK, LoggerdOK, RemoteEncoders
  <2> QED
    BY <1>1, <2>1 DEF Queues
<1>3. 1 \in DOMAIN q /\ long \in DOMAIN q
  <2> HIDE DEF q
  <2> QED  BY <1>2
<1>4. /\ packet = s[1] /\ 1 \in DOMAIN s /\ packet \in Packets /\ Belongs(packet.frame, packet.seg)
      /\ \A i \in DOMAIN q : q[i] \in Packets /\ k <= q[i].seg /\ q[i].seg <= packet.seg
      /\ (Current(e) /\ packet.seg = k) \/ (Early(e) /\ packet.seg > k)
      /\ remote'[e].encoderd_segment_offset = 0
  BY HeadFacts
<1>5. PICK n \in Nat : Rotate(n)
  <2>1. ready_to_rotate \in Nat
    BY DEF TypeOK, LoggerdOK
  <2> QED
    BY <2>1, ReceiveDoes
<1>6. ~Waiting(e, remote'[e])
  BY <1>2, <1>5, RotateKeeps
<1>7. e \in AudioEncoders => \A i \in DOMAIN q : ~(q[i].seg <= k)
  <2> SUFFICES ASSUME e \in AudioEncoders, NEW i \in DOMAIN q, q[i].seg <= k
               PROVE  FALSE
    OBVIOUS
  <2>1. q[i].seg \in Nat
    BY <1>4 DEF Packets
  <2>2. q[i].seg - remote'[e].encoderd_segment_offset <= segment
    BY <1>4, <2>1
  <2> QED
    BY <1>2, <1>6, <2>2 DEF Waiting, OffsetSegment
<1>8. Early(e)
  <2>1. SUFFICES ASSUME packet.seg = k, e \in AudioEncoders
                 PROVE  FALSE
    BY <1>4
  <2> QED
    BY <1>3, <1>4, <1>7, <2>1
<1>9. packet.seg > k
  <2>1. packet.seg - Offset(e) > segment
    BY <1>8 DEF Early
  <2>2. ~Current(e)
    BY <2>1, <1>4 DEF Current, TypeOK, LoggerdOK
  <2> QED
    BY <1>4, <2>2
<1>10. \A i \in DOMAIN q : ~(q[i].seg <= k)
  BY <1>7, <1>9, DoneFacts
<1> DEFINE b == Border(k + 1)
           first == q[1].frame
           last == q[long].frame
<1>11. b <= first /\ first \in Nat /\ b \in Nat
  <2>1. q[1] \in Packets /\ ~(q[1].seg <= k) /\ Belongs(q[1].frame, q[1].seg)
    BY <1>3, <1>4, <1>10 DEF Orderly, InOrder
  <2>2. q[1].seg \in Nat /\ q[1].frame \in Nat
    BY <2>1 DEF Packets
  <2>3. ~(q[1].frame < Border(k + 1))
    BY <2>1, <2>2, WhereFrames
  <2>4. b \in Nat
    BY Borders
  <2> QED
    BY <2>2, <2>3, <2>4
<1>12. first + (long - 1) <= last /\ last < packet.frame /\ packet.frame <= thread[e].frame
  <2>1. first + (long - 1) <= last /\ last < s[1].frame
    BY <1>3, <1>4 DEF Line
  <2>2. s[1].frame \in sent[e]
    BY <1>4 DEF Line
  <2>3. s[1].frame <= thread[e].frame
    BY <2>2 DEF Line
  <2> QED
    BY <1>4, <2>1, <2>3
<1>13. thread[e].frame <= now /\ now < b + MaxPackets + missed
  BY DEF Sync, Turn
<1>14. /\ last \in Nat /\ packet.frame \in Nat /\ thread[e].frame \in Int /\ now \in Nat
       /\ MaxPackets \in Nat /\ missed \in Nat /\ missed <= MaxMissed /\ MaxMissed \in Nat
  <2>1. q[long] \in Packets /\ packet \in Packets /\ thread[e] \in Threads /\ now \in Nat
    BY <1>3, <1>4 DEF TypeOK, EncoderdOK
  <2> QED
    BY <2>1, Borders DEF Packets, Threads
<1> DEFINE f == packet.frame
           g == thread[e].frame
<1>15. /\ f \in Nat /\ g \in Int /\ first + (long - 1) <= last /\ last < f /\ f <= g
       /\ g <= now /\ now < b + MaxPackets + missed
  BY <1>12, <1>13, <1>14
<1> HIDE DEF b, first, last, long, f, g
<1> QED
  BY <1>2, <1>11, <1>14, <1>15 DEF Roomy, long

\* What loggerd does with a packet: it writes it with all that waits, or lets it wait.
Writes(e, k) ==
  /\ Head(socket[e]).seg = k /\ remote'[e].q = <<>>
  /\ \E written : video' = [video EXCEPT ![e] = @ \cup (written \X {segment})] /\ Records(e, written)

Lines(e, k) ==
  /\ e \in AudioEncoders \/ Head(socket[e]).seg > k
  /\ Queues(e) /\ remote'[e].q = Append(remote[e].q, Head(socket[e])) /\ video' = video

\* What loggerd does with a packet when nothing goes wrong: it is written with what waits, or it waits
\* for sound, or it is of the next segment and the encoder is marked.
LEMMA ReceiveOutcomes ==
  ASSUME Roomy, TypeOK, TypeOK', Healthy, NEW k \in Nat, k = segment, Orderly(k), Turn(k),
         \A d \in Encoders : Sync(d) /\ OnItsWay(d), sent \in [Encoders -> SUBSET Nat],
         NEW e \in Encoders, Receive(e), Marked(e, k), Line(e), ~silent'
  PROVE  /\ Writes(e, k) \/ Lines(e, k)
         /\ IF Head(socket[e]).seg = k
            THEN /\ ~Early(e) /\ ~remote'[e].marked_ready_to_rotate /\ remote'[e].current_segment = k
            ELSE /\ Early(e) /\ remote'[e].marked_ready_to_rotate
                 /\ remote'[e].current_segment = remote[e].current_segment
                 /\ Lines(e, k)
<1>1. /\ (Current(e) /\ Head(socket[e]).seg = k) \/ (Early(e) /\ Head(socket[e]).seg > k)
      /\ Head(socket[e]).seg \in Nat
      /\ \A i \in DOMAIN remote[e].q : remote[e].q[i] \in Packets /\ remote[e].q[i].seg <= Head(socket[e]).seg
  BY HeadFacts DEF Packets
<1>2. ~(Current(e) /\ Early(e))
  BY DEF Current, Early
<1>3. CASE Current(e)
  <2>1. Head(socket[e]).seg = k /\ ~Early(e) /\ remote'[e].current_segment = k
    BY <1>1, <1>2, <1>3 DEF Current
  <2>2. ~remote'[e].marked_ready_to_rotate
    <3> SUFFICES ASSUME remote'[e].marked_ready_to_rotate
                 PROVE  FALSE
      OBVIOUS
    <3>1. remote[e].marked_ready_to_rotate /\ remote[e].current_segment = k
      BY <1>3 DEF Current
    <3>2. Newer(e, k)
      BY <3>1 DEF Marked
    <3>3. PICK i \in DOMAIN remote[e].q : k < remote[e].q[i].seg
      BY <3>2 DEF Newer
    <3>4. remote[e].q[i].seg \in Nat
      BY <1>1 DEF Packets
    <3> QED
      BY <1>1, <2>1, <3>3, <3>4
  <2>3. Writes(e, k) \/ Lines(e, k)
    <3>1. CASE Queues(e) /\ e \in AudioEncoders /\ video' = video
      <4>1. remote'[e].q = Append(remote[e].q, Head(socket[e]))
        BY <3>1, NoDrop
      <4> QED
        BY <3>1, <4>1 DEF Lines
    <3>2. CASE /\ remote'[e].q = <<>>
               /\ \E written : video' = [video EXCEPT ![e] = @ \cup (written \X {segment})] /\ Records(e, written)
      BY <2>1, <3>2 DEF Writes
    <3> QED
      BY <1>3, <3>1, <3>2 DEF Current
  <2> QED
    BY <2>1, <2>2, <2>3
<1>4. CASE Early(e)
  <2>1. Head(socket[e]).seg > k /\ Head(socket[e]).seg # k
    BY <1>1, <1>2, <1>4
  <2>2. remote'[e].q = Append(remote[e].q, Head(socket[e]))
    BY <1>4, NoDrop
  <2>3. Lines(e, k)
    BY <1>4, <2>1, <2>2 DEF Lines, Early
  <2> QED
    BY <1>4, <2>1, <2>3 DEF Early
<1> QED
  BY <1>1, <1>3, <1>4

\* What loggerd leaves alone.
LEMMA ReceiveOthers ==
  ASSUME TypeOK, NEW k \in Nat, NEW e \in Encoders, Receive(e), NEW d \in Encoders \ {e},
         Gaps(d), Line(d), Marked(d, k), Keyed(d), Found(d)
  PROVE  Gaps(d)' /\ Line(d)' /\ Marked(d, k)' /\ Keyed(d)' /\ Found(d)' /\ (Newer(d, k)' <=> Newer(d, k))
<1>1. /\ socket'[d] = socket[d] /\ remote'[d] = remote[d] /\ video'[d] = video[d]
      /\ thread' = thread /\ start_frame_id' = start_frame_id /\ missed' = missed /\ sent' = sent
  <2>1. /\ socket' = [socket EXCEPT ![e] = Tail(@)] /\ remote'[d] = remote[d]
        /\ Current(e) \/ Early(e) \/ Late(e)
    BY ReceiveDoes
  <2>2. video' = video \/ \E written : video' = [video EXCEPT ![e] = written]
    BY <2>1 DEF Current, Early, Late
  <2>3. socket \in [Encoders -> Seq(Packets)] /\ video \in [Encoders -> SUBSET (Nat \X Nat)]
    BY DEF TypeOK, LoggerdOK
  <2>4. socket'[d] = socket[d]
    BY <2>1, <2>3
  <2>5. video'[d] = video[d]
    BY <2>2, <2>3
  <2> QED
    BY <2>1, <2>4, <2>5 DEF Receive, encoderd, bounds
<1>2. Newer(d, k)' <=> Newer(d, k)
  BY <1>1 DEF Newer
<1>3. \A g : Open(d, g)' <=> Open(d, g)
  BY <1>1, Zenon DEF Open
<1>4. Border(k)' = Border(k)
  BY <1>1 DEF Border
<1>5. Gaps(d)'
  BY <1>1 DEF Gaps
<1>6. Line(d)'
  BY <1>1 DEF Line
<1>7. Marked(d, k)'
  BY <1>1, <1>2, <1>4 DEF Marked
<1>8. Keyed(d)'
  BY <1>1, <1>3 DEF Keyed
<1>9. Found(d)'
  BY <1>1 DEF Found
<1> QED
  BY <1>2, <1>5, <1>6, <1>7, <1>8, <1>9

\* A packet that waits is the last in the queue.
LEMMA LongerQueue ==
  ASSUME TypeOK, NEW k \in Nat, NEW e \in Encoders, Lines(e, k), Head(socket[e]) \in Packets
  PROVE  LET q == remote[e].q
             longer == remote'[e].q IN
         /\ q \in Seq(Packets) /\ Len(q) \in Nat /\ DOMAIN q = 1..Len(q) /\ DOMAIN longer = 1..(Len(q) + 1)
         /\ \A i \in DOMAIN q : i \in DOMAIN longer /\ longer[i] = q[i]
         /\ Len(q) + 1 \in DOMAIN longer /\ longer[Len(q) + 1] = Head(socket[e])
<1> DEFINE q == remote[e].q
           packet == Head(socket[e])
<1>1. q \in Seq(Packets) /\ remote'[e].q = Append(q, packet)
  BY DEF TypeOK, LoggerdOK, RemoteEncoders, Lines
<1> HIDE DEF q, packet
<1>2. /\ Len(q) \in Nat /\ DOMAIN q = 1..Len(q) /\ DOMAIN Append(q, packet) = 1..(Len(q) + 1)
      /\ \A i \in DOMAIN q : i \in DOMAIN Append(q, packet) /\ Append(q, packet)[i] = q[i]
      /\ Len(q) + 1 \in DOMAIN Append(q, packet) /\ Append(q, packet)[Len(q) + 1] = packet
  BY <1>1
<1> QED
  BY <1>1, <1>2 DEF q, packet

\* loggerd takes a packet.
LEMMA ReceiveLine ==
  ASSUME Roomy, TypeOK, TypeOK', Healthy, NEW k \in Nat, k = segment, Orderly(k), Turn(k),
         \A d \in Encoders : Sync(d) /\ OnItsWay(d), sent \in [Encoders -> SUBSET Nat],
         NEW e \in Encoders, Receive(e), Marked(e, k), Line(e), Gaps(e), ~silent'
  PROVE  Line(e)' /\ Gaps(e)'
<1> DEFINE s == socket[e]
           q == remote[e].q
           packet == Head(s)
<1>1. /\ packet = s[1] /\ 1 \in DOMAIN s /\ packet \in Packets
      /\ Len(Tail(s)) = Len(s) - 1 /\ Len(s) \in Nat
      /\ \A i \in DOMAIN Tail(s) : i \in Nat /\ i + 1 \in DOMAIN s /\ Tail(s)[i] = s[i + 1]
      /\ \A i \in DOMAIN s : s[i] \in Packets
      /\ \A i \in DOMAIN q : q[i] \in Packets
  BY HeadFacts
<1>2. /\ socket'[e] = Tail(s) /\ thread' = thread /\ start_frame_id' = start_frame_id /\ missed' = missed
      /\ sent' = sent
  BY ReceiveDoes DEF Receive, encoderd, bounds, TypeOK, LoggerdOK
<1>3. thread[e].frame \in Int /\ missed \in Nat /\ q \in Seq(Packets) /\ s \in Seq(Packets)
  BY Borders DEF TypeOK, EncoderdOK, LoggerdOK, Threads, RemoteEncoders
<1>4. Gaps(e)'
  <2> DEFINE frame == thread[e].frame
             rest == Tail(s)
  <2>1. ASSUME NEW b \in Nat, NEW i \in DOMAIN rest,
               b >= start_frame_id, \A f \in sent[e] : f < b \/ rest[i].frame <= f
        PROVE  frame - b <= Len(rest) - i + missed
    <3>1. i + 1 \in DOMAIN s /\ rest[i] = s[i + 1] /\ i \in Nat
      BY <1>1
    <3>2. frame - b <= Len(s) - (i + 1) + missed
      BY <2>1, <3>1 DEF Gaps
    <3>3. Len(rest) = Len(s) - 1 /\ Len(s) \in Nat /\ frame \in Int
      BY <1>1, <1>3
    <3> HIDE DEF frame, rest, s
    <3> QED
      BY <1>3, <3>1, <3>2, <3>3
  <2> HIDE DEF rest
  <2> QED
    BY <1>2, <2>1 DEF Gaps, rest
<1>5. \A f \in sent[e] : start_frame_id <= f /\ f <= thread[e].frame
  BY DEF Line
<1>6. ASSUME NEW i \in DOMAIN Tail(s)
      PROVE  /\ Tail(s)[i].frame \in sent[e] /\ packet.frame < Tail(s)[i].frame
             /\ \A j \in 1..(i - 1) : Tail(s)[j].frame < Tail(s)[i].frame
  <2>1. i \in Nat /\ i + 1 \in DOMAIN s /\ Tail(s)[i] = s[i + 1] /\ 1 \in 1..((i + 1) - 1)
    BY <1>1, <1>3
  <2>2. /\ s[i + 1].frame \in sent[e] /\ s[1].frame < s[i + 1].frame
        /\ \A j \in 1..((i + 1) - 1) : s[j].frame < s[i + 1].frame
    BY <2>1 DEF Line
  <2>3. ASSUME NEW j \in 1..(i - 1)
        PROVE  Tail(s)[j] = s[j + 1] /\ j + 1 \in 1..((i + 1) - 1)
    <3>1. j \in DOMAIN Tail(s)
      BY <1>3, <2>1
    <3> QED
      BY <1>1, <2>1, <3>1
  <2> QED
    BY <1>1, <2>1, <2>2, <2>3
<1>7. CASE Writes(e, k)
  <2>1. remote'[e].q = <<>>
    BY <1>7 DEF Writes
  <2>2. DOMAIN remote'[e].q = {}
    BY <2>1
  <2> QED
    BY <1>2, <1>4, <1>5, <1>6, <2>2 DEF Line
<1>8. CASE Lines(e, k)
  <2> DEFINE longer == remote'[e].q
             n == Len(q)
  <2>1. /\ n \in Nat /\ DOMAIN q = 1..n /\ DOMAIN longer = 1..(n + 1)
        /\ \A i \in DOMAIN q : i \in DOMAIN longer /\ longer[i] = q[i]
        /\ n + 1 \in DOMAIN longer /\ longer[n + 1] = packet
    BY <1>1, <1>8, LongerQueue
  <2>2. \A i \in DOMAIN q : /\ q[1].frame + (i - 1) <= q[i].frame /\ q[i].frame <= thread[e].frame
                            /\ q[i].frame < packet.frame /\ q[i].frame \in Nat
                            /\ \A j \in DOMAIN Tail(s) : q[i].frame < Tail(s)[j].frame
    BY <1>1 DEF Line, Packets
  <2>3. packet.frame \in Nat /\ packet.frame <= thread[e].frame
    <3>1. packet.frame \in sent[e]
      BY <1>1 DEF Line
    <3> QED
      BY <1>1, <1>5, <3>1 DEF Packets
  <2> HIDE DEF longer, n, q, packet
  <2>4. ASSUME NEW i \in DOMAIN longer
        PROVE  /\ longer[1].frame + (i - 1) <= longer[i].frame /\ longer[i].frame <= thread[e].frame
               /\ \A j \in DOMAIN Tail(s) : longer[i].frame < Tail(s)[j].frame
    <3>1. CASE i \in DOMAIN q
      <4>1. 1 \in DOMAIN q
        BY <2>1, <3>1
      <4> QED
        BY <2>1, <2>2, <3>1, <4>1
    <3>2. CASE i = n + 1 /\ n = 0
      BY <1>6, <2>1, <2>3, <3>2
    <3>3. CASE i = n + 1 /\ n # 0
      <4>1. 1 \in DOMAIN q /\ n \in DOMAIN q
        BY <2>1, <3>3
      <4>2. q[1].frame + (n - 1) <= q[n].frame /\ q[n].frame < packet.frame /\ q[1].frame \in Nat /\ q[n].frame \in Nat
        BY <2>2, <4>1
      <4>3. q[1].frame + (i - 1) <= packet.frame
        BY <2>1, <2>3, <3>3, <4>2
      <4> QED
        BY <1>6, <2>1, <2>3, <3>3, <4>1, <4>3
    <3> QED
      BY <2>1, <3>1, <3>2, <3>3
  <2> QED
    BY <1>2, <1>4, <1>5, <1>6, <2>4 DEF Line, longer
<1> QED
  BY <1>7, <1>8, ReceiveOutcomes

\* The marks stay those of the encoders of which loggerd has a packet of the next segment.
LEMMA ReceiveMarked ==
  ASSUME Roomy, TypeOK, TypeOK', Healthy, NEW k \in Nat, k = segment, Orderly(k), Turn(k),
         \A d \in Encoders : Sync(d) /\ OnItsWay(d), sent \in [Encoders -> SUBSET Nat],
         NEW e \in Encoders, Receive(e), Marked(e, k), Line(e), ~silent'
  PROVE  /\ Marked(e, k)'
         /\ Newer(e, k)' <=> Newer(e, k) \/ (Early(e) /\ ~remote[e].marked_ready_to_rotate)
         /\ Early(e) /\ ~remote[e].marked_ready_to_rotate => ~Newer(e, k)
<1> DEFINE q == remote[e].q
           packet == Head(socket[e])
<1>1. /\ packet \in Packets /\ thread[e].synced /\ packet.seg \in Nat /\ k <= packet.seg
      /\ \A i \in DOMAIN q : q[i] \in Packets /\ q[i].seg \in Nat /\ q[i].seg <= packet.seg
  BY HeadFacts DEF Packets
<1>2. thread' = thread /\ segment \in Nat /\ video \in [Encoders -> SUBSET (Nat \X Nat)]
  BY DEF Receive, encoderd, TypeOK, LoggerdOK
<1>3. /\ Writes(e, k) \/ Lines(e, k)
      /\ IF packet.seg = k
         THEN /\ ~Early(e) /\ ~remote'[e].marked_ready_to_rotate /\ remote'[e].current_segment = k
         ELSE /\ Early(e) /\ remote'[e].marked_ready_to_rotate
              /\ remote'[e].current_segment = remote[e].current_segment
              /\ Lines(e, k)
  BY ReceiveOutcomes
<1>4. remote[e].current_segment \in Int /\ remote[e].current_segment <= k /\ \A w \in video[e] : w[2] <= k
  BY DEF Marked, TypeOK, LoggerdOK, RemoteEncoders
<1>5. \A w \in video'[e] : w[2] <= k
  <2>1. CASE Lines(e, k)
    BY <1>4, <2>1 DEF Lines
  <2>2. CASE Writes(e, k)
    <3>1. PICK written : video' = [video EXCEPT ![e] = @ \cup (written \X {segment})]
      BY <2>2 DEF Writes
    <3>2. video'[e] = video[e] \cup (written \X {segment})
      BY <1>2, <3>1
    <3> QED
      BY <1>4, <3>2
  <2> QED
    BY <1>3, <2>1, <2>2
<1>6. CASE packet.seg = k
  <2>1. ~Newer(e, k)
    BY <1>1, <1>6 DEF Newer
  <2>2. \A i \in DOMAIN remote'[e].q : remote'[e].q[i].seg \in Nat /\ remote'[e].q[i].seg <= k
    <3>1. CASE Writes(e, k)
      <4>1. DOMAIN remote'[e].q = {}
        BY <3>1 DEF Writes
      <4> QED  BY <4>1
    <3>2. CASE Lines(e, k)
      <4>1. \A i \in DOMAIN remote'[e].q : i \in DOMAIN q \/ i = Len(q) + 1
        BY <1>1, <3>2, LongerQueue
      <4> QED
        BY <1>1, <1>6, <3>2, <4>1, LongerQueue
    <3> QED
      BY <1>3, <3>1, <3>2
  <2>3. ~Newer(e, k)'
    BY <2>2 DEF Newer
  <2>4. e \notin AudioEncoders => DOMAIN remote'[e].q = {}
    <3> SUFFICES ASSUME e \notin AudioEncoders
                 PROVE  DOMAIN remote'[e].q = {}
      OBVIOUS
    <3>1. ~Lines(e, k)
      BY <1>1, <1>6 DEF Lines
    <3>2. remote'[e].q = <<>>
      BY <1>3, <3>1 DEF Writes
    <3> QED
      BY <3>2
  <2>5. ~remote'[e].marked_ready_to_rotate /\ remote'[e].current_segment = k /\ ~Early(e) /\ k <= k
    BY <1>3, <1>6
  <2>6. Marked(e, k)'
    BY <1>5, <2>3, <2>4, <2>5 DEF Marked
  <2> QED
    BY <2>1, <2>3, <2>5, <2>6
<1>7. CASE packet.seg # k
  <2>1. packet.seg > k
    BY <1>1, <1>7
  <2>2. /\ remote[e].marked_ready_to_rotate => Newer(e, k)
        /\ Newer(e, k) => remote[e].marked_ready_to_rotate
        /\ e \notin AudioEncoders => \A i \in DOMAIN q : ~(q[i].seg <= k)
    BY <2>1, DoneFacts
  <2>3. /\ Lines(e, k) /\ Early(e) /\ remote'[e].marked_ready_to_rotate
        /\ remote'[e].current_segment = remote[e].current_segment
    BY <1>3, <1>7
  <2>4. Newer(e, k)'
    <3>1. Len(q) + 1 \in DOMAIN remote'[e].q /\ remote'[e].q[Len(q) + 1] = packet
      BY <1>1, <2>3, LongerQueue
    <3> QED
      BY <2>1, <3>1 DEF Newer
  <2>5. e \notin AudioEncoders => \A i \in DOMAIN remote'[e].q : ~(remote'[e].q[i].seg <= k)
    <3>1. \A i \in DOMAIN remote'[e].q : i \in DOMAIN q \/ i = Len(q) + 1
      BY <1>1, <2>3, LongerQueue
    <3>2. ~(packet.seg <= k)
      BY <1>1, <2>1
    <3> HIDE DEF packet
    <3> QED
      BY <1>1, <2>2, <2>3, <3>1, <3>2, LongerQueue DEF packet
  <2>6. Marked(e, k)'
    BY <1>1, <1>2, <1>4, <1>5, <2>3, <2>4, <2>5 DEF Marked
  <2> QED
    BY <2>2, <2>3, <2>4, <2>6
<1> QED
  BY <1>6, <1>7

\* A video that has not begun still begins with a key frame after a packet was handled.
LEMMA ReceiveKeyed ==
  ASSUME Roomy, TypeOK, TypeOK', Healthy, NEW k \in Nat, k = segment, Orderly(k), Turn(k),
         \A d \in Encoders : Sync(d) /\ OnItsWay(d), sent \in [Encoders -> SUBSET Nat],
         NEW e \in Encoders, Receive(e), Marked(e, k), Line(e), Keyed(e), Found(e), ~silent'
  PROVE  Keyed(e)' /\ Found(e)'
<1> DEFINE s == socket[e]
           q == remote[e].q
           packet == Head(s)
           rest == Tail(s)
           Opened(seg) == remote'[e].recording /\ remote'[e].current_segment = seg
<1>1. /\ packet = s[1] /\ 1 \in DOMAIN s /\ packet \in Packets /\ k <= packet.seg /\ packet.seg <= thread[e].seg
      /\ \A i \in DOMAIN rest : i \in Nat /\ i + 1 \in DOMAIN s /\ rest[i] = s[i + 1]
      /\ \A i \in DOMAIN s : i = 1 \/ (i - 1 \in DOMAIN rest /\ rest[i - 1] = s[i])
      /\ \A i \in DOMAIN s : s[i] \in Packets /\ packet.seg <= s[i].seg
      /\ \A i \in DOMAIN q : q[i] \in Packets /\ k <= q[i].seg /\ q[i].seg <= packet.seg
      /\ thread[e].synced
  BY HeadFacts
<1>2. socket'[e] = rest /\ thread' = thread /\ sent' = sent
  BY ReceiveDoes DEF Receive, encoderd, TypeOK, LoggerdOK
<1>3. /\ s \in Seq(Packets) /\ q \in Seq(Packets) /\ rest \in Seq(Packets) /\ thread[e].seg \in Nat /\ packet.seg \in Nat
      /\ video \in [Encoders -> SUBSET (Nat \X Nat)]
      /\ remote[e].current_segment \in Int /\ remote[e].current_segment <= k
  <2>1. s \in Seq(Packets) /\ q \in Seq(Packets) /\ thread[e].seg \in Nat /\ video \in [Encoders -> SUBSET (Nat \X Nat)]
        /\ remote[e].current_segment \in Int /\ remote[e].current_segment <= k
    BY DEF TypeOK, EncoderdOK, LoggerdOK, Threads, RemoteEncoders, Marked
  <2>2. s # <<>>
    BY ReceiveDoes
  <2> HIDE DEF s, q
  <2> QED
    BY <1>1, <2>1, <2>2 DEF Packets
<1>4. /\ Writes(e, k) \/ Lines(e, k)
      /\ IF packet.seg = k
         THEN /\ ~Early(e) /\ ~remote'[e].marked_ready_to_rotate /\ remote'[e].current_segment = k
         ELSE /\ Early(e) /\ remote'[e].marked_ready_to_rotate
              /\ remote'[e].current_segment = remote[e].current_segment
              /\ Lines(e, k)
  BY ReceiveOutcomes
\* What is open stays open, and what is not is begun by the first key frame.
<1>5. \A seg \in Nat : k <= seg /\ Open(e, seg) => seg = k
  BY <1>3 DEF Open
<1>8. DOMAIN s = 1..Len(s) /\ Len(s) \in Nat
  BY <1>3
<1>6. CASE Writes(e, k)
  <2>1. PICK written : /\ video' = [video EXCEPT ![e] = @ \cup (written \X {segment})]
                       /\ Records(e, written)
    BY <1>6 DEF Writes
  <2>2. packet.seg = k /\ remote'[e].q = <<>> /\ DOMAIN remote'[e].q = {}
    BY <1>6 DEF Writes
  <2> DEFINE packets == Append(q, packet)
             n == Len(q)
  <2>3. /\ n \in Nat /\ DOMAIN q = 1..n /\ DOMAIN packets = 1..(n + 1)
        /\ \A i \in DOMAIN q : i \in DOMAIN packets /\ packets[i] = q[i]
        /\ n + 1 \in DOMAIN packets /\ packets[n + 1] = packet
    <3> HIDE DEF q, packet
    <3> QED  BY <1>1, <1>3
  <2>4. Open(e, k) \/ packets[1].key
    <3>1. CASE n = 0
      <4>1. DOMAIN q = {}
        BY <2>3, <3>1
      <4>2. s[1].key \/ Open(e, s[1].seg)
        <5>1. 1..(1 - 1) = {}
          OBVIOUS
        <5> QED
          BY <1>1, <4>1, <5>1 DEF Keyed
      <4> QED
        BY <1>1, <2>2, <2>3, <3>1, <4>2
    <3>2. CASE n # 0
      <4>1. 1 \in DOMAIN q
        BY <2>3, <3>2
      <4>2. q[1].key \/ Open(e, q[1].seg)
        <5>1. 1..(1 - 1) = {}
          OBVIOUS
        <5> QED
          BY <4>1, <5>1 DEF Keyed
      <4>3. q[1].seg = k
        BY <1>1, <2>2, <4>1 DEF Packets
      <4> QED
        BY <2>3, <4>1, <4>2, <4>3
    <3> QED
      BY <3>1, <3>2
  <2>5. \A i \in DOMAIN packets : packets[i].frame \in written
    <3> SUFFICES ASSUME NEW i \in DOMAIN packets
                 PROVE  packets[i].frame \in written
      OBVIOUS
    <3>1. 1 \in 1..i
      BY <2>3
    <3> QED
      BY <2>1, <2>4, <3>1 DEF Records
  <2>6. remote'[e].recording /\ remote'[e].current_segment = k
    <3>1. written # {}
      BY <2>3, <2>5
    <3> QED
      BY <1>4, <2>1, <2>2, <3>1 DEF Records
  <2>7. Opened(k)
    BY <2>6
  <2> HIDE DEF packets, n, Opened
  <2>8. ASSUME NEW i \in DOMAIN rest
        PROVE  \/ rest[i].key \/ Opened(rest[i].seg)
               \/ \E j \in 1..(i - 1) : rest[j].seg = rest[i].seg
    <3>1. i \in Nat /\ i + 1 \in DOMAIN s /\ rest[i] = s[i + 1]
      BY <1>1
    <3>2. s[i + 1].seg \in Nat /\ k <= s[i + 1].seg
      BY <1>1, <2>2, <3>1 DEF Packets
    <3>3. CASE Open(e, s[i + 1].seg) \/ s[i + 1].seg = k
      BY <1>5, <2>7, <3>1, <3>2, <3>3
    <3>4. CASE \E j \in 1..((i + 1) - 1) : s[j].seg = s[i + 1].seg
      <4>1. PICK j \in 1..((i + 1) - 1) : s[j].seg = s[i + 1].seg
        BY <3>4
      <4>2. CASE j = 1
        BY <1>1, <2>2, <3>3, <4>1, <4>2
      <4>3. CASE j # 1
        <5>1. j \in DOMAIN s /\ j - 1 \in 1..(i - 1)
          BY <1>8, <3>1, <4>1, <4>3
        <5>2. rest[j - 1] = s[j]
          BY <1>1, <4>3, <5>1
        <5> QED
          BY <3>1, <4>1, <5>1, <5>2
      <4> QED
        BY <4>2, <4>3
    <3>5. CASE \E j \in DOMAIN q : q[j].seg = s[i + 1].seg
      <4>1. s[i + 1].seg = k
        BY <1>1, <2>2, <3>2, <3>5
      <4> QED
        BY <3>3, <4>1
    <3> QED
      BY <3>1, <3>3, <3>4, <3>5 DEF Keyed
  <2>9. \/ Opened(thread[e].seg)
        \/ \E j \in DOMAIN rest : rest[j].seg = thread[e].seg
    <3>1. CASE thread[e].seg = k
      BY <2>7, <3>1
    <3>2. CASE thread[e].seg # k
      <4>1. ~Open(e, thread[e].seg)
        BY <1>1, <1>3, <1>5, <2>2, <3>2
      <4>2. ~\E j \in DOMAIN q : q[j].seg = thread[e].seg
        BY <1>1, <1>3, <2>2, <3>2
      <4>3. PICK j \in DOMAIN s : s[j].seg = thread[e].seg
        BY <1>1, <4>1, <4>2 DEF Keyed
      <4>4. j # 1
        BY <1>1, <2>2, <3>2, <4>3
      <4>5. j - 1 \in DOMAIN rest /\ rest[j - 1] = s[j]
        BY <1>1, <4>3, <4>4
      <4> HIDE DEF s, rest
      <4> QED
        BY <4>3, <4>5
    <3> QED
      BY <3>1, <3>2
  <2>10. Keyed(e)'
    BY <1>1, <1>2, <2>2, <2>8, <2>9 DEF Keyed, Open, Opened
  <2>11. Found(e)'
    <3> SUFFICES ASSUME NEW f \in sent[e]
                 PROVE  \/ \E w \in video'[e] : w[1] = f
                        \/ \E i \in DOMAIN rest : rest[i].frame = f
      BY <1>2 DEF Found
    <3>1. video'[e] = video[e] \cup (written \X {segment})
      BY <1>3, <2>1
    <3>2. ASSUME f \in written
          PROVE  \E w \in video'[e] : w[1] = f
      <4>1. <<f, segment>> \in video'[e]
        BY <3>1, <3>2
      <4> QED
        BY <4>1
    <3>3. CASE \E i \in DOMAIN s : s[i].frame = f
      <4>1. PICK i \in DOMAIN s : s[i].frame = f
        BY <3>3
      <4>2. CASE i = 1
        BY <1>1, <2>3, <2>5, <3>2, <4>1, <4>2
      <4>3. CASE i # 1
        BY <1>1, <4>1, <4>3
      <4> QED
        BY <4>2, <4>3
    <3>4. CASE \E i \in DOMAIN q : q[i].frame = f
      BY <2>3, <2>5, <3>2, <3>4
    <3>5. CASE \E w \in video[e] : w[1] = f
      BY <3>1, <3>5
    <3> QED
      BY <3>3, <3>4, <3>5 DEF Found
  <2> QED
    BY <2>10, <2>11
<1>7. CASE Lines(e, k)
  <2> DEFINE longer == remote'[e].q
             n == Len(q)
  <2>1. /\ n \in Nat /\ DOMAIN q = 1..n /\ DOMAIN longer = 1..(n + 1)
        /\ \A i \in DOMAIN q : i \in DOMAIN longer /\ longer[i] = q[i]
        /\ n + 1 \in DOMAIN longer /\ longer[n + 1] = packet
    BY <1>1, <1>7, LongerQueue
  <2>2. ASSUME NEW seg \in Nat, k <= seg, Open(e, seg)
        PROVE  Opened(seg)
    <3>1. seg = k /\ remote[e].current_segment = k /\ remote[e].recording
      BY <1>5, <2>2 DEF Open
    <3>2. remote'[e].current_segment = remote[e].current_segment
      BY <1>4, <3>1
    <3>3. remote'[e].recording
      BY <1>7, <3>1, <3>2 DEF Lines, Queues
    <3> QED
      BY <3>1, <3>2, <3>3
  <2> HIDE DEF longer, n, Opened
  <2>3. ASSUME NEW i \in DOMAIN longer
        PROVE  \/ longer[i].key \/ Opened(longer[i].seg)
               \/ \E j \in 1..(i - 1) : longer[j].seg = longer[i].seg
    <3>1. CASE i \in DOMAIN q
      <4>1. longer[i] = q[i] /\ q[i].seg \in Nat /\ k <= q[i].seg
        BY <1>1, <2>1, <3>1 DEF Packets
      <4>2. \A j \in 1..(i - 1) : longer[j] = q[j]
        BY <2>1, <3>1
      <4> QED
        BY <2>2, <3>1, <4>1, <4>2 DEF Keyed
    <3>2. CASE i = n + 1
      <4>1. longer[i] = packet /\ packet = s[1] /\ packet.seg \in Nat /\ k <= packet.seg
        BY <1>1, <1>3, <2>1, <3>2
      <4>2. 1..(1 - 1) = {}
        OBVIOUS
      <4>3. packet.key \/ Open(e, packet.seg) \/ \E j \in DOMAIN q : q[j].seg = packet.seg
        BY <1>1, <4>2 DEF Keyed
      <4>4. \A j \in DOMAIN q : longer[j] = q[j] /\ j \in 1..(i - 1)
        BY <2>1, <3>2
      <4> QED
        BY <2>2, <4>1, <4>3, <4>4
    <3> QED
      BY <2>1, <3>1, <3>2
  <2>4. ASSUME NEW seg \in Nat, (\E j \in DOMAIN q : q[j].seg = seg) \/ packet.seg = seg
        PROVE  \E j \in DOMAIN longer : longer[j].seg = seg
    BY <2>1, <2>4
  <2>5. ASSUME NEW i \in DOMAIN rest
        PROVE  \/ rest[i].key \/ Opened(rest[i].seg)
               \/ \E j \in 1..(i - 1) : rest[j].seg = rest[i].seg
               \/ \E j \in DOMAIN longer : longer[j].seg = rest[i].seg
    <3>1. i \in Nat /\ i + 1 \in DOMAIN s /\ rest[i] = s[i + 1]
      BY <1>1
    <3>2. s[i + 1].seg \in Nat /\ k <= s[i + 1].seg
      BY <1>1, <1>3, <3>1 DEF Packets
    <3>3. CASE Open(e, s[i + 1].seg)
      BY <2>2, <3>1, <3>2, <3>3
    <3>4. CASE \E j \in 1..((i + 1) - 1) : s[j].seg = s[i + 1].seg
      <4>1. PICK j \in 1..((i + 1) - 1) : s[j].seg = s[i + 1].seg
        BY <3>4
      <4>2. CASE j = 1
        <5>1. packet.seg = rest[i].seg /\ rest[i].seg \in Nat
          BY <1>1, <3>1, <3>2, <4>1, <4>2
        <5> QED
          BY <2>4, <5>1
      <4>3. CASE j # 1
        <5>1. j \in DOMAIN s /\ j - 1 \in 1..(i - 1)
          BY <1>8, <3>1, <4>1, <4>3
        <5>2. rest[j - 1] = s[j]
          BY <1>1, <4>3, <5>1
        <5> QED
          BY <3>1, <4>1, <5>1, <5>2
      <4> QED
        BY <4>2, <4>3
    <3>5. CASE \E j \in DOMAIN q : q[j].seg = s[i + 1].seg
      BY <2>4, <3>1, <3>2, <3>5
    <3> QED
      BY <3>1, <3>3, <3>4, <3>5 DEF Keyed
  <2>6. \/ Opened(thread[e].seg)
        \/ \E j \in DOMAIN rest : rest[j].seg = thread[e].seg
        \/ \E j \in DOMAIN longer : longer[j].seg = thread[e].seg
    <3>1. k <= thread[e].seg
      BY <1>1, <1>3
    <3>2. CASE Open(e, thread[e].seg)
      BY <1>3, <2>2, <3>1, <3>2
    <3>3. CASE \E j \in DOMAIN q : q[j].seg = thread[e].seg
      BY <1>3, <2>4, <3>3
    <3>4. CASE \E j \in DOMAIN s : s[j].seg = thread[e].seg
      <4>1. PICK j \in DOMAIN s : s[j].seg = thread[e].seg
        BY <3>4
      <4>2. CASE j = 1
        BY <1>1, <1>3, <2>4, <4>1, <4>2
      <4>3. CASE j # 1
        <5>1. j - 1 \in DOMAIN rest /\ rest[j - 1] = s[j]
          BY <1>1, <4>3
        <5> HIDE DEF rest, s
        <5> QED
          BY <4>1, <5>1
      <4> QED
        BY <4>2, <4>3
    <3> QED
      BY <1>1, <3>2, <3>3, <3>4 DEF Keyed
  <2>7. Keyed(e)'
    <3>1. thread'[e].synced /\ thread'[e].seg = thread[e].seg
      BY <1>1, <1>2
    <3>2. \A seg : Open(e, seg)' <=> Opened(seg)
      BY Zenon DEF Open, Opened
    <3> HIDE DEF rest, s, q, packet
    <3> QED
      BY <1>2, <2>3, <2>5, <2>6, <3>1, <3>2 DEF Keyed, longer
  <2>8. Found(e)'
    <3> SUFFICES ASSUME NEW f \in sent[e]
                 PROVE  \/ \E w \in video[e] : w[1] = f
                        \/ \E i \in DOMAIN rest : rest[i].frame = f
                        \/ \E i \in DOMAIN longer : longer[i].frame = f
      BY <1>2, <1>7 DEF Found, Lines, longer
    <3>1. CASE \E i \in DOMAIN s : s[i].frame = f
      <4>1. PICK i \in DOMAIN s : s[i].frame = f
        BY <3>1
      <4>2. CASE i = 1
        BY <1>1, <2>1, <4>1, <4>2
      <4>3. CASE i # 1
        BY <1>1, <4>1, <4>3
      <4> QED
        BY <4>2, <4>3
    <3>2. CASE \E i \in DOMAIN q : q[i].frame = f
      BY <2>1, <3>2
    <3> QED
      BY <3>1, <3>2 DEF Found
  <2> QED
    BY <2>7, <2>8
<1> QED
  BY <1>4, <1>6, <1>7

\* loggerd has a packet of the next segment of every encoder; then none is of the segment after that.
Full(k) ==
  /\ Roomy /\ TypeOK /\ Orderly(k) /\ \A e \in Encoders : Sync(e) /\ Marked(e, k) /\ Newer(e, k)
  /\ now < Border(k + 1) + MaxPackets + missed

Begun(k) ==
  /\ \A e \in Encoders : Marked(e, k) /\ ~Newer(e, k)
  /\ now < Border(k + 1) + MaxPackets + missed

FullThenBegun == \A k \in Nat : Full(k) => Begun(k + 1)

\* Once loggerd has a packet of the next segment of every encoder, none is ahead of that one yet.
LEMMA NextSegment == FullThenBegun
<1> SUFFICES ASSUME NEW k \in Nat, Full(k)
             PROVE  Begun(k + 1)
  BY DEF FullThenBegun
<1> USE DEF Full
<1> DEFINE b == Border(k + 1)
           c == Border(k + 1 + 1)
<1>1. /\ b \in Nat /\ c = b + SegmentFrames /\ SegmentFrames \in Nat /\ MaxPackets \in Nat /\ missed \in Nat
      /\ missed <= MaxMissed /\ MaxMissed \in Nat /\ now \in Nat /\ now < b + MaxPackets + missed
      /\ MaxPackets + MaxMissed < SegmentFrames
  <2>1. k + 1 \in Nat
    OBVIOUS
  <2> QED
    BY <2>1, Borders DEF Roomy, TypeOK, EncoderdOK
<1> HIDE DEF b, c
<1>2. now < c /\ now < c + MaxPackets + missed
  BY <1>1
<1> SUFFICES ASSUME NEW e \in Encoders
             PROVE  Marked(e, k + 1) /\ ~Newer(e, k + 1)
  BY <1>2 DEF Begun, c
<1> DEFINE q == remote[e].q
           t == thread[e]
<1>3. t.seg \in Nat /\ t.frame \in Int /\ q \in Seq(Packets) /\ \A i \in DOMAIN q : q[i] \in Packets
  <2>1. t \in Threads /\ q \in Seq(Packets)
    BY DEF TypeOK, EncoderdOK, LoggerdOK, RemoteEncoders
  <2>2. \A i \in DOMAIN q : q[i] \in Packets
    BY <2>1
  <2> QED
    BY <2>1, <2>2 DEF Threads
<1>4. \A i \in DOMAIN q : /\ q[i].seg \in Nat /\ q[i].frame \in Nat
                          /\ Belongs(q[i].frame, q[i].seg) /\ q[i].seg <= t.seg /\ t.synced
  BY <1>3 DEF Orderly, InOrder, Packets
<1>5. PICK i \in DOMAIN q : k < q[i].seg
  BY DEF Newer
<1>6. t.synced /\ t.frame <= now /\ start_frame_id + t.seg * SegmentFrames <= t.frame
  BY <1>4, <1>5 DEF Sync
<1>7. t.seg <= k + 1
  <2>1. Border(t.seg) <= now /\ Border(t.seg) \in Nat
    <3>1. Border(t.seg) <= t.frame /\ Border(t.seg) \in Nat
      BY <1>3, <1>6, Borders DEF Border
    <3> QED
      BY <1>1, <1>3, <1>6, <3>1
  <2> DEFINE x == Border(t.seg)
  <2>2. x \in Nat /\ x < c
    BY <1>1, <1>2, <2>1
  <2>3. Belongs(x, t.seg)
    <3>1. Border(t.seg + 1) = Border(t.seg) + SegmentFrames /\ Border(t.seg) \in Nat /\ SegmentFrames \in Nat \ {0}
      BY <1>3, Borders, LogRotationAssumption
    <3>2. x <= x /\ x < Border(t.seg + 1)
      BY <3>1
    <3> QED
      BY <3>2 DEF Belongs, Border
  <2>4. k + 1 \in Nat
    OBVIOUS
  <2> HIDE DEF x
  <2> QED
    BY <1>3, <2>2, <2>3, <2>4, WhereFrames DEF c
<1>8. t.seg = k + 1
  BY <1>3, <1>4, <1>5, <1>7
<1>9. ~Newer(e, k + 1)
  BY <1>3, <1>4, <1>7 DEF Newer
<1>10. /\ remote[e].current_segment \in Int /\ remote[e].current_segment <= k
       /\ remote[e].marked_ready_to_rotate
       /\ \A w \in video[e] : w[2] \in Nat /\ w[2] <= k
  <2>1. video[e] \subseteq Nat \X Nat
    BY DEF TypeOK, LoggerdOK
  <2> QED
    BY <2>1 DEF Marked, TypeOK, LoggerdOK, RemoteEncoders
<1>11. t.frame < Border(k + 1) + MaxPackets + missed
  BY <1>1, <1>3, <1>6 DEF b
<1>12. /\ remote[e].current_segment <= k + 1 /\ remote[e].current_segment # k + 1
       /\ \A w \in video[e] : w[2] <= k + 1
  BY <1>10
<1> QED
  BY <1>6, <1>8, <1>9, <1>10, <1>11, <1>12 DEF Marked

\* A rotation, or none: the count is that of the marks in the new segment.
LEMMA RotateTurn ==
  ASSUME Roomy, TypeOK, TypeOK', NEW k \in Nat, k = segment, Encoders # {},
         Orderly(k)', \A d \in Encoders : Sync(d)', Kept(k)',
         (now < Border(k + 1) + MaxPackets + missed)',
         NEW n \in Nat, n = Cardinality(Newers(k)'), Rotate(n), ~forced', ~silent'
  PROVE  Turn(segment)' /\ Kept(segment)'
<1>1. IsFiniteSet(Encoders) /\ Newers(k)' \subseteq Encoders
  BY LogRotationAssumption DEF Newers
<1>2. CASE segment' = segment /\ ready_to_rotate' = n
  <2>1. n # Cardinality(Encoders)
    BY <1>2, RotateKeeps
  <2>2. Newers(segment)' = Newers(k)'
    BY <1>2 DEF Newers, Newer
  <2>3. Newers(segment)' # Encoders
    BY <2>1, <2>2
  <2>4. Turn(segment)'
    BY <1>2, <2>2, <2>3 DEF Turn, Border
  <2>5. Kept(segment)'
    BY <1>2 DEF Kept, Marked, Newer, Border
  <2> QED
    BY <2>4, <2>5
<1>3. CASE segment' = segment + 1 /\ ready_to_rotate' = 0 /\ n = Cardinality(Encoders)
  <2>1. Newers(k)' = Encoders
    BY <1>1, <1>3, FS_Subset
  <2>2. Full(k)'
    BY <2>1 DEF Full, Newers, Kept, Roomy
  <2>3. FullThenBegun'
    BY NextSegment, PTL
  <2>4. Begun(k + 1)'
    BY <2>2, <2>3 DEF FullThenBegun
  <2>5. segment' = k + 1
    BY <1>3
  <2>6. Newers(segment)' = {}
    BY <2>4, <2>5 DEF Begun, Newers, Newer
  <2>7. Turn(segment)'
    <3>1. Cardinality({}) = 0
      BY FS_EmptySet
    <3> QED
      BY <1>3, <2>4, <2>5, <2>6, <3>1 DEF Turn, Begun, Border
  <2>8. Kept(segment)'
    BY <2>4, <2>5 DEF Kept, Begun, Marked, Newer, Border
  <2> QED
    BY <2>7, <2>8
<1> QED
  BY <1>2, <1>3, RotateDoes

\* A drive in which nothing goes wrong was one before.
LEMMA RegularStays ==
  ASSUME TypeOK, TypeOK', [Next]_vars
  PROVE  (Healthy' => Healthy) /\ (Healthy' /\ Regular' => Regular /\ ~forced' /\ ~silent')
<1>1. Healthy' => Healthy
  <2>1. restarts' = restarts \/ restarts' = restarts + 1
    BY DEF Next, TakeFrame, UpdateStart, MissFrame, Receive, Restart, Tick, Audio, Other, vars, bounds
  <2>2. streams' = streams
    BY DEF Next, TakeFrame, UpdateStart, MissFrame, Receive, Restart, Tick, Audio, Other, vars
  <2>3. missed' = missed \/ missed' = missed + 1
    BY DEF Next, TakeFrame, UpdateStart, MissFrame, Receive, Restart, Tick, Audio, Other, vars, bounds
  <2>4. missed \in Nat /\ SegmentFrames \in Nat
    BY LogRotationAssumption DEF TypeOK, EncoderdOK
  <2> QED
    BY <2>1, <2>2, <2>3, <2>4 DEF Healthy, TypeOK, EncoderdOK
<1>2. (forced => forced') /\ (silent => silent')
  <2>1. (\E n \in Nat : Rotate(n)) \/ (forced' = forced /\ silent' = silent)
    <3>1. ready_to_rotate \in Nat
      BY DEF TypeOK, LoggerdOK
    <3>2. ASSUME NEW e \in Encoders, Receive(e)
          PROVE  \E n \in Nat : Rotate(n)
      BY <3>1, <3>2, ReceiveDoes
    <3>3. CASE Audio \/ Other
      BY <3>1, <3>3 DEF Audio, Other
    <3>4. CASE \/ Restart \/ Tick \/ (\E e \in Encoders : TakeFrame(e) \/ UpdateStart(e) \/ MissFrame(e))
               \/ UNCHANGED vars
      BY <3>4 DEF Restart, Tick, TakeFrame, UpdateStart, MissFrame, vars
    <3> QED
      BY <3>2, <3>3, <3>4 DEF Next
  <2> QED
    BY <2>1, RotateDoes
<1> QED
  BY <1>1, <1>2 DEF Regular, Healthy

\* The frames that were sent are natural numbers.
LEMMA SentStep ==
  ASSUME TypeOK, sent \in [Encoders -> SUBSET Nat], [Next]_vars
  PROVE  sent' \in [Encoders -> SUBSET Nat]
<1>1. ASSUME NEW e \in Encoders, TakeFrame(e)
      PROVE  sent' \in [Encoders -> SUBSET Nat]
  <2>1. sent' = sent \/ sent' = [sent EXCEPT ![e] = @ \cup {now}]
    BY <1>1, TakeFrameDoes DEF Waits, Skips, Encodes, SendsNothing, Sends
  <2>2. now \in Nat
    BY DEF TypeOK, EncoderdOK
  <2> QED
    BY <2>1, <2>2
<1>2. ASSUME ~\E e \in Encoders : TakeFrame(e)
      PROVE  sent' = sent
  BY <1>2 DEF Next, UpdateStart, MissFrame, Receive, Restart, Tick, Audio, Other, vars
<1> QED
  BY <1>1, <1>2

\* Every step keeps what is sent.
LEMMA KeptStep ==
  ASSUME Roomy, TypeOK, TypeOK', Healthy, Healthy', ~forced', ~silent', [Next]_vars,
         \A d \in Encoders : Sync(d) /\ OnItsWay(d), \A d \in Encoders : Sync(d)' /\ OnItsWay(d)',
         \A d \in Encoders : thread[d].synced => start_frame_id' = start_frame_id,
         sent \in [Encoders -> SUBSET Nat], Orderly(segment), Turn(segment), Kept(segment)
  PROVE  Turn(segment)' /\ Kept(segment)'
<1>1. segment \in Nat /\ ready_to_rotate \in Nat
  BY DEF TypeOK, LoggerdOK
<1>2. PICK k \in Nat : k = segment
  BY <1>1
<1>3. Orderly(k) /\ Turn(k) /\ Kept(k)
  BY <1>2
<1>4. Encoders # {}
  BY <1>3 DEF Turn, Newers
<1>5. ASSUME segment' = segment, Turn(k)', Kept(k)'
      PROVE  Turn(segment)' /\ Kept(segment)'
  <2>1. segment' = k
    BY <1>2, <1>5
  <2>2. Turn(segment)'
    BY <1>5, <2>1 DEF Turn, Newers, Newer, Border
  <2>3. Kept(segment)'
    BY <1>5, <2>1 DEF Kept, Marked, Newer, Border
  <2> QED
    BY <2>2, <2>3
<1>6. ASSUME NEW e \in Encoders, TakeFrame(e) \/ UpdateStart(e) \/ MissFrame(e)
      PROVE  Turn(segment)' /\ Kept(segment)'
  <2>1. /\ UNCHANGED <<now, streams, remote, video, segment, ready_to_rotate>>
        /\ start_frame_id <= start_frame_id' /\ missed <= missed'
    BY <1>6, EncoderdDoes
  <2>2. \A d \in Encoders : Gaps(d)'
    BY <1>3, <1>6, EncoderdGaps DEF Kept
  <2>3. \A d \in Encoders : Line(d)' /\ Keyed(d)' /\ Found(d)'
    BY <1>3, <1>6, EncoderdLine DEF Kept
  <2>4. \A d \in Encoders : Marked(d, k)'
    BY <1>3, <1>6, EncoderdMarked DEF Kept
  <2>5. Turn(k)'
    <3>1. Newers(k)' = Newers(k)
      BY <2>1 DEF Newers, Newer
    <3>2. (now < Border(k + 1) + MaxPackets + missed)'
      <4> DEFINE start == start_frame_id'
                 m == missed'
                 p == (k + 1) * SegmentFrames
      <4>1. p \in Nat /\ k + 1 \in Nat
        BY TimesSegment
      <4>2. start \in Nat /\ m \in Nat /\ start_frame_id \in Nat /\ missed \in Nat /\ now \in Nat /\ MaxPackets \in Nat
        BY LogRotationAssumption DEF TypeOK, EncoderdOK
      <4>3. now < (start_frame_id + p) + MaxPackets + missed /\ start_frame_id <= start /\ missed <= m
        BY <1>3, <2>1 DEF Turn, Border
      <4> HIDE DEF start, m, p
      <4>4. now < (start + p) + MaxPackets + m
        BY <4>1, <4>2, <4>3
      <4> QED
        BY <2>1, <4>4 DEF start, m, p, Border
    <3> QED
      BY <1>3, <2>1, <3>1, <3>2 DEF Turn
  <2> QED
    BY <1>5, <2>1, <2>2, <2>3, <2>4, <2>5 DEF Kept
<1>7. ASSUME NEW e \in Encoders, Receive(e)
      PROVE  Turn(segment)' /\ Kept(segment)'
  <2> DEFINE counts == Early(e) /\ ~remote[e].marked_ready_to_rotate
             n == IF counts THEN ready_to_rotate + 1 ELSE ready_to_rotate
  <2>1. Orderly(k)'
    BY <1>2, <1>3, <1>7, ReceiveOrder
  <2>2. Gaps(e) /\ Line(e) /\ Marked(e, k) /\ Keyed(e) /\ Found(e)
    BY <1>3 DEF Kept
  <2>3. Line(e)' /\ Gaps(e)'
    BY <1>2, <1>3, <1>7, <2>2, ReceiveLine
  <2>4. Keyed(e)' /\ Found(e)'
    BY <1>2, <1>3, <1>7, <2>2, ReceiveKeyed
  <2>5. /\ Marked(e, k)' /\ (Newer(e, k)' <=> Newer(e, k) \/ counts)
        /\ counts => ~Newer(e, k)
    BY <1>2, <1>3, <1>7, <2>2, ReceiveMarked
  <2>6. ASSUME NEW d \in Encoders \ {e}
        PROVE  Gaps(d)' /\ Line(d)' /\ Marked(d, k)' /\ Keyed(d)' /\ Found(d)' /\ (Newer(d, k)' <=> Newer(d, k))
    BY <1>3, <1>7, ReceiveOthers DEF Kept
  <2>7. Kept(k)'
    BY <2>3, <2>4, <2>5, <2>6 DEF Kept
  <2>8. Rotate(n)
    BY <1>7, ReceiveDoes
  <2> HIDE DEF counts
  <2>9. n \in Nat /\ n = Cardinality(Newers(k)')
    <3>1. IsFiniteSet(Newers(k)) /\ ready_to_rotate = Cardinality(Newers(k))
      BY <1>3, LogRotationAssumption, FS_Subset DEF Newers, Turn
    <3>2. CASE counts
      <4>1. Newers(k)' = Newers(k) \cup {e} /\ e \notin Newers(k)
        BY <2>5, <2>6, <3>2 DEF Newers
      <4>2. Cardinality(Newers(k) \cup {e}) = Cardinality(Newers(k)) + 1
        BY <3>1, <4>1, FS_AddElement
      <4> QED
        BY <1>1, <3>1, <3>2, <4>1, <4>2
    <3>3. CASE ~counts
      <4>1. Newers(k)' = Newers(k)
        BY <2>5, <2>6, <3>3 DEF Newers
      <4> QED
        BY <1>1, <3>1, <3>3, <4>1
    <3> QED
      BY <3>2, <3>3
  <2> HIDE DEF n
  <2>10. (now < Border(k + 1) + MaxPackets + missed)'
    <3>1. UNCHANGED <<now, start_frame_id, missed>>
      BY <1>7 DEF Receive, encoderd, bounds
    <3> QED
      BY <1>3, <3>1 DEF Turn, Border
  <2> QED
    BY <1>2, <1>4, <2>1, <2>7, <2>8, <2>9, <2>10, RotateTurn
<1>8. CASE Audio \/ Other
  <2>1. Rotate(ready_to_rotate)
    BY <1>8 DEF Audio, Other
  <2>2. UNCHANGED <<now, thread, start_frame_id, socket, video, missed, sent>>
    BY <1>8 DEF Audio, Other, encoderd, bounds
  <2>3. ASSUME NEW d \in Encoders
        PROVE  /\ remote'[d].q = remote[d].q
               /\ remote'[d].encoderd_segment_offset = remote[d].encoderd_segment_offset
               /\ remote'[d].marked_ready_to_rotate = remote[d].marked_ready_to_rotate
               /\ remote'[d].current_segment = remote[d].current_segment
               /\ remote'[d].recording = remote[d].recording
    BY <1>8, AudioDoes DEF Other
  <2>4. Orderly(k)'
    BY <1>3, <2>2, <2>3 DEF Orderly, InOrder, Belongs
  <2>5. \A d \in Encoders : Newer(d, k)' <=> Newer(d, k)
    BY <2>3 DEF Newer
  <2>6. ASSUME NEW d \in Encoders
        PROVE  Gaps(d)' /\ Line(d)' /\ Marked(d, k)' /\ Keyed(d)' /\ Found(d)'
    <3>1. Gaps(d) /\ Line(d) /\ Marked(d, k) /\ Keyed(d) /\ Found(d)
      BY <1>3 DEF Kept
    <3>2. Gaps(d)'
      BY <2>2, <3>1 DEF Gaps
    <3>3. Line(d)'
      BY <2>2, <2>3, <3>1 DEF Line
    <3>4. Marked(d, k)'
      BY <2>2, <2>3, <2>5, <3>1 DEF Marked, Border
    <3>5. Keyed(d)'
      BY <2>2, <2>3, <3>1 DEF Keyed, Open
    <3>6. Found(d)'
      BY <2>2, <2>3, <3>1 DEF Found
    <3> QED
      BY <3>2, <3>3, <3>4, <3>5, <3>6
  <2>7. Kept(k)'
    BY <2>6 DEF Kept
  <2>8. Newers(k)' = Newers(k)
    BY <2>5 DEF Newers
  <2>9. ready_to_rotate = Cardinality(Newers(k)')
    BY <1>3, <2>8 DEF Turn
  <2>10. (now < Border(k + 1) + MaxPackets + missed)'
    BY <1>3, <2>2 DEF Turn, Border
  <2> QED
    BY <1>1, <1>2, <1>4, <2>1, <2>4, <2>7, <2>9, <2>10, RotateTurn
<1>9. CASE Tick
  <2>1. /\ UNCHANGED <<thread, start_frame_id, socket, video, remote, segment, ready_to_rotate, missed, sent>>
        /\ now' = now + 1
    BY <1>9 DEF Tick, encoderd, loggerd, bounds
  <2>2. now + 1 < Border(k + 1) + MaxPackets + missed
    BY <1>3, <1>9, TickTurn DEF Turn
  <2>3. Turn(k)'
    BY <1>3, <2>1, <2>2 DEF Turn, Newers, Newer, Border
  <2>4. ASSUME NEW d \in Encoders
        PROVE  Gaps(d)' /\ Line(d)' /\ Marked(d, k)' /\ Keyed(d)' /\ Found(d)'
    <3>1. Gaps(d) /\ Line(d) /\ Marked(d, k) /\ Keyed(d) /\ Found(d)
      BY <1>3 DEF Kept
    <3>2. Gaps(d)'
      BY <2>1, <3>1 DEF Gaps
    <3>3. Line(d)'
      BY <2>1, <3>1 DEF Line
    <3>4. Marked(d, k)'
      BY <2>1, <3>1 DEF Marked, Border, Newer
    <3>5. Keyed(d)'
      BY <2>1, <3>1 DEF Keyed, Open
    <3>6. Found(d)'
      BY <2>1, <3>1 DEF Found
    <3> QED
      BY <3>2, <3>3, <3>4, <3>5, <3>6
  <2>5. Kept(k)'
    BY <2>4 DEF Kept
  <2> QED
    BY <1>5, <2>1, <2>3, <2>5
<1>10. CASE UNCHANGED vars
  <2>1. UNCHANGED <<now, thread, start_frame_id, socket, video, remote, segment, ready_to_rotate, missed, sent>>
    BY <1>10 DEF vars, encoderd, loggerd, bounds
  <2>2. Turn(k)'
    BY <1>3, <2>1 DEF Turn, Newers, Newer, Border
  <2>3. ASSUME NEW d \in Encoders
        PROVE  Gaps(d)' /\ Line(d)' /\ Marked(d, k)' /\ Keyed(d)' /\ Found(d)'
    <3>1. Gaps(d) /\ Line(d) /\ Marked(d, k) /\ Keyed(d) /\ Found(d)
      BY <1>3 DEF Kept
    <3>2. Gaps(d)'
      BY <2>1, <3>1 DEF Gaps
    <3>3. Line(d)'
      BY <2>1, <3>1 DEF Line
    <3>4. Marked(d, k)'
      BY <2>1, <3>1 DEF Marked, Border, Newer
    <3>5. Keyed(d)'
      BY <2>1, <3>1 DEF Keyed, Open
    <3>6. Found(d)'
      BY <2>1, <3>1 DEF Found
    <3> QED
      BY <3>2, <3>3, <3>4, <3>5, <3>6
  <2>4. Kept(k)'
    BY <2>3 DEF Kept
  <2> QED
    BY <1>5, <2>1, <2>2, <2>4
<1>11. CASE Restart
  BY <1>1, <1>11 DEF Restart, Healthy
<1> QED
  BY <1>6, <1>7, <1>8, <1>9, <1>10, <1>11 DEF Next

\* Nothing that a thread has encoded is lost, for any cameras and lengths: whatever the order in which
\* threads and sockets are served and whatever waits for sound, it is written to one segment, or waits
\* (handle_encoder_msg, write_encode_data).
THEOREM NothingIsLost ==
  ASSUME Roomy
  PROVE  Spec => []NothingLost
<1>1. Init => NInv
  <2> SUFFICES ASSUME Init
               PROVE  NInv
    OBVIOUS
  <2>1. \A e \in Encoders : /\ thread[e] = Stopped /\ remote[e] = RemoteEncoder /\ socket[e] = <<>>
                            /\ video[e] = {} /\ sent[e] = {} /\ DOMAIN socket[e] = {} /\ DOMAIN remote[e].q = {}
    BY DEF Init, RemoteEncoder
  <2>2. Kept(0)
    BY <2>1 DEF Init, Kept, Gaps, Line, Marked, Keyed, Found, Newer, Open, Stopped, RemoteEncoder
  <2>3. Turn(0)
    <3>1. Newers(0) = {} /\ Encoders # {}
      BY <2>1 DEF Newers, Newer, Init
    <3>2. now < Border(0 + 1) + MaxPackets + missed
      <4>1. start_frame_id = 0 /\ missed = 0 /\ now = 0
        BY DEF Init
      <4>2. SegmentFrames \in Nat \ {0} /\ MaxPackets \in Nat
        BY LogRotationAssumption
      <4>3. Border(0 + 1) = SegmentFrames
        BY <4>1, <4>2 DEF Border
      <4> QED
        BY <4>1, <4>2, <4>3
    <3>3. Cardinality({}) = 0
      BY FS_EmptySet
    <3> QED
      BY <3>1, <3>2, <3>3 DEF Turn, Init
  <2>4. sent \in [Encoders -> SUBSET Nat]
    BY DEF Init
  <2>5. segment = 0
    BY DEF Init
  <2> QED
    BY <2>2, <2>3, <2>4, <2>5 DEF NInv
<1>2. NInv /\ IInv /\ IInv' /\ [Next]_vars => NInv'
  <2> SUFFICES ASSUME NInv, IInv, IInv', [Next]_vars
               PROVE  NInv'
    OBVIOUS
  <2>1. TypeOK /\ TypeOK' /\ sent \in [Encoders -> SUBSET Nat]
    BY DEF IInv, NInv
  <2>2. sent' \in [Encoders -> SUBSET Nat]
    BY <2>1, SentStep
  <2>3. ASSUME Healthy', Regular'
        PROVE  Turn(segment)' /\ Kept(segment)'
    <3>1. Healthy /\ Regular /\ ~forced' /\ ~silent'
      BY <2>1, <2>3, RegularStays
    <3>2. \A d \in Encoders : Sync(d) /\ OnItsWay(d)
      BY <3>1 DEF IInv
    <3>3. \A d \in Encoders : Sync(d)' /\ OnItsWay(d)'
      BY <2>3 DEF IInv
    <3>4. \A d \in Encoders : thread[d].synced => start_frame_id' = start_frame_id
      BY <2>1, <2>3, <3>1, <3>2, SyncStep
    <3>5. Orderly(segment) /\ Turn(segment) /\ Kept(segment)
      BY <3>1 DEF IInv, NInv
    <3> QED
      BY <2>1, <2>3, <3>1, <3>2, <3>3, <3>4, <3>5, KeptStep
  <2> QED
    BY <2>2, <2>3 DEF NInv
<1>3. IInv /\ NInv /\ missed < SegmentFrames => NothingLost
  <2> SUFFICES ASSUME IInv, NInv, missed < SegmentFrames, Regular
               PROVE  \A e \in Encoders : \A f \in sent[e] :
                        \/ Cardinality({w \in video[e] : w[1] = f}) = 1
                        \/ \E i \in DOMAIN socket[e] : socket[e][i].frame = f
                        \/ \E i \in DOMAIN remote[e].q : remote[e].q[i].frame = f
    BY DEF NothingLost
  <2>1. \A e \in Encoders : Found(e)
    <3>1. Healthy
      BY DEF Regular, Healthy
    <3> QED
      BY <3>1 DEF NInv, Kept
  <2>2. ASSUME NEW e \in Encoders, NEW f \in sent[e], NEW w \in video[e], w[1] = f
        PROVE  Cardinality({v \in video[e] : v[1] = f}) = 1
    <3>1. \A v \in video[e] : v \in Nat \X Nat
      BY DEF IInv, TypeOK, LoggerdOK
    <3>2. \A v \in video[e] : v[2] = (v[1] - start_frame_id) \div SegmentFrames
      BY ByTheirSegment DEF InTheirSegment
    <3>3. ASSUME NEW v \in video[e], v[1] = f
          PROVE  v = w
      <4>1. v[2] = w[2]
        BY <2>2, <3>2, <3>3
      <4>2. v = <<v[1], v[2]>> /\ w = <<w[1], w[2]>>
        BY <3>1
      <4> QED
        BY <2>2, <3>3, <4>1, <4>2
    <3>4. {v \in video[e] : v[1] = f} = {w}
      BY <2>2, <3>3
    <3> QED
      BY <3>4, FS_Singleton
  <2> QED
    BY <2>1, <2>2 DEF Found
<1>4. IInv /\ Roomy => missed < SegmentFrames
  <2> SUFFICES ASSUME IInv, Roomy
               PROVE  missed < SegmentFrames
    OBVIOUS
  <2>1. missed \in 0..MaxMissed
    BY DEF IInv, TypeOK, EncoderdOK
  <2>2. MaxPackets \in Nat /\ MaxMissed \in Nat /\ SegmentFrames \in Nat
    BY LogRotationAssumption
  <2> QED
    BY <2>1, <2>2 DEF Roomy
<1>5. Roomy => (IInv /\ NInv => NothingLost)
  BY <1>3, <1>4
<1>6. IInv /\ NInv => NothingLost
  BY <1>5
<1> QED
  BY <1>1, <1>2, <1>6, Invariance, PTL DEF Spec
=============================================================================
