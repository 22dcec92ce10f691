---------------------------- MODULE BufferDispatcher ----------------------------
(***************************************************************************)
(* The frame buffer of a media channel                                     *)
(* (services/mediachannel/buffer_dispatcher.{h,cpp}): one writer (the RTP  *)
(* consumer, or the screen capture), the notify thread, and one reading    *)
(* thread per attached receiver (VideoPlayController, AudioPlayController, *)
(* WfdRtpProducer).                                                        *)
(*                                                                         *)
(* Every critical section of bufferMutex_ or notifyMutex_ is one action.   *)
(* A section is not interrupted (the README says where the two mutexes     *)
(* are taken in both orders).  A frame is its kind, its number and the     *)
(* slots that have read it (reserveFlag).  Indices count from 0, as in the code.  keyOnly_,   *)
(* the key mode and key redirection of a receiver, rapid mode and          *)
(* MEDIA_AUDIO_ONLY are switched on by no caller and are left out, and so  *)
(* is the pool of idle buffers.                                            *)
(***************************************************************************)
EXTENDS Naturals, Sequences, FiniteSets

CONSTANTS Receivers,        \* the receivers that may be attached
          TypeOf,           \* what a receiver asks for: "audio", "video" or "av"
          InitialCapacity,  \* INITIAL_BUFFER_CAPACITY (500)
          MaxCapacity,      \* maxBufferCapacity_ (800)
          Increment,        \* bufferCapacityIncrement_ (50)
          MaxFrames,        \* bound on the frames written
          MaxStarts,        \* bound on the starts of receivers
          ReaderGap         \* a notification may hit a reader between its test of the flag
                            \* and its wait, since it is made without the mutex of the wait

ASSUME DispatcherAssumption ==
    /\ TypeOf \in [Receivers -> {"audio", "video", "av"}]
    /\ InitialCapacity \in Nat \ {0, 1}
    /\ MaxCapacity \in Nat /\ MaxCapacity >= InitialCapacity
    /\ Increment \in Nat \ {0}
    /\ MaxFrames \in Nat /\ MaxStarts \in Nat
    /\ ReaderGap \in BOOLEAN

Media == {"audio", "video"}
Kinds == {"audio", "key", "delta"}
MediaOf(frame) == IF frame.kind = "audio" THEN "audio" ELSE "video"
IsKey(frame) == frame.kind = "key"

Invalid == MaxFrames + 1                     \* INVALID_INDEX: above every index
Slots == 0..(Cardinality(Receivers) - 1)     \* the bits of readRefFlag_
NoSlot == Cardinality(Receivers)
Wanted(r) == IF TypeOf[r] = "av" THEN Media ELSE {TypeOf[r]}

VARIABLES d,         \* the buffer and its indices (a record, see Init)
          writer,    \* where the writer is in InputData, and with which frame
          alive,     \* running_ of the dispatcher
          notifier,  \* where the notify thread is in NotifyThreadWorker
          go,        \* continueNotify_
          dataBits,  \* dataBitRef_: <<slot, media>>
          recvBits,  \* recvBitRef_: <<slot, media>>
          flag,      \* nonBlockAudio_, nonBlockVideo_ or dataReady_ of a receiver
          first,     \* firstARead_, firstVRead_ or firstMRead_
          pc,        \* where the reading thread is in RequestRead
          running,   \* isVideoRunning_, isAudioRunning_, dispatching_
          got,       \* history: the frame a receiver was given last, while it is attached
          starts     \* starts of receivers so far

vars == <<d, writer, alive, notifier, go, dataBits, recvBits, flag, first, pc, running, got, starts>>

NoFrame == [kind |-> "none", n |-> 0]
Nowhere == [m \in Media |-> Invalid]

\* circular_buffer
Size(b) == Len(b.buf)
At(b, i) == b.buf[i + 1]
Full(b) == Size(b) >= b.cap
PushBack(b, x) == Append(IF Full(b) THEN Tail(b.buf) ELSE b.buf, x)

Attached(b) == {r \in Receivers : b.slot[r] # NoSlot}

\* The members of a new dispatcher; its notifiers are slot and index.
NewBuffer ==
    [buf |-> <<>>, cap |-> InitialCapacity, base |-> InitialCapacity, double |-> 2 * InitialCapacity,
     counter |-> 0, evaluating |-> FALSE, waitingKey |-> TRUE,
     keys |-> <<>>, last |-> Nowhere, need |-> [m \in Media |-> TRUE],
     cnt |-> [m \in Media |-> 0], written |-> 0,
     slot |-> [r \in Receivers |-> NoSlot], index |-> [r \in Receivers |-> Nowhere]]

\* The members of the receivers.
InitReceivers ==
    /\ flag = [r \in Receivers |-> FALSE]
    /\ first = [r \in Receivers |-> FALSE]
    /\ pc = [r \in Receivers |-> "off"]
    /\ running = [r \in Receivers |-> FALSE]

Init ==
    /\ d = NewBuffer
    /\ writer = [at |-> "idle", frame |-> NoFrame]
    /\ alive = TRUE
    /\ notifier = "scan"
    /\ go = FALSE
    /\ dataBits = {} /\ recvBits = {}
    /\ InitReceivers
    /\ got = [r \in Receivers |-> NoFrame]
    /\ starts = 0

-----------------------------------------------------------------------------
(* The buffer: what the writer does to it. *)

\* UpdateIndex: every index moves one place down, and stops at 0.
Down(i) == IF i = 0 \/ i = Invalid THEN i ELSE i - 1

\* pop_front, the counter and UpdateIndex.
Pop(b) ==
    [b EXCEPT !.buf = Tail(@),
              !.cnt[MediaOf(Head(b.buf))] = @ - 1,
              !.keys = LET left == IF @ # <<>> /\ Head(@) = 0 THEN Tail(@) ELSE @
                       IN  [i \in 1..Len(left) |-> Down(left[i])],
              !.index = [r \in Receivers |-> [m \in Media |-> Down(@[r][m])]],
              !.last = [m \in Media |-> Down(@[m])]]

PopN(b, n) == LET after[i \in 0..n] == IF i = 0 THEN b ELSE Pop(after[i - 1])
              IN  after[n]

\* Some attached receiver has not read the oldest frame, or a detached one has.
HeadFrameNeedReserve(b) ==
    Size(b) > 0 /\ {b.slot[r] : r \in Attached(b)} # At(b, 0).read

FindNextDeleteVideoIndex(b) ==
    LET videos == {i \in 0..(Size(b) - 1) : MediaOf(At(b, i)) = "video"}
    IN  IF videos = {} THEN 0 ELSE CHOOSE i \in videos : \A j \in videos : i <= j

SetBufferCapacity(b, c) == IF c = 0 \/ c > MaxCapacity THEN b ELSE [b EXCEPT !.cap = c]

ResetAllIndex(b) ==
    [b EXCEPT !.keys = <<>>, !.index = [r \in Receivers |-> Nowhere],
              !.need = [m \in Media |-> TRUE], !.last = Nowhere]

FlushBuffer(b) ==
    ResetAllIndex([b EXCEPT !.buf = <<>>, !.waitingKey = TRUE, !.cnt = [m \in Media |-> 0]])

Capped(c) == IF c < MaxCapacity THEN c ELSE MaxCapacity

\* Between the first two key frames the capacity follows the length of the group of pictures.
ReCalculateCapacity(b, key) ==
    LET seen == b.counter + 1
        grown == Capped(b.cap + Increment)
        gop == Capped(seen + Increment)
        base == IF gop < InitialCapacity THEN InitialCapacity ELSE gop
    IN  IF key
        THEN SetBufferCapacity([b EXCEPT !.base = base, !.double = Capped(2 * base),
                                         !.evaluating = FALSE, !.counter = 0], base)
        ELSE IF seen >= b.cap
             THEN SetBufferCapacity([b EXCEPT !.counter = seen, !.double = Capped(2 * grown)], grown)
             ELSE [b EXCEPT !.counter = seen]

\* PreProcessDataSpec: the first key frame empties the buffer.
PreProcessDataSpec(b, frame) ==
    IF ~b.waitingKey
    THEN IF b.evaluating THEN ReCalculateCapacity(b, IsKey(frame)) ELSE b
    ELSE IF IsKey(frame)
         THEN [FlushBuffer(b) EXCEPT !.counter = @ + 1, !.evaluating = TRUE, !.waitingKey = FALSE]
         ELSE b

NeedExtendToDBCapacity(b) == Full(b) /\ b.cap < b.double /\ HeadFrameNeedReserve(b)
NeedRestoreToNormalCapacity(b) == b.cnt["audio"] >= b.cap /\ b.cap # InitialCapacity

ExtendToDBCapacity(b) == IF NeedExtendToDBCapacity(b) THEN SetBufferCapacity(b, b.double) ELSE b

\* The loop under it takes every frame for audio.
RestoreToNormalCapacity(b) ==
    IF NeedRestoreToNormalCapacity(b)
    THEN LET extra == IF Size(b) > InitialCapacity THEN Size(b) - InitialCapacity ELSE 0
             popped == PopN(b, extra)
         IN  [popped EXCEPT !.cnt = [b.cnt EXCEPT !["audio"] = @ - extra],
                            !.base = InitialCapacity, !.double = 2 * InitialCapacity,
                            !.cap = InitialCapacity]
    ELSE b

DeleteHeadDatas(b, n, force) ==
    LET after[i \in 0..n] ==
            IF i = 0 THEN b
            ELSE LET p == after[i - 1]
                 IN  IF Size(p) = 0 \/ (HeadFrameNeedReserve(p) /\ ~force) THEN p ELSE Pop(p)
        left == after[n]
    IN  IF n > 0 /\ 0 < Size(left) /\ Size(left) < left.base /\ left.cap > left.base
        THEN [left EXCEPT !.cap = left.base]
        ELSE left

\* Variant with a fault: the last key frame goes too.
GreedyEraseOldGopDatas(b) ==
    LET back == b.keys[Len(b.keys)]
        found == b.keys # <<>> /\ back > 0
    IN  IF found THEN DeleteHeadDatas(b, back + 1, FALSE) ELSE b

\* What precedes the last key frame goes, up to a frame somebody has still to read.
EraseOldGopDatas(b) ==
    LET back == b.keys[Len(b.keys)]
        found == b.keys # <<>> /\ back > 0
        kept == IF found THEN [b EXCEPT !.keys = <<back>>] ELSE b
        cut == DeleteHeadDatas(kept, IF found THEN back ELSE 0, FALSE)
    IN  DeleteHeadDatas(cut, FindNextDeleteVideoIndex(cut), TRUE)

\* Variant with a fault: an audio frame makes room for itself only.
FrugalEvict(b, frame) ==
    IF ~Full(b) THEN b
    ELSE PopN(b, IF MediaOf(frame) = "video" THEN FindNextDeleteVideoIndex(b) ELSE 0)

\* A full buffer loses its head: up to its first video frame for video, two frames for audio.
Evict(b, frame) ==
    IF ~Full(b) THEN b
    ELSE PopN(b, 1 + IF MediaOf(frame) = "video" THEN FindNextDeleteVideoIndex(b) ELSE 1)

\* ActivateReceiverIndex: receivers that had no index start at the new frame.
ActivateReceiverIndex(b, m) ==
    LET waiting == {r \in Attached(b) : b.index[r][m] = Invalid}
    IN  IF ~b.need[m] \/ waiting = {} THEN b
        ELSE [b EXCEPT !.need[m] = FALSE,
                       !.index = [r \in Receivers |->
                                    IF r \in waiting THEN [@[r] EXCEPT ![m] = Size(b) - 1]
                                                     ELSE @[r]]]

\* circularBuffer_.push_back drops the head of a full buffer and no index is told.
Push(b, frame) ==
    LET m == MediaOf(frame)
        ring == PushBack(b, [kind |-> frame.kind, n |-> frame.n, read |-> {}])
        stored == [b EXCEPT !.buf = ring, !.last[m] = Len(ring) - 1, !.cnt[m] = @ + 1, !.written = frame.n]
    IN  IF IsKey(frame)
        THEN ActivateReceiverIndex([stored EXCEPT !.keys = Append(@, Len(ring) - 1)], m)
        ELSE IF m = "audio" THEN ActivateReceiverIndex(stored, m) ELSE stored

-----------------------------------------------------------------------------
(* The writer.  A section of notifyMutex_ waits for the notify thread, which *)
(* keeps that mutex between the test of continueNotify_ and the wait, and a  *)
(* section of bufferMutex_ for the writer, which keeps it until it has       *)
(* signalled.                                                                *)

NotifyFree == notifier # "checked"
BufferFree == writer.at # "stored"

Number == d.written + 1

\* InputData up to the last critical section.
InputData(kind) ==
    LET frame == [kind |-> kind, n |-> Number]
        b == PreProcessDataSpec(d, frame)
    IN  /\ writer.at = "idle" /\ alive
        /\ NotifyFree
        /\ Number <= MaxFrames
        /\ IF b.waitingKey /\ kind = "delta"
           THEN d' = [b EXCEPT !.written = Number] /\ UNCHANGED writer
           ELSE /\ d' = RestoreToNormalCapacity(ExtendToDBCapacity(b))
                /\ writer' = [at |-> IF IsKey(frame) THEN "erase" ELSE "store", frame |-> frame]
        /\ UNCHANGED <<alive, notifier, go, dataBits, recvBits, flag, first, pc, running, got, starts>>

EraseStep ==
    /\ writer.at = "erase"
    /\ NotifyFree
    /\ d' = EraseOldGopDatas(d)
    /\ writer' = [writer EXCEPT !.at = "store"]
    /\ UNCHANGED <<alive, notifier, go, dataBits, recvBits, flag, first, pc, running, got, starts>>

\* Every attached receiver has data of that kind to read.
ActiveDataRef(m) == dataBits \cup {<<d.slot[r], m>> : r \in Attached(d)}

\* WriteDataIntoBuffer from its last lock on.
WriteDataIntoBuffer ==
    /\ writer.at = "store"
    /\ NotifyFree
    /\ d' = Push(Evict(d, writer.frame), writer.frame)
    /\ dataBits' = ActiveDataRef(MediaOf(writer.frame))
    /\ writer' = [writer EXCEPT !.at = "stored"]
    /\ UNCHANGED <<alive, notifier, go, recvBits, flag, first, pc, running, got, starts>>

\* dataCV_.notify_one() reaches the notify thread only once it is blocked.
Signalled == IF notifier = "blocked" THEN "woken" ELSE notifier

\* continueNotify_ = true and notify_one(), without notifyMutex_.
Signal ==
    /\ writer.at = "stored"
    /\ go' = TRUE
    /\ notifier' = Signalled
    /\ writer' = [at |-> "idle", frame |-> NoFrame]
    /\ UNCHANGED <<alive, d, dataBits, recvBits, flag, first, pc, running, got, starts>>

-----------------------------------------------------------------------------
(* NotifyThreadWorker *)

\* notify_one() reaches a reader that sleeps; one that is about to sleep does not notice.
Roused(r) == IF pc[r] = "asleep" THEN "wait" ELSE pc[r]

Notified == {r \in Attached(d) : \E m \in Media : <<d.slot[r], m>> \in dataBits \cap recvBits}

\* Variant with a fault: the thread looks for data only when it has been told of some.
DeafScan ==
    /\ notifier = "scan" /\ alive
    /\ flag' = [r \in Receivers |-> flag[r] \/ (go /\ r \in Notified)]
    /\ pc' = [r \in Receivers |-> IF go /\ r \in Notified THEN Roused(r) ELSE pc[r]]
    /\ IF go THEN go' = FALSE /\ notifier' = "scan"
             ELSE notifier' = "checked" /\ UNCHANGED go
    /\ UNCHANGED <<d, writer, alive, dataBits, recvBits, first, running, got, starts>>

\* NotifyDataReceiver asks for the lower set bit; a receiver of one kind only ever sets one.
Scan ==
    /\ notifier = "scan" /\ alive
    /\ flag' = [r \in Receivers |-> flag[r] \/ r \in Notified]
    /\ pc' = [r \in Receivers |-> IF r \in Notified THEN Roused(r) ELSE pc[r]]
    /\ IF go THEN go' = FALSE /\ notifier' = "scan"
             ELSE notifier' = "checked" /\ UNCHANGED go
    /\ UNCHANGED <<d, writer, alive, dataBits, recvBits, first, running, got, starts>>

Block ==
    /\ notifier = "checked"
    /\ notifier' = "blocked"
    /\ UNCHANGED <<alive, d, writer, go, dataBits, recvBits, flag, first, pc, running, got, starts>>

\* The loop ends; join() in StopDispatch returns.
ExitLoop ==
    /\ notifier = "scan" /\ ~alive
    /\ notifier' = "done"
    /\ UNCHANGED <<d, writer, alive, go, dataBits, recvBits, flag, first, pc, running, got, starts>>

\* StopDispatch, from the destructor: nobody reads or writes any more.
StopDispatch ==
    /\ alive
    /\ writer.at = "idle"
    /\ \A r \in Receivers : pc[r] = "off" /\ ~running[r]
    /\ alive' = FALSE
    /\ go' = TRUE
    /\ notifier' = Signalled
    /\ UNCHANGED <<d, writer, dataBits, recvBits, flag, first, pc, running, got, starts>>

WakeUp ==
    /\ notifier = "woken"
    /\ go' = FALSE
    /\ notifier' = "scan"
    /\ UNCHANGED <<alive, d, writer, dataBits, recvBits, flag, first, pc, running, got, starts>>

-----------------------------------------------------------------------------
(* Starting and stopping a receiver. *)

FreeSlot(b) == LET free == Slots \ {b.slot[r] : r \in Attached(b)}
               IN  CHOOSE s \in free : \A t \in free : s <= t

\* FindNextIndex for audio, behind a key frame.
NextAudio(b, i) ==
    LET later == {j \in (i + 1)..(Size(b) - 1) : MediaOf(At(b, j)) = "audio"}
    IN  IF later = {} THEN Invalid ELSE CHOOSE j \in later : \A k \in later : j <= k

FindLastIndex(b, m) == b.last[m]

\* Where a new receiver starts to read: the last key frame and the audio after it, or,
\* without a key frame, the last audio frame.
StartIndex(b) ==
    [m \in Media |->
        IF b.buf = <<>> THEN Invalid
        ELSE IF b.keys # <<>>
             THEN LET back == b.keys[Len(b.keys)] IN IF m = "video" THEN back ELSE NextAudio(b, back)
             ELSE IF m = "audio" THEN FindLastIndex(b, m) ELSE Invalid]

\* The data bits of a slot, one for audio and one for video.
IndexRef(s) == {s} \X Media

NotifyReadStart(r) == first' = [first EXCEPT ![r] = TRUE]

\* AttachReceiver, then the start of the reading thread.
Start(r) ==
    LET s == FreeSlot(d)
        ready == IF d.buf = <<>> THEN {} ELSE IF d.keys # <<>> THEN IndexRef(s) ELSE {<<s, "audio">>}
        asleep == IF d.buf = <<>> THEN Media
                  ELSE IF d.last["audio"] = Invalid THEN {"audio"} ELSE {}
    IN  /\ pc[r] = "off" /\ ~running[r] /\ alive
        /\ starts < MaxStarts
        /\ NotifyFree /\ BufferFree
        /\ starts' = starts + 1
        /\ running' = [running EXCEPT ![r] = TRUE]
        /\ NotifyReadStart(r)
        /\ pc' = [pc EXCEPT ![r] = "loop"]
        /\ d' = [d EXCEPT !.slot[r] = s, !.index[r] = StartIndex(d),
                          !.need = [m \in Media |-> @[m] \/ m \in asleep]]
        /\ dataBits' = (dataBits \ IndexRef(s)) \cup ready
        /\ UNCHANGED <<alive, writer, notifier, go, recvBits, flag, got>>

\* DetachReceiver: the slot is free again, the marks in the frames stay.
Detach(r) ==
    /\ d.slot[r] # NoSlot
    /\ running[r]
    /\ NotifyFree
    /\ recvBits' = recvBits \ IndexRef(d.slot[r])
    /\ d' = [d EXCEPT !.slot[r] = NoSlot, !.index[r] = Nowhere]
    /\ got' = [got EXCEPT ![r] = NoFrame]
    /\ UNCHANGED <<alive, writer, notifier, go, dataBits, flag, first, pc, running, starts>>

\* Variant with a fault: the reading thread is not woken.
SilentStop(r) ==
    /\ running[r]
    /\ d.slot[r] = NoSlot
    /\ running' = [running EXCEPT ![r] = FALSE]
    /\ UNCHANGED <<alive, d, writer, notifier, go, dataBits, recvBits, first, pc, got, starts, flag>>

\* The rest of Stop: NotifyReadStop, then join().
Stop(r) ==
    /\ running[r]
    /\ d.slot[r] = NoSlot
    /\ running' = [running EXCEPT ![r] = FALSE]
    /\ flag' = [flag EXCEPT ![r] = TRUE]
    /\ pc' = [pc EXCEPT ![r] = Roused(r)]
    /\ UNCHANGED <<alive, d, writer, notifier, go, dataBits, recvBits, first, got, starts>>

-----------------------------------------------------------------------------
(* The reading thread: RequestRead, again and again. *)

Bits(r) == {<<d.slot[r], m>> : m \in Wanted(r)}

IsDataReaded(r, i) == d.slot[r] \in At(d, i).read
IsRead(r, i) == i >= Size(d) \/ IsDataReaded(r, i)

DataAvailable(r) ==
    LET m == IF TypeOf[r] = "audio" THEN "audio" ELSE "video"
        i == d.index[r][m]
        end == IF TypeOf[r] = "av" THEN (IF Size(d) > 0 THEN Size(d) - 1 ELSE 0) ELSE d.last[m]
    IN  i # Invalid /\ (i < end \/ ~IsRead(r, i + 1))

\* NotifyReadReady of an attached receiver.
ReadReady(r) ==
    /\ recvBits' = recvBits \cup Bits(r)
    /\ IF DataAvailable(r)
       THEN /\ dataBits' = dataBits \cup Bits(r)
            /\ go' = TRUE
            /\ notifier' = Signalled
       ELSE /\ dataBits' = dataBits \ Bits(r)
            /\ UNCHANGED <<go, notifier>>

NotifyReadReady(r) ==
    /\ NotifyFree /\ BufferFree
    /\ IF d.slot[r] = NoSlot THEN UNCHANGED <<recvBits, dataBits, go, notifier>> ELSE ReadReady(r)

\* The loop of the reading thread, and the first call of NotifyReadReady.
BeginRead(r) ==
    /\ pc[r] = "loop"
    /\ IF ~running[r]
       THEN pc' = [pc EXCEPT ![r] = "off"] /\ UNCHANGED <<first, recvBits, dataBits, go, notifier>>
       ELSE /\ pc' = [pc EXCEPT ![r] = "wait"]
            /\ first' = [first EXCEPT ![r] = FALSE]
            /\ IF first[r] THEN NotifyReadReady(r) ELSE UNCHANGED <<recvBits, dataBits, go, notifier>>
    /\ UNCHANGED <<alive, d, writer, flag, running, got, starts>>

\* The wait for the flag, and ClearDataBit.
Woken(r) ==
    /\ pc[r] = "wait" /\ flag[r]
    /\ NotifyFree
    /\ flag' = [flag EXCEPT ![r] = FALSE]
    /\ dataBits' = dataBits \ Bits(r)
    /\ pc' = [pc EXCEPT ![r] = "clear"]
    /\ UNCHANGED <<alive, d, writer, notifier, go, recvBits, first, running, got, starts>>

\* The flag is not set: the thread goes to sleep, in two steps if something may come between.
Doze(r) ==
    /\ ReaderGap
    /\ pc[r] = "wait" /\ ~flag[r]
    /\ pc' = [pc EXCEPT ![r] = "gap"]
    /\ UNCHANGED <<alive, d, writer, notifier, go, dataBits, recvBits, flag, first, running, got, starts>>

FallAsleep(r) ==
    /\ pc[r] = "gap"
    /\ pc' = [pc EXCEPT ![r] = "asleep"]
    /\ UNCHANGED <<alive, d, writer, notifier, go, dataBits, recvBits, flag, first, running, got, starts>>

ClearReadBit(r) ==
    /\ pc[r] = "clear"
    /\ NotifyFree
    /\ recvBits' = recvBits \ Bits(r)
    /\ pc' = [pc EXCEPT ![r] = "read"]
    /\ UNCHANGED <<alive, d, writer, notifier, go, dataBits, flag, first, running, got, starts>>

GetReceiverReadIndex(r) ==
    LET a == d.index[r]["audio"]
        v == d.index[r]["video"]
    IN  CASE TypeOf[r] = "audio" -> a
          [] TypeOf[r] = "video" -> v
          [] TypeOf[r] = "av"    -> IF a <= v THEN a ELSE v

FindNextIndex(r, i) ==
    LET next == {j \in (i + 1)..(Size(d) - 1) : MediaOf(At(d, j)) \in Wanted(r)}
    IN  IF next = {} THEN i ELSE CHOOSE j \in next : \A k \in next : j <= k

\* Variant with a fault: the frame is not marked and the index starts over.
RashReadBufferData(r) ==
    LET i == GetReceiverReadIndex(r)
    IN  IF i >= Size(d) THEN UNCHANGED <<d, got>>
        ELSE /\ got' = [got EXCEPT ![r] = IF d.slot[r] \in At(d, i).read THEN @
                                          ELSE [kind |-> At(d, i).kind, n |-> At(d, i).n]]
             /\ d' = [d EXCEPT !.index[r] = [m \in Media |-> IF m \in Wanted(r) THEN 0 ELSE @[m]]]

\* The index of each kind that the receiver asks for moves on to its next frame.
UpdateReceiverReadIndex(r, i) ==
    [m \in Media |-> IF m \in Wanted(r) THEN FindNextIndex(r, i) ELSE d.index[r][m]]

SetReceiverReadFlag(r, i) == [d.buf EXCEPT ![i + 1].read = @ \cup {d.slot[r]}]

ReadBufferData(r) ==
    LET i == GetReceiverReadIndex(r)
        moved == [d EXCEPT !.index[r] = UpdateReceiverReadIndex(r, i)]
    IN  IF i >= Size(d) THEN UNCHANGED <<d, got>>
        ELSE IF IsDataReaded(r, i) THEN d' = moved /\ UNCHANGED got
        ELSE /\ d' = [moved EXCEPT !.buf = SetReceiverReadFlag(r, i)]
             /\ got' = [got EXCEPT ![r] = [kind |-> At(d, i).kind, n |-> At(d, i).n]]

Read(r) ==
    /\ pc[r] = "read"
    /\ NotifyFree /\ BufferFree
    /\ IF d.slot[r] = NoSlot THEN UNCHANGED <<d, got>> ELSE ReadBufferData(r)
    /\ pc' = [pc EXCEPT ![r] = "ready"]
    /\ UNCHANGED <<alive, writer, notifier, go, dataBits, recvBits, flag, first, running, starts>>

\* NotifyReadReady at the end of RequestRead.
ReadDone(r) ==
    /\ pc[r] = "ready"
    /\ NotifyReadReady(r)
    /\ pc' = [pc EXCEPT ![r] = IF TypeOf[r] = "av" THEN "reset" ELSE "loop"]
    /\ UNCHANGED <<alive, d, writer, flag, first, running, got, starts>>

\* dataReady_ = false: the last statement, for what the receiver of both kinds waits on.
ResetReady(r) ==
    /\ pc[r] = "reset"
    /\ flag' = [flag EXCEPT ![r] = FALSE]
    /\ pc' = [pc EXCEPT ![r] = "loop"]
    /\ UNCHANGED <<alive, d, writer, notifier, go, dataBits, recvBits, first, running, got, starts>>

Writer == (\E kind \in Kinds : InputData(kind)) \/ EraseStep \/ WriteDataIntoBuffer \/ Signal
WriterStep == EraseStep \/ WriteDataIntoBuffer \/ Signal
NotifyThreadWorker == Scan \/ Block \/ WakeUp \/ ExitLoop
Reader(r) == BeginRead(r) \/ Woken(r) \/ Doze(r) \/ FallAsleep(r) \/ ClearReadBit(r)
              \/ Read(r) \/ ReadDone(r) \/ ResetReady(r)

Next == \/ Writer
        \/ NotifyThreadWorker
        \/ StopDispatch
        \/ \E r \in Receivers : Start(r) \/ Detach(r) \/ Stop(r) \/ Reader(r)

\* Threads that can run do run; a Stop that has detached goes on.
Spec == /\ Init /\ [][Next]_vars
        /\ WF_vars(WriterStep)
        /\ WF_vars(NotifyThreadWorker)
        /\ \A r \in Receivers : SF_vars(Reader(r)) /\ WF_vars(Stop(r))

-----------------------------------------------------------------------------
(* Properties *)

IndexRange == 0..Invalid

\* Indices, counters and capacities stay in range although UpdateIndex and the eviction loops
\* decrement them.
TypeOK ==
    /\ \A i \in 1..Len(d.buf) : d.buf[i].kind \in Kinds /\ d.buf[i].read \subseteq Slots
    /\ d.cap \in 1..MaxCapacity /\ d.base \in 1..MaxCapacity
    /\ \A i \in 1..Len(d.keys) : d.keys[i] \in IndexRange
    /\ \A r \in Receivers, m \in Media : d.index[r][m] \in IndexRange
    /\ \A m \in Media : d.last[m] \in IndexRange /\ d.cnt[m] \in 0..MaxFrames
    /\ d.slot \in [Receivers -> Slots \cup {NoSlot}]
    /\ writer.at \in {"idle", "erase", "store", "stored"}
    /\ notifier \in {"scan", "checked", "blocked", "woken", "done"}
    /\ pc \in [Receivers -> {"off", "loop", "wait", "gap", "asleep", "clear", "read", "ready", "reset"}]

\* The buffer never holds more than its capacity, whatever resizes it: push_back would drop
\* the head and leave every index, and the counters, one place off.
WithinCapacity == Size(d) <= d.cap

\* The two frame counters, which decide about the capacity, count the frames that are there.
\* RestoreToNormalCapacity takes whatever it pops for audio.
FrameCountsAgree ==
    \A m \in Media : d.cnt[m] = Cardinality({i \in 1..Size(d) : MediaOf(d.buf[i]) = m})

\* keyIndexList_ is the list of the positions of key frames, in order, however frames leave.
KeyIndexesAreKeys ==
    /\ \A i \in 1..Len(d.keys) : d.keys[i] < Size(d) /\ IsKey(At(d, d.keys[i]))
    /\ \A i, j \in 1..Len(d.keys) : i < j => d.keys[i] < d.keys[j]

\* The ring, its counters and its list of key frames agree.
RingAgrees == WithinCapacity /\ FrameCountsAgree /\ KeyIndexesAreKeys

\* A receiver gets frames in the order they were written, and none twice, although its index
\* moves under it.
InOrder == [][\A r \in Receivers : got'[r] \in {got[r], NoFrame} \/ got'[r].n > got[r].n]_vars

\* The frames a receiver has still to be given.
Behind(r) == {i \in 0..(Size(d) - 1) : /\ MediaOf(At(d, i)) \in Wanted(r)
                                       /\ i >= GetReceiverReadIndex(r)
                                       /\ d.slot[r] \notin At(d, i).read}

\* Once the writer is silent the receiver of a play controller gets everything up to the newest
\* frame but one.  (A producer can lose a notification to the last statement of RequestRead.)
CatchesUp == \A r \in Receivers : TypeOf[r] # "av" => <>[](r \in Attached(d) => Cardinality(Behind(r)) <= 1)

\* A receiver that was stopped leaves RequestRead, so that join() returns.
StopReturns == \A r \in Receivers : [](~running[r] => <>(pc[r] = "off" \/ running[r]))

\* The start of the current group of pictures leaves the buffer only when a full buffer makes
\* room for the next frame: erasing old groups, restoring the capacity and flushing all keep
\* the last key frame.
HasKey(b) == \E i \in 1..Size(b) : IsKey(b.buf[i])
OnlyFullLosesKey == [][HasKey(d) /\ ~HasKey(d') => writer.at = "store" /\ Size(d) >= d.cap]_vars
=============================================================================
