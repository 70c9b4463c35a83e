--------------------------- MODULE FrameRecorder ---------------------------
(***************************************************************************)
(* Recording of frames (core/vnext/recorder_v6.py) and the storage that     *)
(* seals a recording (core/vnext/recording_storage_v6.py).  A capture       *)
(* thread hands packets to a writer through a bounded queue and never waits *)
(* for it: what does not fit, and what the strategy passes over, is written *)
(* down as a gap.  Users place markers and stop the recording from threads  *)
(* of their own.  One recording is followed from its first frame to the     *)
(* manifest that seals it, by the recorder or by the next process.          *)
(*                                                                         *)
(* Left out: pixels, target segments, the reason a recording ended for,     *)
(* the limits of time and disk (each ends the loop as a stop does), exports *)
(* and analysis reports.                                                    *)
(***************************************************************************)
EXTENDS Naturals, FiniteSets, Sequences, SequencesExt

CONSTANTS
    Strategies,     \* the strategies users choose
    MaxCaptures,    \* bound: frames captured
    WriterQueue,    \* capacity of the queue
    RingSize,       \* frames kept before a marker
    AfterMarker,    \* frames kept after a marker
    MaxMarkers,     \* bound: markers placed
    ErrorLimit,     \* errors in a row that end the recording
    DiskFails,      \* whether a write may fail
    HostStops       \* whether the process may end

ASSUME RecorderAssumption ==
    /\ Strategies \subseteq {"all_frames", "changed_frames", "diagnostic"}
    /\ MaxCaptures \in Nat \ {0} /\ MaxMarkers \in Nat
    /\ WriterQueue \in Nat \ {0} /\ RingSize \in Nat \ {0} /\ AfterMarker \in Nat
    /\ ErrorLimit \in Nat \ {0}
    /\ DiskFails \in BOOLEAN /\ HostStops \in BOOLEAN

VARIABLES
    strategy,   \* the options' strategy
    captured,   \* capture_count: the number of the last capture
    capturer,   \* the capture thread: step, number in hand, errors in a row
    writer,     \* the writer thread: step, number in hand
    waiting,    \* the queue; 0 asks the writer to end
    submitted,  \* _submitted_capture_sequences
    ring,       \* _diagnostic_ring
    post,       \* _diagnostic_post_remaining
    pending,    \* drops not yet written: [policy, backpressure]
    frames,     \* the index of frames: their numbers, in order
    gaps,       \* numbers covered by the index of drops
    stopping,   \* the stop event
    markers,
    seal,       \* whether the manifest is final
    trouble     \* history: errors, write failures, a writer left behind, a crash

recorderVars == <<strategy, captured, capturer, writer, waiting, submitted, ring, post,
                  pending, frames, gaps, stopping, markers, seal, trouble>>

\* What the threads share about packets on their way.
flow == <<waiting, submitted, ring, post, pending, frames, gaps>>

NoPending == [policy |-> {}, backpressure |-> {}]

\* The first frame is written before the threads start.
RecorderInit ==
    /\ strategy \in Strategies
    /\ captured = 1
    /\ capturer = [at |-> "loop", frame |-> 0, errors |-> 0]
    /\ writer = [at |-> "idle", frame |-> 0]
    /\ waiting = <<>>
    /\ submitted = {1}
    /\ ring = <<>>
    /\ post = 0
    /\ pending = NoPending
    /\ frames = <<1>>
    /\ gaps = {}
    /\ stopping = FALSE
    /\ markers = 0
    /\ seal = FALSE
    /\ trouble = {}

(* The capture thread.                                                     *)

\* Mutant: a frame that finds the queue full is forgotten.
Forgotten(n) == pending

\* _extend_drop("backpressure"); the pending range is extended or written.
Overflowed(n) == [pending EXCEPT !.backpressure = @ \cup {n}]

\* _submit after its look at what was submitted: the queue takes the packet and
\* the gap before it is written down, or the packet belongs to the gap.
PutInto(n) ==
    IF Len(waiting) < WriterQueue
    THEN /\ waiting' = Append(waiting, n)
         /\ submitted' = submitted \cup {n}
         /\ gaps' = gaps \cup pending.backpressure
         /\ pending' = [pending EXCEPT !.backpressure = {}]
    ELSE /\ pending' = Overflowed(n)
         /\ UNCHANGED <<waiting, submitted, gaps>>

\* A packet, changed or not, or the error of a driver; both use up a number.
capture_packet ==
    /\ capturer.at = "loop"
    /\ ~stopping /\ writer.at # "failed"
    /\ captured < MaxCaptures
    /\ captured' = captured + 1
    /\ \/ /\ capturer' = [at |-> "handle", frame |-> captured + 1, errors |-> 0]
          /\ UNCHANGED trouble
       \/ /\ capturer' = [at |-> IF capturer.errors + 1 >= ErrorLimit THEN "flush" ELSE "loop",
                          frame |-> 0, errors |-> capturer.errors + 1]
          /\ trouble' = trouble \cup {"capture"}
    /\ UNCHANGED <<strategy, writer, flow, stopping, markers, seal>>

\* _handle_packet up to _submit: the frame is kept, or passed over by policy.
handle_packet(changed) ==
    LET n == capturer.frame
        kept == strategy = "all_frames" \/ (strategy = "changed_frames" /\ changed)
        after == strategy = "diagnostic" /\ post > 0 IN
    /\ capturer.at = "handle"
    /\ IF strategy = "diagnostic"
       THEN /\ ring' = IF Len(ring) < RingSize THEN Append(ring, n) ELSE Append(Tail(ring), n)
            /\ post' = IF after THEN post - 1 ELSE post
            /\ UNCHANGED <<pending, gaps>>
       ELSE /\ gaps' = IF kept THEN gaps \cup pending.policy ELSE gaps
            /\ pending' = [pending EXCEPT !.policy = IF kept THEN {} ELSE @ \cup {n}]
            /\ UNCHANGED <<ring, post>>
    /\ capturer' = [capturer EXCEPT !.at = IF (kept \/ after) /\ n \notin submitted
                                           THEN "put" ELSE "loop"]
    /\ UNCHANGED <<strategy, captured, writer, waiting, submitted, frames, stopping, markers,
                   seal, trouble>>

put_packet ==
    /\ capturer.at = "put"
    /\ PutInto(capturer.frame)
    /\ capturer' = [capturer EXCEPT !.at = "loop"]
    /\ UNCHANGED <<strategy, captured, writer, ring, post, frames, stopping, markers, seal, trouble>>

capture_loop_ends ==
    /\ capturer.at = "loop"
    /\ stopping \/ writer.at = "failed" \/ captured = MaxCaptures
    /\ capturer' = [capturer EXCEPT !.at = "flush"]
    /\ UNCHANGED <<strategy, captured, writer, flow, stopping, markers, seal, trouble>>

\* The loop's finally: the ring, one packet at a time.
flush_ring ==
    LET left == SelectSeq(ring, LAMBDA n : n \notin submitted) IN
    /\ capturer.at = "flush"
    /\ IF strategy = "diagnostic" /\ left # <<>>
       THEN /\ PutInto(Head(left))
            /\ ring' = Tail(left)
            /\ UNCHANGED capturer
       ELSE /\ capturer' = [capturer EXCEPT !.at = "drain"]
            /\ gaps' = gaps \cup pending.policy \cup pending.backpressure
            /\ pending' = NoPending
            /\ UNCHANGED <<ring, waiting, submitted>>
    /\ UNCHANGED <<strategy, captured, writer, post, frames, stopping, markers, seal, trouble>>

WriterDone == writer.at \in {"failed", "ended"}

\* _drain_writer asks the writer to end, if there is room for the request.
drain_writer ==
    /\ capturer.at = "drain"
    /\ \/ /\ ~WriterDone /\ Len(waiting) < WriterQueue
          /\ waiting' = Append(waiting, 0)
          /\ capturer' = [capturer EXCEPT !.at = "join"]
          /\ UNCHANGED trouble
       \/ /\ WriterDone
          /\ capturer' = [capturer EXCEPT !.at = "finish"]
          /\ UNCHANGED <<waiting, trouble>>
       \/ /\ writer.at = "writing" /\ Len(waiting) = WriterQueue
          /\ capturer' = [capturer EXCEPT !.at = "finish"]
          /\ trouble' = trouble \cup {"late"}
          /\ UNCHANGED waiting
    /\ UNCHANGED <<strategy, captured, writer, submitted, ring, post, pending, frames, gaps,
                   stopping, markers, seal>>

\* It waits for the end, but no longer than its deadline.
join_writer ==
    /\ capturer.at = "join"
    /\ \/ WriterDone /\ UNCHANGED trouble
       \/ writer.at = "writing" /\ trouble' = trouble \cup {"late"}
    /\ capturer' = [capturer EXCEPT !.at = "finish"]
    /\ UNCHANGED <<strategy, captured, writer, flow, stopping, markers, seal>>

_finish ==
    /\ capturer.at = "finish"
    /\ seal' = TRUE
    /\ capturer' = [capturer EXCEPT !.at = "ended"]
    /\ UNCHANGED <<strategy, captured, writer, flow, stopping, markers, trouble>>

(* The writer thread.                                                      *)

writer_takes ==
    /\ writer.at = "idle"
    /\ waiting # <<>>
    /\ waiting' = Tail(waiting)
    /\ writer' = IF Head(waiting) = 0 THEN [at |-> "ended", frame |-> 0]
                 ELSE [at |-> "writing", frame |-> Head(waiting)]
    /\ UNCHANGED <<strategy, captured, capturer, submitted, ring, post, pending, frames, gaps,
                   stopping, markers, seal, trouble>>

write_packet ==
    /\ writer.at = "writing"
    /\ frames' = Append(frames, writer.frame)
    /\ submitted' = submitted \cup {writer.frame}
    /\ writer' = [at |-> "idle", frame |-> 0]
    /\ UNCHANGED <<strategy, captured, capturer, waiting, ring, post, pending, gaps, stopping,
                   markers, seal, trouble>>

\* The packet and all that wait behind it are written down as lost.
write_fails ==
    /\ DiskFails
    /\ writer.at = "writing"
    /\ gaps' = gaps \cup (({writer.frame} \cup ToSet(waiting)) \ (ToSet(frames) \cup {0}))
    /\ waiting' = <<>>
    /\ writer' = [at |-> "failed", frame |-> 0]
    /\ stopping' = TRUE
    /\ trouble' = trouble \cup {"write"}
    /\ UNCHANGED <<strategy, captured, capturer, submitted, ring, post, pending, frames, markers, seal>>

(* Users.                                                                  *)

\* mark_event; with the diagnostic strategy it submits the ring, which takes
\* the lock all the while: packets the capture thread has looked at excepted.
mark_event ==
    LET left == SelectSeq(ring, LAMBDA n : n \notin submitted)
        room == WriterQueue - Len(waiting)
        fits == SubSeq(left, 1, IF Len(left) < room THEN Len(left) ELSE room)
        rest == ToSet(left) \ ToSet(fits) IN
    /\ capturer.at # "ended"
    /\ markers < MaxMarkers
    /\ markers' = markers + 1
    /\ IF strategy = "diagnostic"
       THEN /\ waiting' = waiting \o fits
            /\ submitted' = submitted \cup ToSet(fits)
            /\ gaps' = IF fits # <<>> THEN gaps \cup pending.backpressure ELSE gaps
            /\ pending' = [pending EXCEPT !.backpressure =
                                (IF fits # <<>> THEN {} ELSE @) \cup rest]
            /\ post' = IF post > AfterMarker THEN post ELSE AfterMarker
       ELSE UNCHANGED <<waiting, submitted, gaps, pending, post>>
    /\ UNCHANGED <<strategy, captured, capturer, writer, ring, frames, stopping, seal, trouble>>

request_stop ==
    /\ capturer.at # "ended"
    /\ ~stopping
    /\ stopping' = TRUE
    /\ UNCHANGED <<strategy, captured, capturer, writer, flow, markers, seal, trouble>>

recorder_dies ==
    /\ HostStops
    /\ "crash" \notin trouble
    /\ trouble' = trouble \cup {"crash"}
    /\ capturer' = [capturer EXCEPT !.at = "dead"]
    /\ writer' = [at |-> "dead", frame |-> 0]
    /\ UNCHANGED <<strategy, captured, flow, stopping, markers, seal>>

\* _recover_interrupted_session, for the next process that looks at it.
recover_session ==
    /\ capturer.at = "dead"
    /\ ~seal
    /\ seal' = TRUE
    /\ UNCHANGED <<strategy, captured, capturer, writer, flow, stopping, markers, trouble>>

RecorderNext ==
    \/ capture_packet \/ put_packet \/ capture_loop_ends \/ flush_ring
    \/ \E changed \in BOOLEAN : handle_packet(changed)
    \/ drain_writer \/ join_writer \/ _finish
    \/ writer_takes \/ write_packet \/ write_fails
    \/ mark_event \/ request_stop \/ recorder_dies \/ recover_session

RecorderSpec == RecorderInit /\ [][RecorderNext]_recorderVars

----------------------------------------------------------------------------
(* Properties.                                                             *)

\* A sealed recording accounts for every capture: it is in the index of frames
\* or in a gap, and in one of them only.  This is so for the two strategies
\* that promise it, unless the driver or the disk failed, the writer was left
\* behind or the process ended.
EveryCaptureAccounted ==
    seal /\ strategy # "diagnostic" /\ trouble = {} =>
        /\ ToSet(frames) \cup gaps = 1..captured
        /\ ToSet(frames) \cap gaps = {}
=============================================================================
