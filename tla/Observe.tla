-------------------------------- MODULE Observe --------------------------------
(***************************************************************************)
(* The live observer of reac/observe.py: main's event loop over the raw    *)
(* sockets, the kernel that fills their receive queues, the clock, and the *)
(* operator's interrupt.                                                   *)
(*                                                                         *)
(* A frame is the stream it belongs to (iface, vlan, source); a frame on a *)
(* tagged socket may also be NOISE, any other 802.1Q traffic of the trunk. *)
(* What a frame says about its sender's role is modelled in RoleEvidence.  *)
(***************************************************************************)
EXTENDS Integers, Sequences, FiniteSets, SequencesExt, FiniteSetsExt

CONSTANTS
  Streams,       \* (iface, vlan, src) keys of the REAC sources on the wire
  Socks,         \* the sockets, two per interface
  SockOf,        \* the socket a stream's frames are delivered to
  TaggedSocks,   \* the sockets bound to 0x8100
  NOISE,         \* a frame that is not REAC
  NONE,          \* Python's None
  RcvBuf,        \* frames a socket's receive queue holds
  Deadlines,     \* what --seconds may be: times, NONE
  Interval,      \* --interval
  Sustained,     \* TRUE: traffic never stops
  MaxArrivals,   \* bound: frames that arrive, when the traffic is not sustained
  MaxTime,       \* bound: the clock stops here
  CountCap       \* bound: frame counters saturate here

ASSUME ObserveAssumption ==
  /\ SockOf \in [Streams -> Socks] /\ TaggedSocks \subseteq Socks
  /\ IsFiniteSet(Streams) /\ IsFiniteSet(Socks)
  /\ NOISE \notin Streams /\ NONE \notin Streams
  /\ RcvBuf \in Nat \ {0} /\ Interval \in Nat \ {0}
  /\ Deadlines \subseteq Nat \cup {NONE}
  /\ MaxArrivals \in Nat /\ MaxTime \in Nat /\ CountCap \in Nat
  /\ Sustained \in BOOLEAN

VARIABLES
  deadline,      \* deadline, NONE without --seconds
  clock,         \* time.monotonic()
  queue,         \* per socket, the kernel's receive queue
  arrived,       \* frames that reached the host
  accepted,      \* per stream, frames the kernel queued
  pc,            \* where main is
  ready,         \* sockets select returned and not yet drained
  wake,          \* when the pending select times out
  got,           \* the frame recv_sight returned
  at,            \* when it was read
  total,         \* Segments.total
  streams,       \* Segments.streams: a function on the keys seen
  acceptedAt,    \* per stream, "accepted" when its current window opened
  nextPrint,     \* next_print
  interrupted,   \* KeyboardInterrupt was raised
  status         \* exit status, NONE while running

kernelVars == <<queue, arrived, accepted>>
readVars == <<ready, got, at>>
countVars == <<total, streams, acceptedAt>>
endVars == <<deadline, interrupted, status>>
vars == <<clock, kernelVars, pc, readVars, wake, nextPrint, countVars, endVars>>

Bump(n) == IF n < CountCap THEN n + 1 ELSE n

NewStream == [frames |-> 0, frames_at_mark |-> 0, mark_ts |-> NONE,
              first_ts |-> NONE, window |-> NONE]

Expired(now) == deadline # NONE /\ now >= deadline

Init ==
  /\ deadline \in Deadlines
  /\ clock = 0
  /\ queue = [s \in Socks |-> <<>>]
  /\ arrived = 0
  /\ accepted = [k \in Streams |-> 0]
  /\ pc = "top"
  /\ ready = <<>>
  /\ wake = 0
  /\ got = NONE
  /\ at = 0
  /\ total = 0
  /\ streams = [k \in {} |-> NewStream]
  /\ acceptedAt = [k \in Streams |-> 0]
  /\ nextPrint = Interval
  /\ interrupted = FALSE
  /\ status = NONE

-------------------------------------------------------------------------------
(* The world: time passes and frames come in, whatever main is doing.      *)

Tick ==
  /\ clock < MaxTime /\ status = NONE
  /\ clock' = clock + 1
  /\ UNCHANGED <<kernelVars, pc, readVars, wake, nextPrint, countVars, endVars>>

\* The kernel queues a frame on its socket, or drops it when the queue is full.
Arrive(s, f) ==
  /\ Sustained \/ arrived < MaxArrivals
  /\ pc \notin {"final", "exited"}
  /\ arrived' = Bump(arrived)
  /\ IF Len(queue[s]) < RcvBuf
       THEN /\ queue' = [queue EXCEPT ![s] = Append(@, f)]
            /\ accepted' = [k \in Streams |-> IF k = f THEN Bump(accepted[k])
                                                       ELSE accepted[k]]
       ELSE UNCHANGED <<queue, accepted>>
  /\ UNCHANGED <<clock, pc, readVars, wake, nextPrint, countVars, endVars>>

Arrival ==
  \/ \E k \in Streams : Arrive(SockOf[k], k)
  \/ \E s \in TaggedSocks : Arrive(s, NOISE)

-------------------------------------------------------------------------------
(* main's loop.                                                            *)

\* Mutant: the deadline is left to the timeout of select.
LoopTopNoDeadline ==
  /\ pc = "top"
  /\ pc' = "select" /\ wake' = nextPrint
  /\ UNCHANGED <<clock, kernelVars, readVars, nextPrint, countVars, endVars>>

LoopTop ==
  /\ pc = "top"
  /\ IF Expired(clock)
       THEN pc' = "closing" /\ UNCHANGED wake
       ELSE /\ pc' = "select"
            /\ wake' = IF deadline = NONE \/ nextPrint < deadline THEN nextPrint
                                                                  ELSE deadline
  /\ UNCHANGED <<clock, kernelVars, readVars, nextPrint, countVars, endVars>>

\* Mutant: select is called without the timeout.
SelectNoTimeout ==
  /\ pc = "select"
  /\ LET readable == {s \in Socks : queue[s] # <<>>}
     IN  readable # {} /\ ready' \in SetToSeqs(readable)
  /\ pc' = "drain"
  /\ UNCHANGED <<clock, kernelVars, got, at, wake, nextPrint, countVars, endVars>>

\* select returns the readable sockets in any order, or none at the timeout.
Select ==
  /\ pc = "select"
  /\ LET readable == {s \in Socks : queue[s] # <<>>}
     IN  /\ readable # {} \/ clock >= wake
         /\ ready' \in SetToSeqs(readable)
  /\ pc' = "drain"
  /\ UNCHANGED <<clock, kernelVars, got, at, wake, nextPrint, countVars, endVars>>

\* Mutant: a foreign frame is looked at and left in the queue.
RecvNothingPeek ==
  /\ pc = "drain" /\ ready # <<>>
  /\ LET s == Head(ready) IN queue[s] # <<>> => Head(queue[s]) = NOISE
  /\ ready' = Tail(ready)
  /\ UNCHANGED <<clock, kernelVars, pc, got, at, wake, nextPrint, countVars, endVars>>

\* recv_sight has nothing to report, and main goes on to the next socket: the
\* queue is empty, or (the two read alike) its next frame is not REAC.
RecvNothing ==
  /\ pc = "drain" /\ ready # <<>>
  /\ LET s == Head(ready)
     IN  \/ queue[s] = <<>> /\ UNCHANGED queue
         \/ /\ queue[s] # <<>> /\ Head(queue[s]) = NOISE
            /\ queue' = [queue EXCEPT ![s] = Tail(@)]
  /\ ready' = Tail(ready)
  /\ UNCHANGED <<clock, arrived, accepted, pc, got, at, wake, nextPrint, countVars, endVars>>

RecvSight ==
  /\ pc = "drain" /\ ready # <<>>
  /\ LET s == Head(ready)
     IN  /\ queue[s] # <<>> /\ Head(queue[s]) # NOISE
         /\ got' = Head(queue[s])
         /\ queue' = [queue EXCEPT ![s] = Tail(@)]
         /\ acceptedAt' = IF got' \in DOMAIN streams THEN acceptedAt
                          ELSE [acceptedAt EXCEPT ![got'] = accepted[got']]
  /\ at' = clock
  /\ pc' = "count"
  /\ UNCHANGED <<clock, arrived, accepted, ready, wake, nextPrint, total, streams, endVars>>

\* Mutant: only a new stream is counted.
CountFrameOfNewStream ==
  /\ pc = "count"
  /\ total' = IF got \in DOMAIN streams THEN total ELSE Bump(total)
  /\ pc' = "insert"
  /\ UNCHANGED <<clock, kernelVars, readVars, wake, nextPrint, streams, acceptedAt, endVars>>

\* Segments.feed, cut where an interrupt can fall: count the frame ...
CountFrame ==
  /\ pc = "count"
  /\ total' = Bump(total)
  /\ pc' = "insert"
  /\ UNCHANGED <<clock, kernelVars, readVars, wake, nextPrint, streams, acceptedAt, endVars>>

\* Mutant: the stream is made anew for every frame.
FindStreamAnew ==
  /\ pc = "insert"
  /\ streams' = [k \in DOMAIN streams \cup {got} |->
                   IF k = got THEN NewStream ELSE streams[k]]
  /\ pc' = "feed"
  /\ UNCHANGED <<clock, kernelVars, readVars, wake, nextPrint, total, acceptedAt, endVars>>

\* ... look its stream up, making it on the first frame ...
FindStream ==
  /\ pc = "insert"
  /\ streams' = [k \in DOMAIN streams \cup {got} |->
                   IF k \in DOMAIN streams THEN streams[k] ELSE NewStream]
  /\ pc' = "feed"
  /\ UNCHANGED <<clock, kernelVars, readVars, wake, nextPrint, total, acceptedAt, endVars>>

\* ... and feed the stream.
FeedStream ==
  /\ pc = "feed"
  /\ streams' = [streams EXCEPT ![got].frames = Bump(@),
                                ![got].first_ts = IF @ = NONE THEN at ELSE @]
  /\ got' = NONE
  /\ pc' = "drain"
  /\ UNCHANGED <<clock, kernelVars, ready, at, wake, nextPrint, total, acceptedAt, endVars>>

\* Mutant: the mark's time moves and its count does not.
TickedKeepingCount(st, now) ==
  LET since == IF st.mark_ts # NONE THEN st.mark_ts ELSE st.first_ts
  IN  [st EXCEPT !.window = IF since # NONE /\ now > since
                              THEN [frames |-> st.frames - st.frames_at_mark,
                                    span   |-> now - since]
                              ELSE @,
                 !.mark_ts = now]

\* Stream.tick: the window since the last mark, or since the first frame.
Ticked(st, now) ==
  LET since == IF st.mark_ts # NONE THEN st.mark_ts ELSE st.first_ts
  IN  [st EXCEPT !.window = IF since # NONE /\ now > since
                              THEN [frames |-> st.frames - st.frames_at_mark,
                                    span   |-> now - since]
                              ELSE @,
                 !.frames_at_mark = st.frames,
                 !.mark_ts = now]

\* Segments.table: every stream is ticked as its row is rendered.
Table(now) ==
  /\ streams' = [k \in DOMAIN streams |-> Ticked(streams[k], now)]
  /\ acceptedAt' = [k \in Streams |->
                      IF k \in DOMAIN streams THEN accepted[k] ELSE acceptedAt[k]]

\* All sockets drained: print if it is time, but never past the deadline.
PeriodicPrint ==
  /\ pc = "drain" /\ ready = <<>>
  /\ IF clock < nextPrint
       THEN UNCHANGED <<streams, acceptedAt, nextPrint>>
       ELSE /\ nextPrint' = clock + Interval
            /\ IF Expired(clock) THEN UNCHANGED <<streams, acceptedAt>> ELSE Table(clock)
  /\ pc' = "top"
  /\ UNCHANGED <<clock, kernelVars, readVars, wake, total, endVars>>

\* KeyboardInterrupt, anywhere in the try block.
Interrupt ==
  /\ pc \in {"top", "select", "drain", "count", "insert", "feed"}
  /\ interrupted' = TRUE
  /\ pc' = "closing"
  /\ UNCHANGED <<clock, kernelVars, readVars, wake, nextPrint, countVars, deadline, status>>

\* The finally block closes every socket; what they still hold is gone.
CloseSockets ==
  /\ pc = "closing"
  /\ pc' = "final"
  /\ UNCHANGED <<clock, kernelVars, readVars, wake, nextPrint, countVars, endVars>>

\* Mutant: the exit status is the count.
FinalTableCountStatus ==
  /\ pc = "final"
  /\ Table(clock)
  /\ status' = total
  /\ pc' = "exited"
  /\ UNCHANGED <<clock, kernelVars, readVars, wake, nextPrint, total, deadline, interrupted>>

\* Mutant: the tap is called broken when no rate was measured.
FinalTableRateStatus ==
  /\ pc = "final"
  /\ Table(clock)
  /\ status' = IF \A k \in DOMAIN streams' : streams'[k].window = NONE THEN 1 ELSE 0
  /\ pc' = "exited"
  /\ UNCHANGED <<clock, kernelVars, readVars, wake, nextPrint, total, deadline, interrupted>>

FinalTable ==
  /\ pc = "final"
  /\ Table(clock)
  /\ status' = IF total = 0 THEN 1 ELSE 0
  /\ pc' = "exited"
  /\ UNCHANGED <<clock, kernelVars, readVars, wake, nextPrint, total, deadline, interrupted>>

Main ==
  \/ LoopTop \/ Select \/ RecvNothing \/ RecvSight
  \/ CountFrame \/ FindStream \/ FeedStream \/ PeriodicPrint
  \/ CloseSockets \/ FinalTable

Next == Tick \/ Arrival \/ Main \/ Interrupt

Spec == Init /\ [][Next]_vars

\* The observer keeps running and time keeps passing; nobody has to interrupt.
FairSpec == Spec /\ WF_vars(Main) /\ WF_vars(Tick)

\* Under sustained traffic frames keep coming too.
SustainedSpec == FairSpec /\ WF_vars(Arrival)

-------------------------------------------------------------------------------
TimeType == (0..MaxTime) \cup {NONE}

TypeOK ==
  /\ clock \in 0..MaxTime
  /\ \A s \in Socks : Len(queue[s]) <= RcvBuf /\ Range(queue[s]) \subseteq Streams \cup {NOISE}
  /\ arrived \in 0..CountCap /\ accepted \in [Streams -> 0..CountCap]
  /\ pc \in {"top", "select", "drain", "count", "insert", "feed", "closing", "final", "exited"}
  /\ got \in Streams \cup {NONE}
  /\ total \in 0..CountCap
  /\ DOMAIN streams \subseteq Streams
  /\ \A k \in DOMAIN streams :
       /\ streams[k].frames \in 0..CountCap /\ streams[k].frames_at_mark \in 0..CountCap
       /\ streams[k].mark_ts \in TimeType /\ streams[k].first_ts \in TimeType
  /\ status \in {NONE, 0, 1}

FramesOf(k) == IF k \in DOMAIN streams THEN streams[k].frames ELSE 0
Waiting(k) == Cardinality({i \in 1..Len(queue[SockOf[k]]) : queue[SockOf[k]][i] = k})
InHand(k) == IF got = k THEN 1 ELSE 0

\* Every frame the kernel accepted is counted in its stream once, is still in
\* the receive queue, or is the one in hand (recv_sight, Segments.feed): none
\* is lost where the drain stops early and none is counted twice, whenever the
\* interrupt falls.
EveryFrameAccountedFor ==
  \A k \in Streams : accepted[k] = FramesOf(k) + Waiting(k) + InHand(k)

\* The total that decides the exit status is the sum of the rows; it is one
\* ahead only between counting a frame and feeding its stream.
TotalIsSumOfRows ==
  LET rows == SumFunction([k \in Streams |-> FramesOf(k)])
  IN  \/ total = rows
      \/ total = rows + 1 /\ got # NONE /\ (pc \in {"insert", "feed"} \/ interrupted)

\* A row's packets-per-second window never counts more frames than came in
\* since its mark and one receive queue held at it (Stream.tick): a backlog can
\* overstate a rate by a full queue and no more.
WindowBoundedByArrivals ==
  \A k \in DOMAIN streams :
    streams[k].frames - streams[k].frames_at_mark <= accepted[k] - acceptedAt[k] + RcvBuf

\* The status says whether a frame was read, and a frame that was read is in
\* the final table unless the interrupt fell while it was being fed (main).
StatusTellsWhatWasSeen ==
  pc = "exited" =>
    /\ status = 1 => DOMAIN streams = {} /\ (got # NONE => interrupted)
    /\ status = 0 => (\E k \in Streams : FramesOf(k) > 0) \/ (got # NONE /\ interrupted)

\* A run with --seconds ends, once the deadline has passed (main).
DeadlineHonoured == Expired(clock) ~> pc = "exited"

\* A table that is due is printed or the run ends (main).
DueTableIsPrinted == (clock >= nextPrint) ~> (clock < nextPrint \/ pc = "exited")

\* A queued frame is read or the run ends, noise in front of it or not.
QueuesDrain ==
  \A s \in Socks : queue[s] # <<>> ~> (queue[s] = <<>> \/ pc = "exited")
===============================================================================
