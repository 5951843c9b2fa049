---------------------------- MODULE Observe_proofs ----------------------------
(***************************************************************************)
(* Proofs about the live observer: its accounting (Observe), for any       *)
(* streams, sockets and queue lengths, any number of arrivals and any      *)
(* order of them, of the clock, of the operator's interrupt and of the     *)
(* steps of main; and the rows and roles it tells its senders by           *)
(* (RoleEvidence), for any trunk of masters and boxes.                     *)
(***************************************************************************)
EXTENDS Observe, RoleEvidence, Lemmas

\* The traffic ends before the counters of the model would saturate.
CountersSuffice == ~Sustained /\ MaxArrivals <= CountCap

Counts == 0..CountCap
Rows == [frames : Counts, frames_at_mark : Counts, mark_ts : TimeType, first_ts : TimeType,
         window : [frames : Int, span : Int] \cup {NONE}]
Reading == {"top", "select", "drain"}
Feeding == {"count", "insert", "feed"}
Ending == {"closing", "final", "exited"}

Typed ==
  /\ clock \in 0..MaxTime /\ at \in 0..MaxTime
  /\ queue \in [Socks -> Seq(Streams \cup {NOISE})]
  /\ arrived \in Counts /\ accepted \in [Streams -> Counts]
  /\ pc \in Reading \cup Feeding \cup Ending
  /\ ready \in Seq(Socks)
  /\ got \in Streams \cup {NONE}
  /\ total \in Counts
  /\ DOMAIN streams \subseteq Streams /\ streams \in [DOMAIN streams -> Rows]
  /\ acceptedAt \in [Streams -> Counts]
  /\ interrupted \in BOOLEAN
  /\ status \in {NONE, 0, 1}

\* A queue holds no more than it can, and only frames of its own streams.
QueuesInBounds == \A s \in Socks : Len(queue[s]) <= RcvBuf
Routed ==
  \A s \in Socks : \A i \in 1..Len(queue[s]) :
    queue[s][i] \in Streams => SockOf[queue[s][i]] = s

\* A frame is in hand while it is being fed, or where the interrupt left it.
HandIsFed ==
  /\ pc \in Reading => got = NONE
  /\ pc \in Feeding => got \in Streams
  /\ pc = "feed" => got \in DOMAIN streams
  /\ pc \in Ending /\ got # NONE => interrupted

AcceptedHaveArrived == arrived <= MaxArrivals /\ \A k \in Streams : accepted[k] <= arrived

Seen == \E k \in Streams : FramesOf(k) > 0

\* The total is above zero from the first frame on, and rows come with it.
TotalTells ==
  /\ DOMAIN streams # {} => total > 0
  /\ pc \in {"insert", "feed"} => total > 0
  /\ total > 0 => Seen \/ got # NONE
  /\ pc = "exited" => status = IF total = 0 THEN 1 ELSE 0

\* At a mark one receive queue may be waiting, and at the end nothing comes in.
MarkWithinQueue ==
  IF pc = "exited"
    THEN \A k \in DOMAIN streams : streams[k].frames_at_mark = streams[k].frames
                                   /\ acceptedAt[k] = accepted[k]
    ELSE /\ \A k \in DOMAIN streams : acceptedAt[k] <= streams[k].frames_at_mark + RcvBuf
         /\ pc \in {"count", "insert"} /\ got \notin DOMAIN streams => acceptedAt[got] <= RcvBuf

\* The streams' frames came in one by one.
AcceptedAddUp == SumFunction(accepted) <= arrived

\* The total is ahead of the rows while a frame is counted and not yet fed, and
\* stays so where the interrupt fell in between.
RowSum == SumFunction([k \in Streams |-> FramesOf(k)])
TotalIsAhead ==
  /\ pc \in Reading \cup {"count"} => total = RowSum
  /\ pc \in {"insert", "feed"} => total = RowSum + 1
  /\ pc \in Ending => \/ total = RowSum
                      \/ total = RowSum + 1 /\ got # NONE /\ interrupted

IInv ==
  /\ Typed /\ QueuesInBounds /\ Routed /\ HandIsFed /\ AcceptedHaveArrived
  /\ EveryFrameAccountedFor /\ TotalTells /\ MarkWithinQueue /\ AcceptedAddUp /\ TotalIsAhead

-------------------------------------------------------------------------------
(* Counting in a queue.                                                     *)

Places(q, k) == {i \in 1..Len(q) : q[i] = k}
CountIn(q, k) == Cardinality(Places(q, k))

LEMMA PlacesFinite ==
  ASSUME NEW S, NEW q \in Seq(S), NEW k
  PROVE  /\ IsFiniteSet(Places(q, k)) /\ CountIn(q, k) \in Nat
         /\ CountIn(q, k) <= Len(q)
<1>1. Len(q) \in Nat /\ Places(q, k) \subseteq 1..Len(q)
  BY DEF Places
<1>2. IsFiniteSet(1..Len(q)) /\ Cardinality(1..Len(q)) = Len(q)
  <2>1. PICK n : n = Len(q)
    OBVIOUS
  <2>2. n \in Nat
    BY <1>1, <2>1
  <2>3. IsFiniteSet(1..n) /\ Cardinality(1..n) = (IF 1 > n THEN 0 ELSE n - 1 + 1)
    BY <2>2, FS_Interval
  <2>4. Cardinality(1..n) = n
    BY <2>2, <2>3
  <2> QED
    BY <2>1, <2>3, <2>4
<1> QED
  BY <1>1, <1>2, FS_Subset, FS_CardinalityType DEF CountIn

LEMMA CountEmpty == ASSUME NEW k PROVE CountIn(<<>>, k) = 0
<1>1. Places(<<>>, k) = {}
  BY DEF Places
<1> QED
  BY <1>1, FS_EmptySet DEF CountIn

\* A frame that comes in is one more of its own stream.
LEMMA CountAppend ==
  ASSUME NEW S, NEW q \in Seq(S), NEW f \in S, NEW k
  PROVE  CountIn(Append(q, f), k) = CountIn(q, k) + (IF f = k THEN 1 ELSE 0)
<1> DEFINE n == Len(q) + 1
           qf == Append(q, f)
<1>1. /\ Len(q) \in Nat /\ Len(qf) = n /\ qf[n] = f
      /\ \A i \in 1..Len(q) : qf[i] = q[i]
  OBVIOUS
<1>2. IsFiniteSet(Places(q, k)) /\ CountIn(q, k) \in Nat /\ n \notin Places(q, k)
  <2>1. n \notin Places(q, k)
    BY <1>1 DEF Places
  <2> QED
    BY <2>1, PlacesFinite
<1> HIDE DEF qf
<1>3. CASE f = k
  <2>1. Places(qf, k) = Places(q, k) \cup {n}
    BY <1>1, <1>3 DEF Places
  <2>2. CountIn(qf, k) = CountIn(q, k) + 1
    BY <1>2, <2>1, FS_AddElement DEF CountIn
  <2> QED
    BY <1>3, <2>2 DEF qf
<1>4. CASE f # k
  <2>1. Places(qf, k) = Places(q, k)
    BY <1>1, <1>4 DEF Places
  <2> QED
    BY <1>2, <1>4, <2>1 DEF CountIn, qf
<1> QED
  BY <1>3, <1>4

\* A frame that is read is one less.
LEMMA CountTail ==
  ASSUME NEW S, NEW q \in Seq(S), q # <<>>, NEW k
  PROVE  CountIn(q, k) = CountIn(Tail(q), k) + (IF Head(q) = k THEN 1 ELSE 0)
<1> DEFINE r == Tail(q)
           P == Places(r, k)
           T == {i \in 2..Len(q) : q[i] = k}
<1>1. /\ Len(q) \in Nat /\ Len(q) >= 1 /\ Len(r) = Len(q) - 1 /\ Head(q) = q[1] /\ r \in Seq(S)
      /\ \A i \in 1..Len(q) - 1 : r[i] = q[i + 1]
  OBVIOUS
<1> HIDE DEF r
<1>2. IsFiniteSet(P) /\ Cardinality(P) \in Nat
  BY <1>1, PlacesFinite DEF CountIn
<1>3. Cardinality(T) = Cardinality(P) /\ IsFiniteSet(T)
  <2> DEFINE g == [i \in P |-> i + 1]
  <2>1. \A i \in P : i \in Int /\ i + 1 \in T
    BY <1>1 DEF Places
  <2>2. \A j \in T : j - 1 \in P /\ (j - 1) + 1 = j
    BY <1>1 DEF Places
  <2>3. g \in [P -> T]
    BY <2>1
  <2>4. \A i, j \in P : g[i] = g[j] => i = j
    BY <2>1
  <2>5. \A j \in T : \E i \in P : g[i] = j
    BY <2>2
  <2>6. ExistsBijection(P, T)
    BY <2>3, <2>4, <2>5 DEF ExistsBijection, Bijection, Injection, Surjection, IsInjective
  <2> QED
    BY <1>2, <2>6, FS_Bijection
<1>4. CASE q[1] = k
  <2>1. Places(q, k) = T \cup {1} /\ 1 \notin T
    BY <1>1, <1>4 DEF Places
  <2> QED
    BY <1>1, <1>2, <1>3, <1>4, <2>1, FS_AddElement DEF CountIn, r
<1>5. CASE q[1] # k
  <2>1. Places(q, k) = T
    BY <1>1, <1>5 DEF Places
  <2> QED
    BY <1>1, <1>2, <1>3, <1>5, <2>1 DEF CountIn, r
<1> QED
  BY <1>4, <1>5

LEMMA WaitingIsCount == \A k \in Streams : Waiting(k) = CountIn(queue[SockOf[k]], k)
BY DEF Waiting, CountIn, Places

-------------------------------------------------------------------------------
(* Each part of the invariant, step by step.                                *)

LEMMA BumpType ==
  ASSUME NEW n \in Counts
  PROVE  /\ Bump(n) \in Counts /\ Bump(n) >= n
         /\ n < CountCap => Bump(n) = n + 1
BY ObserveAssumption DEF Bump, Counts

LEMMA TickedType ==
  ASSUME NEW st \in Rows, NEW now \in 0..MaxTime
  PROVE  /\ Ticked(st, now) \in Rows
         /\ Ticked(st, now).frames = st.frames
         /\ Ticked(st, now).frames_at_mark = st.frames
<1> DEFINE since == IF st.mark_ts # NONE THEN st.mark_ts ELSE st.first_ts
           w == IF since # NONE /\ now > since
                  THEN [frames |-> st.frames - st.frames_at_mark, span |-> now - since]
                  ELSE st.window
<1>1. /\ st.frames \in Counts /\ st.frames_at_mark \in Counts
      /\ st.frames \in Int /\ st.frames_at_mark \in Int
      /\ st.mark_ts \in TimeType /\ st.first_ts \in TimeType
      /\ st.window \in [frames : Int, span : Int] \cup {NONE}
  BY ObserveAssumption DEF Rows, Counts
<1>2. since \in TimeType /\ now \in Int /\ MaxTime \in Nat
  BY <1>1, ObserveAssumption
<1>3. since # NONE => since \in Int
  BY <1>2 DEF TimeType
<1> HIDE DEF since
<1>4. w \in [frames : Int, span : Int] \cup {NONE}
  BY <1>1, <1>2, <1>3
<1>5. now \in TimeType
  BY DEF TimeType
<1>6. Ticked(st, now) = [st EXCEPT !.window = w, !.frames_at_mark = st.frames, !.mark_ts = now]
  BY DEF Ticked, since
<1> HIDE DEF w
<1> QED
  BY <1>1, <1>4, <1>5, <1>6 DEF Rows

LEMMA TableKeeps ==
  ASSUME Typed, Table(clock)
  PROVE  /\ DOMAIN streams' = DOMAIN streams /\ streams' \in [DOMAIN streams -> Rows]
         /\ acceptedAt' \in [Streams -> Counts]
         /\ \A k \in DOMAIN streams : /\ streams'[k].frames = streams[k].frames
                                      /\ streams'[k].frames_at_mark = streams[k].frames
                                      /\ acceptedAt'[k] = accepted[k]
         /\ \A k \in Streams \ DOMAIN streams : acceptedAt'[k] = acceptedAt[k]
<1>1. \A k \in DOMAIN streams : streams[k] \in Rows /\ k \in Streams
  BY DEF Typed
<1>2. streams' = [k \in DOMAIN streams |-> Ticked(streams[k], clock)]
  BY DEF Table
<1>3. acceptedAt' = [k \in Streams |-> IF k \in DOMAIN streams THEN accepted[k] ELSE acceptedAt[k]]
  BY DEF Table
<1>4. clock \in 0..MaxTime /\ accepted \in [Streams -> Counts] /\ acceptedAt \in [Streams -> Counts]
  BY DEF Typed
<1>5. \A k \in DOMAIN streams : /\ Ticked(streams[k], clock) \in Rows
                                /\ Ticked(streams[k], clock).frames = streams[k].frames
                                /\ Ticked(streams[k], clock).frames_at_mark = streams[k].frames
  BY <1>1, <1>4, TickedType
<1> QED
  BY <1>1, <1>2, <1>3, <1>4, <1>5

LEMMA SeqsOfReadable ==
  ASSUME NEW R \in SUBSET Socks, NEW f \in SetToSeqs(R)
  PROVE  f \in Seq(Socks)
<1>1. IsFiniteSet(R) /\ Cardinality(R) \in Nat
  BY ObserveAssumption, FS_Subset, FS_CardinalityType
<1>2. f \in [1..Cardinality(R) -> R]
  BY DEF SetToSeqs
<1> QED
  BY <1>1, <1>2

LEMMA FeedStreamType ==
  ASSUME Typed, HandIsFed, FeedStream
  PROVE  /\ got \in Streams /\ got \in DOMAIN streams
         /\ DOMAIN streams' = DOMAIN streams /\ streams' \in [DOMAIN streams -> Rows]
         /\ streams'[got].frames = Bump(streams[got].frames)
         /\ streams'[got].frames_at_mark = streams[got].frames_at_mark
         /\ \A k \in DOMAIN streams \ {got} : streams'[k] = streams[k]
<1> DEFINE new == [streams[got] EXCEPT !.frames = Bump(@),
                                       !.first_ts = IF @ = NONE THEN at ELSE @]
<1>1. got \in Streams /\ got \in DOMAIN streams
  BY DEF FeedStream, HandIsFed, Feeding
<1>2. streams[got] \in Rows /\ streams \in [DOMAIN streams -> Rows]
  BY <1>1 DEF Typed
<1>3. streams' = [streams EXCEPT ![got] = new]
  BY DEF FeedStream
<1>4. at \in TimeType
  BY DEF Typed, TimeType
<1>5. /\ new \in Rows /\ new.frames = Bump(streams[got].frames)
      /\ new.frames_at_mark = streams[got].frames_at_mark
  <2>1. Bump(streams[got].frames) \in Counts
    BY <1>2, BumpType DEF Rows
  <2> QED
    BY <1>2, <1>4, <2>1 DEF Rows
<1> HIDE DEF new
<1> QED
  BY <1>1, <1>2, <1>3, <1>5

LEMMA FindStreamType ==
  ASSUME Typed, HandIsFed, FindStream
  PROVE  /\ got \in Streams
         /\ DOMAIN streams' = DOMAIN streams \cup {got} /\ streams' \in [DOMAIN streams' -> Rows]
         /\ \A k \in DOMAIN streams : streams'[k] = streams[k]
         /\ got \notin DOMAIN streams => streams'[got] = NewStream
<1>1. got \in Streams
  BY DEF FindStream, HandIsFed, Feeding
<1>2. \A k \in DOMAIN streams : streams[k] \in Rows
  BY DEF Typed
<1>3. NewStream \in Rows
  BY ObserveAssumption DEF NewStream, Rows, Counts, TimeType
<1>4. streams' = [k \in DOMAIN streams \cup {got} |->
                    IF k \in DOMAIN streams THEN streams[k] ELSE NewStream]
  BY DEF FindStream
<1> QED
  BY <1>1, <1>2, <1>3, <1>4

\* An arrival goes to the end of its stream's queue, or is dropped.
LEMMA ArrivalIs ==
  ASSUME Typed, Arrival
  PROVE  \E s \in Socks, f \in Streams \cup {NOISE} :
           /\ Arrive(s, f)
           /\ f \in Streams => s = SockOf[f]
<1>1. CASE \E k \in Streams : Arrive(SockOf[k], k)
  BY <1>1, ObserveAssumption
<1>2. CASE \E s \in TaggedSocks : Arrive(s, NOISE)
  BY <1>2, ObserveAssumption
<1> QED
  BY <1>1, <1>2 DEF Arrival

LEMMA ArriveType ==
  ASSUME Typed, NEW s \in Socks, NEW f \in Streams \cup {NOISE}, Arrive(s, f)
  PROVE  /\ queue' \in [Socks -> Seq(Streams \cup {NOISE})]
         /\ arrived' \in Counts /\ accepted' \in [Streams -> Counts]
         /\ \A k \in Streams : accepted'[k] \in {accepted[k], Bump(accepted[k])}
<1>1. arrived' \in Counts
  BY BumpType DEF Typed, Arrive
<1>2. CASE Len(queue[s]) < RcvBuf
  <2>1. /\ queue' = [queue EXCEPT ![s] = Append(@, f)]
        /\ accepted' = [k \in Streams |-> IF k = f THEN Bump(accepted[k]) ELSE accepted[k]]
    BY <1>2 DEF Arrive
  <2>2. \A k \in Streams : Bump(accepted[k]) \in Counts /\ accepted[k] \in Counts
    BY BumpType DEF Typed
  <2>3. queue[s] \in Seq(Streams \cup {NOISE})
    BY DEF Typed
  <2>4. Append(queue[s], f) \in Seq(Streams \cup {NOISE})
    BY <2>3
  <2>5. queue' \in [Socks -> Seq(Streams \cup {NOISE})]
    BY <2>1, <2>4 DEF Typed
  <2> QED
    BY <1>1, <2>1, <2>2, <2>5
<1>3. CASE ~(Len(queue[s]) < RcvBuf)
  BY <1>1, <1>3 DEF Arrive, Typed
<1> QED
  BY <1>2, <1>3

\* What a read leaves of a queue.
LEMMA ReadLeaves ==
  ASSUME Typed, pc = "drain", ready # <<>>, NEW s, s = Head(ready), queue[s] # <<>>,
         queue' = [queue EXCEPT ![s] = Tail(@)]
  PROVE  /\ s \in Socks /\ queue[s] \in Seq(Streams \cup {NOISE})
         /\ Head(queue[s]) \in Streams \cup {NOISE} /\ Head(queue[s]) = queue[s][1]
         /\ queue'[s] = Tail(queue[s])
         /\ \A t \in Socks \ {s} : queue'[t] = queue[t]
         /\ queue' \in [Socks -> Seq(Streams \cup {NOISE})]
         /\ Len(queue[s]) \in Nat /\ Len(queue[s]) >= 1
         /\ Len(queue'[s]) = Len(queue[s]) - 1
         /\ \A i \in 1..Len(queue[s]) - 1 : queue'[s][i] = queue[s][i + 1]
<1>1. s \in Socks
  BY DEF Typed
<1>2. queue[s] \in Seq(Streams \cup {NOISE})
  BY <1>1 DEF Typed
<1>3. /\ Head(queue[s]) \in Streams \cup {NOISE} /\ Head(queue[s]) = queue[s][1]
      /\ Tail(queue[s]) \in Seq(Streams \cup {NOISE})
      /\ Len(queue[s]) \in Nat /\ Len(queue[s]) >= 1
      /\ Len(Tail(queue[s])) = Len(queue[s]) - 1
      /\ \A i \in 1..Len(queue[s]) - 1 : Tail(queue[s])[i] = queue[s][i + 1]
  <2> DEFINE q == queue[s]
  <2>1. q \in Seq(Streams \cup {NOISE}) /\ q # <<>>
    BY <1>2
  <2> HIDE DEF q
  <2>2. /\ Head(q) \in Streams \cup {NOISE} /\ Head(q) = q[1]
        /\ Tail(q) \in Seq(Streams \cup {NOISE})
        /\ Len(q) \in Nat /\ Len(q) >= 1
        /\ Len(Tail(q)) = Len(q) - 1
        /\ \A i \in 1..Len(q) - 1 : Tail(q)[i] = q[i + 1]
    BY <2>1
  <2> QED
    BY <2>2 DEF q
<1>4. queue'[s] = Tail(queue[s]) /\ \A t \in Socks \ {s} : queue'[t] = queue[t]
  BY <1>1 DEF Typed
<1>5. queue' \in [Socks -> Seq(Streams \cup {NOISE})]
  BY <1>1, <1>3 DEF Typed
<1> QED
  BY <1>1, <1>2, <1>3, <1>4, <1>5

LEMMA TypedNext ==
  ASSUME Typed, HandIsFed, [Next]_vars
  PROVE  Typed'
<1> USE DEF Reading, Feeding, Ending
<1>1. CASE Tick
  <2>1. clock' \in 0..MaxTime
    BY <1>1, ObserveAssumption DEF Tick, Typed
  <2> QED
    BY <1>1, <2>1 DEF Tick, Typed, kernelVars, readVars, countVars, endVars
<1>2. CASE Arrival
  <2>1. PICK s \in Socks, f \in Streams \cup {NOISE} : Arrive(s, f)
    BY <1>2, ArrivalIs
  <2>2. UNCHANGED <<clock, pc, readVars, wake, nextPrint, countVars, endVars>>
    BY <2>1 DEF Arrive
  <2> QED
    BY <2>1, <2>2, ArriveType DEF Typed, readVars, countVars, endVars
<1>3. CASE LoopTop
  BY <1>3 DEF LoopTop, Typed, kernelVars, readVars, countVars, endVars
<1>4. CASE Select
  <2>1. ready' \in Seq(Socks)
    BY <1>4, SeqsOfReadable DEF Select
  <2> QED
    BY <1>4, <2>1 DEF Select, Typed, kernelVars, countVars, endVars
<1>5. CASE RecvNothing
  <2>1. ready' \in Seq(Socks)
    BY <1>5 DEF RecvNothing, Typed
  <2>2. queue' \in [Socks -> Seq(Streams \cup {NOISE})]
    BY <1>5, ReadLeaves DEF RecvNothing, Typed
  <2> QED
    BY <1>5, <2>1, <2>2 DEF RecvNothing, Typed, countVars, endVars
<1>6. CASE RecvSight
  <2>1. PICK s : /\ s = Head(ready) /\ queue[s] # <<>> /\ queue' = [queue EXCEPT ![s] = Tail(@)]
                 /\ got' = Head(queue[s]) /\ Head(queue[s]) # NOISE
    BY <1>6 DEF RecvSight
  <2>2. queue' \in [Socks -> Seq(Streams \cup {NOISE})] /\ got' \in Streams
    BY <1>6, <2>1, ReadLeaves DEF RecvSight
  <2>3. acceptedAt' \in [Streams -> Counts]
    BY <1>6, <2>2 DEF RecvSight, Typed
  <2>4. UNCHANGED <<clock, arrived, accepted, ready, wake, nextPrint, total, streams, endVars>>
        /\ at' = clock /\ pc' = "count"
    BY <1>6 DEF RecvSight
  <2> QED
    BY <2>2, <2>3, <2>4 DEF Typed, endVars
<1>7. CASE CountFrame
  <2>1. total' \in Counts
    BY <1>7, BumpType DEF CountFrame, Typed
  <2> QED
    BY <1>7, <2>1 DEF CountFrame, Typed, kernelVars, readVars, endVars
<1>8. CASE FindStream
  <2>1. DOMAIN streams' \subseteq Streams /\ streams' \in [DOMAIN streams' -> Rows]
    BY <1>8, FindStreamType DEF Typed
  <2> QED
    BY <1>8, <2>1 DEF FindStream, Typed, kernelVars, readVars, endVars
<1>9. CASE FeedStream
  <2>1. DOMAIN streams' \subseteq Streams /\ streams' \in [DOMAIN streams' -> Rows]
    BY <1>9, FeedStreamType DEF Typed
  <2> QED
    BY <1>9, <2>1 DEF FeedStream, Typed, kernelVars, endVars
<1>10. CASE PeriodicPrint
  <2>1. /\ DOMAIN streams' \subseteq Streams /\ streams' \in [DOMAIN streams' -> Rows]
        /\ acceptedAt' \in [Streams -> Counts]
    <3>1. Table(clock) \/ UNCHANGED <<streams, acceptedAt>>
      BY <1>10 DEF PeriodicPrint
    <3> QED
      BY <3>1, TableKeeps DEF Typed
  <2> QED
    BY <1>10, <2>1 DEF PeriodicPrint, Typed, kernelVars, readVars, endVars
<1>11. CASE CloseSockets
  BY <1>11 DEF CloseSockets, Typed, kernelVars, readVars, countVars, endVars
<1>12. CASE FinalTable
  <2>1. /\ DOMAIN streams' \subseteq Streams /\ streams' \in [DOMAIN streams' -> Rows]
        /\ acceptedAt' \in [Streams -> Counts]
    BY <1>12, TableKeeps DEF Typed, FinalTable
  <2> QED
    BY <1>12, <2>1 DEF FinalTable, Typed, kernelVars, readVars
<1>13. CASE Interrupt
  BY <1>13 DEF Interrupt, Typed, kernelVars, readVars, countVars
<1>14. CASE UNCHANGED vars
  BY <1>14 DEF vars, Typed, kernelVars, readVars, countVars, endVars
<1> QED
  BY <1>1, <1>2, <1>3, <1>4, <1>5, <1>6, <1>7, <1>8, <1>9, <1>10, <1>11, <1>12, <1>13, <1>14
     DEF Next, Main

LEMMA QueuesNext ==
  ASSUME Typed, QueuesInBounds, Routed, [Next]_vars
  PROVE  QueuesInBounds' /\ Routed'
<1>1. CASE UNCHANGED queue
  BY <1>1 DEF QueuesInBounds, Routed
<1>2. ASSUME NEW s \in Socks, NEW f \in Streams \cup {NOISE}, f \in Streams => s = SockOf[f],
             Len(queue[s]) < RcvBuf, queue' = [queue EXCEPT ![s] = Append(@, f)]
      PROVE  QueuesInBounds' /\ Routed'
  <2>1. queue[s] \in Seq(Streams \cup {NOISE}) /\ Len(queue[s]) \in Nat
    BY DEF Typed
  <2>2. queue'[s] = Append(queue[s], f) /\ \A t \in Socks \ {s} : queue'[t] = queue[t]
    BY <1>2 DEF Typed
  <2>3. /\ Len(queue'[s]) = Len(queue[s]) + 1 /\ queue'[s][Len(queue[s]) + 1] = f
        /\ \A i \in 1..Len(queue[s]) : queue'[s][i] = queue[s][i]
    BY <2>1, <2>2
  <2>4. QueuesInBounds'
    BY <1>2, <2>1, <2>2, <2>3, ObserveAssumption DEF QueuesInBounds
  <2>5. ASSUME NEW i \in 1..Len(queue'[s]), queue'[s][i] \in Streams
        PROVE  SockOf[queue'[s][i]] = s
    <3>1. CASE i \in 1..Len(queue[s])
      BY <2>3, <2>5, <3>1 DEF Routed
    <3>2. CASE i = Len(queue[s]) + 1
      BY <1>2, <2>3, <2>5, <3>2
    <3> QED
      BY <2>1, <2>3, <3>1, <3>2
  <2> QED
    BY <2>2, <2>4, <2>5 DEF Routed
<1>3. ASSUME pc = "drain", ready # <<>>, NEW s, s = Head(ready), queue[s] # <<>>,
             queue' = [queue EXCEPT ![s] = Tail(@)]
      PROVE  QueuesInBounds' /\ Routed'
  <2>1. /\ s \in Socks /\ Len(queue[s]) \in Nat /\ Len(queue'[s]) = Len(queue[s]) - 1
        /\ \A t \in Socks \ {s} : queue'[t] = queue[t]
        /\ \A i \in 1..Len(queue[s]) - 1 : queue'[s][i] = queue[s][i + 1]
    BY <1>3, ReadLeaves
  <2>2. QueuesInBounds'
    BY <2>1, ObserveAssumption DEF QueuesInBounds
  <2>3. ASSUME NEW i \in 1..Len(queue'[s]), queue'[s][i] \in Streams
        PROVE  SockOf[queue'[s][i]] = s
    <3>1. i + 1 \in 1..Len(queue[s]) /\ queue'[s][i] = queue[s][i + 1]
      BY <2>1
    <3> QED
      BY <2>1, <2>3, <3>1 DEF Routed
  <2>4. ASSUME NEW t \in Socks, NEW i \in 1..Len(queue'[t]), queue'[t][i] \in Streams
        PROVE  SockOf[queue'[t][i]] = t
    <3>1. CASE t = s
      BY <2>3, <2>4, <3>1
    <3>2. CASE t # s
      <4>1. queue'[t] = queue[t]
        BY <2>1, <3>2
      <4> QED
        BY <2>4, <4>1 DEF Routed
    <3> QED
      BY <3>1, <3>2
  <2> QED
    BY <2>2, <2>4 DEF Routed
<1>4. CASE Arrival
  BY <1>1, <1>2, <1>4, ArrivalIs DEF Arrive
<1>5. CASE RecvNothing \/ RecvSight
  <2>1. PICK s : s = Head(ready)
    OBVIOUS
  <2>2. /\ pc = "drain" /\ ready # <<>>
        /\ \/ UNCHANGED queue
           \/ queue[s] # <<>> /\ queue' = [queue EXCEPT ![s] = Tail(@)]
    BY <1>5, <2>1 DEF RecvNothing, RecvSight
  <2> QED
    BY <1>1, <1>3, <2>1, <2>2
<1>6. Arrival \/ RecvNothing \/ RecvSight \/ UNCHANGED queue
  BY DEF Next, Main, Tick, LoopTop, Select, CountFrame, FindStream, FeedStream, PeriodicPrint,
         CloseSockets, FinalTable, Interrupt, vars, kernelVars
<1> QED
  BY <1>1, <1>4, <1>5, <1>6

LEMMA HandNext ==
  ASSUME Typed, HandIsFed, [Next]_vars
  PROVE  HandIsFed'
<1> USE DEF HandIsFed, Reading, Feeding, Ending
<1>1. CASE Tick \/ Arrival
  BY <1>1 DEF Tick, Arrival, Arrive, readVars, countVars, endVars
<1>2. CASE LoopTop \/ Select
  BY <1>2 DEF LoopTop, Select, readVars, countVars, endVars
<1>3. CASE RecvNothing
  BY <1>3 DEF RecvNothing, countVars, endVars
<1>4. CASE RecvSight
  <2>1. got' \in Streams /\ pc' = "count"
    BY <1>4, ReadLeaves DEF RecvSight
  <2> QED
    BY <2>1
<1>5. CASE CountFrame
  BY <1>5 DEF CountFrame, readVars, endVars
<1>6. CASE FindStream
  BY <1>6, FindStreamType DEF FindStream, readVars, endVars
<1>7. CASE FeedStream
  BY <1>7 DEF FeedStream, endVars
<1>8. CASE PeriodicPrint
  BY <1>8 DEF PeriodicPrint, readVars, endVars
<1>9. CASE CloseSockets
  BY <1>9 DEF CloseSockets, readVars, countVars, endVars
<1>10. CASE FinalTable
  BY <1>10 DEF FinalTable, readVars
<1>11. CASE Interrupt
  BY <1>11 DEF Interrupt, readVars, countVars
<1>12. CASE UNCHANGED vars
  BY <1>12 DEF vars, readVars, countVars, endVars
<1> QED
  BY <1>1, <1>2, <1>3, <1>4, <1>5, <1>6, <1>7, <1>8, <1>9, <1>10, <1>11, <1>12 DEF Next, Main

LEMMA AcceptedNext ==
  ASSUME CountersSuffice, Typed, AcceptedHaveArrived, [Next]_vars
  PROVE  AcceptedHaveArrived'
<1>1. CASE UNCHANGED <<arrived, accepted>>
  BY <1>1 DEF AcceptedHaveArrived
<1>2. CASE Arrival
  <2>1. PICK s \in Socks, f \in Streams \cup {NOISE} : Arrive(s, f)
    BY <1>2, ArrivalIs
  <2>2. /\ arrived \in Nat /\ MaxArrivals \in Nat /\ CountCap \in Nat
        /\ \A k \in Streams : accepted[k] \in Counts /\ accepted[k] \in Nat
    BY ObserveAssumption DEF Typed, Counts
  <2>3. arrived < MaxArrivals /\ arrived' = arrived + 1
    BY <2>1, <2>2 DEF Arrive, CountersSuffice, Bump
  <2>4. \A k \in Streams : accepted'[k] \in {accepted[k], Bump(accepted[k])}
    BY <2>1, ArriveType
  <2>5. ASSUME NEW k \in Streams PROVE accepted'[k] <= arrived'
    <3>1. Bump(accepted[k]) <= accepted[k] + 1
      BY <2>2 DEF Bump
    <3> QED
      BY <2>2, <2>3, <2>4, <3>1, BumpType DEF AcceptedHaveArrived, Counts
  <2> QED
    BY <2>2, <2>3, <2>5 DEF AcceptedHaveArrived
<1>3. Arrival \/ UNCHANGED <<arrived, accepted>>
  BY DEF Next, Main, Tick, LoopTop, Select, CountFrame, FindStream, FeedStream, PeriodicPrint,
         RecvNothing, RecvSight, CloseSockets, FinalTable, Interrupt, vars, kernelVars
<1> QED
  BY <1>1, <1>2, <1>3

-------------------------------------------------------------------------------
(* Every frame accepted is somewhere.                                       *)

LEMMA WaitingAfterAppend ==
  ASSUME Typed, NEW s \in Socks, NEW f \in Streams \cup {NOISE}, f \in Streams => s = SockOf[f],
         queue' = [queue EXCEPT ![s] = Append(@, f)], NEW k \in Streams
  PROVE  Waiting(k)' = Waiting(k) + (IF f = k THEN 1 ELSE 0)
<1>1. /\ queue[s] \in Seq(Streams \cup {NOISE}) /\ queue'[s] = Append(queue[s], f)
      /\ \A t \in Socks \ {s} : queue'[t] = queue[t]
      /\ SockOf[k] \in Socks /\ queue[SockOf[k]] \in Seq(Streams \cup {NOISE})
  BY ObserveAssumption DEF Typed
<1>2. Waiting(k) = CountIn(queue[SockOf[k]], k) /\ Waiting(k)' = CountIn(queue'[SockOf[k]], k)
  BY DEF Waiting, CountIn, Places
<1>3. CountIn(queue[SockOf[k]], k) \in Nat
  BY <1>1, PlacesFinite
<1>4. CASE SockOf[k] = s
  BY <1>1, <1>2, <1>4, CountAppend
<1>5. CASE SockOf[k] # s
  <2>1. f # k /\ queue'[SockOf[k]] = queue[SockOf[k]]
    BY <1>1, <1>5
  <2> QED
    BY <1>2, <1>3, <2>1
<1> QED
  BY <1>4, <1>5

LEMMA WaitingAfterTail ==
  ASSUME Typed, Routed, pc = "drain", ready # <<>>, NEW s, s = Head(ready), queue[s] # <<>>,
         queue' = [queue EXCEPT ![s] = Tail(@)], NEW k \in Streams
  PROVE  /\ Waiting(k) = Waiting(k)' + (IF Head(queue[s]) = k THEN 1 ELSE 0)
         /\ Waiting(k)' \in Nat
<1>1. /\ s \in Socks /\ queue[s] \in Seq(Streams \cup {NOISE}) /\ queue'[s] = Tail(queue[s])
      /\ \A t \in Socks \ {s} : queue'[t] = queue[t]
      /\ queue' \in [Socks -> Seq(Streams \cup {NOISE})]
      /\ Len(queue[s]) \in Nat /\ Len(queue[s]) >= 1
      /\ Head(queue[s]) = queue[s][1]
  BY ReadLeaves
<1>2. Waiting(k) = CountIn(queue[SockOf[k]], k) /\ Waiting(k)' = CountIn(queue'[SockOf[k]], k)
  BY DEF Waiting, CountIn, Places
<1>3. SockOf[k] \in Socks
  BY ObserveAssumption
<1>4. CountIn(queue'[SockOf[k]], k) \in Nat
  BY <1>1, <1>3, PlacesFinite
<1>5. CASE SockOf[k] = s
  BY <1>1, <1>2, <1>4, <1>5, CountTail
<1>6. CASE SockOf[k] # s
  <2>1. Head(queue[s]) # k /\ queue'[SockOf[k]] = queue[SockOf[k]]
    BY <1>1, <1>3, <1>6 DEF Routed
  <2> QED
    BY <1>2, <1>4, <2>1
<1> QED
  BY <1>2, <1>4, <1>5, <1>6

\* Steps that count, read and queue nothing.
LEMMA FramesStay ==
  ASSUME Typed, HandIsFed, NEW k \in Streams,
         \/ UNCHANGED streams
         \/ FindStream
         \/ PeriodicPrint
         \/ FinalTable
  PROVE  FramesOf(k)' = FramesOf(k)
<1>1. CASE UNCHANGED streams
  BY <1>1 DEF FramesOf
<1>2. CASE FindStream
  BY <1>2, FindStreamType DEF FramesOf, NewStream
<1>3. CASE Table(clock)
  BY <1>3, TableKeeps DEF FramesOf
<1> QED
  BY <1>1, <1>2, <1>3 DEF PeriodicPrint, FinalTable

LEMMA CountsAreNumbers ==
  ASSUME Typed, NEW k \in Streams
  PROVE  FramesOf(k) \in Counts /\ FramesOf(k) \in Nat /\ InHand(k) \in {0, 1}
         /\ Waiting(k) \in Nat /\ accepted[k] \in Nat /\ Counts \subseteq Nat
<1>1. queue[SockOf[k]] \in Seq(Streams \cup {NOISE})
  BY ObserveAssumption DEF Typed
<1>2. Waiting(k) \in Nat
  BY <1>1, WaitingIsCount, PlacesFinite
<1>3. FramesOf(k) \in Counts /\ Counts \subseteq Nat
  <2>1. Counts \subseteq Nat /\ 0 \in Counts
    BY ObserveAssumption DEF Counts
  <2>2. CASE k \in DOMAIN streams
    <3>1. streams[k] \in Rows
      BY <2>2 DEF Typed
    <3> QED
      BY <2>1, <2>2, <3>1 DEF FramesOf, Rows
  <2> QED
    BY <2>1, <2>2 DEF FramesOf
<1>4. accepted[k] \in Nat
  BY <1>3 DEF Typed
<1> QED
  BY <1>2, <1>3, <1>4 DEF InHand

\* No counter saturates while a frame is still to come, to be read or to be fed.
LEMMA BelowCap ==
  ASSUME CountersSuffice, Typed, AcceptedHaveArrived, EveryFrameAccountedFor
  PROVE  /\ CountCap \in Nat
         /\ Arrival => \A k \in Streams : Bump(accepted[k]) = accepted[k] + 1
         /\ \A k \in Streams : /\ accepted[k] <= CountCap
                               /\ got = k => FramesOf(k) < CountCap /\ CountCap > 0
<1>1. /\ arrived \in Nat /\ MaxArrivals \in Nat /\ CountCap \in Nat
      /\ MaxArrivals <= CountCap /\ arrived <= MaxArrivals
  BY ObserveAssumption DEF Typed, Counts, CountersSuffice, AcceptedHaveArrived
<1>2. ASSUME NEW k \in Streams
      PROVE  accepted[k] \in Nat /\ accepted[k] <= arrived /\ accepted[k] <= CountCap
  BY <1>1, CountsAreNumbers DEF AcceptedHaveArrived
<1>3. ASSUME Arrival, NEW k \in Streams
      PROVE  Bump(accepted[k]) = accepted[k] + 1
  <2>1. arrived < MaxArrivals
    BY <1>3 DEF Arrival, Arrive, CountersSuffice
  <2> QED
    BY <1>1, <1>2, <2>1 DEF Bump
<1>4. ASSUME NEW k \in Streams, got = k
      PROVE  FramesOf(k) < CountCap /\ CountCap > 0
  <2>1. InHand(k) = 1
    BY <1>4 DEF InHand
  <2>2. accepted[k] = FramesOf(k) + Waiting(k) + 1
    BY <2>1 DEF EveryFrameAccountedFor
  <2> QED
    BY <1>1, <1>2, <2>2, CountsAreNumbers
<1> QED
  BY <1>1, <1>2, <1>3, <1>4

LEMMA AccountNext ==
  ASSUME CountersSuffice, IInv, [Next]_vars
  PROVE  EveryFrameAccountedFor'
<1> USE DEF IInv
<1>1. Typed' /\ HandIsFed'
  BY TypedNext, HandNext
<1>2. ASSUME NEW k \in Streams
      PROVE  /\ accepted[k] = FramesOf(k) + Waiting(k) + InHand(k)
             /\ FramesOf(k) \in Nat /\ Waiting(k) \in Nat /\ InHand(k) \in {0, 1}
             /\ accepted[k] \in Nat
  BY CountsAreNumbers DEF EveryFrameAccountedFor
<1>3. CASE /\ UNCHANGED <<queue, accepted>> /\ got' = got
           /\ UNCHANGED streams \/ FindStream \/ PeriodicPrint \/ FinalTable
  BY <1>2, <1>3, FramesStay DEF EveryFrameAccountedFor, Waiting, InHand
<1>4. CASE Arrival
  <2> SUFFICES ASSUME NEW k \in Streams
               PROVE  accepted'[k] = FramesOf(k)' + Waiting(k)' + InHand(k)'
    BY DEF EveryFrameAccountedFor
  <2>1. PICK s \in Socks, f \in Streams \cup {NOISE} : Arrive(s, f) /\ (f \in Streams => s = SockOf[f])
    BY <1>4, ArrivalIs
  <2>2. FramesOf(k)' = FramesOf(k) /\ InHand(k)' = InHand(k)
    BY <2>1 DEF Arrive, FramesOf, InHand, readVars, countVars
  <2>3. CASE Len(queue[s]) < RcvBuf
    <3>1. /\ queue' = [queue EXCEPT ![s] = Append(@, f)]
          /\ accepted'[k] = IF k = f THEN accepted[k] + 1 ELSE accepted[k]
      BY <1>4, <2>1, <2>3, BelowCap DEF Arrive
    <3>2. Waiting(k)' = Waiting(k) + (IF f = k THEN 1 ELSE 0)
      BY <2>1, <3>1, WaitingAfterAppend
    <3> QED
      BY <1>2, <2>2, <3>1, <3>2
  <2>4. CASE ~(Len(queue[s]) < RcvBuf)
    <3>1. UNCHANGED <<queue, accepted>>
      BY <2>1, <2>4 DEF Arrive
    <3> QED
      BY <1>2, <2>2, <3>1 DEF Waiting
  <2> QED
    BY <2>3, <2>4
<1>5. CASE RecvNothing
  <2>1. UNCHANGED <<accepted, streams>> /\ got' = got
    BY <1>5 DEF RecvNothing, countVars
  <2>2. CASE UNCHANGED queue
    BY <1>3, <2>1, <2>2
  <2>3. CASE \E s : /\ s = Head(ready) /\ queue[s] # <<>> /\ Head(queue[s]) = NOISE
                    /\ queue' = [queue EXCEPT ![s] = Tail(@)]
    <3>1. PICK s : /\ s = Head(ready) /\ queue[s] # <<>> /\ Head(queue[s]) = NOISE
                   /\ queue' = [queue EXCEPT ![s] = Tail(@)]
      BY <2>3
    <3>2. ASSUME NEW k \in Streams PROVE Waiting(k)' = Waiting(k)
      <4>1. NOISE # k
        BY ObserveAssumption
      <4>2. Waiting(k) = Waiting(k)' + 0 /\ Waiting(k)' \in Nat
        BY <1>5, <3>1, <4>1, WaitingAfterTail DEF RecvNothing
      <4> QED
        BY <4>2
    <3> QED
      BY <1>2, <2>1, <3>2 DEF EveryFrameAccountedFor, FramesOf, InHand
  <2> QED
    BY <1>5, <2>2, <2>3 DEF RecvNothing
<1>6. CASE RecvSight
  <2> SUFFICES ASSUME NEW k \in Streams
               PROVE  accepted'[k] = FramesOf(k)' + Waiting(k)' + InHand(k)'
    BY DEF EveryFrameAccountedFor
  <2>1. PICK s : /\ s = Head(ready) /\ queue[s] # <<>> /\ queue' = [queue EXCEPT ![s] = Tail(@)]
                 /\ got' = Head(queue[s])
    BY <1>6 DEF RecvSight
  <2>2. UNCHANGED <<accepted, streams>> /\ got = NONE /\ k # NONE
    BY <1>6, ObserveAssumption DEF RecvSight, HandIsFed, Reading
  <2>3. Waiting(k) = Waiting(k)' + (IF Head(queue[s]) = k THEN 1 ELSE 0) /\ Waiting(k)' \in Nat
    BY <1>6, <2>1, WaitingAfterTail DEF RecvSight
  <2>4. InHand(k) = 0 /\ InHand(k)' = (IF Head(queue[s]) = k THEN 1 ELSE 0)
    BY <2>1, <2>2 DEF InHand
  <2>5. FramesOf(k)' = FramesOf(k)
    BY <2>2 DEF FramesOf
  <2> QED
    BY <1>2, <2>2, <2>3, <2>4, <2>5
<1>7. CASE FeedStream
  <2> SUFFICES ASSUME NEW k \in Streams
               PROVE  accepted'[k] = FramesOf(k)' + Waiting(k)' + InHand(k)'
    BY DEF EveryFrameAccountedFor
  <2>1. accepted' = accepted /\ Waiting(k)' = Waiting(k) /\ got' = NONE
    BY <1>7 DEF FeedStream, Waiting, kernelVars
  <2>2. InHand(k)' = 0
    BY <2>1, ObserveAssumption DEF InHand
  <2>3. CASE k = got
    <3>1. FramesOf(k) < CountCap /\ InHand(k) = 1
      BY <2>3, BelowCap DEF InHand
    <3>2. FramesOf(k)' = Bump(FramesOf(k))
      BY <1>7, <2>3, FeedStreamType DEF FramesOf
    <3>3. FramesOf(k)' = FramesOf(k) + 1
      BY <3>1, <3>2 DEF Bump
    <3> QED
      BY <1>2, <2>1, <2>2, <3>1, <3>3
  <2>4. CASE k # got
    <3>1. FramesOf(k)' = FramesOf(k) /\ InHand(k) = 0
      BY <1>7, <2>4, FeedStreamType DEF FramesOf, InHand
    <3> QED
      BY <1>2, <2>1, <2>2, <3>1
  <2> QED
    BY <2>3, <2>4
<1>8. \/ Arrival \/ RecvNothing \/ RecvSight \/ FeedStream
      \/ /\ UNCHANGED <<queue, accepted>> /\ got' = got
         /\ UNCHANGED streams \/ FindStream \/ PeriodicPrint \/ FinalTable
  BY DEF Next, Main, Tick, LoopTop, Select, CountFrame, FindStream, PeriodicPrint,
         CloseSockets, FinalTable, Interrupt, vars, kernelVars, readVars, countVars
<1> QED
  BY <1>3, <1>4, <1>5, <1>6, <1>7, <1>8

-------------------------------------------------------------------------------
(* The total, and the marks.                                                *)

LEMMA SeenStays ==
  ASSUME \A k \in Streams : FramesOf(k)' = FramesOf(k)
  PROVE  Seen' <=> Seen
BY DEF Seen

LEMMA TotalNext ==
  ASSUME CountersSuffice, IInv, [Next]_vars
  PROVE  TotalTells'
<1> USE DEF IInv
<1>0. total \in Nat /\ CountCap \in Nat
  BY ObserveAssumption DEF Typed, Counts
<1>1. CASE /\ UNCHANGED <<total, streams, status>> /\ got' = got
           /\ \/ pc' \notin {"insert", "feed", "exited"}
              \/ pc' = pc
  <2>1. Seen' <=> Seen
    BY <1>1 DEF Seen, FramesOf
  <2> QED
    BY <1>1, <2>1 DEF TotalTells
<1>2. CASE CountFrame
  <2>1. /\ UNCHANGED <<streams, status>> /\ got' = got /\ pc' = "insert"
        /\ total' = Bump(total) /\ got \in Streams
    BY <1>2 DEF CountFrame, readVars, endVars, HandIsFed, Feeding
  <2>2. CountCap > 0
    BY <2>1, BelowCap
  <2>3. total' > 0
    BY <1>0, <2>1, <2>2 DEF Bump
  <2> QED
    BY <2>1, <2>3, ObserveAssumption DEF TotalTells
<1>3. CASE FindStream
  <2>1. UNCHANGED <<total, status>> /\ got' = got /\ pc = "insert" /\ pc' = "feed"
    BY <1>3 DEF FindStream, readVars, endVars
  <2>2. Seen' <=> Seen
    BY <1>3, FramesStay, SeenStays
  <2> QED
    BY <2>1, <2>2 DEF TotalTells
<1>4. CASE FeedStream
  <2>1. /\ UNCHANGED <<total, status>> /\ pc = "feed" /\ pc' = "drain"
        /\ got \in Streams /\ DOMAIN streams' = DOMAIN streams /\ got \in DOMAIN streams
        /\ streams'[got].frames = Bump(streams[got].frames)
    BY <1>4, FeedStreamType DEF FeedStream, endVars
  <2>2. FramesOf(got) < CountCap /\ FramesOf(got) \in Nat /\ FramesOf(got) = streams[got].frames
    BY <2>1, BelowCap, CountsAreNumbers DEF FramesOf
  <2>3. streams'[got].frames > 0
    BY <1>0, <2>1, <2>2 DEF Bump
  <2>4. Seen'
    BY <2>1, <2>3 DEF Seen, FramesOf
  <2> QED
    BY <2>1, <2>4 DEF TotalTells
<1>5. CASE PeriodicPrint
  <2>1. UNCHANGED <<total, status>> /\ got' = got /\ pc' = "top"
    BY <1>5 DEF PeriodicPrint, readVars, endVars
  <2>2. Seen' <=> Seen
    BY <1>5, FramesStay, SeenStays
  <2>3. DOMAIN streams' = DOMAIN streams
    BY <1>5, TableKeeps DEF PeriodicPrint
  <2> QED
    BY <2>1, <2>2, <2>3 DEF TotalTells
<1>6. CASE FinalTable
  <2>1. /\ total' = total /\ got' = got /\ pc' = "exited"
        /\ status' = IF total = 0 THEN 1 ELSE 0
    BY <1>6 DEF FinalTable, readVars
  <2>2. Seen' <=> Seen
    BY <1>6, FramesStay, SeenStays
  <2>3. DOMAIN streams' = DOMAIN streams
    BY <1>6, TableKeeps DEF FinalTable
  <2> QED
    BY <2>1, <2>2, <2>3 DEF TotalTells
<1>7. CASE RecvSight
  <2>1. UNCHANGED <<total, streams, status>> /\ pc = "drain" /\ pc' = "count" /\ got = NONE
    BY <1>7 DEF RecvSight, endVars, HandIsFed, Reading
  <2> QED
    BY <2>1 DEF TotalTells, Seen, FramesOf
<1>8. CASE Tick \/ Arrival \/ LoopTop \/ Select \/ RecvNothing \/ CloseSockets \/ Interrupt
           \/ UNCHANGED vars
  BY <1>1, <1>8 DEF Tick, Arrival, Arrive, LoopTop, Select, RecvNothing, CloseSockets, Interrupt,
                    vars, readVars, countVars, endVars, Feeding
<1> QED
  BY <1>2, <1>3, <1>4, <1>5, <1>6, <1>7, <1>8 DEF Next, Main

LEMMA MarkNext ==
  ASSUME CountersSuffice, IInv, [Next]_vars
  PROVE  MarkWithinQueue'
<1> USE DEF IInv
<1>0. RcvBuf \in Nat /\ DOMAIN streams \subseteq Streams
  BY ObserveAssumption DEF Typed
<1>1. ASSUME NEW k \in Streams
      PROVE  /\ accepted[k] = FramesOf(k) + Waiting(k) + InHand(k)
             /\ FramesOf(k) \in Nat /\ Waiting(k) \in Nat /\ InHand(k) \in {0, 1}
             /\ accepted[k] \in Nat /\ Waiting(k) <= RcvBuf
  <2>1. queue[SockOf[k]] \in Seq(Streams \cup {NOISE}) /\ SockOf[k] \in Socks
    BY ObserveAssumption DEF Typed
  <2>2. /\ Len(queue[SockOf[k]]) \in Nat /\ Len(queue[SockOf[k]]) <= RcvBuf
        /\ CountIn(queue[SockOf[k]], k) <= Len(queue[SockOf[k]])
        /\ CountIn(queue[SockOf[k]], k) \in Nat
    BY <2>1, PlacesFinite DEF QueuesInBounds
  <2>3. Waiting(k) <= RcvBuf
    BY <1>0, <2>2, WaitingIsCount
  <2> QED
    BY <2>3, CountsAreNumbers DEF EveryFrameAccountedFor
<1>2. CASE UNCHANGED <<streams, acceptedAt>> /\ got' = got /\ pc # "exited" /\ pc' # "exited"
           /\ (pc' \in {"count", "insert"} => pc \in {"count", "insert"})
  BY <1>2 DEF MarkWithinQueue
<1>3. CASE UNCHANGED <<streams, acceptedAt, accepted, pc>> /\ got' = got
  BY <1>3 DEF MarkWithinQueue
<1>4. CASE RecvSight
  <2>1. PICK s : /\ s = Head(ready) /\ queue[s] # <<>> /\ queue' = [queue EXCEPT ![s] = Tail(@)]
                 /\ got' = Head(queue[s]) /\ Head(queue[s]) # NOISE
    BY <1>4 DEF RecvSight
  <2>2. /\ pc = "drain" /\ pc' = "count" /\ streams' = streams /\ got = NONE
        /\ acceptedAt' = IF got' \in DOMAIN streams THEN acceptedAt
                         ELSE [acceptedAt EXCEPT ![got'] = accepted[got']]
    BY <1>4 DEF RecvSight, HandIsFed, Reading
  <2>3. got' \in Streams
    BY <1>4, <2>1, ReadLeaves DEF RecvSight
  <2>4. CASE got' \in DOMAIN streams
    BY <2>2, <2>4 DEF MarkWithinQueue
  <2>5. CASE got' \notin DOMAIN streams
    <3>1. PICK g \in Streams : g = got'
      BY <2>3
    <3>2. acceptedAt'[g] = accepted[g] /\ \A k \in Streams \ {g} : acceptedAt'[k] = acceptedAt[k]
      BY <2>2, <2>5, <3>1 DEF Typed
    <3>3. FramesOf(g) = 0 /\ InHand(g) = 0
      BY <2>2, <2>5, <3>1, ObserveAssumption DEF FramesOf, InHand
    <3>4. accepted[g] <= RcvBuf
      BY <1>0, <1>1, <3>3
    <3> QED
      BY <1>0, <2>2, <2>5, <3>1, <3>2, <3>4 DEF MarkWithinQueue
  <2> QED
    BY <2>4, <2>5
<1>5. CASE FindStream
  <2>1. pc = "insert" /\ pc' = "feed" /\ acceptedAt' = acceptedAt
    BY <1>5 DEF FindStream
  <2>2. /\ got \in Streams /\ DOMAIN streams' = DOMAIN streams \cup {got}
        /\ \A k \in DOMAIN streams : streams'[k] = streams[k]
        /\ got \notin DOMAIN streams => streams'[got] = NewStream
    BY <1>5, FindStreamType
  <2>3. got \notin DOMAIN streams => acceptedAt'[got] <= streams'[got].frames_at_mark + RcvBuf
    <3>1. NewStream.frames_at_mark = 0
      BY DEF NewStream
    <3> QED
      BY <1>0, <2>1, <2>2, <3>1 DEF MarkWithinQueue
  <2> QED
    BY <2>1, <2>2, <2>3 DEF MarkWithinQueue
<1>6. CASE FeedStream
  BY <1>6, FeedStreamType DEF FeedStream, MarkWithinQueue
<1>7. CASE PeriodicPrint
  <2>1. pc = "drain" /\ pc' = "top" /\ got = NONE
    BY <1>7 DEF PeriodicPrint, HandIsFed, Reading
  <2>2. CASE UNCHANGED <<streams, acceptedAt>>
    BY <2>1, <2>2 DEF MarkWithinQueue
  <2>3. CASE Table(clock)
    <3>1. ASSUME NEW k \in DOMAIN streams
          PROVE  accepted[k] <= streams[k].frames + RcvBuf
      <4>1. FramesOf(k) = streams[k].frames /\ InHand(k) = 0 /\ k \in Streams
        BY <1>0, <2>1, <3>1, ObserveAssumption DEF FramesOf, InHand
      <4> QED
        BY <1>0, <1>1, <4>1
    <3> QED
      BY <2>1, <2>3, <3>1, TableKeeps DEF MarkWithinQueue
  <2> QED
    BY <1>7, <2>2, <2>3 DEF PeriodicPrint
<1>8. CASE FinalTable
  BY <1>8, TableKeeps DEF FinalTable, MarkWithinQueue, kernelVars
<1>9. CASE Arrival
  BY <1>2, <1>9 DEF Arrival, Arrive, readVars, countVars
<1>10. CASE LoopTop \/ Select \/ RecvNothing \/ CloseSockets \/ Interrupt
  BY <1>2, <1>10 DEF LoopTop, Select, RecvNothing, CloseSockets, Interrupt, readVars, countVars
<1>11. CASE CountFrame
  BY <1>2, <1>11 DEF CountFrame, readVars
<1>12. CASE Tick \/ UNCHANGED vars
  BY <1>3, <1>12 DEF Tick, vars, kernelVars, readVars, countVars
<1> QED
  BY <1>4, <1>5, <1>6, <1>7, <1>8, <1>9, <1>10, <1>11, <1>12 DEF Next, Main

-------------------------------------------------------------------------------
(* The total and the rows.                                                  *)

LEMMA AddUpNext ==
  ASSUME CountersSuffice, IInv, [Next]_vars
  PROVE  AcceptedAddUp'
<1> USE DEF IInv
<1>1. /\ accepted \in [Streams -> Int] /\ IsFiniteSet(Streams)
      /\ arrived \in Nat /\ MaxArrivals \in Nat /\ CountCap \in Nat
  BY ObserveAssumption DEF Typed, Counts
<1>2. CASE UNCHANGED <<arrived, accepted>>
  BY <1>2 DEF AcceptedAddUp
<1>3. CASE Arrival
  <2>1. PICK s \in Socks, f \in Streams \cup {NOISE} : Arrive(s, f)
    BY <1>3, ArrivalIs
  <2>2. arrived' = arrived + 1
    BY <1>1, <2>1 DEF Arrive, CountersSuffice, Bump, AcceptedHaveArrived
  <2>3. CASE UNCHANGED accepted
    <3>1. SumFunction(accepted) \in Int
      BY <1>1, SumType DEF SumFunction
    <3> QED
      BY <1>1, <2>2, <2>3, <3>1 DEF AcceptedAddUp
  <2>4. CASE /\ f \in Streams
             /\ accepted' = [k \in Streams |-> IF k = f THEN Bump(accepted[k]) ELSE accepted[k]]
    <3>1. Bump(accepted[f]) = accepted[f] + 1
      BY <1>3, <2>4, BelowCap
    <3>2. PICK g : g = accepted'
      OBVIOUS
    <3>3. /\ g \in [Streams -> Int] /\ g[f] - accepted[f] = 1
          /\ \A k \in Streams \ {f} : g[k] = accepted[k]
      BY <1>1, <2>4, <3>1, <3>2
    <3>4. SumFunctionOnSet(g, Streams) = SumFunctionOnSet(accepted, Streams) + 1
      BY <1>1, <2>4, <3>3, SumChange
    <3>5. SumFunctionOnSet(accepted, Streams) \in Int
      BY <1>1, SumType
    <3>6. DOMAIN g = Streams /\ DOMAIN accepted = Streams
      BY <1>1, <3>3
    <3> QED
      BY <1>1, <2>2, <3>2, <3>4, <3>5, <3>6 DEF AcceptedAddUp, SumFunction
  <2>5. CASE /\ f \notin Streams
             /\ accepted' = [k \in Streams |-> IF k = f THEN Bump(accepted[k]) ELSE accepted[k]]
    <3>1. accepted' = accepted
      BY <1>1, <2>5
    <3> QED
      BY <2>3, <3>1
  <2> QED
    BY <2>1, <2>3, <2>4, <2>5 DEF Arrive
<1>4. Arrival \/ UNCHANGED <<arrived, accepted>>
  BY DEF Next, Main, Tick, LoopTop, Select, CountFrame, FindStream, FeedStream, PeriodicPrint,
         RecvNothing, RecvSight, CloseSockets, FinalTable, Interrupt, vars, kernelVars
<1> QED
  BY <1>2, <1>3, <1>4

\* The rows' frames are some of those accepted, and the frame in hand another.
LEMMA RowsWithinAccepted ==
  ASSUME CountersSuffice, IInv
  PROVE  /\ RowSum \in Nat /\ RowSum <= arrived
         /\ got \in Streams => RowSum + 1 <= arrived
<1> USE DEF IInv
<1> DEFINE h == [k \in Streams |-> FramesOf(k)]
           f == [k \in Streams |-> FramesOf(k) + InHand(k)]
<1>1. \A k \in Streams : /\ FramesOf(k) \in Nat /\ InHand(k) \in {0, 1}
                         /\ Waiting(k) \in Nat /\ accepted[k] \in Nat
                         /\ accepted[k] = FramesOf(k) + Waiting(k) + InHand(k)
  BY CountsAreNumbers DEF EveryFrameAccountedFor
<1>2. /\ h \in [Streams -> Int] /\ f \in [Streams -> Int] /\ accepted \in [Streams -> Int]
      /\ \A k \in Streams : h[k] >= 0 /\ f[k] <= accepted[k] /\ f[k] = h[k] + InHand(k)
  <2>1. accepted \in [Streams -> Int]
    BY DEF Typed, Counts
  <2>2. ASSUME NEW k \in Streams
        PROVE  /\ FramesOf(k) \in Int /\ FramesOf(k) >= 0 /\ FramesOf(k) + InHand(k) \in Int
               /\ FramesOf(k) + InHand(k) <= accepted[k]
    BY <1>1
  <2> QED
    BY <2>1, <2>2
<1>3. IsFiniteSet(Streams) /\ DOMAIN h = Streams /\ DOMAIN accepted = Streams
  BY <1>2, ObserveAssumption
<1>4. arrived \in Nat
  BY ObserveAssumption DEF Typed, Counts
<1>5. RowSum = SumFunctionOnSet(h, Streams)
  BY DEF RowSum, SumFunction
<1> HIDE DEF h, f
<1>6. SumFunctionOnSet(h, Streams) \in Int /\ SumFunctionOnSet(h, Streams) >= 0
  BY <1>2, <1>3, SumType
<1>7. /\ SumFunctionOnSet(f, Streams) <= SumFunctionOnSet(accepted, Streams)
      /\ SumFunctionOnSet(f, Streams) \in Int /\ SumFunctionOnSet(accepted, Streams) \in Int
  BY <1>2, <1>3, SumType, SumMonotone
<1>8. SumFunctionOnSet(accepted, Streams) <= arrived
  BY <1>3 DEF AcceptedAddUp, SumFunction
<1>9. SumFunctionOnSet(h, Streams) <= SumFunctionOnSet(f, Streams)
  <2>1. \A k \in Streams : h[k] <= f[k]
    BY <1>1, <1>2
  <2> QED
    BY <1>2, <1>3, <2>1, SumMonotone
<1>10. ASSUME got \in Streams
       PROVE  SumFunctionOnSet(f, Streams) = SumFunctionOnSet(h, Streams) + 1
  <2>1. f[got] - h[got] = 1 /\ \A k \in Streams \ {got} : f[k] = h[k]
    BY <1>1, <1>2, <1>10 DEF InHand
  <2> QED
    BY <1>2, <1>3, <1>10, <2>1, SumChange
<1> QED
  BY <1>4, <1>5, <1>6, <1>7, <1>8, <1>9, <1>10

\* The rows add up to the same where every row keeps its frames.
LEMMA RowSumStays ==
  ASSUME \A k \in Streams : FramesOf(k)' = FramesOf(k)
  PROVE  RowSum' = RowSum
<1>1. [k \in Streams |-> FramesOf(k)'] = [k \in Streams |-> FramesOf(k)]
  OBVIOUS
<1> QED
  BY <1>1 DEF RowSum

\* Feeding a frame adds one to the rows.
LEMMA RowSumFed ==
  ASSUME CountersSuffice, IInv, FeedStream
  PROVE  RowSum' = RowSum + 1
<1> USE DEF IInv
<1>1. PICK fed, h, f : /\ fed = got
                       /\ h = [k \in Streams |-> FramesOf(k)]
                       /\ f = [k \in Streams |-> FramesOf(k)']
  OBVIOUS
<1>2. /\ fed \in Streams /\ fed \in DOMAIN streams /\ DOMAIN streams' = DOMAIN streams
      /\ streams'[fed].frames = Bump(streams[fed].frames)
      /\ \A k \in DOMAIN streams \ {fed} : streams'[k] = streams[k]
  BY <1>1, FeedStreamType
<1>3. FramesOf(fed) < CountCap /\ CountCap \in Nat
  BY <1>1, <1>2, BelowCap
<1>4. \A k \in Streams : FramesOf(k) \in Nat
  BY CountsAreNumbers
<1>5. FramesOf(fed)' = FramesOf(fed) + 1
  BY <1>2, <1>3 DEF FramesOf, Bump
<1>6. ASSUME NEW k \in Streams \ {fed} PROVE FramesOf(k)' = FramesOf(k)
  BY <1>2 DEF FramesOf
<1>7. /\ h \in [Streams -> Int] /\ f \in [Streams -> Int] /\ f[fed] - h[fed] = 1
      /\ \A k \in Streams \ {fed} : f[k] = h[k]
  <2>1. ASSUME NEW k \in Streams PROVE FramesOf(k)' \in Int
    <3>1. CASE k = fed
      BY <1>2, <1>4, <1>5, <3>1
    <3>2. CASE k # fed
      BY <1>4, <1>6, <3>2
    <3> QED
      BY <3>1, <3>2
  <2>2. f \in [Streams -> Int] /\ h \in [Streams -> Int]
    BY <1>1, <1>4, <2>1
  <2>3. f[fed] = FramesOf(fed)' /\ h[fed] = FramesOf(fed) /\ FramesOf(fed) \in Int
    BY <1>1, <1>2, <1>4
  <2>4. \A k \in Streams \ {fed} : f[k] = h[k]
    BY <1>1, <1>6
  <2> QED
    BY <1>5, <2>2, <2>3, <2>4
<1>8. SumFunctionOnSet(f, Streams) = SumFunctionOnSet(h, Streams) + 1
  BY <1>2, <1>7, SumChange, ObserveAssumption
<1>9. RowSum = SumFunctionOnSet(h, Streams) /\ RowSum' = SumFunctionOnSet(f, Streams)
  BY <1>1, <1>7 DEF RowSum, SumFunction
<1> QED
  BY <1>8, <1>9

LEMMA AheadNext ==
  ASSUME CountersSuffice, IInv, [Next]_vars
  PROVE  TotalIsAhead'
<1> USE DEF IInv
<1>0. /\ RowSum \in Nat /\ total \in Nat /\ Reading \cap {"count", "insert", "feed"} = {}
      /\ Ending \cap (Reading \cup Feeding) = {} /\ pc \in Reading \cup Feeding \cup Ending
  BY RowsWithinAccepted, ObserveAssumption DEF Typed, Counts, Reading, Feeding, Ending
<1>1. CASE total' = total /\ RowSum' = RowSum /\ pc \in Reading
           /\ pc' \in Reading \cup {"count"} \cup Ending
  BY <1>0, <1>1 DEF TotalIsAhead, Ending, Reading
<1>2. CASE total' = total /\ RowSum' = RowSum /\ pc \in Ending /\ pc' \in Ending
           /\ got' = got /\ interrupted' = interrupted
  BY <1>2 DEF TotalIsAhead, Ending, Reading
<1>3. CASE CountFrame
  <2>1. /\ got \in Streams /\ pc = "count" /\ pc' = "insert" /\ total' = Bump(total)
        /\ UNCHANGED streams
    BY <1>3 DEF CountFrame, HandIsFed, Feeding
  <2>2. RowSum' = RowSum
    BY <2>1, RowSumStays DEF FramesOf
  <2>3. total = RowSum
    BY <2>1 DEF TotalIsAhead
  <2>4. Bump(total) = total + 1
    <3>1. RowSum + 1 <= arrived /\ arrived <= MaxArrivals /\ MaxArrivals <= CountCap
          /\ arrived \in Nat /\ MaxArrivals \in Nat /\ CountCap \in Nat
      <4>1. RowSum + 1 <= arrived
        BY <2>1, RowsWithinAccepted
      <4>2. arrived <= MaxArrivals /\ MaxArrivals <= CountCap
        BY DEF AcceptedHaveArrived, CountersSuffice
      <4>3. arrived \in Nat /\ MaxArrivals \in Nat /\ CountCap \in Nat
        BY ObserveAssumption DEF Typed, Counts
      <4> QED
        BY <4>1, <4>2, <4>3
    <3> QED
      BY <1>0, <2>3, <3>1 DEF Bump
  <2> QED
    BY <2>1, <2>2, <2>3, <2>4 DEF TotalIsAhead, Reading, Ending
<1>4. CASE FindStream
  <2>1. total' = total /\ pc = "insert" /\ pc' = "feed"
    BY <1>4 DEF FindStream
  <2>2. RowSum' = RowSum
    BY <1>4, FramesStay, RowSumStays
  <2> QED
    BY <2>1, <2>2 DEF TotalIsAhead, Reading, Ending
<1>5. CASE FeedStream
  <2>1. total' = total /\ pc = "feed" /\ pc' = "drain"
    BY <1>5 DEF FeedStream
  <2>2. RowSum' = RowSum + 1
    BY <1>5, RowSumFed
  <2> QED
    BY <2>1, <2>2 DEF TotalIsAhead, Reading, Ending
<1>6. CASE Interrupt
  <2>1. /\ total' = total /\ UNCHANGED streams /\ got' = got /\ interrupted' = TRUE
        /\ pc \in Reading \cup Feeding /\ pc' = "closing"
    BY <1>6 DEF Interrupt, countVars, readVars, Reading, Feeding
  <2>2. RowSum' = RowSum
    BY <2>1, RowSumStays DEF FramesOf
  <2>3. CASE pc \in Reading \cup {"count"}
    BY <2>1, <2>2, <2>3 DEF TotalIsAhead, Reading, Ending
  <2>4. CASE pc \in {"insert", "feed"}
    <3>1. total = RowSum + 1 /\ got # NONE
      BY <1>0, <2>4, ObserveAssumption DEF TotalIsAhead, HandIsFed, Feeding, Reading
    <3> QED
      BY <2>1, <2>2, <3>1 DEF TotalIsAhead, Reading, Ending
  <2> QED
    BY <2>1, <2>3, <2>4 DEF Feeding
<1>7. CASE PeriodicPrint
  <2>1. total' = total /\ pc = "drain" /\ pc' = "top"
    BY <1>7 DEF PeriodicPrint
  <2>2. RowSum' = RowSum
    BY <1>7, FramesStay, RowSumStays
  <2> QED
    BY <1>1, <2>1, <2>2 DEF Reading
<1>8. CASE FinalTable
  <2>1. /\ total' = total /\ pc = "final" /\ pc' = "exited" /\ got' = got
        /\ interrupted' = interrupted
    BY <1>8 DEF FinalTable, readVars
  <2>2. RowSum' = RowSum
    BY <1>8, FramesStay, RowSumStays
  <2> QED
    BY <1>2, <2>1, <2>2 DEF Ending
<1>9. CASE Tick \/ Arrival \/ UNCHANGED vars
  <2>1. UNCHANGED <<total, streams, got, interrupted, pc>>
    BY <1>9 DEF Tick, Arrival, Arrive, vars, readVars, countVars, endVars
  <2>2. RowSum' = RowSum
    BY <2>1, RowSumStays DEF FramesOf
  <2> QED
    BY <2>1, <2>2 DEF TotalIsAhead
<1>10. CASE LoopTop \/ Select \/ RecvNothing \/ RecvSight
  <2>1. /\ UNCHANGED <<total, streams>> /\ pc \in Reading
        /\ pc' \in Reading \cup {"count"} \cup Ending
    BY <1>10 DEF LoopTop, Select, RecvNothing, RecvSight, countVars, Reading, Ending
  <2>2. RowSum' = RowSum
    BY <2>1, RowSumStays DEF FramesOf
  <2> QED
    BY <1>1, <2>1, <2>2
<1>11. CASE CloseSockets
  <2>1. /\ UNCHANGED <<total, streams, got, interrupted>> /\ pc \in Ending /\ pc' \in Ending
    BY <1>11 DEF CloseSockets, countVars, readVars, endVars, Ending
  <2>2. RowSum' = RowSum
    BY <2>1, RowSumStays DEF FramesOf
  <2> QED
    BY <1>2, <2>1, <2>2
<1> QED
  BY <1>3, <1>4, <1>5, <1>6, <1>7, <1>8, <1>9, <1>10, <1>11 DEF Next, Main

-------------------------------------------------------------------------------
(* The invariant, and what follows from it.                                 *)

LEMMA IInvInit == Init => IInv
<1> SUFFICES ASSUME Init PROVE IInv
  OBVIOUS
<1>1. /\ MaxTime \in Nat /\ CountCap \in Nat /\ RcvBuf \in Nat /\ MaxArrivals \in Nat
      /\ SockOf \in [Streams -> Socks] /\ NONE \notin Streams
  BY ObserveAssumption
<1>2. /\ clock = 0 /\ at = 0 /\ queue = [s \in Socks |-> <<>>] /\ arrived = 0
      /\ accepted = [k \in Streams |-> 0] /\ pc = "top" /\ ready = <<>> /\ got = NONE
      /\ total = 0 /\ streams = [k \in {} |-> NewStream] /\ acceptedAt = [k \in Streams |-> 0]
      /\ interrupted = FALSE /\ status = NONE
  BY DEF Init
<1>3. Typed
  <2>1. DOMAIN streams = {} /\ streams \in [DOMAIN streams -> Rows]
    BY <1>2
  <2>2. /\ queue \in [Socks -> Seq(Streams \cup {NOISE})] /\ ready \in Seq(Socks)
        /\ accepted \in [Streams -> Counts] /\ acceptedAt \in [Streams -> Counts]
        /\ arrived \in Counts /\ total \in Counts
    BY <1>1, <1>2 DEF Counts
  <2>3. clock \in 0..MaxTime /\ at \in 0..MaxTime
    BY <1>1, <1>2
  <2> QED
    BY <1>2, <2>1, <2>2, <2>3 DEF Typed, Reading
<1>4. QueuesInBounds /\ Routed /\ HandIsFed /\ AcceptedHaveArrived
  BY <1>1, <1>2 DEF QueuesInBounds, Routed, HandIsFed, Reading, Feeding, Ending, AcceptedHaveArrived
<1>5. EveryFrameAccountedFor
  <2> SUFFICES ASSUME NEW k \in Streams PROVE accepted[k] = FramesOf(k) + Waiting(k) + InHand(k)
    BY DEF EveryFrameAccountedFor
  <2>1. accepted[k] = 0 /\ FramesOf(k) = 0 /\ InHand(k) = 0 /\ queue[SockOf[k]] = <<>>
    BY <1>1, <1>2 DEF FramesOf, InHand
  <2>2. Waiting(k) = 0
    BY <2>1, WaitingIsCount, CountEmpty
  <2> QED
    BY <2>1, <2>2
<1>6. TotalTells /\ MarkWithinQueue
  BY <1>2 DEF TotalTells, MarkWithinQueue
<1>7. AcceptedAddUp
  <2>1. SumFunctionOnSet(accepted, Streams) = 0 /\ DOMAIN accepted = Streams
    BY <1>2, SumZero, ObserveAssumption
  <2> QED
    BY <1>2, <2>1 DEF AcceptedAddUp, SumFunction
<1>8. TotalIsAhead
  <2>1. PICK h : h = [k \in Streams |-> FramesOf(k)]
    OBVIOUS
  <2>2. h \in [Streams -> Int] /\ \A k \in Streams : h[k] = 0
    BY <1>2, <2>1 DEF FramesOf
  <2>3. SumFunctionOnSet(h, Streams) = 0 /\ DOMAIN h = Streams
    BY <2>2, SumZero, ObserveAssumption
  <2> QED
    BY <1>2, <2>1, <2>3 DEF TotalIsAhead, RowSum, SumFunction, Reading, Ending
<1> QED
  BY <1>3, <1>4, <1>5, <1>6, <1>7, <1>8 DEF IInv

LEMMA IInvNext == CountersSuffice => (IInv /\ [Next]_vars => IInv')
BY TypedNext, QueuesNext, HandNext, AcceptedNext, AccountNext, TotalNext, MarkNext,
   AddUpNext, AheadNext DEF IInv

LEMMA IInvAlways == CountersSuffice => (Spec => []IInv)
<1> SUFFICES ASSUME CountersSuffice PROVE Spec => []IInv
  OBVIOUS
<1>1. IInv /\ [Next]_vars => IInv'
  BY IInvNext
<1> QED
  BY <1>1, IInvInit, PTL DEF Spec

\* Every variable keeps its shape.
THEOREM TypeCorrect == CountersSuffice => (Spec => []TypeOK)
<1>1. IInv => TypeOK
  <2> SUFFICES ASSUME IInv PROVE TypeOK
    OBVIOUS
  <2>1. \A s \in Socks : Len(queue[s]) <= RcvBuf /\ Range(queue[s]) \subseteq Streams \cup {NOISE}
    <3>1. ASSUME NEW s \in Socks PROVE Range(queue[s]) \subseteq Streams \cup {NOISE}
      <4>1. queue[s] \in Seq(Streams \cup {NOISE})
        BY DEF IInv, Typed
      <4> QED
        BY <4>1 DEF Range
    <3> QED
      BY <3>1 DEF IInv, QueuesInBounds
  <2>2. \A k \in DOMAIN streams :
          /\ streams[k].frames \in 0..CountCap /\ streams[k].frames_at_mark \in 0..CountCap
          /\ streams[k].mark_ts \in TimeType /\ streams[k].first_ts \in TimeType
    BY DEF IInv, Typed, Rows, Counts
  <2> QED
    BY <2>1, <2>2 DEF IInv, Typed, TypeOK, Counts, Reading, Feeding, Ending
<1> QED
  BY <1>1, IInvAlways, PTL

\* Whenever frames come in, the tables fall due and the interrupt falls, every
\* frame the kernel accepted is counted once, waits, or is the one in hand.
THEOREM FramesAccounted == CountersSuffice => (Spec => []EveryFrameAccountedFor)
<1>1. IInv => EveryFrameAccountedFor
  BY DEF IInv
<1> QED
  BY <1>1, IInvAlways, PTL

\* The total main decides its exit status by is the sum of the table's rows, one
\* more only while a frame is counted and not fed.
THEOREM TotalIsRows == CountersSuffice => (Spec => []TotalIsSumOfRows)
<1>1. IInv => TotalIsSumOfRows
  <2> SUFFICES ASSUME IInv PROVE TotalIsSumOfRows
    OBVIOUS
  <2>1. \/ total = RowSum
        \/ total = RowSum + 1 /\ got # NONE /\ (pc \in {"insert", "feed"} \/ interrupted)
    BY ObserveAssumption DEF IInv, TotalIsAhead, Typed, HandIsFed, Reading, Feeding, Ending
  <2> QED
    BY <2>1 DEF TotalIsSumOfRows, RowSum
<1> QED
  BY <1>1, IInvAlways, PTL

\* A window overstates what came in since its mark by one receive queue at most.
THEOREM WindowBounded == CountersSuffice => (Spec => []WindowBoundedByArrivals)
<1>1. IInv => WindowBoundedByArrivals
  <2> SUFFICES ASSUME IInv, NEW k \in DOMAIN streams
               PROVE  streams[k].frames - streams[k].frames_at_mark
                        <= accepted[k] - acceptedAt[k] + RcvBuf
    BY DEF WindowBoundedByArrivals
  <2>1. /\ k \in Streams /\ RcvBuf \in Nat /\ acceptedAt[k] \in Int
        /\ streams[k].frames \in Int /\ streams[k].frames_at_mark \in Int
    <3>1. k \in Streams /\ streams[k] \in Rows /\ acceptedAt[k] \in Counts
      BY DEF IInv, Typed
    <3>2. Counts \subseteq Int /\ RcvBuf \in Nat
      BY ObserveAssumption DEF Counts
    <3> QED
      BY <3>1, <3>2 DEF Rows
  <2>2. /\ accepted[k] = FramesOf(k) + Waiting(k) + InHand(k)
        /\ Waiting(k) \in Nat /\ InHand(k) \in {0, 1} /\ accepted[k] \in Nat
        /\ FramesOf(k) = streams[k].frames
    BY <2>1, CountsAreNumbers DEF IInv, EveryFrameAccountedFor, FramesOf
  <2>3. CASE pc = "exited"
    BY <2>1, <2>2, <2>3 DEF IInv, MarkWithinQueue
  <2>4. CASE pc # "exited"
    <3>1. acceptedAt[k] <= streams[k].frames_at_mark + RcvBuf
      BY <2>4 DEF IInv, MarkWithinQueue
    <3>2. streams[k].frames <= accepted[k]
      BY <2>1, <2>2
    <3> QED
      BY <2>1, <2>2, <3>1, <3>2
  <2> QED
    BY <2>3, <2>4
<1> QED
  BY <1>1, IInvAlways, PTL

\* The exit status says whether a frame was read, interrupt or not.
THEOREM StatusCorrect == CountersSuffice => (Spec => []StatusTellsWhatWasSeen)
<1>1. IInv => StatusTellsWhatWasSeen
  <2> SUFFICES ASSUME IInv, pc = "exited"
               PROVE  /\ status = 1 => DOMAIN streams = {} /\ (got # NONE => interrupted)
                      /\ status = 0 => (\E k \in Streams : FramesOf(k) > 0)
                                       \/ (got # NONE /\ interrupted)
    BY DEF StatusTellsWhatWasSeen
  <2>1. total \in Nat
    BY ObserveAssumption DEF IInv, Typed, Counts
  <2>2. /\ status = IF total = 0 THEN 1 ELSE 0
        /\ DOMAIN streams # {} => total > 0
        /\ total > 0 => Seen \/ got # NONE
    BY DEF IInv, TotalTells
  <2>3. got # NONE => interrupted
    BY DEF IInv, HandIsFed, Ending
  <2> QED
    BY <2>1, <2>2, <2>3 DEF Seen
<1> QED
  BY <1>1, IInvAlways, PTL

-------------------------------------------------------------------------------
(* The rows of the ports (RoleEvidence).                                   *)

MasterStages == {"probing", "granting", "linked"}
BoxStages == {"cold", "committing", "linked"}

\* What the row of a port says once these of its frames were seen.
RowOf(p) ==
  [frames       |-> SeenOf(p),
   master_score |-> IF p \in Masters THEN SeenOf(p) ELSE seen[p][Commit],
   box_score    |-> IF p \in Masters THEN 0 ELSE SeenOf(p) - seen[p][Commit]]

StagesOfKind ==
  /\ stage \in [Ports -> MasterStages \cup BoxStages]
  /\ \A p \in Masters : stage[p] \in MasterStages
  /\ \A p \in Ports \ Masters : stage[p] \in BoxStages

SeenWithinBound ==
  /\ seen \in [Ports -> [Records -> Nat]]
  /\ SumFunction([p \in Ports |-> SeenOf(p)]) <= MaxSeen

RowsAreThePorts ==
  /\ DOMAIN scores = {KeyOf(p) : p \in {q \in Ports : SeenOf(q) > 0}}
  /\ scores = [k \in DOMAIN scores |-> scores[k]]
  /\ \A p \in Ports : Row(p) = RowOf(p)

RoleInv == StagesOfKind /\ SeenWithinBound /\ RowsAreThePorts

LEMMA BoxRecordsAre == BoxRecords = {ColdConnect, Commit, Filler, LinkAck}
<1>1. DOMAIN BoxSends = BoxStages
  BY DEF BoxSends, BoxStages
<1>2. BoxSends["cold"] = {ColdConnect} /\ BoxSends["committing"] = {Commit}
      /\ BoxSends["linked"] = {Filler, LinkAck}
  BY DEF BoxSends
<1>3. Range(BoxSends) = {BoxSends["cold"], BoxSends["committing"], BoxSends["linked"]}
  BY <1>1 DEF Range, BoxStages
<1> QED
  BY <1>2, <1>3 DEF BoxRecords

LEMMA MasterRecordsAre ==
  UNION Range(MasterSends) = {Scene, Announce, Filler, Enroll, GrantEcho, ChannelMap}
<1>1. DOMAIN MasterSends = MasterStages
  BY DEF MasterSends, MasterStages
<1>2. /\ MasterSends["probing"] = {Scene, Announce, Filler}
      /\ MasterSends["granting"] = {Enroll, GrantEcho, Announce}
      /\ MasterSends["linked"] = {Filler, ChannelMap, Announce}
  BY DEF MasterSends
<1>3. Range(MasterSends) = {MasterSends["probing"], MasterSends["granting"], MasterSends["linked"]}
  BY <1>1 DEF Range, MasterStages
<1> QED
  BY <1>2, <1>3

LEMMA RecordsFinite ==
  IsFiniteSet(Records) /\ Commit \in Records /\ ColdConnect \in Records /\ GrantEcho \in Records
<1>1. Records = {ColdConnect} \cup {Commit} \cup {Filler} \cup {LinkAck} \cup {Scene} \cup {Announce}
                  \cup {Enroll} \cup {GrantEcho} \cup {ChannelMap}
  BY BoxRecordsAre, MasterRecordsAre DEF Records
<1>2. IsFiniteSet({}) /\ \A T, x : IsFiniteSet(T) => IsFiniteSet(T \cup {x})
  BY FS_EmptySet, FS_AddElement
<1>3. IsFiniteSet({ColdConnect})
  BY FS_Singleton
<1> QED
  BY <1>1, <1>2, <1>3

\* What a port sends is a record; a box sends box records.
LEMMA SentRecords ==
  ASSUME StagesOfKind, NEW p \in Ports, NEW r \in Sends(p)
  PROVE  r \in Records /\ (p \notin Masters => r \in BoxRecords)
<1>1. CASE p \in Masters
  <2>1. stage[p] \in MasterStages /\ r \in MasterSends[stage[p]]
    BY <1>1 DEF StagesOfKind, Sends
  <2>2. r \in UNION Range(MasterSends)
    BY <2>1 DEF Range, MasterSends, MasterStages
  <2> QED
    BY <1>1, <2>2 DEF Records
<1>2. CASE p \notin Masters
  <2>1. stage[p] \in BoxStages /\ r \in BoxSends[stage[p]]
    BY <1>2 DEF StagesOfKind, Sends
  <2>2. r \in BoxRecords
    BY <2>1 DEF BoxRecords, Range, BoxSends, BoxStages
  <2> QED
    BY <2>2 DEF Records
<1> QED
  BY <1>1, <1>2

\* The commit report is taken for a probe, a box's other records for what they are.
LEMMA BoxParse ==
  ASSUME NEW r \in BoxRecords
  PROVE  IF r = Commit THEN Parse(r) = "probe" ELSE Parse(r) \in {"grant", "filler", "box_hb"}
<1>1. CASE r = Commit
  <2>1. r.type = "cdea" /\ r.op0 = 1 /\ r.op1 = 3 /\ r.op_len = 16
    BY <1>1 DEF Commit, Rec
  <2> QED
    BY <1>1, <2>1 DEF Parse, IsHeartbeat
<1>2. CASE r = ColdConnect
  <2>1. r.type = "cdea" /\ r.op0 = 4 /\ r.op1 = 3 /\ r.op_len = 19 /\ Commit.op0 = 1
    BY <1>2 DEF Commit, ColdConnect, Rec
  <2> QED
    BY <2>1 DEF Parse, IsHeartbeat
<1>3. CASE r = Filler
  <2>1. r.type = "0000" /\ Commit.type = "cdea"
    BY <1>3 DEF Commit, Filler, Rec
  <2> QED
    BY <2>1 DEF Parse, IsHeartbeat
<1>4. CASE r = LinkAck
  <2>1. r.type = "cdea" /\ r.op0 = 1 /\ r.op1 = 3 /\ r.op_len = 1 /\ Commit.op_len = 16
    BY <1>4 DEF Commit, LinkAck, Rec
  <2> QED
    BY <2>1 DEF Parse, IsHeartbeat
<1> QED
  BY <1>1, <1>2, <1>3, <1>4, BoxRecordsAre

\* The width is read off the frame's length, whether or not the residue is on.
LEMMA WidthIsRead ==
  ASSUME NEW n \in Nat, n \in 2 .. 40, n % 2 = 0, NEW residue \in {0, 2}
  PROVE  audio_width(FrameLength(n, residue)) = n
<1> DEFINE fits == {m \in 2..40 : m % 2 = 0 /\ \E x \in {0, 2} : FrameLength(n, residue) = FrameLength(m, x)}
<1>1. n \in fits
  OBVIOUS
<1>2. ASSUME NEW m \in fits PROVE m = n
  <2>1. PICK x \in {0, 2} : 52 + n * 36 + residue = 52 + m * 36 + x /\ m \in Int
    BY <1>2 DEF FrameLength
  <2> QED
    BY <2>1
<1>3. fits = {n}
  BY <1>1, <1>2
<1> HIDE DEF fits
<1>4. Min(fits) = n
  BY <1>3 DEF Min
<1>5. audio_width(FrameLength(n, residue)) = IF fits = {} THEN None ELSE Min(fits)
  BY DEF audio_width, fits
<1> QED
  BY <1>3, <1>4, <1>5

\* What one frame adds to the scores of its row.
LEMMA WhatAFrameScores ==
  ASSUME NEW p \in Ports, NEW r \in Records, p \notin Masters => r \in BoxRecords,
         NEW residue \in {0, 2},
         NEW st, st.frames \in Nat, st.master_score \in Nat, st.box_score \in Nat
  PROVE  Scored(st, p \in Masters, Parse(r), audio_width(FrameLength(Channels[p], residue))) =
           [frames       |-> st.frames + 1,
            master_score |-> IF p \in Masters \/ r = Commit THEN st.master_score + 1 ELSE st.master_score,
            box_score    |-> IF p \in Masters \/ r = Commit THEN st.box_score ELSE st.box_score + 1]
<1> DEFINE width == audio_width(FrameLength(Channels[p], residue))
<1>1. CASE p \in Masters
  <2>1. MasterEvidence(p \in Masters, Parse(r)) /\ ~BoxEvidence(p \in Masters, Parse(r), width)
    BY <1>1 DEF MasterEvidence, BoxEvidence
  <2> QED
    BY <1>1, <2>1 DEF Scored
<1>2. CASE p \notin Masters
  <2>1. Channels[p] \in 1..38 /\ width = Channels[p]
    <3>1. PICK n \in 1..19 : Channels[p] = 2 * n
      BY <1>2, RoleAssumption
    <3>2. Channels[p] \in Nat /\ Channels[p] \in 2..40 /\ Channels[p] % 2 = 0 /\ Channels[p] \in 1..38
      BY <3>1
    <3> QED
      BY <3>2, WidthIsRead
  <2>2. width # None /\ width < 40
    BY <2>1, RoleAssumption
  <2>3. IF r = Commit THEN Parse(r) = "probe" ELSE Parse(r) \in {"grant", "filler", "box_hb"}
    BY <1>2, BoxParse
  <2>4. /\ MasterEvidence(p \in Masters, Parse(r)) <=> r = Commit
        /\ BoxEvidence(p \in Masters, Parse(r), width) <=> r # Commit
    BY <1>2, <2>2, <2>3 DEF MasterEvidence, BoxEvidence
  <2> QED
    BY <1>2, <2>4 DEF Scored
<1> QED
  BY <1>1, <1>2

LEMMA SeenOfType ==
  ASSUME seen \in [Ports -> [Records -> Nat]], NEW p \in Ports
  PROVE  SeenOf(p) \in Nat /\ seen[p] \in [Records -> Nat] /\ seen[p][Commit] \in 0..SeenOf(p)
<1>1. seen[p] \in [Records -> Nat] /\ DOMAIN seen[p] = Records /\ seen[p] \in [Records -> Int]
  OBVIOUS
<1>2. SeenOf(p) = SumFunctionOnSet(seen[p], Records)
  BY <1>1 DEF SeenOf, SumFunction
<1>3. SeenOf(p) \in Int
  BY <1>1, <1>2, RecordsFinite, SumType
<1>4. seen[p][Commit] <= SeenOf(p) /\ seen[p][Commit] \in Nat
  BY <1>1, <1>2, RecordsFinite, SumTerm
<1> QED
  BY <1>1, <1>3, <1>4

\* The sums of the frames seen move with each of them.
LEMMA SeenMoves ==
  ASSUME SeenWithinBound, NEW p \in Ports, NEW r \in Records,
         seen' = [seen EXCEPT ![p][r] = @ + 1],
         SumFunction([q \in Ports |-> SeenOf(q)]) < MaxSeen
  PROVE  /\ SeenWithinBound'
         /\ SeenOf(p)' = SeenOf(p) + 1
         /\ seen'[p][Commit] = IF r = Commit THEN seen[p][Commit] + 1 ELSE seen[p][Commit]
         /\ \A q \in Ports \ {p} : SeenOf(q)' = SeenOf(q) /\ seen'[q] = seen[q]
<1>1. /\ seen \in [Ports -> [Records -> Nat]] /\ Commit \in Records
      /\ \A q \in Ports : SeenOf(q) \in Nat /\ seen[q] \in [Records -> Nat]
  BY SeenOfType, RecordsFinite DEF SeenWithinBound
<1>2. /\ seen' \in [Ports -> [Records -> Nat]]
      /\ seen'[p] = [seen[p] EXCEPT ![r] = @ + 1]
      /\ \A q \in Ports \ {p} : seen'[q] = seen[q]
  BY <1>1
<1>3. seen'[p] \in [Records -> Int] /\ seen[p] \in [Records -> Int]
      /\ seen'[p][r] = seen[p][r] + 1 /\ \A x \in Records \ {r} : seen'[p][x] = seen[p][x]
  BY <1>1, <1>2
<1>4. SumFunctionOnSet(seen'[p], Records) = SumFunctionOnSet(seen[p], Records) + (seen'[p][r] - seen[p][r])
  BY <1>3, RecordsFinite, SumChange
<1>5. SeenOf(p)' = SumFunctionOnSet(seen'[p], Records) /\ SeenOf(p) = SumFunctionOnSet(seen[p], Records)
  BY <1>3 DEF SeenOf, SumFunction
<1>6. SeenOf(p)' = SeenOf(p) + 1
  BY <1>1, <1>3, <1>4, <1>5
<1>7. \A q \in Ports \ {p} : SeenOf(q)' = SeenOf(q)
  BY <1>2 DEF SeenOf
<1> DEFINE old == [q \in Ports |-> SeenOf(q)]
           new == [q \in Ports |-> SeenOf(q)']
<1>8. old \in [Ports -> Int] /\ new \in [Ports -> Int] /\ new[p] = old[p] + 1 /\ old[p] \in Int
      /\ \A q \in Ports \ {p} : new[q] = old[q]
  BY <1>1, <1>6, <1>7
<1>9. SumFunction(old) = SumFunctionOnSet(old, Ports) /\ SumFunction(new) = SumFunctionOnSet(new, Ports)
  BY DEF SumFunction
<1>10. SumFunction([q \in Ports |-> SeenOf(q)])' = SumFunction(new) /\ SumFunction(old) < MaxSeen
  OBVIOUS
<1> HIDE DEF old, new
<1>11. SumFunctionOnSet(new, Ports) = SumFunctionOnSet(old, Ports) + (new[p] - old[p])
  BY <1>8, RoleAssumption, SumChange
<1>12. SumFunctionOnSet(old, Ports) \in Int
  BY <1>8, RoleAssumption, SumType
<1>13. SumFunction(new) <= MaxSeen
  <2>1. MaxSeen \in Nat
    BY RoleAssumption
  <2> QED
    BY <1>8, <1>9, <1>10, <1>11, <1>12, <2>1
<1>14. seen'[p][Commit] = IF r = Commit THEN seen[p][Commit] + 1 ELSE seen[p][Commit]
  BY <1>1, <1>3
<1> QED
  BY <1>2, <1>6, <1>7, <1>10, <1>13, <1>14 DEF SeenWithinBound

\* A port's frames have one key, whichever way the tags are handed over, and
\* no other port has it.
LEMMA KeyOfAFrame ==
  ASSUME NEW p \in Ports, NEW tag \in TagForms(p)
  PROVE  <<SightVlan(tag[1], tag[2]), Mac[p]>> = KeyOf(p)
<1>1. SightVlan(tag[1], tag[2]) = Vlan[p]
  BY DEF TagForms, SightVlan
<1> QED
  BY <1>1 DEF KeyOf

LEMMA KeysDiffer ==
  ASSUME NEW p \in Ports, NEW q \in Ports, p # q
  PROVE  KeyOf(p) # KeyOf(q)
BY RoleAssumption DEF KeyOf

LEMMA SeeStep ==
  ASSUME RoleInv, NEW p \in Ports, NEW r \in Sends(p), See(p, r)
  PROVE  RoleInv'
<1>1. r \in Records /\ (p \notin Masters => r \in BoxRecords)
  BY SentRecords DEF RoleInv
<1>2. PICK tag \in TagForms(p), residue \in {0, 2} :
        LET key   == <<SightVlan(tag[1], tag[2]), Mac[p]>>
            found == IF key \in DOMAIN scores THEN scores[key] ELSE NewScores
            width == audio_width(FrameLength(Channels[p], residue))
        IN  scores' = [k \in DOMAIN scores \cup {key} |->
                         IF k = key THEN Scored(found, p \in Masters, Parse(r), width)
                                    ELSE scores[k]]
  BY DEF See
<1>3. scores' = [k \in DOMAIN scores \cup {KeyOf(p)} |->
                   IF k = KeyOf(p) THEN Scored(Row(p), p \in Masters, Parse(r),
                                               audio_width(FrameLength(Channels[p], residue)))
                                   ELSE scores[k]]
  BY <1>2, KeyOfAFrame DEF Row
<1>4. /\ SeenWithinBound'
      /\ SeenOf(p)' = SeenOf(p) + 1
      /\ seen'[p][Commit] = IF r = Commit THEN seen[p][Commit] + 1 ELSE seen[p][Commit]
      /\ \A q \in Ports \ {p} : SeenOf(q)' = SeenOf(q) /\ seen'[q] = seen[q]
  BY <1>1, SeenMoves DEF RoleInv, See
<1>5. SeenOf(p) \in Nat /\ seen[p][Commit] \in 0..SeenOf(p)
  BY SeenOfType DEF RoleInv, SeenWithinBound
<1>6. Row(p) = RowOf(p)
  BY DEF RoleInv, RowsAreThePorts
<1>7. Row(p).frames \in Nat /\ Row(p).master_score \in Nat /\ Row(p).box_score \in Nat
  BY <1>5, <1>6 DEF RowOf
<1> DEFINE scored == Scored(Row(p), p \in Masters, Parse(r), audio_width(FrameLength(Channels[p], residue)))
<1>8. scored = [frames       |-> Row(p).frames + 1,
                master_score |-> IF p \in Masters \/ r = Commit THEN Row(p).master_score + 1
                                                                ELSE Row(p).master_score,
                box_score    |-> IF p \in Masters \/ r = Commit THEN Row(p).box_score
                                                                ELSE Row(p).box_score + 1]
  BY <1>1, <1>7, WhatAFrameScores
<1>9. scored = RowOf(p)'
  <2>1. SeenOf(p)' = SeenOf(p) + 1 /\ SeenOf(p) \in Int /\ seen[p][Commit] \in Int
    BY <1>4, <1>5
  <2>2. RowOf(p)' = [frames       |-> SeenOf(p)',
                     master_score |-> IF p \in Masters THEN SeenOf(p)' ELSE seen'[p][Commit],
                     box_score    |-> IF p \in Masters THEN 0 ELSE SeenOf(p)' - seen'[p][Commit]]
    BY DEF RowOf
  <2>3. /\ Row(p).frames = SeenOf(p)
        /\ Row(p).master_score = IF p \in Masters THEN SeenOf(p) ELSE seen[p][Commit]
        /\ Row(p).box_score = IF p \in Masters THEN 0 ELSE SeenOf(p) - seen[p][Commit]
    BY <1>6 DEF RowOf
  <2>4. CASE p \in Masters
    BY <1>8, <2>1, <2>2, <2>3, <2>4
  <2>5. CASE p \notin Masters /\ r = Commit
    <3>1. seen'[p][Commit] = seen[p][Commit] + 1
      BY <1>4, <2>5
    <3>2. SeenOf(p)' - seen'[p][Commit] = SeenOf(p) - seen[p][Commit]
      BY <2>1, <3>1
    <3> QED
      BY <1>8, <2>1, <2>2, <2>3, <2>5, <3>1, <3>2
  <2>6. CASE p \notin Masters /\ r # Commit
    <3>1. seen'[p][Commit] = seen[p][Commit]
      BY <1>4, <2>6
    <3>2. SeenOf(p)' - seen'[p][Commit] = (SeenOf(p) - seen[p][Commit]) + 1
      BY <2>1, <3>1
    <3> QED
      BY <1>8, <2>1, <2>2, <2>3, <2>6, <3>1, <3>2
  <2> QED
    BY <2>4, <2>5, <2>6
<1> HIDE DEF scored
<1>10. /\ DOMAIN scores' = DOMAIN scores \cup {KeyOf(p)}
       /\ scores' = [k \in DOMAIN scores' |-> scores'[k]]
       /\ scores'[KeyOf(p)] = scored
       /\ \A k \in DOMAIN scores \ {KeyOf(p)} : scores'[k] = scores[k]
  <2>1. scores' = [k \in DOMAIN scores \cup {KeyOf(p)} |-> IF k = KeyOf(p) THEN scored ELSE scores[k]]
    BY <1>3 DEF scored
  <2> QED
    BY <2>1
<1>11. DOMAIN scores' = {KeyOf(x) : x \in {q \in Ports : SeenOf(q)' > 0}}
  <2>1. DOMAIN scores = {KeyOf(x) : x \in {q \in Ports : SeenOf(q) > 0}}
    BY DEF RoleInv, RowsAreThePorts
  <2>2. SeenOf(p)' > 0
    BY <1>4, <1>5
  <2>3. \A q \in Ports : SeenOf(q)' > 0 <=> q = p \/ SeenOf(q) > 0
    BY <1>4, <2>2
  <2> QED
    BY <1>10, <2>1, <2>3
<1>12. \A q \in Ports : Row(q)' = RowOf(q)'
  <2> SUFFICES ASSUME NEW q \in Ports PROVE Row(q)' = RowOf(q)'
    OBVIOUS
  <2>1. CASE q = p
    BY <1>9, <1>10, <2>1 DEF Row, KeyOf
  <2>2. CASE q # p
    <3>1. KeyOf(q) # KeyOf(p)
      BY <2>2, KeysDiffer
    <3>2. Row(q)' = Row(q)
      BY <1>10, <3>1 DEF Row, KeyOf
    <3>3. RowOf(q)' = RowOf(q)
      BY <1>4, <2>2 DEF RowOf
    <3> QED
      BY <3>2, <3>3 DEF RoleInv, RowsAreThePorts
  <2> QED
    BY <2>1, <2>2
<1>13. StagesOfKind'
  BY DEF RoleInv, See, StagesOfKind
<1>14. RowsAreThePorts'
  BY <1>10, <1>11, <1>12 DEF RowsAreThePorts, KeyOf
<1> QED
  BY <1>4, <1>13, <1>14 DEF RoleInv

LEMMA HandshakeStep ==
  ASSUME RoleInv, NEW b \in Ports \ Masters, Handshake(b)
  PROVE  RoleInv'
<1>1. PICK m \in Masters : m = PeerOf[b]
  BY RoleAssumption
<1>2. /\ \/ ToStage(m, b, "granting", "cold") \/ ToStage(m, b, "granting", "committing")
         \/ ToStage(m, b, "linked", "linked") \/ ToStage(m, b, "probing", "cold")
      /\ UNCHANGED <<scores, seen>>
  BY <1>1 DEF Handshake
<1>3. PICK ms \in MasterStages, bs \in BoxStages : stage' = [stage EXCEPT ![m] = ms, ![b] = bs]
  BY <1>2 DEF ToStage, MasterStages, BoxStages
<1>4. StagesOfKind'
  <2>1. Masters \subseteq Ports /\ m # b /\ m \in Ports /\ b \in Ports
    BY <1>1, RoleAssumption
  <2> QED
    BY <1>1, <1>3, <2>1 DEF RoleInv, StagesOfKind
<1>5. SeenWithinBound' /\ RowsAreThePorts'
  BY <1>2 DEF RoleInv, SeenWithinBound, RowsAreThePorts, SeenOf, KeyOf, Row, RowOf
<1> QED
  BY <1>4, <1>5 DEF RoleInv

LEMMA RoleInitially == RoleInit => RoleInv
<1> SUFFICES ASSUME RoleInit PROVE RoleInv
  OBVIOUS
<1>1. StagesOfKind
  BY RoleAssumption DEF RoleInit, StagesOfKind, MasterStages, BoxStages
<1> DEFINE zero == [r \in Records |-> 0]
<1>2. seen = [p \in Ports |-> zero] /\ zero \in [Records -> Nat] /\ zero \in [Records -> Int]
      /\ DOMAIN zero = Records /\ \A r \in Records : zero[r] = 0
  BY DEF RoleInit
<1> HIDE DEF zero
<1>3. SumFunctionOnSet(zero, Records) = 0
  BY <1>2, RecordsFinite, SumZero
<1>4. \A p \in Ports : SeenOf(p) = 0 /\ seen[p][Commit] = 0
  BY <1>2, <1>3, RecordsFinite DEF SeenOf, SumFunction
<1> DEFINE sums == [p \in Ports |-> SeenOf(p)]
<1>5. sums \in [Ports -> Int] /\ DOMAIN sums = Ports /\ \A p \in Ports : sums[p] = 0
  BY <1>4
<1>6. SumFunction(sums) = 0
  <2> HIDE DEF sums
  <2> QED
    BY <1>5, RoleAssumption, SumZero DEF SumFunction
<1>7. SeenWithinBound
  BY <1>2, <1>6, RoleAssumption DEF SeenWithinBound
<1>8. scores = [k \in {} |-> NewScores]
  BY DEF RoleInit
<1>9. \A p \in Ports : Row(p) = RowOf(p)
  BY <1>4, <1>8 DEF Row, RowOf, NewScores
<1>10. RowsAreThePorts
  BY <1>4, <1>8, <1>9 DEF RowsAreThePorts
<1> QED
  BY <1>1, <1>7, <1>10 DEF RoleInv

\* The rows are the ports whatever is sent, seen and forgotten.
THEOREM RoleSafety == RoleSpec => []RoleInv
<1>1. RoleInv /\ [RoleNext]_roleVars => RoleInv'
  <2> SUFFICES ASSUME RoleInv, [RoleNext]_roleVars PROVE RoleInv'
    OBVIOUS
  <2>1. CASE \E p \in Ports : \E r \in Sends(p) : See(p, r)
    BY <2>1, SeeStep
  <2>2. CASE \E b \in Ports \ Masters : Handshake(b)
    BY <2>2, HandshakeStep
  <2>3. CASE UNCHANGED roleVars
    BY <2>3 DEF roleVars, RoleInv, StagesOfKind, SeenWithinBound, RowsAreThePorts, SeenOf, KeyOf,
                Row, RowOf
  <2> QED
    BY <2>1, <2>2, <2>3 DEF RoleNext
<1> QED
  BY <1>1, RoleInitially, PTL DEF RoleSpec

\* One row for each port seen, with all its frames and none of another's.
THEOREM RowsCorrect == RoleSpec => []OneRowPerPort
<1>1. RoleInv => OneRowPerPort
  BY DEF RoleInv, RowsAreThePorts, OneRowPerPort, RowOf
<1> QED
  BY <1>1, RoleSafety, PTL

\* A row's role is what its port is, for a box that sent mostly other frames than
\* commits; the grants, which are to say nothing of the speaker, are left out.
THEOREM RolesCorrect == RoleSpec => []RoleIsTheSpeakers
<1>1. RoleInv => RoleIsTheSpeakers
  <2> SUFFICES ASSUME RoleInv, NEW p \in Ports
               PROVE  /\ p \in Masters /\ SeenBeyondGrants(p) > 0 => role(Row(p)) = "master"
                      /\ p \notin Masters /\ SeenBeyondGrants(p) > 2 * seen[p][Commit] =>
                           role(Row(p)) = "box"
    BY DEF RoleIsTheSpeakers
  <2>1. SeenOf(p) \in Nat /\ seen[p][Commit] \in 0..SeenOf(p) /\ seen[p] \in [Records -> Nat]
    BY SeenOfType DEF RoleInv, SeenWithinBound
  <2>2. seen[p][ColdConnect] \in Nat /\ seen[p][GrantEcho] \in Nat
    BY <2>1, RecordsFinite
  <2>3. SeenBeyondGrants(p) \in Int /\ SeenBeyondGrants(p) <= SeenOf(p)
    BY <2>1, <2>2 DEF SeenBeyondGrants, Grants
  <2>4. Row(p) = RowOf(p)
    BY DEF RoleInv, RowsAreThePorts
  <2> QED
    BY <2>1, <2>3, <2>4 DEF RowOf, role
<1> QED
  BY <1>1, RoleSafety, PTL

\* Stages, scores and counts are well typed, and no row scores more than the
\* frames it counts (Stream.feed).
THEOREM RoleTypeCorrect == RoleSpec => []RoleTypeOK
<1>1. RoleInv => RoleTypeOK
  <2> SUFFICES ASSUME RoleInv PROVE RoleTypeOK
    OBVIOUS
  <2>1. \A p \in Ports : stage[p] \in {"probing", "granting", "linked", "cold", "committing"}
    BY DEF RoleInv, StagesOfKind, MasterStages, BoxStages
  <2>2. \A p \in Ports : SeenOf(p) \in 0..MaxSeen
    <3> SUFFICES ASSUME NEW p \in Ports PROVE SeenOf(p) \in 0..MaxSeen
      OBVIOUS
    <3> DEFINE sums == [q \in Ports |-> SeenOf(q)]
    <3>1. sums \in [Ports -> Nat] /\ DOMAIN sums = Ports /\ sums[p] = SeenOf(p) /\ SeenOf(p) \in Nat
      BY SeenOfType DEF RoleInv, SeenWithinBound
    <3>2. SumFunction(sums) <= MaxSeen
      BY DEF RoleInv, SeenWithinBound
    <3> HIDE DEF sums
    <3>3. sums \in [Ports -> Int]
      BY <3>1
    <3>4. sums[p] <= SumFunctionOnSet(sums, Ports) /\ SumFunctionOnSet(sums, Ports) \in Int
      BY <3>1, <3>3, RoleAssumption, SumTerm, SumType
    <3> QED
      BY <3>1, <3>2, <3>4, RoleAssumption DEF SumFunction
  <2>3. seen \in [Ports -> [Records -> 0..MaxSeen]]
    <3>1. \A p \in Ports : \A r \in Records : seen[p][r] \in 0..MaxSeen
      <4> SUFFICES ASSUME NEW p \in Ports, NEW r \in Records PROVE seen[p][r] \in 0..MaxSeen
        OBVIOUS
      <4>1. seen[p] \in [Records -> Nat] /\ SeenOf(p) \in 0..MaxSeen
        BY <2>2, SeenOfType DEF RoleInv, SeenWithinBound
      <4>2. seen[p][r] <= SumFunctionOnSet(seen[p], Records) /\ seen[p][r] \in Nat
        BY <4>1, RecordsFinite, SumTerm
      <4>3. SeenOf(p) = SumFunctionOnSet(seen[p], Records)
        BY <4>1 DEF SeenOf, SumFunction
      <4> QED
        BY <4>1, <4>2, <4>3, RoleAssumption
    <3> QED
      BY <3>1 DEF RoleInv, SeenWithinBound
  <2>4. ASSUME NEW k \in DOMAIN scores
        PROVE  /\ scores[k].frames \in 1..MaxSeen
               /\ scores[k].master_score + scores[k].box_score <= scores[k].frames
    <3>1. PICK p \in Ports : k = KeyOf(p) /\ SeenOf(p) > 0
      BY DEF RoleInv, RowsAreThePorts
    <3>2. scores[k] = RowOf(p)
      BY <3>1 DEF RoleInv, RowsAreThePorts, Row
    <3>3. SeenOf(p) \in 1..MaxSeen /\ seen[p][Commit] \in 0..SeenOf(p)
      BY <2>2, <3>1, SeenOfType DEF RoleInv, SeenWithinBound
    <3> QED
      BY <3>2, <3>3 DEF RowOf
  <2> QED
    BY <2>1, <2>3, <2>4 DEF RoleTypeOK
<1> QED
  BY <1>1, RoleSafety, PTL
===============================================================================
