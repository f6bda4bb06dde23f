---------------------------- MODULE SocketProofs ----------------------------
(* The concurrent session of the parked socket, for all requests and wakes,   *)
(* whatever its capacity, its limits and its timers.                          *)
EXTENDS ParkedSocket, FiniteSetTheorems, SequenceTheorems, TLAPS

\* Jobs and open receives together fit in.
RoomInv == IsFiniteSet(active) /\ Cardinality(active) + Len(waiting) <= Capacity

\* The queue of receives holds the open ones, each once; none of them threw.
QueueInv ==
  /\ \A i \in 1..Len(waiting) : got[waiting[i]].st = "open"
  /\ \A n \in Receives : got[n].st = "open" => \E i \in 1..Len(waiting) : waiting[i] = n
  /\ \A i, j \in 1..Len(waiting) : waiting[i] = waiting[j] => i = j
  /\ \A n \in Receives : got[n].file = "failed" => got[n].st # "open"

\* A job has a receive to itself, and keeps it.
JobInv ==
  /\ \A c \in Calls : c \in active <=> call[c].st \in {"active", "finishing"}
  /\ \A c \in Calls : call[c].st \notin {"unused", "refused"} => call[c].req \in Requests
  /\ \A c \in Calls : call[c].st \in {"finishing", "finished"} => call[c].verdict \in Dispositions
  /\ \A n \in Receives : got[n].call # None =>
       got[n].st = "call" /\ call[got[n].call].st \notin {"unused", "refused"}
  /\ \A n \in Receives : got[n].st = "call" => got[n].call # None
  /\ \A n, m \in Receives : got[n].call # None /\ got[n].call = got[m].call => n = m
  /\ \A c \in active : \E n \in Receives : got[n].call = c

\* A closing session waits for nobody; an idle timer runs beside no job.
TimerInv ==
  /\ reason # "none" => retired /\ waiting = <<>>
  /\ retired => reason # "none" \/ active # {}
  /\ idle => active = {}
  /\ waiting # <<>> => idle \/ active # {}

\* A request was settled, and its client told or the answer published.
Published(r) == \E e \in Calls : /\ call[e].st = "finished" /\ call[e].req = r
                                 /\ call[e].verdict = "published"

\* Work told pending is being finished so, or stays reserved until it is settled
\* or the session admits nobody any more.
PendingInv ==
  \A d \in Calls : call[d].told = "pending" =>
    \/ call[d].st = "finishing" /\ call[d].verdict = "pending"
    \/ /\ call[d].st = "finished"
       /\ retired \/ call[d].req \in reserved \/ Published(call[d].req)

\* The inductive invariant.
SocketInv == SocketTypeOK /\ RoomInv /\ QueueInv /\ JobInv /\ TimerInv /\ PendingInv

----------------------------------------------------------------------------
\* A session begins with nothing open.
LEMMA SocketInvInit == SocketInit => SocketInv
<1> SUFFICES ASSUME SocketInit PROVE SocketInv
  OBVIOUS
<1>1. NoCall \in CallType
  BY DEF NoCall, CallType, Operations
<1>2. SocketTypeOK
  <2>1. waiting \in Seq(Receives)
    BY DEF SocketInit
  <2>2. got \in [Receives -> ReceiveType]
    BY DEF SocketInit, NoReceive, ReceiveType
  <2>3. call \in [Calls -> CallType]
    BY <1>1 DEF SocketInit
  <2>4. /\ active \subseteq Calls /\ reserved \subseteq Requests /\ seen \subseteq Calls
        /\ retired \in BOOLEAN /\ audited \in BOOLEAN /\ idle \in BOOLEAN
        /\ reason \in Reasons
    BY DEF SocketInit, Reasons
  <2> QED BY <2>1, <2>2, <2>3, <2>4 DEF SocketTypeOK
<1>3. RoomInv
  BY FS_EmptySet, SocketAssumption DEF SocketInit, RoomInv
<1>4. QueueInv
  BY DEF SocketInit, QueueInv, NoReceive
<1>5. JobInv
  BY DEF SocketInit, JobInv, NoCall, NoReceive
<1>6. TimerInv
  BY DEF SocketInit, TimerInv
<1>7. PendingInv
  BY DEF SocketInit, PendingInv, NoCall
<1> QED BY <1>2, <1>3, <1>4, <1>5, <1>6, <1>7 DEF SocketInv

----------------------------------------------------------------------------
(* Closing                                                                  *)

\* Jobs that go on keep their receives.
LEMMA JobsKept ==
  ASSUME SocketTypeOK, JobInv, active' \subseteq active,
         \A c \in Calls : /\ c \in active' <=> call'[c].st \in {"active", "finishing"}
                          /\ call'[c].st \notin {"unused", "refused"} => call'[c].req \in Requests
                          /\ call'[c].st \in {"finishing", "finished"} => call'[c].verdict \in Dispositions
                          /\ call[c].st \notin {"unused", "refused"} =>
                               call'[c].st \notin {"unused", "refused"},
         \A n \in Receives : /\ got'[n].call = got[n].call
                             /\ got[n].st = "call" <=> got'[n].st = "call"
  PROVE  JobInv'
<1>1. \A n \in Receives : got[n].call \in Calls \cup {None}
  BY DEF SocketTypeOK, ReceiveType
<1>2. \A n \in Receives : got'[n].call # None =>
        got'[n].st = "call" /\ call'[got'[n].call].st \notin {"unused", "refused"}
  BY <1>1 DEF JobInv
<1>3. /\ \A n, m \in Receives : got'[n].call # None /\ got'[n].call = got'[m].call => n = m
      /\ \A n \in Receives : got'[n].st = "call" => got'[n].call # None
  BY DEF JobInv
<1>4. \A c \in active' : \E n \in Receives : got'[n].call = c
  <2> SUFFICES ASSUME NEW c \in active' PROVE \E n \in Receives : got'[n].call = c
    OBVIOUS
  <2>1. PICK n \in Receives : got[n].call = c
    BY DEF JobInv
  <2> QED BY <2>1
<1> QED BY <1>2, <1>3, <1>4 DEF JobInv

\* A close that changes no call but for its connection.
LEMMA CloseKeepsQueue ==
  ASSUME SocketInv, NEW why \in Reasons \ {"none"}, NEW calls, NEW refused \in SUBSET Receives,
         calls \in [Calls -> CallType], CloseEffect(why, calls, refused),
         \A n \in refused : got[n].st = "unopened" \/ got[n].st = "open"
  PROVE  /\ call' \in [Calls -> CallType]
         /\ \A c \in Calls : /\ call'[c].st = calls[c].st /\ call'[c].req = calls[c].req
                             /\ call'[c].told = calls[c].told
                             /\ call'[c].verdict = calls[c].verdict
         /\ got' \in [Receives -> ReceiveType]
         /\ \A n \in Receives : /\ got'[n].call = got[n].call
                                /\ got[n].st = "call" <=> got'[n].st = "call"
                                /\ got'[n].st # "open"
         /\ waiting' = <<>> /\ retired' /\ ~idle' /\ reason' \in Reasons \ {"none"}
         /\ retired' \in BOOLEAN /\ idle' \in BOOLEAN
<1>1. call' = [c \in Calls |-> [calls[c] EXCEPT !.conn = FALSE]]
  BY DEF CloseEffect
<1>2. \A c \in Calls : /\ [calls[c] EXCEPT !.conn = FALSE] \in CallType
                       /\ [calls[c] EXCEPT !.conn = FALSE].st = calls[c].st
                       /\ [calls[c] EXCEPT !.conn = FALSE].req = calls[c].req
                       /\ [calls[c] EXCEPT !.conn = FALSE].told = calls[c].told
                       /\ [calls[c] EXCEPT !.conn = FALSE].verdict = calls[c].verdict
  BY DEF CallType
<1>3. /\ call' \in [Calls -> CallType]
      /\ \A c \in Calls : /\ call'[c].st = calls[c].st /\ call'[c].req = calls[c].req
                          /\ call'[c].told = calls[c].told
                          /\ call'[c].verdict = calls[c].verdict
  BY <1>1, <1>2
<1>4. got' \in [Receives -> ReceiveType]
  <2>1. got \in [Receives -> ReceiveType]
    BY DEF SocketInv, SocketTypeOK
  <2>2. \A n \in Receives : [got[n] EXCEPT !.st = "null"] \in ReceiveType
    BY <2>1 DEF ReceiveType
  <2> QED BY <2>1, <2>2 DEF CloseEffect
<1>5. \A n \in Receives : /\ got'[n].call = got[n].call
                          /\ got[n].st = "call" <=> got'[n].st = "call"
                          /\ got'[n].st # "open"
  BY DEF CloseEffect, SocketInv, SocketTypeOK
<1>6. waiting' = <<>> /\ retired' /\ ~idle' /\ reason' \in Reasons \ {"none"}
      /\ retired' \in BOOLEAN /\ idle' \in BOOLEAN
  BY DEF CloseEffect, SocketInv, SocketTypeOK
<1> QED BY <1>3, <1>4, <1>5, <1>6

\* A close on its own, or of a receive that comes too late.
LEMMA CloseKeeps ==
  ASSUME SocketInv, NEW why \in Reasons \ {"none"}, NEW refused \in SUBSET Receives,
         CloseEffect(why, call, refused), UNCHANGED <<active, reserved, seen, audited>>,
         \A n \in refused : got[n].st = "unopened"
  PROVE  SocketInv'
<1>0. call \in [Calls -> CallType]
  BY DEF SocketInv, SocketTypeOK
<1>1. /\ call' \in [Calls -> CallType]
      /\ \A c \in Calls : /\ call'[c].st = call[c].st /\ call'[c].req = call[c].req
                          /\ call'[c].told = call[c].told
                          /\ call'[c].verdict = call[c].verdict
      /\ got' \in [Receives -> ReceiveType]
      /\ \A n \in Receives : /\ got'[n].call = got[n].call
                             /\ got[n].st = "call" <=> got'[n].st = "call"
                             /\ got'[n].st # "open"
      /\ waiting' = <<>> /\ retired' /\ ~idle' /\ reason' \in Reasons \ {"none"}
      /\ retired' \in BOOLEAN /\ idle' \in BOOLEAN
  BY <1>0, CloseKeepsQueue
<1>2. active' = active /\ reserved' = reserved /\ seen' = seen /\ audited' = audited
  OBVIOUS
<1>3. SocketTypeOK'
  BY <1>1, <1>2 DEF SocketInv, SocketTypeOK
<1>4. RoomInv'
  <2>1. Cardinality(active) \in Nat /\ Len(waiting) \in Nat /\ Len(waiting') = 0
    BY <1>1, FS_CardinalityType DEF SocketInv, RoomInv, SocketTypeOK
  <2> QED BY <1>2, <2>1, SocketAssumption DEF SocketInv, RoomInv
<1>5. QueueInv'
  BY <1>1 DEF QueueInv
<1>6. JobInv'
  BY <1>1, <1>2, JobsKept DEF SocketInv, JobInv
<1>7. TimerInv'
  BY <1>1, <1>2 DEF SocketInv, TimerInv
<1>8. PendingInv'
  <2> SUFFICES ASSUME NEW d \in Calls, call'[d].told = "pending"
               PROVE  \/ call'[d].st = "finishing" /\ call'[d].verdict = "pending"
                      \/ call'[d].st = "finished" /\ retired'
    BY DEF PendingInv
  <2> QED BY <1>1 DEF SocketInv, PendingInv
<1> QED BY <1>3, <1>4, <1>5, <1>6, <1>7, <1>8 DEF SocketInv

\* The audit of a close, and a lease that ends beside a job.
LEMMA RetireKeeps ==
  ASSUME SocketInv,
         UNCHANGED <<waiting, got, active, reserved, seen, call, reason, idle>>,
         audited' \in BOOLEAN, retired' \in BOOLEAN,
         retired' # retired => retired' = TRUE /\ active # {}
  PROVE  SocketInv'
<1>1. SocketTypeOK' /\ RoomInv' /\ QueueInv' /\ JobInv'
  BY DEF SocketInv, SocketTypeOK, RoomInv, QueueInv, JobInv
<1>2. CASE retired' = retired
  BY <1>1, <1>2 DEF SocketInv, TimerInv, PendingInv, Published
<1>3. CASE retired' # retired
  <2>1. TimerInv'
    BY <1>3 DEF SocketInv, TimerInv, SocketTypeOK
  <2>2. PendingInv'
    BY <1>3 DEF SocketInv, PendingInv, Published
  <2> QED BY <1>1, <2>1, <2>2 DEF SocketInv
<1> QED BY <1>2, <1>3

\* Everything that closes a session at once.
LEMMA ClosesKeep ==
  ASSUME SocketInv,
         \/ \E why \in Reasons \ {"none"} : Close(why)
         \/ IdleExpires \/ LeaseExpires \/ CloseEnds
  PROVE  SocketInv'
<1>1. ASSUME NEW why \in Reasons \ {"none"}, Close(why) PROVE SocketInv'
  BY <1>1, CloseKeeps DEF Close
<1>2. "idle_expired" \in Reasons \ {"none"} /\ "lease_expired" \in Reasons \ {"none"}
  BY DEF Reasons
<1>3. CASE IdleExpires
  BY <1>1, <1>2, <1>3 DEF IdleExpires
<1>4. CASE LeaseExpires
  <2>1. CASE active = {}
    BY <1>1, <1>2, <1>4, <2>1 DEF LeaseExpires
  <2>2. CASE active # {}
    BY <1>4, <2>2, RetireKeeps DEF LeaseExpires, SocketInv, SocketTypeOK
  <2> QED BY <2>1, <2>2
<1>5. CASE CloseEnds
  BY <1>5, RetireKeeps DEF CloseEnds, SocketInv, SocketTypeOK
<1> QED BY <1>1, <1>3, <1>4, <1>5

----------------------------------------------------------------------------
(* Receives                                                                 *)

\* A receive that opens, is taken back or returns nothing leaves every call.
LEMMA QueueChangeKeeps ==
  ASSUME SocketInv, UNCHANGED <<active, reserved, seen, call, retired, reason, audited>>,
         waiting' \in Seq(Receives), idle' \in BOOLEAN,
         got' \in [Receives -> ReceiveType],
         \A n \in Receives : /\ got'[n].call = got[n].call
                             /\ got[n].st = "call" <=> got'[n].st = "call",
         QueueInv', Cardinality(active) + Len(waiting') <= Capacity,
         reason # "none" => waiting' = <<>>,
         idle' => active = {}, waiting' # <<>> => idle' \/ active # {}
  PROVE  SocketInv'
<1>1. SocketTypeOK'
  BY DEF SocketInv, SocketTypeOK
<1>2. RoomInv' /\ TimerInv'
  BY DEF SocketInv, RoomInv, TimerInv
<1>3. JobInv'
  <2>1. \A c \in Calls : call'[c] = call[c]
    OBVIOUS
  <2>2. active' = active
    OBVIOUS
  <2>3. \A c \in Calls : /\ c \in active' <=> call'[c].st \in {"active", "finishing"}
                         /\ call'[c].st \notin {"unused", "refused"} => call'[c].req \in Requests
                         /\ call'[c].st \in {"finishing", "finished"} => call'[c].verdict \in Dispositions
    BY <2>1, <2>2 DEF SocketInv, JobInv
  <2> QED BY <2>1, <2>2, <2>3, JobsKept DEF SocketInv
<1>4. PendingInv'
  BY DEF SocketInv, PendingInv, Published
<1> QED BY <1>1, <1>2, <1>3, <1>4 DEF SocketInv

\* A receive opens, fails, or finds the session at its end.
LEMMA ReceiveKeeps ==
  ASSUME SocketInv, NEW n \in Receives, Receive(n)
  PROVE  SocketInv'
<1>1. CASE retired \/ Cardinality(seen) >= SeenLimit
  <2>1. CloseEffect("session_finished", call, {n})
    BY <1>1 DEF Receive
  <2>2. got[n].st = "unopened" /\ UNCHANGED <<active, reserved, seen, audited>>
    BY DEF Receive
  <2>3. "session_finished" \in Reasons \ {"none"}
    BY DEF Reasons
  <2> QED BY <2>1, <2>2, <2>3, CloseKeeps
<1>2. CASE ~(retired \/ Cardinality(seen) >= SeenLimit)
  <2>1. /\ got[n].st = "unopened" /\ ~retired /\ HasRoom
        /\ waiting' = Append(waiting, n)
        /\ got' = [got EXCEPT ![n].st = "open", ![n].file = "writing"]
        /\ idle' = IdleArmed(waiting', active)
        /\ UNCHANGED <<active, reserved, seen, call, retired, reason, audited>>
    BY <1>2 DEF Receive
  <2>2. idle' \in BOOLEAN /\ (idle' <=> active = {}) /\ reason = "none"
    <3>1. waiting' # <<>>
      BY <2>1 DEF SocketInv, SocketTypeOK
    <3> QED BY <2>1, <3>1 DEF IdleArmed, SocketInv, TimerInv, SocketTypeOK
  <2>3. waiting \in Seq(Receives)
        /\ got \in [Receives -> ReceiveType]
    BY DEF SocketInv, SocketTypeOK
  <2>4. Cardinality(active) \in Nat /\ Len(waiting) \in Nat
        /\ Cardinality(active) + Len(waiting) < Capacity
    BY <2>1, <2>3, FS_CardinalityType DEF HasRoom, SocketInv, RoomInv
  <2>5. /\ waiting' \in Seq(Receives) /\ Len(waiting') = Len(waiting) + 1
        /\ \A i \in 1..Len(waiting) : waiting'[i] = waiting[i]
        /\ waiting'[Len(waiting) + 1] = n
    BY <2>1, <2>3
  <2>6. /\ \A m \in Receives : m # n => got'[m] = got[m]
        /\ got'[n].st = "open" /\ got'[n].call = got[n].call /\ got'[n].file = "writing"
        /\ got' \in [Receives -> ReceiveType]
    BY <2>1, <2>3 DEF ReceiveType
  <2>7. QueueInv'
    <3>1. \A i \in 1..Len(waiting') : got'[waiting'[i]].st = "open"
      <4> SUFFICES ASSUME NEW i \in 1..Len(waiting') PROVE got'[waiting'[i]].st = "open"
        OBVIOUS
      <4>1. CASE i \in 1..Len(waiting)
        <5>1. waiting[i] \in Receives /\ got[waiting[i]].st = "open"
          BY <2>3, <4>1 DEF SocketInv, QueueInv
        <5> QED BY <2>1, <2>5, <2>6, <4>1, <5>1
      <4>2. CASE i = Len(waiting) + 1
        BY <2>5, <2>6, <4>2
      <4> QED BY <2>4, <2>5, <4>1, <4>2
    <3>2. \A m \in Receives : got'[m].st = "open" => \E i \in 1..Len(waiting') : waiting'[i] = m
      <4> SUFFICES ASSUME NEW m \in Receives, got'[m].st = "open"
                   PROVE  \E i \in 1..Len(waiting') : waiting'[i] = m
        OBVIOUS
      <4>1. CASE m = n
        <5>1. Len(waiting) + 1 \in 1..Len(waiting')
          BY <2>4, <2>5
        <5> QED BY <2>5, <4>1, <5>1
      <4>2. CASE m # n
        <5>1. PICK i \in 1..Len(waiting) : waiting[i] = m
          BY <2>6, <4>2 DEF SocketInv, QueueInv
        <5>2. i \in 1..Len(waiting')
          BY <2>4, <2>5, <5>1
        <5> QED BY <2>5, <5>1, <5>2
      <4> QED BY <4>1, <4>2
    <3>3. \A i \in 1..Len(waiting) : waiting[i] # n
      BY <2>1, <2>3 DEF SocketInv, QueueInv
    <3>4. \A i, j \in 1..Len(waiting') : waiting'[i] = waiting'[j] => i = j
      BY <2>3, <2>5, <3>3 DEF SocketInv, QueueInv
    <3>5. \A m \in Receives : got'[m].file = "failed" => got'[m].st # "open"
      BY <2>6 DEF SocketInv, QueueInv
    <3> QED BY <3>1, <3>2, <3>4, <3>5 DEF QueueInv
  <2>8. Cardinality(active) + Len(waiting') <= Capacity
    BY <2>4, <2>5, SocketAssumption
  <2>9. \A m \in Receives : /\ got'[m].call = got[m].call
                            /\ got[m].st = "call" <=> got'[m].st = "call"
    BY <2>1, <2>6
  <2> QED BY <2>1, <2>2, <2>5, <2>6, <2>7, <2>8, <2>9, QueueChangeKeeps
<1> QED BY <1>1, <1>2

\* The ready file of a receive that nothing takes out of the queue.
LEMMA FileKeeps ==
  ASSUME SocketInv, NEW n \in Receives, NEW file \in {"written", "failed"},
         file = "failed" => got[n].st # "open",
         got' = [got EXCEPT ![n].file = file],
         UNCHANGED <<waiting, active, reserved, seen, call, retired, reason, audited, idle>>
  PROVE  SocketInv'
<1>1. /\ got \in [Receives -> ReceiveType] /\ waiting \in Seq(Receives)
      /\ idle \in BOOLEAN
  BY DEF SocketInv, SocketTypeOK
<1>2. /\ got' \in [Receives -> ReceiveType]
      /\ \A m \in Receives : /\ got'[m].st = got[m].st /\ got'[m].call = got[m].call
                             /\ m # n => got'[m].file = got[m].file
      /\ got'[n].file = file
  BY <1>1 DEF ReceiveType
<1>3. QueueInv'
  <2>1. \A i \in 1..Len(waiting) : waiting[i] \in Receives
    BY <1>1
  <2> QED BY <1>2, <2>1 DEF SocketInv, QueueInv
<1>4. /\ Cardinality(active) + Len(waiting') <= Capacity
      /\ reason # "none" => waiting' = <<>>
      /\ idle' => active = {}
      /\ waiting' # <<>> => idle' \/ active # {}
  BY DEF SocketInv, RoomInv, TimerInv
<1> QED BY <1>1, <1>2, <1>3, <1>4, QueueChangeKeeps

\* A queue without one of its places.
LEMMA SplicedQueue ==
  ASSUME waiting \in Seq(Receives), NEW i \in 1..Len(waiting)
  PROVE  LET w == Spliced(waiting, i) IN
         /\ w \in Seq(Receives) /\ Len(w) = Len(waiting) - 1
         /\ \A j \in 1..(i - 1) : w[j] = waiting[j]
         /\ \A j \in i..Len(w) : w[j] = waiting[j + 1]
<1> DEFINE a == SubSeq(waiting, 1, i - 1)
           b == SubSeq(waiting, i + 1, Len(waiting))
           w == a \o b
           k == i - 1
           l == Len(waiting) - i
<1>1. /\ a \in Seq(Receives) /\ Len(a) = k
      /\ \A j \in 1..k : a[j] = waiting[j]
  OBVIOUS
<1>2. /\ b \in Seq(Receives) /\ Len(b) = l
      /\ \A j \in 1..l : b[j] = waiting[i + j]
  OBVIOUS
<1>3. w = Spliced(waiting, i)
  BY DEF Spliced
<1>4. /\ k \in Nat /\ l \in Nat /\ i = k + 1 /\ Len(waiting) = k + l + 1
  OBVIOUS
<1> HIDE DEF a, b, k, l
<1>5. /\ w \in Seq(Receives) /\ Len(w) = Len(a) + Len(b)
      /\ \A j \in 1..(Len(a) + Len(b)) :
           w[j] = IF j <= Len(a) THEN a[j] ELSE b[j - Len(a)]
  BY <1>1, <1>2, ConcatProperties
<1> HIDE DEF w
<1>6. /\ w \in Seq(Receives) /\ Len(w) = k + l
      /\ \A j \in 1..(k + l) : w[j] = IF j <= k THEN a[j] ELSE b[j - k]
  BY <1>1, <1>2, <1>5
<1>7. \A j \in 1..k : w[j] = waiting[j]
  <2> SUFFICES ASSUME NEW j \in 1..k PROVE w[j] = waiting[j]
    OBVIOUS
  <2>1. j \in 1..(k + l) /\ j <= k
    BY <1>4
  <2> QED BY <1>1, <1>6, <2>1
<1>8. \A j \in i..(k + l) : w[j] = waiting[j + 1]
  <2> SUFFICES ASSUME NEW j \in i..(k + l) PROVE w[j] = waiting[j + 1]
    OBVIOUS
  <2>1. j \in 1..(k + l) /\ ~(j <= k) /\ j - k \in 1..l /\ i + (j - k) = j + 1
    BY <1>4
  <2>2. w[j] = b[j - k]
    BY <1>6, <2>1
  <2>3. b[j - k] = waiting[i + (j - k)]
    BY <1>2, <2>1
  <2> QED BY <2>1, <2>2, <2>3
<1>9. Len(w) = Len(waiting) - 1 /\ i - 1 = k
  BY <1>4, <1>6
<1> QED BY <1>3, <1>6, <1>7, <1>8, <1>9

\* A receive leaves the queue with nothing, at its bound or because it threw.
LEMMA TakenBackKeeps ==
  ASSUME SocketInv, NEW n \in Receives, NEW i \in 1..Len(waiting),
         got[n].st = "open", waiting[i] = n, waiting' = Spliced(waiting, i),
         got' \in [Receives -> ReceiveType],
         got'[n].st = "null", got'[n].call = got[n].call,
         \A m \in Receives : m # n => got'[m] = got[m],
         idle' \in BOOLEAN, idle' => active = {}, waiting' # <<>> => idle' \/ active # {},
         UNCHANGED <<active, reserved, seen, call, retired, reason, audited>>
  PROVE  SocketInv'
<1>3. waiting \in Seq(Receives)
  BY DEF SocketInv, SocketTypeOK
<1>4. /\ waiting' \in Seq(Receives) /\ Len(waiting') = Len(waiting) - 1
      /\ \A j \in 1..(i - 1) : waiting'[j] = waiting[j]
      /\ \A j \in i..Len(waiting') : waiting'[j] = waiting[j + 1]
  BY <1>3, SplicedQueue
<1>6. QueueInv'
  <2>1. \A j, k \in 1..Len(waiting) : waiting[j] = waiting[k] => j = k
    BY DEF SocketInv, QueueInv
  <2>2. \A j \in 1..Len(waiting') : \E k \in 1..Len(waiting) :
          k # i /\ waiting'[j] = waiting[k] /\ k = (IF j < i THEN j ELSE j + 1)
    <3> SUFFICES ASSUME NEW j \in 1..Len(waiting')
                 PROVE  \E k \in 1..Len(waiting) :
                          k # i /\ waiting'[j] = waiting[k] /\ k = (IF j < i THEN j ELSE j + 1)
      OBVIOUS
    <3>1. CASE j < i
      <4>1. j \in 1..(i - 1) /\ j \in 1..Len(waiting)
        BY <1>3, <3>1
      <4> QED BY <1>4, <3>1, <4>1
    <3>2. CASE ~(j < i)
      <4>1. j \in i..Len(waiting') /\ j + 1 \in 1..Len(waiting) /\ j + 1 # i
        BY <1>3, <1>4, <3>2
      <4> QED BY <1>4, <3>2, <4>1
    <3> QED BY <3>1, <3>2
  <2>3. \A j \in 1..Len(waiting') : got'[waiting'[j]].st = "open"
    <3> SUFFICES ASSUME NEW j \in 1..Len(waiting') PROVE got'[waiting'[j]].st = "open"
      OBVIOUS
    <3>1. PICK k \in 1..Len(waiting) : k # i /\ waiting'[j] = waiting[k]
      BY <2>2
    <3>2. waiting[k] \in Receives /\ waiting[k] # n /\ got[waiting[k]].st = "open"
      BY <1>3, <2>1, <3>1 DEF SocketInv, QueueInv
    <3> QED BY <3>1, <3>2
  <2>4. \A m \in Receives : got'[m].st = "open" => \E j \in 1..Len(waiting') : waiting'[j] = m
    <3> SUFFICES ASSUME NEW m \in Receives, got'[m].st = "open"
                 PROVE  \E j \in 1..Len(waiting') : waiting'[j] = m
      OBVIOUS
    <3>1. m # n /\ got[m].st = "open"
      OBVIOUS
    <3>2. PICK k \in 1..Len(waiting) : waiting[k] = m
      BY <3>1 DEF SocketInv, QueueInv
    <3>3. k # i
      BY <3>1, <3>2
    <3>4. CASE k < i
      <4>1. k \in 1..(i - 1) /\ k \in 1..Len(waiting')
        BY <1>3, <1>4, <3>4
      <4> QED BY <1>4, <3>2, <4>1
    <3>5. CASE k > i
      <4>1. k - 1 \in 1..Len(waiting') /\ k - 1 \in i..Len(waiting') /\ (k - 1) + 1 = k
        BY <1>3, <1>4, <3>5
      <4>2. waiting'[k - 1] = waiting[(k - 1) + 1]
        BY <1>4, <4>1
      <4> QED BY <3>2, <4>1, <4>2
    <3> QED BY <1>3, <3>3, <3>4, <3>5
  <2>5. \A j, k \in 1..Len(waiting') : waiting'[j] = waiting'[k] => j = k
    <3> SUFFICES ASSUME NEW j \in 1..Len(waiting'), NEW k \in 1..Len(waiting'),
                        waiting'[j] = waiting'[k]
                 PROVE  j = k
      OBVIOUS
    <3>1. PICK x \in 1..Len(waiting) : waiting'[j] = waiting[x] /\ x = (IF j < i THEN j ELSE j + 1)
      BY <2>2
    <3>2. PICK y \in 1..Len(waiting) : waiting'[k] = waiting[y] /\ y = (IF k < i THEN k ELSE k + 1)
      BY <2>2
    <3>3. x = y
      BY <2>1, <3>1, <3>2
    <3> QED BY <3>1, <3>2, <3>3
  <2>6. \A m \in Receives : got'[m].file = "failed" => got'[m].st # "open"
    BY DEF SocketInv, QueueInv
  <2> QED BY <2>3, <2>4, <2>5, <2>6 DEF QueueInv
<1>7. Cardinality(active) + Len(waiting') <= Capacity
  BY <1>3, <1>4, FS_CardinalityType, SocketAssumption DEF SocketInv, RoomInv
<1>8. \A m \in Receives : /\ got'[m].call = got[m].call
                          /\ got[m].st = "call" <=> got'[m].st = "call"
  OBVIOUS
<1>9. reason = "none"
  BY <1>3 DEF SocketInv, TimerInv
<1> QED BY <1>4, <1>6, <1>7, <1>8, <1>9, QueueChangeKeeps

\* The bound of a receive passes.
LEMMA ReceiveExpiresKeeps ==
  ASSUME SocketInv, NEW n \in Receives, ReceiveExpires(n)
  PROVE  SocketInv'
<1>1. PICK i \in 1..Len(waiting) : waiting[i] = n /\ waiting' = Spliced(waiting, i)
  BY DEF ReceiveExpires
<1>2. /\ got[n].st = "open" /\ got' = [got EXCEPT ![n].st = "null"]
      /\ idle' = IdleArmed(waiting', active)
      /\ UNCHANGED <<active, reserved, seen, call, retired, reason, audited>>
  BY DEF ReceiveExpires
<1>3. got \in [Receives -> ReceiveType] /\ waiting \in Seq(Receives) /\ waiting # <<>>
  BY <1>1 DEF SocketInv, SocketTypeOK
<1>4. /\ \A m \in Receives : m # n => got'[m] = got[m]
      /\ got'[n].st = "null" /\ got'[n].call = got[n].call
      /\ got' \in [Receives -> ReceiveType]
  BY <1>2, <1>3 DEF ReceiveType
<1>5. /\ idle' \in BOOLEAN /\ (idle' => active = {})
      /\ waiting' # <<>> => idle' \/ active # {}
  BY <1>2, <1>3 DEF IdleArmed, SocketInv, TimerInv, SocketTypeOK
<1> QED BY <1>1, <1>2, <1>4, <1>5, TakenBackKeeps

\* The ready file of a receive is written, or it fails.
LEMMA ReadyKeeps ==
  ASSUME SocketInv, NEW n \in Receives, ReadyWritten(n) \/ ReadyFails(n)
  PROVE  SocketInv'
<1>1. CASE ReadyWritten(n)
  BY <1>1, FileKeeps DEF ReadyWritten
<1>2. CASE ReadyFails(n) /\ got[n].st # "open"
  BY <1>2, FileKeeps DEF ReadyFails
<1>3. CASE ReadyFails(n) /\ got[n].st = "open"
  <2>1. PICK i \in 1..Len(waiting) : waiting[i] = n /\ waiting' = Spliced(waiting, i)
    BY <1>3 DEF ReadyFails
  <2>2. /\ got' = [got EXCEPT ![n].st = "null", ![n].file = "failed"]
        /\ UNCHANGED <<active, reserved, seen, call, retired, reason, audited, idle>>
    BY <1>3 DEF ReadyFails
  <2>3. got \in [Receives -> ReceiveType] /\ waiting \in Seq(Receives) /\ waiting # <<>>
    BY <2>1 DEF SocketInv, SocketTypeOK
  <2>4. /\ \A m \in Receives : m # n => got'[m] = got[m]
        /\ got'[n].st = "null" /\ got'[n].call = got[n].call
        /\ got' \in [Receives -> ReceiveType]
    BY <2>2, <2>3 DEF ReceiveType
  <2>5. /\ idle' \in BOOLEAN /\ (idle' => active = {})
        /\ waiting' # <<>> => idle' \/ active # {}
    BY <2>2, <2>3 DEF SocketInv, TimerInv, SocketTypeOK
  <2> QED BY <1>3, <2>1, <2>2, <2>4, <2>5, TakenBackKeeps
<1> QED BY <1>1, <1>2, <1>3

----------------------------------------------------------------------------
(* Wakes                                                                    *)

\* A wake that is refused leaves the session alone.
LEMMA RefusedKeeps ==
  ASSUME SocketInv, NEW c \in Calls, NEW rec \in CallType, call[c].st = "unused",
         rec.st = "refused", rec.told # "pending",
         call' = [call EXCEPT ![c] = rec],
         UNCHANGED <<waiting, got, active, reserved, seen, retired, reason, audited, idle>>
  PROVE  SocketInv'
<1>1. /\ call' \in [Calls -> CallType] /\ call'[c] = rec
      /\ \A d \in Calls : d # c => call'[d] = call[d]
  BY DEF SocketInv, SocketTypeOK
<1>2. SocketTypeOK' /\ RoomInv' /\ QueueInv' /\ TimerInv'
  BY <1>1 DEF SocketInv, SocketTypeOK, RoomInv, QueueInv, TimerInv
<1>3. c \notin active
  BY DEF SocketInv, JobInv
<1>4. JobInv'
  BY <1>1, <1>3, JobsKept DEF SocketInv, JobInv
<1>5. \A r \in Requests : Published(r) => Published(r)'
  BY <1>1 DEF Published
<1>6. PendingInv'
  BY <1>1, <1>5 DEF SocketInv, PendingInv, JobInv
<1> QED BY <1>2, <1>4, <1>6 DEF SocketInv

\* An accepted wake takes the oldest receive.
LEMMA AcceptedKeeps ==
  ASSUME SocketInv, NEW c \in Calls, NEW rec \in CallType, call[c].st = "unused",
         rec.st = "active", rec.req \in Requests, rec.told # "pending",
         ~retired, Cardinality(active) < Capacity, waiting # <<>>,
         call' = [call EXCEPT ![c] = rec],
         seen' = seen \cup {c}, active' = active \cup {c}, idle' = FALSE,
         got' = [got EXCEPT ![Head(waiting)].st = "call", ![Head(waiting)].call = c],
         waiting' = Tail(waiting),
         UNCHANGED <<reserved, retired, reason, audited>>
  PROVE  SocketInv'
<1> DEFINE n == Head(waiting)
<1>1. /\ call' \in [Calls -> CallType] /\ call'[c] = rec
      /\ \A d \in Calls : d # c => call'[d] = call[d]
  BY DEF SocketInv, SocketTypeOK
<1>2. /\ waiting \in Seq(Receives) /\ n \in Receives /\ n = waiting[1]
      /\ waiting' \in Seq(Receives) /\ Len(waiting') = Len(waiting) - 1
      /\ \A i \in 1..Len(waiting') : waiting'[i] = waiting[i + 1]
      /\ Len(waiting) > 0
  BY DEF SocketInv, SocketTypeOK
<1>3. /\ got' \in [Receives -> ReceiveType]
      /\ got'[n].st = "call" /\ got'[n].call = c
      /\ \A m \in Receives : m # n => got'[m] = got[m]
  <2>1. got \in [Receives -> ReceiveType]
    BY DEF SocketInv, SocketTypeOK
  <2>2. [got[n] EXCEPT !.st = "call", !.call = c] \in ReceiveType
    BY <1>2, <2>1 DEF ReceiveType
  <2>3. got' = [got EXCEPT ![n] = [got[n] EXCEPT !.st = "call", !.call = c]]
    BY <1>2, <2>1 DEF ReceiveType
  <2>4. [got[n] EXCEPT !.st = "call", !.call = c].st = "call"
        /\ [got[n] EXCEPT !.st = "call", !.call = c].call = c
    BY <1>2, <2>1 DEF ReceiveType
  <2> QED BY <1>2, <2>1, <2>2, <2>3, <2>4
<1>4. c \notin active /\ got[n].st = "open" /\ got[n].call = None
  BY <1>2 DEF SocketInv, JobInv, QueueInv
<1> HIDE DEF n
<1>5. SocketTypeOK'
  BY <1>1, <1>2, <1>3 DEF SocketInv, SocketTypeOK
<1>6. RoomInv'
  <2>1. IsFiniteSet(active) /\ Cardinality(active) \in Nat
    BY FS_CardinalityType DEF SocketInv, RoomInv
  <2>2. IsFiniteSet(active') /\ Cardinality(active') = Cardinality(active) + 1
    BY <1>4, <2>1, FS_AddElement
  <2>3. Cardinality(active) + Len(waiting) <= Capacity
    BY DEF SocketInv, RoomInv
  <2>4. Cardinality(active') + Len(waiting') <= Capacity
    BY <1>2, <2>1, <2>2, <2>3, SocketAssumption
  <2> QED BY <2>2, <2>4 DEF RoomInv
<1>7. QueueInv'
  <2>1. \A i, j \in 1..Len(waiting) : waiting[i] = waiting[j] => i = j
    BY DEF SocketInv, QueueInv
  <2>2. \A i \in 1..Len(waiting') : i + 1 \in 1..Len(waiting) /\ waiting'[i] # n
                                    /\ waiting'[i] \in Receives
    <3> SUFFICES ASSUME NEW i \in 1..Len(waiting')
                 PROVE  i + 1 \in 1..Len(waiting) /\ waiting'[i] # n /\ waiting'[i] \in Receives
      OBVIOUS
    <3>1. i + 1 \in 1..Len(waiting) /\ 1 \in 1..Len(waiting) /\ i + 1 # 1
      BY <1>2
    <3>2. waiting'[i] = waiting[i + 1] /\ waiting[i + 1] \in Receives
      BY <1>2, <3>1
    <3> QED BY <1>2, <2>1, <3>1, <3>2
  <2>3. \A i \in 1..Len(waiting') : got'[waiting'[i]].st = "open"
    BY <1>2, <1>3, <2>2 DEF SocketInv, QueueInv
  <2>4. \A m \in Receives : got'[m].st = "open" => \E i \in 1..Len(waiting') : waiting'[i] = m
    <3> SUFFICES ASSUME NEW m \in Receives, got'[m].st = "open"
                 PROVE  \E i \in 1..Len(waiting') : waiting'[i] = m
      OBVIOUS
    <3>1. m # n /\ got[m].st = "open"
      BY <1>3
    <3>2. PICK i \in 1..Len(waiting) : waiting[i] = m
      BY <3>1 DEF SocketInv, QueueInv
    <3>3. i # 1 /\ i - 1 \in 1..Len(waiting') /\ (i - 1) + 1 = i
      BY <1>2, <3>1, <3>2
    <3> QED BY <1>2, <3>2, <3>3
  <2>5. \A i, j \in 1..Len(waiting') : waiting'[i] = waiting'[j] => i = j
    BY <1>2, <2>1, <2>2
  <2>6. \A m \in Receives : got'[m].file = "failed" => got'[m].st # "open"
    BY <1>3 DEF SocketInv, QueueInv
  <2> QED BY <2>3, <2>4, <2>5, <2>6 DEF QueueInv
<1>8. JobInv'
  <2>1. \A d \in Calls : /\ d \in active' <=> call'[d].st \in {"active", "finishing"}
                         /\ call'[d].st \notin {"unused", "refused"} => call'[d].req \in Requests
                         /\ call'[d].st \in {"finishing", "finished"} => call'[d].verdict \in Dispositions
    BY <1>1 DEF SocketInv, JobInv
  <2>2. \A m \in Receives : got[m].call # c
    BY SocketAssumption DEF SocketInv, JobInv
  <2>3. \A m \in Receives : got[m].call \in Calls \cup {None}
    BY DEF SocketInv, SocketTypeOK, ReceiveType
  <2>4. \A m \in Receives : got'[m].call # None =>
          got'[m].st = "call" /\ call'[got'[m].call].st \notin {"unused", "refused"}
    BY <1>1, <1>3, <2>2, <2>3 DEF SocketInv, JobInv
  <2>5. \A m, k \in Receives : got'[m].call # None /\ got'[m].call = got'[k].call => m = k
    BY <1>3, <2>2 DEF SocketInv, JobInv
  <2>7. \A m \in Receives : got'[m].st = "call" => got'[m].call # None
    BY <1>3, SocketAssumption DEF SocketInv, JobInv
  <2>6. \A d \in active' : \E m \in Receives : got'[m].call = d
    <3> SUFFICES ASSUME NEW d \in active' PROVE \E m \in Receives : got'[m].call = d
      OBVIOUS
    <3>1. CASE d = c
      BY <1>2, <1>3, <3>1
    <3>2. CASE d \in active
      <4>1. PICK m \in Receives : got[m].call = d
        BY <3>2 DEF SocketInv, JobInv
      <4>2. m # n
        BY <1>4, <3>2, <4>1, SocketAssumption DEF SocketInv, SocketTypeOK
      <4> QED BY <1>3, <4>1, <4>2
    <3> QED BY <3>1, <3>2
  <2> QED BY <2>1, <2>4, <2>5, <2>6, <2>7 DEF JobInv
<1>9. TimerInv'
  <2>1. reason = "none" /\ active' # {}
    BY DEF SocketInv, TimerInv
  <2> QED BY <2>1 DEF TimerInv
<1>10. \A r \in Requests : Published(r) => Published(r)'
  BY <1>1 DEF Published
<1>11. PendingInv'
  BY <1>1, <1>10 DEF SocketInv, PendingInv, JobInv
<1> QED BY <1>5, <1>6, <1>7, <1>8, <1>9, <1>11 DEF SocketInv

\* A wake.
LEMMA WakeKeeps ==
  ASSUME SocketInv, NEW c \in Calls, NEW r \in Requests, NEW op \in Operations, Wake(c, r, op)
  PROVE  SocketInv'
<1>1. CASE Refusal(r, op) # "none"
  <2> DEFINE x == [NoCall EXCEPT !.st = "refused", !.told = Refusal(r, op)]
  <2>1. call' = [call EXCEPT ![c] = x]
    BY <1>1 DEF Wake
  <2>2. Refusal(r, op) \in Refusals
    BY <1>1 DEF Refusal, Refusals
  <2>3. UNCHANGED <<waiting, got, active, reserved, seen, retired, reason, audited, idle>>
        /\ call[c].st = "unused"
    BY <1>1 DEF Wake
  <2>4. x \in CallType
    BY <2>2 DEF CallType, NoCall, Operations
  <2>5. x.st = "refused" /\ x.told # "pending"
    BY <2>2 DEF Refusals, NoCall
  <2> HIDE DEF x
  <2> QED BY <2>1, <2>3, <2>4, <2>5, RefusedKeeps
<1>2. CASE Refusal(r, op) = "none"
  <2> DEFINE x == [NoCall EXCEPT !.req = r, !.op = op, !.st = "active", !.conn = TRUE]
  <2>1. call' = [call EXCEPT ![c] = x]
    BY <1>2 DEF Wake
  <2>2. ~retired /\ ~(Cardinality(active) >= Capacity) /\ waiting # <<>>
    BY <1>2 DEF Refusal
  <2>3. Cardinality(active) < Capacity
    BY <2>2, FS_CardinalityType, SocketAssumption DEF SocketInv, RoomInv
  <2>4. x \in CallType
    BY DEF CallType, NoCall
  <2>6. x.st = "active" /\ x.req = r /\ x.told # "pending"
    BY DEF NoCall
  <2>5. /\ seen' = seen \cup {c} /\ active' = active \cup {c} /\ idle' = FALSE
        /\ got' = [got EXCEPT ![Head(waiting)].st = "call", ![Head(waiting)].call = c]
        /\ waiting' = Tail(waiting) /\ call[c].st = "unused"
        /\ UNCHANGED <<reserved, retired, reason, audited>>
    BY <1>2 DEF Wake
  <2> HIDE DEF x
  <2> QED BY <2>1, <2>2, <2>3, <2>4, <2>5, <2>6, AcceptedKeeps
<1> QED BY <1>1, <1>2

----------------------------------------------------------------------------
(* The end of a job                                                         *)

\* A job whose client leaves, or is answered, is still a job.
LEMMA SameJobKeeps ==
  ASSUME SocketInv, NEW c \in active, NEW rec \in CallType,
         rec.st \in {"active", "finishing"}, rec.req = call[c].req,
         rec.told = "pending" => rec.st = "finishing" /\ rec.verdict = "pending",
         rec.st = "finishing" => rec.verdict \in Dispositions,
         call' = [call EXCEPT ![c] = rec],
         UNCHANGED <<waiting, got, active, reserved, seen, retired, reason, audited, idle>>
  PROVE  SocketInv'
<1>0. c \in Calls /\ call[c].st \in {"active", "finishing"}
  BY DEF SocketInv, SocketTypeOK, JobInv
<1>1. /\ call' \in [Calls -> CallType] /\ call'[c] = rec
      /\ \A d \in Calls : d # c => call'[d] = call[d]
  BY <1>0 DEF SocketInv, SocketTypeOK
<1>2. SocketTypeOK' /\ RoomInv' /\ QueueInv' /\ TimerInv'
  BY <1>1 DEF SocketInv, SocketTypeOK, RoomInv, QueueInv, TimerInv
<1>3. JobInv'
  BY <1>0, <1>1, JobsKept DEF SocketInv, JobInv
<1>4. \A r \in Requests : Published(r) => Published(r)'
  BY <1>0, <1>1 DEF Published
<1>5. PendingInv'
  BY <1>0, <1>1, <1>4 DEF SocketInv, PendingInv, JobInv
<1> QED BY <1>2, <1>3, <1>5 DEF SocketInv

\* What a finished job leaves in the table of calls.
IsConcluded(calls, c, d) ==
  /\ calls \in [Calls -> CallType]
  /\ \A x \in Calls : x # c => calls[x] = call[x]
  /\ calls[c].st = "finished" /\ calls[c].verdict = d /\ calls[c].req = call[c].req
  /\ calls[c].told = "pending" => d = "pending"

\* The session with the job taken off, closed or not.
LEMMA ConcludedKeeps ==
  ASSUME SocketInv, NEW c \in active, NEW d \in Dispositions, NEW calls,
         IsConcluded(calls, c, d),
         active' = active \ {c}, reserved' = ReservedAfter(d, call[c].req),
         UNCHANGED <<seen, audited>>,
         call' \in [Calls -> CallType],
         \A x \in Calls : /\ call'[x].st = calls[x].st /\ call'[x].req = calls[x].req
                          /\ call'[x].told = calls[x].told
                          /\ call'[x].verdict = calls[x].verdict,
         got' \in [Receives -> ReceiveType],
         \A n \in Receives : /\ got'[n].call = got[n].call
                             /\ got[n].st = "call" <=> got'[n].st = "call",
         waiting' \in Seq(Receives), Len(waiting') <= Len(waiting), QueueInv', TimerInv',
         retired' \in BOOLEAN, idle' \in BOOLEAN, reason' \in Reasons,
         retired => retired', d = "blocked" => retired'
  PROVE  SocketInv'
<1>0. c \in Calls /\ call[c].st \in {"active", "finishing"} /\ call[c].req \in Requests
  BY DEF SocketInv, SocketTypeOK, JobInv
<1>1. SocketTypeOK'
  <2>1. reserved' \subseteq Requests
    BY <1>0 DEF ReservedAfter, SocketInv, SocketTypeOK
  <2> QED BY <2>1 DEF SocketInv, SocketTypeOK
<1>2. RoomInv'
  <2>1. IsFiniteSet(active) /\ Cardinality(active) \in Nat
    BY FS_CardinalityType DEF SocketInv, RoomInv
  <2>2. IsFiniteSet(active') /\ Cardinality(active') = Cardinality(active) - 1
    BY <2>1, FS_RemoveElement
  <2>3. Cardinality(active) + Len(waiting) <= Capacity /\ waiting \in Seq(Receives)
    BY DEF SocketInv, RoomInv, SocketTypeOK
  <2>4. Cardinality(active') + Len(waiting') <= Capacity
    BY <2>1, <2>2, <2>3, SocketAssumption
  <2> QED BY <2>2, <2>4 DEF RoomInv
<1>3. JobInv'
  <2>1. \A x \in Calls : /\ x \in active' <=> call'[x].st \in {"active", "finishing"}
                         /\ call'[x].st \notin {"unused", "refused"} => call'[x].req \in Requests
                         /\ call'[x].st \in {"finishing", "finished"} => call'[x].verdict \in Dispositions
                         /\ call[x].st \notin {"unused", "refused"} =>
                              call'[x].st \notin {"unused", "refused"}
    BY <1>0 DEF IsConcluded, SocketInv, JobInv
  <2>2. active' \subseteq active
    OBVIOUS
  <2> QED BY <2>1, <2>2, JobsKept DEF SocketInv
<1>4. \A r \in Requests : Published(r) => Published(r)'
  BY <1>0 DEF Published, IsConcluded
<1>5. PendingInv'
  <2> SUFFICES ASSUME NEW x \in Calls, NEW r, call'[x].told = "pending", call'[x].req = r
               PROVE  \/ call'[x].st = "finishing" /\ call'[x].verdict = "pending"
                      \/ /\ call'[x].st = "finished"
                         /\ retired' \/ r \in reserved' \/ Published(r)'
    BY DEF PendingInv, Published
  <2>1. CASE x = c
    BY <1>0, <2>1 DEF IsConcluded, ReservedAfter
  <2>2. CASE x # c
    <3>1. /\ call'[x].st = call[x].st /\ call'[x].req = call[x].req
          /\ call'[x].verdict = call[x].verdict /\ call[x].told = "pending"
          /\ call[x].req = r
      BY <2>2 DEF IsConcluded
    <3>2. CASE call[x].st = "finishing" /\ call[x].verdict = "pending"
      BY <3>1, <3>2
    <3>3. CASE call[x].st = "finished" /\ retired
      BY <3>1, <3>3
    <3>4. CASE call[x].st = "finished" /\ Published(call[x].req)
      <4>1. r \in Requests
        BY <3>1, <3>4 DEF SocketInv, JobInv
      <4> QED BY <1>4, <3>1, <3>4, <4>1
    <3>5. CASE call[x].st = "finished" /\ call[x].req \in reserved
      <4>1. CASE call[x].req \in reserved'
        BY <3>1, <3>5, <4>1
      <4>2. CASE call[x].req \notin reserved'
        <5>1. call[x].req = call[c].req /\ d # "pending"
          BY <3>5, <4>2 DEF ReservedAfter
        <5>2. CASE d = "published"
          <6>1. /\ call'[c].st = "finished" /\ call'[c].req = r
                /\ call'[c].verdict = "published"
            BY <1>0, <3>1, <5>1, <5>2 DEF IsConcluded
          <6> QED BY <1>0, <3>1, <3>5, <6>1 DEF Published
        <5>3. CASE d = "blocked"
          BY <3>1, <3>5, <5>3
        <5> QED BY <5>1, <5>2, <5>3 DEF Dispositions
      <4> QED BY <4>1, <4>2
    <3> QED BY <3>1, <3>2, <3>3, <3>4, <3>5 DEF SocketInv, PendingInv
  <2> QED BY <2>1, <2>2
<1> QED BY <1>1, <1>2, <1>3, <1>5 DEF SocketInv

\* What finish does once its client has hung up.
LEMMA ConcludeKeeps ==
  ASSUME SocketInv, NEW c \in active, NEW d \in Dispositions, NEW broken \in BOOLEAN, NEW calls,
         IsConcluded(calls, c, d), Conclude(c, d, broken, calls)
  PROVE  SocketInv'
<1>0. /\ active' = active \ {c} /\ reserved' = ReservedAfter(d, call[c].req)
      /\ UNCHANGED <<seen, audited>> /\ calls \in [Calls -> CallType]
  BY DEF Conclude, IsConcluded
<1>1. ASSUME NEW why \in Reasons \ {"none"}, CloseEffect(why, calls, {}) PROVE SocketInv'
  <2>1. /\ call' \in [Calls -> CallType]
        /\ \A x \in Calls : /\ call'[x].st = calls[x].st /\ call'[x].req = calls[x].req
                            /\ call'[x].told = calls[x].told
                            /\ call'[x].verdict = calls[x].verdict
        /\ got' \in [Receives -> ReceiveType]
        /\ \A n \in Receives : /\ got'[n].call = got[n].call
                               /\ got[n].st = "call" <=> got'[n].st = "call"
                               /\ got'[n].st # "open"
        /\ waiting' = <<>> /\ retired' /\ ~idle' /\ reason' \in Reasons \ {"none"}
        /\ retired' \in BOOLEAN /\ idle' \in BOOLEAN
    BY <1>0, <1>1, CloseKeepsQueue
  <2>2. QueueInv' /\ TimerInv'
    BY <2>1 DEF QueueInv, TimerInv
  <2>3. waiting' \in Seq(Receives) /\ Len(waiting') <= Len(waiting)
    BY <2>1 DEF SocketInv, SocketTypeOK
  <2> QED BY <1>0, <2>1, <2>2, <2>3, ConcludedKeeps
<1>2. CASE d = "blocked" \/ broken
  <2>1. "resident_failed" \in Reasons \ {"none"}
    BY DEF Reasons
  <2> QED BY <1>1, <1>2, <2>1 DEF Conclude
<1>3. CASE ~(d = "blocked" \/ broken) /\ LastOfRetired(active')
  <2>1. "lease_expired" \in Reasons \ {"none"}
    BY DEF Reasons
  <2> QED BY <1>1, <1>3, <2>1 DEF Conclude
<1>4. CASE ~(d = "blocked" \/ broken) /\ ~LastOfRetired(active')
  <2>1. /\ idle' = IdleArmed(waiting, active') /\ call' = calls
        /\ UNCHANGED <<waiting, got, retired, reason>>
    BY <1>4 DEF Conclude
  <2>2. ~(retired /\ active' = {})
    BY <1>4 DEF LastOfRetired
  <2>3. QueueInv'
    BY <2>1 DEF SocketInv, QueueInv
  <2>4. TimerInv' /\ idle' \in BOOLEAN
    BY <1>0, <2>1, <2>2 DEF IdleArmed, SocketInv, TimerInv, SocketTypeOK
  <2>5. waiting' \in Seq(Receives) /\ Len(waiting') <= Len(waiting)
    BY <2>1 DEF SocketInv, SocketTypeOK
  <2>6. /\ got' \in [Receives -> ReceiveType]
        /\ retired' \in BOOLEAN /\ reason' \in Reasons
    BY <2>1 DEF SocketInv, SocketTypeOK
  <2>7. d # "blocked" /\ (retired => retired')
    BY <1>4, <2>1
  <2> QED BY <1>0, <2>1, <2>3, <2>4, <2>5, <2>6, <2>7, ConcludedKeeps
<1> QED BY <1>2, <1>3, <1>4

\* The client of a job leaves.
LEMMA HangUpKeeps ==
  ASSUME SocketInv, NEW c \in Calls, HangUp(c)
  PROVE  SocketInv'
<1> DEFINE rec == [call[c] EXCEPT !.conn = FALSE]
<1>1. call[c] \in CallType /\ call[c].st = "active"
  BY DEF HangUp, SocketInv, SocketTypeOK
<1>2. rec \in CallType /\ rec.st = "active" /\ rec.req = call[c].req /\ rec.told = call[c].told
  BY <1>1 DEF CallType
<1>3. c \in active /\ call[c].told # "pending"
  BY <1>1 DEF SocketInv, JobInv, PendingInv
<1>4. call' = [call EXCEPT ![c] = rec]
  BY DEF HangUp
<1>5. UNCHANGED <<waiting, got, active, reserved, seen, retired, reason, audited, idle>>
  BY DEF HangUp
<1> HIDE DEF rec
<1> QED BY <1>2, <1>3, <1>4, <1>5, SameJobKeeps

\* A job ends: its client is answered first, if it is still there.
LEMMA FinishKeeps ==
  ASSUME SocketInv, NEW c \in Calls, NEW d \in Dispositions, Finish(c, d)
  PROVE  SocketInv'
<1>1. c \in active /\ call[c] \in CallType /\ call[c].st = "active"
      /\ call[c].told # "pending" /\ call \in [Calls -> CallType]
  BY DEF Finish, SocketInv, SocketTypeOK, PendingInv
<1>2. CASE call[c].conn
  <2> DEFINE rec == [call[c] EXCEPT !.st = "finishing", !.verdict = d, !.told = d]
  <2>1. rec \in CallType /\ rec.st = "finishing" /\ rec.req = call[c].req
        /\ rec.told = d /\ rec.verdict = d
    BY <1>1 DEF CallType
  <2>2. call' = [call EXCEPT ![c] = rec]
    BY <1>2 DEF Finish
  <2>3. UNCHANGED <<waiting, got, active, reserved, seen, retired, reason, audited, idle>>
    BY <1>2 DEF Finish
  <2> HIDE DEF rec
  <2> QED BY <1>1, <2>1, <2>2, <2>3, SameJobKeeps
<1>3. CASE ~call[c].conn
  <2> DEFINE calls == [call EXCEPT ![c].st = "finished", ![c].verdict = d]
  <2>1. IsConcluded(calls, c, d)
    BY <1>1 DEF IsConcluded, CallType
  <2>2. PICK b \in BOOLEAN : Conclude(c, d, b, calls)
    BY <1>3 DEF Finish
  <2> HIDE DEF calls
  <2> QED BY <1>1, <2>1, <2>2, ConcludeKeeps
<1> QED BY <1>2, <1>3

\* The answered client has hung up.
LEMMA FinishEndsKeeps ==
  ASSUME SocketInv, NEW c \in Calls, NEW broken \in BOOLEAN, FinishEnds(c, broken)
  PROVE  SocketInv'
<1> DEFINE calls == [call EXCEPT ![c].st = "finished", ![c].conn = FALSE]
           d == call[c].verdict
<1>1. c \in active /\ call[c] \in CallType /\ call[c].st = "finishing"
      /\ call \in [Calls -> CallType]
  BY DEF FinishEnds, SocketInv, SocketTypeOK, JobInv
<1>2. call[c].told = "pending" => d = "pending"
  BY <1>1 DEF SocketInv, PendingInv
<1>3. calls \in [Calls -> CallType] /\ calls[c].st = "finished" /\ calls[c].verdict = d
      /\ calls[c].req = call[c].req /\ calls[c].told = call[c].told
      /\ \A x \in Calls : x # c => calls[x] = call[x]
  BY <1>1 DEF CallType
<1>4. IsConcluded(calls, c, d) /\ Conclude(c, d, broken, calls)
  BY <1>2, <1>3 DEF IsConcluded, FinishEnds
<1>5. d \in Dispositions
  BY <1>1 DEF SocketInv, JobInv
<1> HIDE DEF calls, d
<1> QED BY <1>1, <1>4, <1>5, ConcludeKeeps

----------------------------------------------------------------------------
(* Theorems                                                                 *)

\* Every step of a session keeps the invariant.
LEMMA SocketInvStep == SocketInv /\ [SocketNext]_socketVars => SocketInv'
<1> SUFFICES ASSUME SocketInv, [SocketNext]_socketVars PROVE SocketInv'
  OBVIOUS
<1>1. CASE UNCHANGED socketVars
  BY <1>1, RetireKeeps DEF socketVars, SocketInv, SocketTypeOK
<1>2. CASE ClientNext
  BY <1>2, WakeKeeps, HangUpKeeps DEF ClientNext
<1>3. CASE JobNext
  BY <1>3, FinishKeeps, FinishEndsKeeps DEF JobNext
<1>4. CASE \E n \in Receives : \/ Receive(n) \/ ReadyWritten(n) \/ ReadyFails(n)
                               \/ ReceiveExpires(n)
  BY <1>4, ReceiveKeeps, ReadyKeeps, ReceiveExpiresKeeps
<1>5. CASE IdleExpires \/ LeaseExpires \/ CloseEnds
  BY <1>5, ClosesKeep
<1>6. CASE \E why \in {"resident_failed", "resident_stopped"} : Close(why)
  BY <1>6, ClosesKeep DEF Reasons
<1> QED BY <1>1, <1>2, <1>3, <1>4, <1>5, <1>6 DEF SocketNext

\* The inductive invariant of a session.
THEOREM SocketInvariant == SocketSpec => []SocketInv
<1> QED BY SocketInvInit, SocketInvStep, PTL DEF SocketSpec

\* A session's state is well typed.
THEOREM SocketTypeCorrect == SocketSpec => []SocketTypeOK
<1>1. SocketInv => SocketTypeOK
  BY DEF SocketInv
<1> QED BY <1>1, SocketInvariant, PTL

\* Every job has the receive that a wake took for it to itself, within the
\* capacity of the session, whenever a ready file fails; and no wake takes a
\* receive that threw.
THEOREM JobsHaveTheirReceive == SocketSpec => []OneReceivePerJob
<1>1. SocketInv => OneReceivePerJob
  <2> SUFFICES ASSUME SocketInv PROVE OneReceivePerJob
    OBVIOUS
  <2>1. \A c \in active : \E n \in Receives :
          got[n].call = c /\ \A m \in Receives \ {n} : got[m].call # c
    <3> SUFFICES ASSUME NEW c \in active
                 PROVE  \E n \in Receives :
                          got[n].call = c /\ \A m \in Receives \ {n} : got[m].call # c
      OBVIOUS
    <3>1. PICK n \in Receives : got[n].call = c
      BY DEF SocketInv, JobInv
    <3>2. c # None
      BY SocketAssumption DEF SocketInv, SocketTypeOK
    <3> QED BY <3>1, <3>2 DEF SocketInv, JobInv
  <2>2. \A n \in Receives :
          (got[n].st = "open") <=> (\E i \in 1..Len(waiting) : waiting[i] = n)
    BY DEF SocketInv, QueueInv
  <2> QED BY <2>1, <2>2 DEF SocketInv, RoomInv, QueueInv, OneReceivePerJob
<1> QED BY <1>1, SocketInvariant, PTL

\* While no delivery is lost, no receive waits for ever, and a session that
\* stopped admission will close: a job the evaluation has sees to it.
THEOREM EveryWaitEnds == SocketSpec => []WaitHasAnEnd
<1>1. SocketInv => WaitHasAnEnd
  BY DEF SocketInv, TimerInv, WaitHasAnEnd, Lost
<1> QED BY <1>1, SocketInvariant, PTL

\* A close leaves how far every call is.
LEMMA CloseMovesNoCall ==
  ASSUME NEW why, NEW calls \in [Calls -> CallType], NEW refused,
         CloseEffect(why, calls, refused), NEW c \in Calls
  PROVE  call'[c].st = calls[c].st
<1>1. [calls[c] EXCEPT !.conn = FALSE].st = calls[c].st
  BY DEF CallType
<1> QED BY <1>1 DEF CloseEffect

\* The end of a job leaves how far every other call is.
LEMMA ConcludeMovesNoOther ==
  ASSUME NEW x, NEW d, NEW broken, NEW calls \in [Calls -> CallType],
         Conclude(x, d, broken, calls), NEW c \in Calls
  PROVE  call'[c].st = calls[c].st
<1>1. \/ \E why \in Reasons : CloseEffect(why, calls, {})
      \/ call' = calls
  BY DEF Conclude, Reasons
<1> QED BY <1>1, CloseMovesNoCall

\* Only a wake of its own takes a call out of its unused state.
LEMMA ActivatedByWake ==
  ASSUME SocketInv, SocketNext, NEW c \in Calls, call[c].st = "unused", call'[c].st # "unused"
  PROVE  \E r \in Requests, op \in Operations : Wake(c, r, op)
<1>0. call \in [Calls -> CallType]
  BY DEF SocketInv, SocketTypeOK
<1>1. CASE ClientNext
  <2>1. PICK x \in Calls : \/ \E r \in Requests, op \in Operations : Wake(x, r, op)
                           \/ HangUp(x)
    BY <1>1 DEF ClientNext
  <2>2. CASE x = c
    BY <2>1, <2>2 DEF HangUp
  <2>3. CASE x # c
    <3>1. call'[c] = call[c]
      BY <1>0, <2>1, <2>3 DEF Wake, HangUp
    <3> QED BY <3>1
  <2> QED BY <2>2, <2>3
<1>2. CASE JobNext
  <2>1. PICK x \in Calls : \/ \E d \in Dispositions : Finish(x, d)
                           \/ \E b \in BOOLEAN : FinishEnds(x, b)
    BY <1>2 DEF JobNext
  <2>2. x # c
    BY <2>1 DEF Finish, FinishEnds
  <2>3. ASSUME NEW d \in Dispositions, Finish(x, d) PROVE FALSE
    <3>1. CASE call[x].conn
      BY <1>0, <2>2, <2>3, <3>1 DEF Finish
    <3>2. CASE ~call[x].conn
      <4> DEFINE calls == [call EXCEPT ![x].st = "finished", ![x].verdict = d]
      <4>1. calls \in [Calls -> CallType] /\ calls[c] = call[c]
        BY <1>0, <2>2 DEF CallType
      <4>2. PICK b \in BOOLEAN : Conclude(x, d, b, calls)
        BY <2>3, <3>2 DEF Finish
      <4> HIDE DEF calls
      <4> QED BY <4>1, <4>2, ConcludeMovesNoOther
    <3> QED BY <3>1, <3>2
  <2>4. ASSUME NEW b \in BOOLEAN, FinishEnds(x, b) PROVE FALSE
    <3> DEFINE calls == [call EXCEPT ![x].st = "finished", ![x].conn = FALSE]
    <3>1. calls \in [Calls -> CallType] /\ calls[c] = call[c]
      BY <1>0, <2>2 DEF CallType
    <3>2. Conclude(x, call[x].verdict, b, calls)
      BY <2>4 DEF FinishEnds
    <3> HIDE DEF calls
    <3> QED BY <3>1, <3>2, ConcludeMovesNoOther
  <2> QED BY <2>1, <2>3, <2>4
<1>3. CASE \E n \in Receives : \/ Receive(n) \/ ReadyWritten(n) \/ ReadyFails(n)
                               \/ ReceiveExpires(n)
  <2>1. \/ \E why \in Reasons, refused \in SUBSET Receives : CloseEffect(why, call, refused)
        \/ call' = call
    BY <1>3 DEF Receive, ReadyWritten, ReadyFails, ReceiveExpires, Reasons
  <2> QED BY <1>0, <2>1, CloseMovesNoCall
<1>4. CASE \/ IdleExpires \/ LeaseExpires \/ CloseEnds
           \/ \E why \in {"resident_failed", "resident_stopped"} : Close(why)
  <2>1. \/ \E why \in Reasons : CloseEffect(why, call, {})
        \/ call' = call
    BY <1>4 DEF IdleExpires, LeaseExpires, CloseEnds, Close, Reasons
  <2> QED BY <1>0, <2>1, CloseMovesNoCall
<1> QED BY <1>1, <1>2, <1>3, <1>4 DEF SocketNext

\* Work a client was told is pending is run again only after a job that
\* published it: any other run of it is refused.
THEOREM PendingIsSpared == SocketSpec => PendingIsNotRunAgain
<1> DEFINE Again == \A c, d \in Calls :
             (/\ call[d].told = "pending"
              /\ call[c].st = "unused" /\ call'[c].st = "active"
              /\ call'[c].op = "run" /\ call'[c].req = call[d].req)
             => \E e \in Calls : /\ call[e].st = "finished"
                                 /\ call[e].req = call[d].req
                                 /\ call[e].verdict = "published"
<1>1. SocketInv /\ [SocketNext]_socketVars => [Again]_socketVars
  <2> SUFFICES ASSUME SocketInv, SocketNext, NEW c \in Calls, NEW d \in Calls,
                      call[d].told = "pending", call[c].st = "unused",
                      call'[c].st = "active", call'[c].op = "run",
                      call'[c].req = call[d].req
               PROVE  Published(call[d].req)
    BY DEF Published
  <2>1. PICK r \in Requests, op \in Operations : Wake(c, r, op)
    BY ActivatedByWake
  <2>2. call \in [Calls -> CallType]
    BY DEF SocketInv, SocketTypeOK
  <2>3. Refusal(r, op) = "none"
    <3> SUFFICES ASSUME Refusal(r, op) # "none" PROVE FALSE
      OBVIOUS
    <3>1. call'[c].st = "refused"
      BY <2>1, <2>2 DEF Wake, NoCall
    <3> QED BY <3>1
  <2>4. r = call[d].req /\ op = "run"
    BY <2>1, <2>2, <2>3 DEF Wake, NoCall
  <2>5. /\ ~retired /\ r \notin reserved /\ \A x \in active : call[x].req # r
    BY <2>3, <2>4 DEF Refusal
  <2>6. d \in active <=> call[d].st \in {"active", "finishing"}
    BY DEF SocketInv, JobInv
  <2> QED BY <2>4, <2>5, <2>6 DEF SocketInv, PendingInv
<1> QED BY <1>1, SocketInvariant, PTL DEF SocketSpec, PendingIsNotRunAgain

\* Expiry, of the idle timer or of the lease, closes a session that has no job.
THEOREM ExpiryIsGentle == SocketSpec => ExpirySparesJobs
<1> DEFINE Spared == (reason = "none" /\ reason' \in {"idle_expired", "lease_expired"})
                     => active' = {}
<1>1. SocketInv /\ [SocketNext]_socketVars => [Spared]_socketVars
  <2> SUFFICES ASSUME SocketInv, SocketNext, reason = "none",
                      reason' \in {"idle_expired", "lease_expired"}
               PROVE  active' = {}
    OBVIOUS
  <2>1. CASE ClientNext
    BY <2>1 DEF ClientNext, Wake, HangUp
  <2>2. CASE JobNext
    <3>1. \E x, d, b, calls : Conclude(x, d, b, calls)
      BY <2>2 DEF JobNext, Finish, FinishEnds
    <3> QED BY <3>1 DEF Conclude, CloseEffect, LastOfRetired
  <2>3. CASE \E n \in Receives : \/ Receive(n) \/ ReadyWritten(n) \/ ReadyFails(n)
                                 \/ ReceiveExpires(n)
    BY <2>3 DEF Receive, ReadyWritten, ReadyFails, ReceiveExpires, CloseEffect
  <2>4. CASE IdleExpires
    BY <2>4 DEF IdleExpires, Close, SocketInv, TimerInv
  <2>5. CASE LeaseExpires
    BY <2>5 DEF LeaseExpires, Close
  <2>6. CASE CloseEnds \/ \E why \in {"resident_failed", "resident_stopped"} : Close(why)
    BY <2>6 DEF CloseEnds, Close, CloseEffect
  <2> QED BY <2>1, <2>2, <2>3, <2>4, <2>5, <2>6 DEF SocketNext
<1> QED BY <1>1, SocketInvariant, PTL DEF SocketSpec, ExpirySparesJobs

=============================================================================
