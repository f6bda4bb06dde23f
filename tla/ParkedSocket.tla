---------------------------- MODULE ParkedSocket ----------------------------
(* The concurrent session of parked-socket.mjs: a local socket through which *)
(* clients wake the serving evaluation.  The evaluation opens receives; a    *)
(* wake that is accepted takes the oldest one and is active until the        *)
(* evaluation finishes its job.  Timers and the evaluation may retire the    *)
(* session and close it.  One event-loop turn is one action.  Two operations *)
(* await in the middle: receive, which waits from its start while it writes  *)
(* its ready file, and finish, for its client to hang up.                    *)
EXTENDS Naturals, Sequences, FiniteSets

CONSTANTS Requests,
          Calls,        \* wakes; each is made at most once, with a fresh callId
          Capacity,     \* concurrent receives and jobs: one or two
          MaxReceives,  \* bound on receives opened in a session
          SeenLimit,    \* accepted wakes after which a session is finished
          Resident,     \* no lease?
          Timed,        \* may a receive carry a wait bound?
          Faulty,       \* may the ready file of a receive fail to be written?
          None

ASSUME SocketAssumption ==
  /\ Capacity \in 1..2
  /\ MaxReceives \in Nat \ {0}
  /\ SeenLimit \in Nat \ {0}
  /\ {Resident, Timed, Faulty} \subseteq BOOLEAN
  /\ None \notin Requests \cup Calls

VARIABLES
  waiting,   \* receives that nobody has answered yet, oldest first
  got,       \* receive -> its answer, the call if it got one, its ready file
  active,    \* accepted calls whose job has not been finished
  reserved,  \* requests whose last job ended pending
  seen,      \* calls accepted in this session
  call,      \* call -> its request, operation and how far it is
  retired,   \* no more admission
  reason,    \* of the close, "none" while the session is not closing
  audited,   \* is the transport audit written?
  idle       \* is the idle timer armed?
socketVars == <<waiting, got, active, reserved, seen, call, retired, reason,
                audited, idle>>

Receives     == 1..MaxReceives
Operations   == {"run", "observe"}
\* published stands for acknowledged and not_submitted too: the session treats
\* the three alike, though not_submitted settles nothing.
Dispositions == {"published", "pending", "blocked"}
Refusals     == {"unavailable", "recovery_required", "duplicate_request",
                 "busy", "not_ready"}
Reasons == {"none", "session_finished", "idle_expired", "lease_expired",
            "resident_failed", "resident_stopped"}

\* st is the answer of the promise a receive waits on.  It returns that answer
\* once its ready file is written, and throws if the file failed.
ReceiveType == [st : {"unopened", "open", "null", "call"}, call : Calls \cup {None},
                file : {"none", "writing", "written", "failed"}]
NoReceive   == [st |-> "unopened", call |-> None, file |-> "none"]

\* conn: the client is connected and waits.  told: what it was answered; of a
\* refused wake nothing else is kept.
NoCall   == [req |-> None, op |-> "run", st |-> "unused", conn |-> FALSE,
             told |-> "none", verdict |-> "none"]
CallType == [req : Requests \cup {None}, op : Operations,
             st : {"unused", "refused", "active", "finishing", "finished"},
             conn : BOOLEAN, told : Dispositions \cup Refusals \cup {"none"},
             verdict : Dispositions \cup {"none"}]

SocketInit ==
  /\ waiting = <<>>
  /\ got = [n \in Receives |-> NoReceive]
  /\ active = {}
  /\ reserved = {}
  /\ seen = {}
  /\ call = [c \in Calls |-> NoCall]
  /\ retired = FALSE
  /\ reason = "none"
  /\ audited = FALSE
  /\ idle = FALSE

----------------------------------------------------------------------------
(* close, and what ends with it                                            *)

\* The first close decides the reason, answers every open receive with null
\* and destroys every client connection; a later one changes nothing.  calls
\* is the table it starts from, refused the receives it turns away.
CloseEffect(why, calls, refused) ==
  /\ reason' = IF reason = "none" THEN why ELSE reason
  /\ retired' = TRUE
  /\ idle' = FALSE
  /\ waiting' = <<>>
  /\ got' = [n \in Receives |-> IF got[n].st = "open" \/ n \in refused
                                THEN [got[n] EXCEPT !.st = "null"] ELSE got[n]]
  /\ call' = [c \in Calls |-> [calls[c] EXCEPT !.conn = FALSE]]

Close(why) ==
  /\ CloseEffect(why, call, {})
  /\ UNCHANGED <<active, reserved, seen, audited>>

\* The server has closed, the socket file is gone, the audit is written.
CloseEnds ==
  /\ reason # "none"
  /\ ~audited
  /\ audited' = TRUE
  /\ UNCHANGED <<waiting, got, active, reserved, seen, call, retired, reason, idle>>

\* Mutated: running jobs do not count; the session must wait on every worker.
IdleArmedAnyway(w, a) == ~retired /\ w # <<>>
IdleArmedFull(w, a)   == ~retired /\ a = {} /\ Len(w) = Capacity
\* armIdle: an idle session is one that waits and has no job.
IdleArmed(w, a) == ~retired /\ a = {} /\ w # <<>>

IdleExpires ==
  /\ idle
  /\ Close("idle_expired")

LeaseExpires ==
  /\ ~Resident
  /\ ~retired
  /\ IF active = {} THEN Close("lease_expired")
     ELSE /\ retired' = TRUE
          /\ UNCHANGED <<waiting, got, active, reserved, seen, call, reason,
                         audited, idle>>

----------------------------------------------------------------------------
(* receive                                                                 *)

\* Mutated: only the open receives count.
HasRoomForWaits == Len(waiting) < Capacity
HasRoom == Cardinality(active) + Len(waiting) < Capacity

\* A finished session closes, whatever is still active.  Else the receive joins
\* the queue at once, where a wake may take it, and starts its ready file.
Receive(n) ==
  /\ got[n].st = "unopened"
  /\ n > 1 => got[n - 1].st # "unopened"
  /\ IF retired \/ Cardinality(seen) >= SeenLimit
     THEN CloseEffect("session_finished", call, {n})
     ELSE /\ HasRoom
          /\ waiting' = Append(waiting, n)
          /\ got' = [got EXCEPT ![n].st = "open", ![n].file = "writing"]
          /\ idle' = IdleArmed(waiting', active)
          /\ UNCHANGED <<call, retired, reason>>
  /\ UNCHANGED <<active, reserved, seen, audited>>

ReadyWritten(n) ==
  /\ got[n].file = "writing"
  /\ got' = [got EXCEPT ![n].file = "written"]
  /\ UNCHANGED <<waiting, active, reserved, seen, call, retired, reason, audited, idle>>

Spliced(w, i) == SubSeq(w, 1, i - 1) \o SubSeq(w, i + 1, Len(w))

\* Mutated: the failed receive stays in the queue.
ReadyFailsInPlace(n) ==
  /\ Faulty
  /\ got[n].file = "writing"
  /\ got' = [got EXCEPT ![n].file = "failed"]
  /\ UNCHANGED <<waiting, active, reserved, seen, call, retired, reason, audited, idle>>
\* The file fails and the receive throws.  If nothing answered it, it leaves the
\* queue; a wake that took it meanwhile stays accepted, and its job active.  The
\* idle timer stays as it is.
ReadyFails(n) ==
  /\ Faulty
  /\ got[n].file = "writing"
  /\ IF got[n].st = "open"
     THEN /\ \E i \in 1..Len(waiting) : waiting[i] = n /\ waiting' = Spliced(waiting, i)
          /\ got' = [got EXCEPT ![n].st = "null", ![n].file = "failed"]
     ELSE /\ got' = [got EXCEPT ![n].file = "failed"]
          /\ UNCHANGED waiting
  /\ UNCHANGED <<active, reserved, seen, call, retired, reason, audited, idle>>

\* The wait bound of a receive passes.
ReceiveExpires(n) ==
  /\ Timed
  /\ got[n].st = "open"
  /\ \E i \in 1..Len(waiting) : waiting[i] = n /\ waiting' = Spliced(waiting, i)
  /\ got' = [got EXCEPT ![n].st = "null"]
  /\ idle' = IdleArmed(waiting', active)
  /\ UNCHANGED <<active, reserved, seen, call, retired, reason, audited>>

----------------------------------------------------------------------------
(* A client's wake                                                         *)

\* Why the session refuses a wake, in the order the code asks.
Refusal(r, op) ==
  CASE retired                                      -> "unavailable"
    [] ~retired /\ r \in reserved /\ op # "observe" -> "recovery_required"
    [] ~retired /\ (r \notin reserved \/ op = "observe")
         /\ \E c \in active : call[c].req = r       -> "duplicate_request"
    [] OTHER -> IF Cardinality(active) >= Capacity THEN "busy"
                ELSE IF waiting = <<>> THEN "not_ready" ELSE "none"

Wake(c, r, op) ==
  /\ call[c].st = "unused"
  /\ IF Refusal(r, op) # "none"
     THEN /\ call' = [call EXCEPT ![c] = [NoCall EXCEPT !.st = "refused",
                                          !.told = Refusal(r, op)]]
          /\ UNCHANGED <<waiting, got, active, reserved, seen, retired, reason,
                         audited, idle>>
     ELSE /\ call' = [call EXCEPT ![c] = [NoCall EXCEPT !.req = r, !.op = op,
                                          !.st = "active", !.conn = TRUE]]
          /\ seen' = seen \cup {c}
          /\ active' = active \cup {c}
          /\ idle' = FALSE
          /\ got' = [got EXCEPT ![Head(waiting)].st = "call",
                               ![Head(waiting)].call = c]
          /\ waiting' = Tail(waiting)
          /\ UNCHANGED <<reserved, retired, reason, audited>>

\* The client goes away, or has waited as long as it may.
HangUp(c) ==
  /\ call[c].conn
  /\ call[c].st = "active"
  /\ call' = [call EXCEPT ![c].conn = FALSE]
  /\ UNCHANGED <<waiting, got, active, reserved, seen, retired, reason, audited, idle>>

----------------------------------------------------------------------------
(* finish                                                                  *)

ReservedAfter(d, r) ==
  IF d = "pending" THEN reserved \cup {r} ELSE reserved \ {r}
LastOfRetired(a) == retired /\ a = {}
\* What finish does once its client has hung up.  A failed job closes the
\* session, the last job of a retired one does too.
Conclude(c, d, broken, calls) ==
  /\ active' = active \ {c}
  /\ reserved' = ReservedAfter(d, call[c].req)
  /\ IF d = "blocked" \/ broken THEN CloseEffect("resident_failed", calls, {})
     ELSE IF LastOfRetired(active') THEN CloseEffect("lease_expired", calls, {})
     ELSE /\ idle' = IdleArmed(waiting, active')
          /\ call' = calls
          /\ UNCHANGED <<waiting, got, retired, reason>>
  /\ UNCHANGED <<seen, audited>>

\* Mutated: the job is taken off before the client has hung up.
FinishEarly(c, d) ==
  /\ c \in active
  /\ call[c].st = "active"
  /\ call' = [call EXCEPT ![c].st = "finishing", ![c].verdict = d, ![c].told = d]
  /\ active' = active \ {c}
  /\ UNCHANGED <<waiting, got, reserved, seen, retired, reason, audited, idle>>
\* finish answers a connected client and waits for it to hang up; without one
\* it goes on at once.  broken: a helper of the job is pending, or navigation
\* was not restored.
Finish(c, d) ==
  /\ c \in active
  /\ call[c].st = "active"
  /\ IF call[c].conn
     THEN /\ call' = [call EXCEPT ![c].st = "finishing", ![c].verdict = d,
                                  ![c].told = d]
          /\ UNCHANGED <<waiting, got, active, reserved, seen, retired, reason,
                         audited, idle>>
     ELSE \E broken \in BOOLEAN :
            Conclude(c, d, broken, [call EXCEPT ![c].st = "finished",
                                                ![c].verdict = d])

FinishEnds(c, broken) ==
  /\ call[c].st = "finishing"
  /\ Conclude(c, call[c].verdict, broken,
              [call EXCEPT ![c].st = "finished", ![c].conn = FALSE])

----------------------------------------------------------------------------
(* The session on its own, with any clients and any evaluation              *)

ClientNext ==
  \E c \in Calls : \/ \E r \in Requests, op \in Operations : Wake(c, r, op)
                   \/ HangUp(c)

JobNext ==
  \E c \in Calls : \/ \E d \in Dispositions : Finish(c, d)
                   \/ \E b \in BOOLEAN : FinishEnds(c, b)

SocketNext ==
  \/ ClientNext
  \/ JobNext
  \/ \E n \in Receives : \/ Receive(n) \/ ReadyWritten(n) \/ ReadyFails(n)
                        \/ ReceiveExpires(n)
  \/ IdleExpires \/ LeaseExpires \/ CloseEnds
  \/ \E why \in {"resident_failed", "resident_stopped"} : Close(why)

SocketSpec == SocketInit /\ [][SocketNext]_socketVars

----------------------------------------------------------------------------
(* Properties                                                               *)

SocketTypeOK ==
  /\ waiting \in Seq(Receives)
  /\ got \in [Receives -> ReceiveType]
  /\ active \subseteq Calls
  /\ reserved \subseteq Requests
  /\ seen \subseteq Calls
  /\ call \in [Calls -> CallType]
  /\ retired \in BOOLEAN /\ audited \in BOOLEAN /\ idle \in BOOLEAN
  /\ reason \in Reasons

\* Every job belongs to one receive and every receive to one wake, and jobs and
\* open receives together never exceed the capacity of the session.  A receive
\* that threw is in no queue, so no later wake is handed to it; one that a wake
\* took before it threw still owns its job, which no receive returns (Lost).
OneReceivePerJob ==
  /\ Cardinality(active) + Len(waiting) <= Capacity
  /\ \A c \in active : \E n \in Receives :
       got[n].call = c /\ \A m \in Receives \ {n} : got[m].call # c
  /\ \A n \in Receives :
       (got[n].st = "open") <=> (\E i \in 1..Len(waiting) : waiting[i] = n)
  /\ \A n \in Receives : got[n].file = "failed" => got[n].st # "open"

\* Work a client was told is pending is not run again by another wake: only an
\* observe of it may be accepted, until one has settled it.
PendingIsNotRunAgain ==
  [][\A c, d \in Calls :
       (/\ call[d].told = "pending"
        /\ call[c].st = "unused" /\ call'[c].st = "active"
        /\ call'[c].op = "run" /\ call'[c].req = call[d].req)
       => \E e \in Calls : /\ call[e].st = "finished"
                           /\ call[e].req = call[d].req
                           /\ call[e].verdict = "published"]_socketVars

\* Expiry ends admission and never cuts a running job off from its client.
ExpirySparesJobs ==
  [][(reason = "none" /\ reason' \in {"idle_expired", "lease_expired"})
       => active' = {}]_socketVars

\* The jobs whose receive returns them, and those whose receive threw: the
\* evaluation does not know of these, and only a close ends them.
Attended == {c \in active : \E n \in Receives : got[n].call = c /\ got[n].file # "failed"}
Lost     == active \ Attended

\* No receive waits for ever: the idle timer runs, or a job the evaluation has
\* and whose end starts it.  A session that stopped admission closes, or such a
\* job will close it.  A delivery that was lost is the one exception: while its
\* job is active the session has no timer of its own.
WaitHasAnEnd ==
  Lost = {} => /\ waiting # <<>> => idle \/ Attended # {}
               /\ retired => reason # "none" \/ Attended # {}

=============================================================================
