----------------------------- MODULE Admission -----------------------------
(* How a resident residence admits requests: the waiting room of             *)
(* parked-activation.mjs, the clients that rendezvous in it, and the loop of *)
(* servePool that serves what they bring, over the socket of ParkedSocket.   *)
(* The room is a directory that clients and the residence change with single *)
(* atomic operations: for ordinal n a marker says the residence waits, a     *)
(* client renames it into its ticket and publishes its command, the waiter   *)
(* removes it to stop waiting.  The wait runs in the native runtime and goes *)
(* on without the evaluation; only the detector ends it then.                *)
EXTENDS Naturals, Sequences, FiniteSets

CONSTANTS Requests,
          Clients,     \* each brings one request; two may bring the same
          Brings,      \* client -> the requests it may bring
          Capacity,    \* configured workers
          MaxOrdinal,  \* admissions of a residence, 64 in the code
          Events,      \* which of OptionalEvents may happen
          None

\* die: a client process dies.  leave: it waits for its answer no longer.  late:
\* the pickup deadline of a command passes.  observe: a client asks again for work it was
\* told is pending.  lose: the serving evaluation is gone.  toolfail: the answer
\* of a native call or of a helper is lost.  readyfail: the ready file of a receive fails to be
\* written.  stop: somebody asks the residence to stop.
OptionalEvents == {"die", "leave", "late", "observe", "lose", "toolfail", "readyfail",
                   "stop"}

Ordinals == 1..MaxOrdinal
Wakes    == Clients \X {"run", "observe"}

ASSUME AdmissionAssumption ==
  /\ Capacity \in 1..2
  /\ MaxOrdinal \in Nat \ {0}
  /\ Brings \in [Clients -> SUBSET Requests]
  /\ Events \subseteq OptionalEvents
  /\ None \notin Requests \cup Clients \cup Wakes

VARIABLES
  waiting, got, active, reserved, seen, call, retired, reason, audited, idle,
  room,      \* ordinal -> what the session directory holds for it
  stop,      \* is resident-stop.json there?
  failed,    \* is a failure recorded?
  client,    \* client -> its rendezvous
  queue,     \* requests that have a queue record
  begun,     \* requests that hold a slot of the owner
  ordinal,   \* the one the evaluation serves
  serve,     \* where the evaluation is
  outcome,   \* how it ended
  alive,     \* is there an evaluation?
  wait,      \* the native wait (residentNext): running, or what it returned
  retained,  \* does the wait go on without a bound, for a sibling's sake?
  detector,  \* the owner-loss detector
  job        \* request -> its job in the evaluation

Socket == INSTANCE ParkedSocket WITH
  Calls <- Wakes, MaxReceives <- MaxOrdinal, SeenLimit <- MaxOrdinal,
  Resident <- TRUE, Timed <- FALSE, Faulty <- "readyfail" \in Events

socketVars == <<waiting, got, active, reserved, seen, call, retired, reason,
                audited, idle>>
waitVars   == <<room, wait, retained>>
serveVars  == <<ordinal, serve, outcome, begun, job>>
clientVars == <<client, queue>>
flagVars   == <<stop, failed, alive, detector>>
vars == <<socketVars, waitVars, serveVars, clientVars, flagVars>>

Markers    == {"none", "waiting", "claimed"}
ClientPCs  == {"start", "claiming", "awaiting", "granted", "submitted",
               "waking", "held", "over"}
ServePCs   == {"idle", "waiting", "chosen", "begun", "observed", "receiving",
               "draining", "ending", "joining", "closed"}
WaitStates == {"none", "watching", "aborting", "pending", "stopped", "chosen",
               "failed"}
JobStates  == {"none", "running", "held", "done", "broken"}

EmptyRoom == [marker |-> "none", by |-> None, published |-> FALSE,
              observed |-> FALSE, late |-> FALSE]
RoomType  == [marker : Markers, by : Clients \cup {None}, published : BOOLEAN,
              observed : BOOLEAN, late : BOOLEAN]

Init ==
  /\ Socket!SocketInit
  /\ room = [n \in Ordinals |-> EmptyRoom]
  /\ stop = FALSE /\ failed = FALSE
  /\ client = [c \in Clients |-> [pc |-> "start", req |-> None, n |-> 0]]
  /\ queue = {} /\ begun = {}
  /\ ordinal = 1 /\ serve = "idle" /\ outcome = "none" /\ alive = TRUE
  /\ wait = "none" /\ retained = FALSE
  /\ detector = "off"
  /\ job = [r \in Requests |-> "none"]

----------------------------------------------------------------------------
(* Helpers                                                                 *)

Step(c, pc) == client' = [client EXCEPT ![c].pc = pc]

\* The request of the command of ordinal n.
Wanted(n) == client[room[n].by].req

\* Jobs the scheduler counts: a job whose promise rejected still pends.
Occupied == Cardinality({r \in Requests : job[r] \in {"running", "held", "broken"}})
Pending  == {r \in Requests : job[r] \in {"running", "broken"}}

\* A receive that has neither returned nor thrown; the native wait, or such a
\* receive, is still in flight.
Receiving(n) == got[n].st = "open" \/ got[n].file = "writing"
InFlight == wait \in {"watching", "aborting"} \/ \E n \in Ordinals : Receiving(n)

----------------------------------------------------------------------------
(* A client: rendezvous, then parked-client submit                          *)

\* Mutated: the queue is not asked.
AdmissibleAgain(r, n) ==
  /\ room[n].marker = "waiting"
  /\ ~room[n].published /\ ~room[n].observed /\ got[n].file = "none" /\ ~audited
  /\ Cardinality(begun) < Capacity
\* resident admit, under the state lock: no work of this identity, a free slot,
\* an unused ordinal; then the marker is renamed into the client's ticket.
Admissible(r, n) ==
  /\ room[n].marker = "waiting"
  /\ ~room[n].published /\ ~room[n].observed /\ got[n].file = "none" /\ ~audited
  /\ Cardinality(begun) < Capacity
  /\ r \notin queue
Admit(c, r, n) ==
  /\ client[c].pc = "start"
  /\ r \in Brings[c]
  /\ Admissible(r, n)
  /\ room' = [room EXCEPT ![n].marker = "claimed", ![n].by = c]
  /\ client' = [client EXCEPT ![c] = [pc |-> "claiming", req |-> r, n |-> n]]
  /\ UNCHANGED <<socketVars, wait, retained, serveVars, queue, flagVars>>

\* The command is renamed into the session directory, still under the lock; the
\* waiter does not take that lock.
Publish(c) ==
  /\ client[c].pc = "claiming"
  /\ room' = [room EXCEPT ![client[c].n].published = TRUE]
  /\ Step(c, "awaiting")
  /\ UNCHANGED <<socketVars, wait, retained, serveVars, queue, flagVars>>

\* Who reads the pickup deadline of ordinal n: its client, the native wait and
\* the evaluation that is about to serve it.
DeadlineRead(n) ==
  \/ client[room[n].by].pc = "awaiting"
  \/ n = ordinal /\ (wait = "watching" \/ serve \in {"chosen", "begun", "observed"})
\* The pickup deadline of a published command passes, while anybody reads it.
Expires(n) ==
  /\ "late" \in Events
  /\ room[n].published
  /\ ~room[n].late
  /\ DeadlineRead(n)
  /\ room' = [room EXCEPT ![n].late = TRUE]
  /\ UNCHANGED <<socketVars, wait, retained, serveVars, clientVars, flagVars>>

\* Native readiness, seen in time, and the observed command is the client's own.
\* The ready file may be seen before its write returns, or fails.
SeeReady(c) ==
  LET n == client[c].n IN
  /\ client[c].pc = "awaiting"
  /\ got[n].file # "none"
  /\ ~audited
  /\ room[n].observed /\ room[n].by = c
  /\ ~room[n].late
  /\ Step(c, "granted")
  /\ UNCHANGED <<socketVars, waitVars, serveVars, queue, flagVars>>

\* The deadline passed, or the residence is closed.
GiveUp(c) ==
  /\ client[c].pc = "awaiting"
  /\ room[client[c].n].late \/ audited
  /\ Step(c, "over")
  /\ UNCHANGED <<socketVars, waitVars, serveVars, queue, flagVars>>

Submit(c) ==
  /\ client[c].pc = "granted"
  /\ queue' = queue \cup {client[c].req}
  /\ Step(c, "submitted")
  /\ UNCHANGED <<socketVars, waitVars, serveVars, flagVars>>

\* One wake; a refused one leaves the client with what the queue says.
WakeUp(c) ==
  /\ client[c].pc = "submitted"
  /\ Socket!Wake(<<c, "run">>, client[c].req, "run")
  /\ Step(c, IF call'[<<c, "run">>].st = "active" THEN "waking" ELSE "over")
  /\ UNCHANGED <<waitVars, serveVars, queue, flagVars>>

Told(c) ==
  /\ client[c].pc = "waking"
  /\ ~call[<<c, "run">>].conn \/ call[<<c, "run">>].told # "none"
  /\ Step(c, IF call[<<c, "run">>].told = "pending" THEN "held" ELSE "over")
  /\ UNCHANGED <<socketVars, waitVars, serveVars, queue, flagVars>>

\* parked-client observe of work that was left pending.
Observe(c) ==
  /\ "observe" \in Events
  /\ client[c].pc = "held"
  /\ Socket!Wake(<<c, "observe">>, client[c].req, "observe")
  /\ Step(c, "over")
  /\ UNCHANGED <<waitVars, serveVars, queue, flagVars>>

Die(c) ==
  /\ "die" \in Events
  /\ client[c].pc \notin {"start", "over"}
  /\ Step(c, "over")
  /\ UNCHANGED <<socketVars, waitVars, serveVars, queue, flagVars>>

\* resident-stop: published once, by whoever may write the directory.
PublishStop ==
  /\ "stop" \in Events
  /\ ~stop
  /\ ~audited
  /\ stop' = TRUE
  /\ UNCHANGED <<socketVars, waitVars, serveVars, clientVars, failed, alive, detector>>

----------------------------------------------------------------------------
(* The native wait: residentNext                                           *)

\* Mutated: the marker is left behind; a claim does not count.
LeftBehind == room
UnclaimedAnyway == room[ordinal].marker # "none"
\* The room once the wait is over: the marker is removed unless it was claimed.
Withdrawn == IF room[ordinal].marker = "waiting"
             THEN [room EXCEPT ![ordinal].marker = "none"] ELSE room
Unclaimed == room[ordinal].marker = "waiting"

WaitReturns(what) ==
  /\ wait' = what
  /\ room' = Withdrawn
  /\ UNCHANGED <<socketVars, retained, serveVars, clientVars, flagVars>>

\* Mutated: a retained wait looks for commands only.
WaitStopsUnlessRetained ==
  /\ wait = "watching"
  /\ ~retained
  /\ stop
  /\ Unclaimed
  /\ WaitReturns("stopped")
\* A stop ends the wait unless a claim came first.
WaitStops ==
  /\ wait = "watching"
  /\ stop
  /\ Unclaimed
  /\ WaitReturns("stopped")

\* The 25 second observation ends, unless a claim came first.  A wait beside a
\* running sibling has no bound.
WaitElapses ==
  /\ wait = "watching"
  /\ ~retained
  /\ ~stop
  /\ Unclaimed
  /\ WaitReturns("pending")

\* Mutated: nothing bounds the wait for the command of a claimed marker.
WaitGivesUpUnclaimed ==
  /\ wait = "watching"
  /\ audited
  /\ WaitReturns("failed")
\* Claimed readiness that brings no command in time fails the residence, and so
\* does a closed session.
WaitGivesUp ==
  /\ wait = "watching"
  /\ \/ audited
     \/ /\ room[ordinal].marker = "claimed"
        /\ ~room[ordinal].published \/ room[ordinal].late
  /\ WaitReturns("failed")

\* The command is there; it is a request nobody has queued meanwhile.
WaitFinds ==
  /\ wait = "watching"
  /\ ~audited
  /\ room[ordinal].marker = "claimed"
  /\ room[ordinal].published
  /\ ~room[ordinal].late
  /\ WaitReturns(IF Wanted(ordinal) \in queue THEN "failed" ELSE "chosen")

\* An aborted wait withdraws its readiness; a client may claim it just before.
WaitAborts ==
  /\ wait = "aborting"
  /\ WaitReturns("failed")

----------------------------------------------------------------------------
(* The evaluation: servePool                                               *)

\* Mutated: beside a running job the detector is left as it is.
ArmedAlone == IF Pending # {} THEN detector ELSE "armed"
Armed == "armed"
\* residentAdmission without a command starts the wait and arms the detector.
StartWait ==
  /\ alive
  /\ serve = "idle"
  /\ Occupied < Capacity
  /\ ordinal <= MaxOrdinal
  /\ detector # "expired"
  /\ wait = "none"
  /\ IF audited \/ room[ordinal].marker # "none"
     THEN /\ wait' = "failed"
          /\ UNCHANGED <<room, retained>>
     ELSE /\ wait' = "watching"
          /\ room' = [room EXCEPT ![ordinal].marker = "waiting"]
          /\ retained' = (Pending # {})
  /\ serve' = "waiting"
  /\ detector' = Armed
  /\ UNCHANGED <<socketVars, ordinal, outcome, begun, job, clientVars, stop,
                 failed, alive>>

Fails == serve' = "ending" /\ outcome' = "failed"

\* The wait has an answer.  Every call renews the detector, and only an expired
\* one refuses it.
TakeWait ==
  /\ alive
  /\ serve = "waiting"
  /\ wait \in {"pending", "stopped", "chosen", "failed"}
  /\ wait' = "none"
  /\ IF wait = "failed" \/ detector = "expired" THEN Fails
     ELSE /\ serve' = CASE wait = "pending" -> "idle"
                        [] wait = "stopped" -> "draining"
                        [] wait = "chosen"  -> "chosen"
          /\ UNCHANGED outcome
  /\ UNCHANGED <<socketVars, room, retained, ordinal, begun, job, clientVars,
                 flagVars>>

\* Mutated: the client is reserved.
ReservedClient(r) == begun \cup {room[ordinal].by}
Reserved(r) == begun \cup {r}
\* resident begin reserves a slot before anything is received.
Begin ==
  /\ alive
  /\ serve = "chosen"
  /\ IF Wanted(ordinal) \in begun \/ Cardinality(begun) >= Capacity
     THEN Fails /\ UNCHANGED begun
     ELSE /\ begun' = Reserved(Wanted(ordinal))
          /\ serve' = "begun"
          /\ UNCHANGED outcome
  /\ UNCHANGED <<socketVars, waitVars, ordinal, job, clientVars, flagVars>>

\* commandReady writes command-observed-N; a late write grants nothing.
ObserveCommand ==
  /\ alive
  /\ serve = "begun"
  /\ IF detector = "expired" \/ audited \/ room[ordinal].late
     THEN /\ Fails
          /\ UNCHANGED <<room, detector>>
     ELSE /\ room' = [room EXCEPT ![ordinal].observed = TRUE]
          /\ serve' = "observed"
          /\ detector' = "armed"
          /\ UNCHANGED outcome
  /\ UNCHANGED <<socketVars, wait, retained, ordinal, begun, job, clientVars,
                 stop, failed, alive>>

\* One receive, if no stop is there and the command is still in time.
OpenReceive ==
  /\ serve = "observed"
  /\ IF stop \/ room[ordinal].late \/ detector = "expired"
     THEN /\ alive
          /\ Fails
          /\ UNCHANGED socketVars
     ELSE /\ Socket!Receive(ordinal)
          /\ serve' = "receiving"
          /\ UNCHANGED outcome
  /\ UNCHANGED <<waitVars, ordinal, begun, job, clientVars, flagVars>>

\* Mutated: the detector is turned off however the receive ends.
EndedAnyhow(n) == got[n].st # "unopened" /\ ~Receiving(n)
\* The receive has returned, with a delivery or with nothing.
Delivered(n) == got[n].st \in {"null", "call"} /\ got[n].file \notin {"writing", "failed"}

\* The native call that receives goes on whoever waits for it, and turns the
\* detector off when the receive returns; when it throws the detector stays.
ReceiveReturns ==
  /\ detector = "armed"
  /\ serve \in {"receiving", "ending"}
  /\ \E n \in Ordinals : n = ordinal /\ Delivered(n)
  /\ detector' = "off"
  /\ UNCHANGED <<socketVars, waitVars, serveVars, clientVars, stop, failed, alive>>

\* The call answers.  The delivery must be the admitted request's; a receive that
\* threw has lost its delivery, if a wake took it before.
TakeDelivery ==
  /\ alive
  /\ serve = "receiving"
  /\ ~Receiving(ordinal)
  /\ detector' = IF detector = "armed" /\ Delivered(ordinal) THEN "off" ELSE detector
  /\ IF got[ordinal].st = "null" \/ got[ordinal].file = "failed" \/ detector = "expired"
     THEN Fails /\ UNCHANGED <<ordinal, job>>
     ELSE IF call[got[ordinal].call].req # Wanted(ordinal)
     THEN Fails /\ UNCHANGED <<ordinal, job>>
     ELSE /\ job' = [job EXCEPT ![Wanted(ordinal)] = "running"]
          /\ ordinal' = ordinal + 1
          /\ serve' = "idle"
          /\ UNCHANGED outcome
  /\ UNCHANGED <<socketVars, waitVars, begun, clientVars, stop, failed, alive>>

\* The job of r has its result and tells its client through the socket.
FinishJob(r) ==
  /\ alive
  /\ job[r] = "running"
  /\ \E c \in Clients, d \in Socket!Dispositions :
       /\ call[<<c, "run">>].req = r
       /\ Socket!Finish(<<c, "run">>, d)
  /\ UNCHANGED <<waitVars, serveVars, clientVars, flagVars>>

JobBecomes(r, state) == job' = [job EXCEPT ![r] = state]
\* runOne: a settled request is ended, unless its helper has not joined, and a
\* pending one held.  Anything else rejects, with the session still open unless
\* the verdict was blocked: work that was not submitted, and an end that fails,
\* before its write or after it.
EndJob(r) ==
  /\ alive
  /\ job[r] = "running"
  /\ \E c \in Clients :
       /\ call[<<c, "run">>].req = r
       /\ call[<<c, "run">>].st = "finished"
       /\ \/ /\ call[<<c, "run">>].verdict = "published"
             /\ \/ JobBecomes(r, "done") /\ begun' = begun \ {r}
                \/ JobBecomes(r, "broken") /\ UNCHANGED begun
                \/ "toolfail" \in Events /\ JobBecomes(r, "done") /\ UNCHANGED begun
                \/ "toolfail" \in Events /\ JobBecomes(r, "broken") /\ begun' = begun \ {r}
          \/ /\ call[<<c, "run">>].verdict = "pending"
             /\ JobBecomes(r, "held")
             /\ UNCHANGED begun
          \/ /\ call[<<c, "run">>].verdict = "blocked"
             /\ JobBecomes(r, "broken")
             /\ UNCHANGED begun
  /\ UNCHANGED <<socketVars, waitVars, ordinal, serve, outcome, clientVars, flagVars>>

\* The answer of the native call that finishes the job is lost: the job rejects,
\* whatever the session did.
LoseFinish(r) ==
  /\ "toolfail" \in Events
  /\ alive
  /\ job[r] = "running"
  /\ JobBecomes(r, "broken")
  /\ UNCHANGED <<socketVars, waitVars, ordinal, serve, outcome, begun, clientVars,
                 flagVars>>

\* Every slot taken: the loop waits for a job, and notices one that rejected;
\* with held requests only it waits for a stop.
Halt ==
  /\ alive
  /\ serve = "idle"
  /\ Occupied >= Capacity
  /\ \/ /\ \E r \in Requests : job[r] = "broken"
        /\ Fails
     \/ /\ Pending = {}
        /\ \/ stop /\ serve' = "draining" /\ UNCHANGED outcome
           \/ Fails
  /\ UNCHANGED <<socketVars, waitVars, ordinal, begun, job, clientVars, flagVars>>

\* The loop is over, by a stop or at the last ordinal: the jobs are joined, until
\* the first that rejects.
Drain ==
  /\ alive
  /\ \/ serve = "draining"
     \/ serve = "idle" /\ Occupied < Capacity /\ ordinal > MaxOrdinal
  /\ \/ \A r \in Requests : job[r] # "running"
     \/ \E r \in Requests : job[r] = "broken"
  /\ serve' = "ending"
  /\ outcome' = IF serve = "draining" /\ \A r \in Requests : job[r] # "broken"
                THEN "stopped" ELSE "failed"
  /\ UNCHANGED <<socketVars, waitVars, ordinal, begun, job, clientVars, flagVars>>

\* A later call finds the detector expired; the answer of a native call is lost.
Refused ==
  /\ alive
  /\ \/ serve = "idle" /\ detector = "expired"
     \/ "toolfail" \in Events /\ serve \in {"waiting", "receiving"}
  /\ Fails
  /\ UNCHANGED <<socketVars, waitVars, ordinal, begun, job, clientVars, flagVars>>

\* The native wait once it is withdrawn.
Aborted == IF wait = "watching" THEN "aborting" ELSE wait

\* The last native call.  stopResidentAdmission: work in flight is withdrawn
\* before it is joined.
StopAdmission ==
  /\ alive
  /\ serve = "ending"
  /\ serve' = "joining"
  /\ IF detector = "armed" THEN detector' = "off" ELSE UNCHANGED detector
  /\ IF InFlight
     THEN /\ Socket!Close("resident_failed")
          /\ wait' = Aborted
     ELSE UNCHANGED <<socketVars, wait>>
  /\ UNCHANGED <<room, retained, ordinal, outcome, begun, job, clientVars, stop,
                 failed, alive>>

\* The call goes on to the end, evaluation or not.
CloseServe ==
  /\ serve = "joining"
  /\ ~InFlight
  /\ serve' = "closed"
  /\ failed' = (failed \/ outcome = "failed")
  /\ Socket!Close(IF outcome = "stopped" THEN "resident_stopped" ELSE "resident_failed")
  /\ UNCHANGED <<waitVars, ordinal, outcome, begun, job, clientVars, stop, alive,
                 detector>>

----------------------------------------------------------------------------
(* The evaluation is lost, and the detector                                 *)

Lose ==
  /\ "lose" \in Events
  /\ alive
  /\ serve # "closed"
  /\ alive' = FALSE
  /\ UNCHANGED <<socketVars, waitVars, serveVars, clientVars, stop, failed, detector>>

\* 60 seconds without a call of the evaluation: it is gone, or it waits for a
\* helper call, for the native lane a job uses or for a receive beside a running
\* job, or it joins its jobs.
Expire ==
  /\ detector = "armed"
  /\ ~alive \/ serve \in {"idle", "chosen", "begun", "receiving", "draining"}
  /\ detector' = "expired"
  /\ wait' = Aborted
  /\ Socket!Close("resident_failed")
  /\ UNCHANGED <<room, retained, serveVars, clientVars, stop, failed, alive>>

\* The expired detector joins what it withdrew, then records the failure.
RecordLoss ==
  /\ detector = "expired"
  /\ ~failed
  /\ ~InFlight
  /\ failed' = TRUE
  /\ UNCHANGED <<socketVars, waitVars, serveVars, clientVars, stop, alive, detector>>

SocketStep ==
  /\ \/ Socket!IdleExpires \/ Socket!CloseEnds
     \/ \E c \in Wakes : \/ "leave" \in Events /\ Socket!HangUp(c)
                        \/ \E broken \in BOOLEAN :
                             /\ broken => "toolfail" \in Events
                             /\ Socket!FinishEnds(c, broken)
     \/ \E n \in Ordinals : Socket!ReadyWritten(n) \/ Socket!ReadyFails(n)
  /\ UNCHANGED <<waitVars, serveVars, clientVars, flagVars>>

----------------------------------------------------------------------------
ClientStep(c) ==
  \/ \E r \in Requests, n \in Ordinals : Admit(c, r, n)
  \/ Publish(c) \/ SeeReady(c) \/ GiveUp(c) \/ Submit(c)
  \/ WakeUp(c) \/ Told(c) \/ Observe(c) \/ Die(c)

WaitStep == WaitStops \/ WaitElapses \/ WaitGivesUp \/ WaitFinds \/ WaitAborts

ServeStep ==
  \/ StartWait \/ TakeWait \/ Begin \/ ObserveCommand \/ OpenReceive
  \/ TakeDelivery \/ Halt \/ Drain \/ Refused \/ StopAdmission \/ CloseServe

Next ==
  \/ \E c \in Clients : ClientStep(c)
  \/ \E n \in Ordinals : Expires(n)
  \/ PublishStop \/ Lose \/ Expire \/ RecordLoss \/ ReceiveReturns
  \/ WaitStep \/ ServeStep \/ SocketStep
  \/ \E r \in Requests : FinishJob(r) \/ EndJob(r) \/ LoseFinish(r)

Spec == Init /\ [][Next]_vars

\* The host runs the evaluation while it is there; its jobs end; timers fire;
\* the native wait runs with or without the evaluation.
ResidenceFairness ==
  /\ WF_vars(ServeStep)
  /\ WF_vars(WaitStops \/ WaitGivesUp \/ WaitFinds \/ WaitAborts)
  /\ WF_vars((Expire /\ ~alive) \/ RecordLoss)
  /\ WF_vars(SocketStep)
  /\ \A r \in Requests : WF_vars(FinishJob(r) \/ EndJob(r))

FairSpec == Spec /\ ResidenceFairness

----------------------------------------------------------------------------
(* Properties                                                               *)

TypeOK ==
  /\ Socket!SocketTypeOK
  /\ room \in [Ordinals -> RoomType]
  /\ client \in [Clients -> [pc : ClientPCs, req : Requests \cup {None},
                             n : 0..MaxOrdinal]]
  /\ queue \subseteq Requests /\ begun \subseteq Requests
  /\ ordinal \in 1..(MaxOrdinal + 1)
  /\ serve \in ServePCs /\ wait \in WaitStates
  /\ outcome \in {"none", "stopped", "failed"}
  /\ detector \in {"off", "armed", "expired"}
  /\ {stop, failed, alive, retained} \subseteq BOOLEAN
  /\ job \in [Requests -> JobStates]

\* Advertised readiness is attended: a marker says that the residence waits for
\* an ordinal only while its wait runs, and only for the ordinal it serves.
ReadinessIsAttended ==
  \A n \in Ordinals : room[n].marker = "waiting" =>
    n = ordinal /\ wait \in {"watching", "aborting"}

\* Exactly one side wins: a client that claimed the readiness is never passed
\* over.  While its command has not been observed the residence stays at its
\* ordinal, and it does not close as if it had stopped cleanly.
ClaimIsNotPassedOver ==
  \A n \in Ordinals : (room[n].marker = "claimed" /\ ~room[n].observed) =>
    /\ n = ordinal
    /\ serve \notin {"idle", "draining"}
    /\ outcome # "stopped"

\* No request is admitted twice, by whichever clients: its record is in the
\* queue before the residence waits for the next ordinal.  Who may submit holds
\* the only ticket of its ordinal, and its request has a reserved slot.
AdmittedOnce ==
  /\ \A m, n \in Ordinals : (m # n /\ room[m].observed /\ room[n].marker = "claimed")
       => Wanted(m) # Wanted(n)
  /\ \A c \in Clients : client[c].pc \in {"granted", "submitted"} =>
       room[client[c].n].by = c /\ client[c].req \in begun

\* A published stop closes the residence, unless its evaluation is lost.
StopEndsResidence == stop ~> (audited \/ ~alive)

Unanswered == \E n \in Ordinals : room[n].marker = "claimed" /\ ~room[n].observed

\* A claimed readiness is answered: its command is observed, or the residence
\* closes, or the evaluation is lost.
ClaimIsAnswered == Unanswered ~> (~Unanswered \/ audited \/ ~alive)

\* Losing the evaluation withdraws advertised readiness, closes the socket and
\* records the failure, though nobody is left to do it.
LossRetiresReadiness ==
  (~alive /\ \E n \in Ordinals : room[n].marker = "waiting") ~>
    (audited /\ failed /\ \A n \in Ordinals : room[n].marker # "waiting")

\* A delivery that was lost, because a wake took a receive whose ready file then
\* failed, closes the residence: its job would run nowhere, and no timer of the
\* session is left to end it.  Only the evaluation knows of it, and if that is lost
\* the detector.
LostDeliveryCloses == (\E n \in Ordinals : got[n].file = "failed") ~> audited

\* "It is disabled during accepted Pro work" (native-activation.md): while the
\* evaluation is there, the detector does not expire with a job running.
DetectorSparesWork ==
  [][(detector = "armed" /\ detector' = "expired" /\ alive)
       => \A r \in Requests : job[r] # "running"]_vars

\* "If the claim landed first, the waiter ... stays responsible for that
\* publication (a stop is honored at the next ordinal)" (native-activation.md):
\* an observed command in time is not given up because of a stop.
ClaimOutlivesStop ==
  [][(serve = "observed" /\ outcome' = "failed" /\ detector # "expired")
       => room[ordinal].late]_vars

\* "Keep the slot reserved and leave the listener up so a sibling worker can
\* continue" (parked-serving.mjs): what is received is what was admitted.
DeliveryIsAdmitted ==
  (serve = "receiving" /\ got[ordinal].st = "call") =>
    call[got[ordinal].call].req = Wanted(ordinal)

=============================================================================
