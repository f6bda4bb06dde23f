--------------------------- MODULE AdmissionProofs ---------------------------
(* The waiting room, its clients and the serving loop, for every set of       *)
(* requests and clients and every number of ordinals, whatever happens; and   *)
(* the socket of a residence as a session of ParkedSocket, of which           *)
(* SocketProofs speaks.                                                       *)
EXTENDS Admission, FiniteSetTheorems, TLAPS

\* What is proved of a session, for the one of the residence.
Session == INSTANCE SocketProofs WITH
  Calls <- Wakes, MaxReceives <- MaxOrdinal, SeenLimit <- MaxOrdinal,
  Resident <- TRUE, Timed <- FALSE, Faulty <- "readyfail" \in Events

----------------------------------------------------------------------------
(* The residence uses its socket as a session does                           *)

\* The parameters of the session are as it assumes.
LEMMA SessionAssumption == Session!SocketAssumption
BY AdmissionAssumption DEF Session!SocketAssumption

\* The two instances of ParkedSocket mean the same by their parts.
LEMMA SameParts ==
  /\ Socket!Receives = Session!Receives /\ Socket!Operations = Session!Operations
  /\ Socket!Dispositions = Session!Dispositions /\ Socket!Reasons = Session!Reasons
  /\ Socket!NoCall = Session!NoCall /\ Socket!CallType = Session!CallType
  /\ Socket!NoReceive = Session!NoReceive /\ Socket!ReceiveType = Session!ReceiveType
  /\ \A S : Socket!Cardinality(S) = Session!Cardinality(S)
BY DEF Socket!Receives, Session!Receives, Socket!Operations, Session!Operations,
       Socket!Dispositions, Session!Dispositions, Socket!Reasons, Session!Reasons,
       Socket!NoCall, Session!NoCall, Socket!CallType, Session!CallType,
       Socket!NoReceive, Session!NoReceive, Socket!ReceiveType, Session!ReceiveType,
       Socket!Refusals, Session!Refusals,
       Socket!Cardinality, Session!Cardinality

\* So do their types.
LEMMA SameTypes == Socket!SocketTypeOK <=> Session!SocketTypeOK
BY SameParts DEF Socket!SocketTypeOK, Session!SocketTypeOK

\* So do their initial states.
LEMMA SameInit == Socket!SocketInit => Session!SocketInit
BY SameParts DEF Socket!SocketInit, Session!SocketInit

\* Closing means the same in both.
LEMMA SameClose ==
  /\ \A why, calls, refused :
       Socket!CloseEffect(why, calls, refused) => Session!CloseEffect(why, calls, refused)
  /\ \A why : Socket!Close(why) => Session!Close(why)
<1>1. ASSUME NEW why, NEW calls, NEW refused, Socket!CloseEffect(why, calls, refused)
      PROVE  Session!CloseEffect(why, calls, refused)
  BY <1>1, SameParts, Zenon DEF Socket!CloseEffect, Session!CloseEffect
<1> QED BY <1>1 DEF Socket!Close, Session!Close

\* So does the end of a job.
LEMMA SameConclude ==
  ASSUME NEW c, NEW d, NEW broken, NEW calls, Socket!Conclude(c, d, broken, calls)
  PROVE  Session!Conclude(c, d, broken, calls)
BY SameClose DEF Socket!Conclude, Session!Conclude, Socket!ReservedAfter, Session!ReservedAfter,
     Socket!LastOfRetired, Session!LastOfRetired, Socket!IdleArmed, Session!IdleArmed

\* A step of the session the residence uses is one of those that are proved about.
LEMMA SameStep == Socket!SocketNext => Session!SocketNext
<1> SUFFICES ASSUME Socket!SocketNext PROVE Session!SocketNext
  OBVIOUS
<1>1. ASSUME NEW c \in Wakes, NEW r \in Requests, NEW op \in Socket!Operations,
             Socket!Wake(c, r, op)
      PROVE  Session!Wake(c, r, op)
  <2>1. Socket!Refusal(r, op) = Session!Refusal(r, op)
    BY SameParts DEF Socket!Refusal, Session!Refusal
  <2> QED BY <1>1, <2>1, SameParts DEF Socket!Wake, Session!Wake
<1>2. CASE Socket!ClientNext
  BY <1>1, <1>2, SameParts DEF Socket!ClientNext, Session!ClientNext, Socket!HangUp, Session!HangUp,
       Session!SocketNext
<1>3. CASE Socket!JobNext
  <2>1. ASSUME NEW c \in Wakes, NEW d \in Socket!Dispositions, Socket!Finish(c, d)
        PROVE  Session!Finish(c, d)
    <3>1. CASE call[c].conn
      BY <2>1, <3>1 DEF Socket!Finish, Session!Finish
    <3>2. CASE ~call[c].conn
      BY <2>1, <3>2, SameConclude DEF Socket!Finish, Session!Finish
    <3> QED BY <3>1, <3>2
  <2>2. ASSUME NEW c \in Wakes, NEW b \in BOOLEAN, Socket!FinishEnds(c, b)
        PROVE  Session!FinishEnds(c, b)
    BY <2>2, SameConclude DEF Socket!FinishEnds, Session!FinishEnds
  <2> QED BY <1>3, <2>1, <2>2, SameParts DEF Socket!JobNext, Session!JobNext, Session!SocketNext
<1>4. CASE \E n \in Socket!Receives : \/ Socket!Receive(n) \/ Socket!ReadyWritten(n)
                                       \/ Socket!ReadyFails(n) \/ Socket!ReceiveExpires(n)
  <2>1. PICK n \in Session!Receives :
          Socket!Receive(n) \/ Socket!ReadyWritten(n) \/ Socket!ReadyFails(n)
    BY <1>4, SameParts DEF Socket!ReceiveExpires
  <2>2. CASE Socket!Receive(n)
    <3>1. Session!Receive(n)
      BY <2>2, SameClose, SameParts DEF Socket!Receive, Session!Receive,
           Socket!HasRoom, Session!HasRoom, Socket!IdleArmed, Session!IdleArmed
    <3> QED BY <3>1 DEF Session!SocketNext
  <2>3. CASE Socket!ReadyWritten(n)
    BY <2>3 DEF Socket!ReadyWritten, Session!ReadyWritten, Session!SocketNext
  <2>4. CASE Socket!ReadyFails(n)
    BY <2>4 DEF Socket!ReadyFails, Session!ReadyFails, Socket!Spliced, Session!Spliced,
         Session!SocketNext
  <2> QED BY <2>1, <2>2, <2>3, <2>4
<1>5. CASE Socket!IdleExpires \/ Socket!LeaseExpires \/ Socket!CloseEnds
  BY <1>5, SameClose DEF Socket!IdleExpires, Session!IdleExpires, Socket!LeaseExpires,
       Session!LeaseExpires, Socket!CloseEnds, Session!CloseEnds, Session!SocketNext
<1>6. CASE \E why \in {"resident_failed", "resident_stopped"} : Socket!Close(why)
  BY <1>6, SameClose DEF Session!SocketNext
<1> QED BY <1>2, <1>3, <1>4, <1>5, <1>6 DEF Socket!SocketNext, Session!SocketNext
\* A wake that was not made, or was refused, stands for nothing.
NotInUse == {"unused", "refused"}

\* What a step of the socket leaves of every wake and every receive.
CallsStay ==
  \A w \in Wakes : /\ call'[w].req = call[w].req
                   /\ call'[w].st \in NotInUse <=> call[w].st \in NotInUse
ReceivesStay == \A n \in Ordinals : got[n].st # "unopened" => got'[n].st # "unopened"

\* What the session's invariant says of its wakes and receives.
LEMMA SessionFacts ==
  ASSUME Session!SocketInv
  PROVE  /\ call \in [Wakes -> Session!CallType]
         /\ got \in [Ordinals -> Session!ReceiveType]
         /\ \A n \in Ordinals : got[n].st = "call" =>
              got[n].call \in Wakes /\ call[got[n].call].st \notin NotInUse
         /\ \A w \in Wakes : call[w].st = "finished" => call[w].verdict \in Session!Dispositions
         /\ Socket!SocketTypeOK
<1>1. Session!SocketTypeOK /\ Session!JobInv
  BY DEF Session!SocketInv
<1>2. got \in [Ordinals -> Session!ReceiveType] /\ call \in [Wakes -> Session!CallType]
  BY <1>1 DEF Session!SocketTypeOK, Session!Receives, Ordinals
<1>3. \A n \in Ordinals : got[n].st = "call" =>
        got[n].call \in Wakes /\ call[got[n].call].st \notin NotInUse
  BY <1>1, <1>2 DEF Session!JobInv, Session!Receives, Session!ReceiveType, Ordinals, NotInUse
<1>4. \A w \in Wakes : call[w].st = "finished" => call[w].verdict \in Session!Dispositions
  BY <1>1 DEF Session!JobInv
<1> QED BY <1>1, <1>2, <1>3, <1>4, SameTypes

\* A close changes no request, uses no wake and opens no receive.
LEMMA CloseStays ==
  ASSUME Session!SocketInv, NEW why, NEW calls \in [Wakes -> Session!CallType], NEW refused,
         Socket!CloseEffect(why, calls, refused),
         \A w \in Wakes : /\ calls[w].req = call[w].req
                          /\ calls[w].st \in NotInUse <=> call[w].st \in NotInUse
  PROVE  CallsStay /\ ReceivesStay
<1>1. \A w \in Wakes : /\ [calls[w] EXCEPT !.conn = FALSE].req = calls[w].req
                       /\ [calls[w] EXCEPT !.conn = FALSE].st = calls[w].st
  BY DEF Session!CallType
<1>2. CallsStay
  BY <1>1 DEF CallsStay, Socket!CloseEffect
<1>3. ReceivesStay
  BY SessionFacts DEF ReceivesStay, Socket!CloseEffect, Socket!Receives, Ordinals,
     Session!ReceiveType
<1> QED BY <1>2, <1>3

\* So do a close of the session, its end and its idle timer.
LEMMA ClosesStay ==
  ASSUME Session!SocketInv,
         (\E why : Socket!Close(why)) \/ Socket!IdleExpires \/ Socket!CloseEnds
  PROVE  CallsStay /\ ReceivesStay
<1>1. CASE \E why : Socket!Close(why)
  BY <1>1, CloseStays, SessionFacts DEF Socket!Close
<1>2. CASE Socket!IdleExpires
  BY <1>2, CloseStays, SessionFacts DEF Socket!IdleExpires, Socket!Close
<1>3. CASE Socket!CloseEnds
  BY <1>3 DEF Socket!CloseEnds, CallsStay, ReceivesStay
<1> QED BY <1>1, <1>2, <1>3

\* So does a receive, which is not unopened afterwards.
LEMMA ReceiveStays ==
  ASSUME Session!SocketInv, NEW n \in Ordinals, Socket!Receive(n)
  PROVE  CallsStay /\ ReceivesStay /\ got'[n].st # "unopened"
<1>1. CASE retired \/ Socket!Cardinality(seen) >= MaxOrdinal
  <2>1. Socket!CloseEffect("session_finished", call, {n})
    BY <1>1 DEF Socket!Receive
  <2>2. got'[n].st # "unopened"
    BY <2>1, SessionFacts DEF Socket!CloseEffect, Socket!Receives, Ordinals,
       Session!ReceiveType
  <2> QED BY <2>1, <2>2, CloseStays, SessionFacts
<1>2. CASE ~(retired \/ Socket!Cardinality(seen) >= MaxOrdinal)
  <2>1. got' = [got EXCEPT ![n].st = "open", ![n].file = "writing"] /\ call' = call
    BY <1>2 DEF Socket!Receive
  <2> QED BY <2>1, SessionFacts DEF CallsStay, ReceivesStay, Session!ReceiveType
<1> QED BY <1>1, <1>2

\* So does the ready file of a receive, written or failed.
LEMMA ReadyStays ==
  ASSUME Session!SocketInv, NEW n \in Ordinals, Socket!ReadyWritten(n) \/ Socket!ReadyFails(n)
  PROVE  CallsStay /\ ReceivesStay
<1>1. CallsStay
  BY DEF Socket!ReadyWritten, Socket!ReadyFails, CallsStay
<1>2. \/ got' = [got EXCEPT ![n].file = "written"]
      \/ got' = [got EXCEPT ![n].file = "failed"]
      \/ got' = [got EXCEPT ![n].st = "null", ![n].file = "failed"]
  BY DEF Socket!ReadyWritten, Socket!ReadyFails
<1> QED BY <1>1, <1>2, SessionFacts DEF ReceivesStay, Session!ReceiveType

\* So does the end of a job.
LEMMA ConcludeStays ==
  ASSUME Session!SocketInv, NEW c, NEW d, NEW broken, NEW calls \in [Wakes -> Session!CallType],
         Socket!Conclude(c, d, broken, calls),
         \A w \in Wakes : /\ calls[w].req = call[w].req
                          /\ calls[w].st \in NotInUse <=> call[w].st \in NotInUse
  PROVE  CallsStay /\ ReceivesStay
<1>1. CASE \E why : Socket!CloseEffect(why, calls, {})
  BY <1>1, CloseStays
<1>2. CASE call' = calls /\ got' = got
  BY <1>2 DEF CallsStay, ReceivesStay
<1> QED BY <1>1, <1>2 DEF Socket!Conclude

\* So do both parts of finish.
LEMMA FinishStays ==
  ASSUME Session!SocketInv, NEW c \in Wakes, NEW d \in Socket!Dispositions, NEW b,
         Socket!Finish(c, d) \/ Socket!FinishEnds(c, b)
  PROVE  CallsStay /\ ReceivesStay
<1>0. call \in [Wakes -> Session!CallType] /\ d \in Session!Dispositions
  BY SessionFacts, SameParts
<1>1. CASE Socket!Finish(c, d) /\ call[c].conn
  <2>1. /\ call' = [call EXCEPT ![c].st = "finishing", ![c].verdict = d, ![c].told = d]
        /\ got' = got /\ call[c].st = "active"
    BY <1>1 DEF Socket!Finish
  <2> QED BY <1>0, <2>1 DEF CallsStay, ReceivesStay, Session!CallType, NotInUse
<1>2. CASE Socket!Finish(c, d) /\ ~call[c].conn
  <2> DEFINE calls == [call EXCEPT ![c].st = "finished", ![c].verdict = d]
  <2>1. PICK broken \in BOOLEAN :
          Socket!Conclude(c, d, broken, calls) /\ call[c].st = "active"
    BY <1>2 DEF Socket!Finish
  <2>2. /\ calls \in [Wakes -> Session!CallType]
        /\ \A w \in Wakes : /\ calls[w].req = call[w].req
                            /\ calls[w].st \in NotInUse <=> call[w].st \in NotInUse
    BY <1>0, <2>1 DEF Session!CallType, NotInUse
  <2> HIDE DEF calls
  <2> QED BY <2>1, <2>2, ConcludeStays
<1>3. CASE Socket!FinishEnds(c, b)
  <2> DEFINE calls == [call EXCEPT ![c].st = "finished", ![c].conn = FALSE]
  <2>1. Socket!Conclude(c, call[c].verdict, b, calls) /\ call[c].st = "finishing"
    BY <1>3 DEF Socket!FinishEnds
  <2>2. /\ calls \in [Wakes -> Session!CallType]
        /\ \A w \in Wakes : /\ calls[w].req = call[w].req
                            /\ calls[w].st \in NotInUse <=> call[w].st \in NotInUse
    BY <1>0, <2>1 DEF Session!CallType, NotInUse
  <2> HIDE DEF calls
  <2> QED BY <2>1, <2>2, ConcludeStays
<1> QED BY <1>1, <1>2, <1>3

\* So does a client that hangs up.
LEMMA HangUpStays ==
  ASSUME Session!SocketInv, NEW c \in Wakes, Socket!HangUp(c)
  PROVE  CallsStay /\ ReceivesStay
BY SessionFacts DEF Socket!HangUp, CallsStay, ReceivesStay, Session!CallType

\* A wake uses one call, for its request, and unopens no receive.
LEMMA WakeStays ==
  ASSUME Session!SocketInv, NEW c \in Wakes, NEW r, NEW op, Socket!Wake(c, r, op)
  PROVE  /\ call'[c].st \notin NotInUse => call'[c].req = r
         /\ \A w \in Wakes : w # c => call'[w] = call[w]
         /\ ReceivesStay
<1>0. call \in [Wakes -> Session!CallType]
      /\ got \in [Ordinals -> Session!ReceiveType]
  BY SessionFacts
<1>1. CASE Socket!Refusal(r, op) # "none"
  BY <1>0, <1>1 DEF Socket!Wake, Socket!NoCall, ReceivesStay, NotInUse
<1>2. CASE Socket!Refusal(r, op) = "none"
  <2>1. /\ call' = [call EXCEPT ![c] = [Socket!NoCall EXCEPT !.req = r, !.op = op,
                                         !.st = "active", !.conn = TRUE]]
        /\ got' = [got EXCEPT ![Head(waiting)].st = "call", ![Head(waiting)].call = c]
    BY <1>2 DEF Socket!Wake
  <2>2. call'[c].req = r
    BY <1>0, <2>1 DEF Socket!NoCall
  <2>3. ReceivesStay
    BY <1>0, <2>1 DEF ReceivesStay, Session!ReceiveType
  <2> QED BY <1>0, <2>1, <2>2, <2>3
<1> QED BY <1>1, <1>2
----------------------------------------------------------------------------
(* The invariant                                                             *)

\* The evaluation has a command and is about to serve it.
Serving    == {"chosen", "begun", "observed", "receiving"}
HasCommand == wait = "chosen" \/ serve \in Serving

\* The types of what is not the socket's.
ResidenceTypeOK ==
  /\ room \in [Ordinals -> RoomType]
  /\ client \in [Clients -> [pc : ClientPCs, req : Requests \cup {None},
                             n : 0..MaxOrdinal]]
  /\ queue \subseteq Requests /\ begun \subseteq Requests
  /\ ordinal \in 1..(MaxOrdinal + 1)
  /\ serve \in ServePCs /\ wait \in WaitStates
  /\ outcome \in {"none", "stopped", "failed"}
  /\ detector \in {"off", "armed", "expired"}
  /\ {stop, failed, alive, retained} \subseteq BOOLEAN
  /\ job \in [Requests -> JobStates]

\* Where the loop is, what the native wait returned and what the room shows.
LoopInv ==
  /\ wait # "none" =>
       serve \in {"waiting", "ending", "joining", "closed"} /\ ordinal \in Ordinals
  /\ serve \in Serving \cup {"waiting"} => ordinal \in Ordinals
  /\ outcome = "stopped" => serve \in {"ending", "joining", "closed"} /\ wait = "none"
  /\ wait \in {"pending", "stopped"} => room[ordinal].marker = "none"
  /\ HasCommand => room[ordinal].marker = "claimed"
  /\ serve \in {"observed", "receiving"} => room[ordinal].observed
  /\ serve = "receiving" => got[ordinal].st # "unopened"

\* A claimed marker is the ticket of one client, for good.
TicketInv ==
  /\ \A c \in Clients : client[c].pc # "start" =>
       /\ client[c].n \in Ordinals /\ client[c].req \in Requests
       /\ room[client[c].n].by = c
  /\ \A n \in Ordinals :
       /\ room[n].by # None => client[room[n].by].pc # "start" /\ client[room[n].by].n = n
       /\ room[n].by # None <=> room[n].marker = "claimed"
       /\ room[n].observed => room[n].marker = "claimed"

\* A client goes on only with its command observed, and wakes only for the
\* request it has queued.
ClientInv ==
  /\ \A c \in Clients :
       /\ client[c].pc \in {"granted", "submitted", "waking", "held"} =>
            room[client[c].n].observed
       /\ client[c].pc \in {"submitted", "waking", "held"} => client[c].req \in queue
  /\ \A c \in Clients, op \in {"run", "observe"} : call[<<c, op>>].st \notin NotInUse =>
       /\ client[c].pc \in {"waking", "held", "over"}
       /\ room[client[c].n].observed
       /\ call[<<c, op>>].req = client[c].req
       /\ client[c].req \in queue

\* What was observed for an earlier ordinal is queued, what the evaluation serves
\* is none of it, and a reserved slot is kept until its job has ended.
RequestInv ==
  /\ \A n \in Ordinals : room[n].observed /\ n # ordinal => Wanted(n) \in queue
  /\ \A m, n \in Ordinals : room[m].observed /\ room[n].marker = "claimed" /\ m # n =>
       Wanted(m) # Wanted(n)
  /\ \A c \in Clients :
       /\ client[c].pc \in {"claiming", "awaiting", "granted", "submitted"}
       /\ room[client[c].n].observed
       => client[c].req \in begun
  /\ \A r \in Requests : job[r] = "running" => r \in begun
  /\ serve \in {"begun", "observed", "receiving"} =>
       Wanted(ordinal) \in begun /\ job[Wanted(ordinal)] # "running"

\* The inductive invariant, with the session's own.
ResidenceInv == /\ ResidenceTypeOK /\ LoopInv /\ TicketInv /\ ClientInv /\ RequestInv
                /\ ReadinessIsAttended /\ ClaimIsNotPassedOver
AdmissionInv == Session!SocketInv /\ ResidenceInv

\* A residence begins with an empty room.
LEMMA AdmissionInit == Init => AdmissionInv
<1> SUFFICES ASSUME Init PROVE AdmissionInv
  OBVIOUS
<1>1. Session!SocketInv
  BY Session!SocketInvInit, SessionAssumption, SameInit DEF Init
<1>2. ResidenceTypeOK
  <2>1. EmptyRoom \in RoomType
    BY DEF RoomType, EmptyRoom, Markers
  <2>2. room \in [Ordinals -> RoomType]
    BY <2>1 DEF Init
  <2>3. [pc |-> "start", req |-> None, n |-> 0]
          \in [pc : ClientPCs, req : Requests \cup {None}, n : 0..MaxOrdinal]
    BY AdmissionAssumption DEF ClientPCs
  <2>4. client \in [Clients -> [pc : ClientPCs, req : Requests \cup {None}, n : 0..MaxOrdinal]]
    BY <2>3 DEF Init
  <2>5. ordinal \in 1..(MaxOrdinal + 1)
    BY AdmissionAssumption DEF Init
  <2>6. /\ queue \subseteq Requests /\ begun \subseteq Requests
        /\ serve \in ServePCs /\ wait \in WaitStates
        /\ outcome \in {"none", "stopped", "failed"}
        /\ detector \in {"off", "armed", "expired"}
        /\ job \in [Requests -> JobStates]
    BY DEF Init, ServePCs, WaitStates, JobStates
  <2>7. {stop, failed, alive, retained} \subseteq BOOLEAN
    BY DEF Init
  <2> QED BY <2>2, <2>4, <2>5, <2>6, <2>7 DEF ResidenceTypeOK
<1>3. \A n \in Ordinals : room[n] = EmptyRoom
  BY DEF Init
<1>4. \A w \in Wakes : call[w].st = "unused"
  BY DEF Init, Socket!SocketInit, Socket!NoCall
<1>5. LoopInv /\ ReadinessIsAttended /\ ClaimIsNotPassedOver
  BY <1>3 DEF Init, LoopInv, HasCommand, Serving, ReadinessIsAttended,
     ClaimIsNotPassedOver, EmptyRoom
<1>6. TicketInv /\ ClientInv
  BY <1>3, <1>4 DEF Init, TicketInv, ClientInv, EmptyRoom, Wakes, NotInUse
<1>7. RequestInv
  BY <1>3 DEF Init, RequestInv, HasCommand, Serving, EmptyRoom
<1> QED BY <1>1, <1>2, <1>5, <1>6, <1>7 DEF AdmissionInv, ResidenceInv
----------------------------------------------------------------------------
(* Steps of the loop, the native wait and the detector that admit nothing    *)

\* A step that changes no ticket and observes no command.
TicketsStay ==
  \A n \in Ordinals : /\ room'[n].by = room[n].by
                      /\ room'[n].observed = room[n].observed
                      /\ room'[n].marker = "claimed" <=> room[n].marker = "claimed"

\* Such a step leaves tickets, clients and reserved requests as they are.
LEMMA TicketsKept ==
  ASSUME AdmissionInv, TicketsStay, CallsStay,
         UNCHANGED <<client, queue, begun, job, ordinal>>,
         serve' \in {"begun", "observed", "receiving"} =>
           serve \in {"begun", "observed", "receiving"}
  PROVE  TicketInv' /\ ClientInv' /\ RequestInv'
<1>0. /\ ResidenceTypeOK /\ LoopInv /\ TicketInv /\ ClientInv /\ RequestInv
  BY DEF AdmissionInv, ResidenceInv
<1>1. TicketInv'
  BY <1>0 DEF TicketInv, TicketsStay
<1>2. ClientInv'
  <2>1. \A c \in Clients :
          /\ client'[c].pc \in {"granted", "submitted", "waking", "held"} =>
               room'[client'[c].n].observed
          /\ client'[c].pc \in {"submitted", "waking", "held"} => client'[c].req \in queue'
    BY <1>0 DEF ClientInv, TicketInv, TicketsStay
  <2>2. ASSUME NEW c \in Clients, NEW op \in {"run", "observe"}, call'[<<c, op>>].st \notin NotInUse
        PROVE  /\ client'[c].pc \in {"waking", "held", "over"}
               /\ room'[client'[c].n].observed
               /\ call'[<<c, op>>].req = client'[c].req
               /\ client'[c].req \in queue'
    <3>1. <<c, op>> \in Wakes
      BY DEF Wakes
    <3>2. call[<<c, op>>].st \notin NotInUse /\ call'[<<c, op>>].req = call[<<c, op>>].req
      BY <2>2, <3>1 DEF CallsStay
    <3>3. /\ client[c].pc \in {"waking", "held", "over"} /\ room[client[c].n].observed
          /\ call[<<c, op>>].req = client[c].req /\ client[c].req \in queue
      BY <1>0, <3>2 DEF ClientInv
    <3>4. client[c].n \in Ordinals
      BY <1>0, <3>3 DEF TicketInv
    <3>5. room'[client[c].n].observed
      BY <3>3, <3>4 DEF TicketsStay
    <3> QED BY <3>2, <3>3, <3>5
  <2> QED BY <2>1, <2>2 DEF ClientInv
<1>3. \A n \in Ordinals : Wanted(n)' = Wanted(n)
  BY DEF Wanted, TicketsStay
<1>4. RequestInv'
  <2>1. serve \in {"begun", "observed", "receiving"} => ordinal \in Ordinals
    BY <1>0 DEF LoopInv, HasCommand, Serving
  <2>2. \A c \in Clients :
          /\ client'[c].pc \in {"claiming", "awaiting", "granted", "submitted"}
          /\ room'[client'[c].n].observed
          => client'[c].req \in begun'
    BY <1>0 DEF RequestInv, TicketInv, TicketsStay
  <2>3. /\ \A n \in Ordinals : room'[n].observed /\ n # ordinal' => Wanted(n)' \in queue'
        /\ \A m, n \in Ordinals : room'[m].observed /\ room'[n].marker = "claimed" /\ m # n =>
             Wanted(m)' # Wanted(n)'
    BY <1>0, <1>3, <2>1 DEF RequestInv, TicketsStay
  <2>4. /\ \A r \in Requests : job'[r] = "running" => r \in begun'
        /\ serve' \in {"begun", "observed", "receiving"} =>
             Wanted(ordinal)' \in begun' /\ job'[Wanted(ordinal)'] # "running"
    BY <1>0, <1>3, <2>1 DEF RequestInv
  <2> QED BY <2>2, <2>3, <2>4 DEF RequestInv
<1> QED BY <1>1, <1>2, <1>4

\* A step of the socket, of the detector or of a flag, that leaves the loop.
LEMMA ElsewhereKeeps ==
  ASSUME AdmissionInv, CallsStay, ReceivesStay,
         UNCHANGED <<room, client, queue, serveVars>>,
         wait' = wait \/ (wait = "watching" /\ wait' = "aborting"),
         {stop', failed', alive', retained'} \subseteq BOOLEAN,
         detector' \in {"off", "armed", "expired"}
  PROVE  ResidenceInv'
<1>0. /\ ResidenceTypeOK /\ LoopInv /\ TicketInv /\ ClientInv /\ RequestInv
      /\ ReadinessIsAttended /\ ClaimIsNotPassedOver
  BY DEF AdmissionInv, ResidenceInv
<1>1. /\ room' = room /\ client' = client /\ queue' = queue /\ ordinal' = ordinal
      /\ serve' = serve /\ outcome' = outcome /\ begun' = begun /\ job' = job
  BY DEF serveVars
<1>2. TicketInv' /\ ClientInv' /\ RequestInv'
  BY <1>1, TicketsKept DEF TicketsStay
<1>3. ResidenceTypeOK'
  BY <1>0, <1>1 DEF ResidenceTypeOK, WaitStates
<1>4. LoopInv'
  BY <1>0, <1>1 DEF LoopInv, HasCommand, Serving, ReceivesStay
<1>5. ReadinessIsAttended' /\ ClaimIsNotPassedOver'
  BY <1>0, <1>1 DEF ReadinessIsAttended, ClaimIsNotPassedOver
<1> QED BY <1>2, <1>3, <1>4, <1>5 DEF ResidenceInv

\* The socket's own steps.
LEMMA SocketStepKeeps ==
  ASSUME AdmissionInv, SocketStep \/ \E r \in Requests : FinishJob(r)
  PROVE  ResidenceInv'
<1>0. Session!SocketInv /\ ResidenceTypeOK
  BY DEF AdmissionInv, ResidenceInv
<1>1. CallsStay /\ ReceivesStay
  <2>1. CASE SocketStep
    <3>1. "published" \in Socket!Dispositions
      BY DEF Socket!Dispositions
    <3> QED BY <1>0, <2>1, <3>1, ClosesStay, HangUpStays, FinishStays, ReadyStays DEF SocketStep
  <2>2. CASE \E r \in Requests : FinishJob(r)
    <3>1. PICK c \in Clients, d \in Socket!Dispositions : Socket!Finish(<<c, "run">>, d)
      BY <2>2 DEF FinishJob
    <3>2. <<c, "run">> \in Wakes
      BY DEF Wakes
    <3> QED BY <1>0, <3>1, <3>2, FinishStays
  <2> QED BY <2>1, <2>2
<1>2. UNCHANGED <<waitVars, serveVars, clientVars, flagVars>>
  BY DEF SocketStep, FinishJob
<1>3. /\ UNCHANGED <<room, client, queue, serveVars>> /\ wait' = wait
      /\ {stop', failed', alive', retained'} \subseteq BOOLEAN
      /\ detector' \in {"off", "armed", "expired"}
  BY <1>0, <1>2 DEF waitVars, clientVars, flagVars, ResidenceTypeOK
<1> QED BY <1>1, <1>3, ElsewhereKeeps

\* The flags, and the detector.
LEMMA FlagsKeep ==
  ASSUME AdmissionInv, PublishStop \/ Lose \/ RecordLoss \/ ReceiveReturns \/ Expire
  PROVE  ResidenceInv'
<1>0. Session!SocketInv /\ ResidenceTypeOK
  BY DEF AdmissionInv, ResidenceInv
<1>1. CASE PublishStop \/ Lose \/ RecordLoss \/ ReceiveReturns
  <2>1. /\ UNCHANGED <<socketVars, waitVars, serveVars, clientVars>>
        /\ detector' = detector \/ detector' = "off"
    BY <1>1 DEF PublishStop, Lose, RecordLoss, ReceiveReturns
  <2>2. {stop', failed', alive', retained'} \subseteq BOOLEAN
    BY <1>0, <1>1 DEF PublishStop, Lose, RecordLoss, ReceiveReturns, ResidenceTypeOK, waitVars
  <2>3. CallsStay /\ ReceivesStay
    BY <2>1 DEF socketVars, CallsStay, ReceivesStay
  <2>4. /\ UNCHANGED <<room, client, queue, serveVars>> /\ wait' = wait
        /\ detector' \in {"off", "armed", "expired"}
    BY <1>0, <2>1 DEF waitVars, clientVars, ResidenceTypeOK
  <2> QED BY <2>2, <2>3, <2>4, ElsewhereKeeps
<1>2. CASE Expire
  <2>1. CallsStay /\ ReceivesStay
    BY <1>0, <1>2, ClosesStay DEF Expire
  <2>2. /\ wait' = Aborted /\ detector' = "expired"
        /\ UNCHANGED <<room, retained, serveVars, clientVars, stop, failed, alive>>
    BY <1>2 DEF Expire
  <2>3. wait' = wait \/ (wait = "watching" /\ wait' = "aborting")
    BY <2>2 DEF Aborted
  <2>4. {stop', failed', alive', retained'} \subseteq BOOLEAN
    BY <1>0, <2>2 DEF ResidenceTypeOK
  <2>5. UNCHANGED <<room, client, queue, serveVars>>
    BY <2>2 DEF clientVars
  <2> QED BY <2>1, <2>2, <2>3, <2>4, <2>5, ElsewhereKeeps
<1> QED BY <1>1, <1>2
\* The room once the wait is over.
LEMMA WithdrawnRoom ==
  ASSUME AdmissionInv, room' = Withdrawn, ordinal \in Ordinals
  PROVE  /\ TicketsStay
         /\ room' \in [Ordinals -> RoomType]
         /\ room'[ordinal].marker # "waiting"
         /\ room[ordinal].marker = "waiting" => room'[ordinal].marker = "none"
         /\ \A n \in Ordinals : n # ordinal => room'[n] = room[n]
<1>1. room \in [Ordinals -> RoomType]
  BY DEF AdmissionInv, ResidenceInv, ResidenceTypeOK
<1>2. CASE room[ordinal].marker = "waiting"
  <2>1. room' = [room EXCEPT ![ordinal].marker = "none"]
    BY <1>2 DEF Withdrawn
  <2>2. /\ room' \in [Ordinals -> RoomType] /\ room'[ordinal].marker = "none"
        /\ room'[ordinal].by = room[ordinal].by
        /\ room'[ordinal].observed = room[ordinal].observed
        /\ \A n \in Ordinals : n # ordinal => room'[n] = room[n]
    BY <1>1, <2>1 DEF RoomType, Markers
  <2> QED BY <1>2, <2>2 DEF TicketsStay
<1>3. CASE room[ordinal].marker # "waiting"
  BY <1>1, <1>3 DEF Withdrawn, TicketsStay
<1> QED BY <1>2, <1>3

\* The native wait ends: readiness is withdrawn unless it was claimed, and a wait
\* that found a command found one for a request that is not in the queue.
LEMMA WaitStepKeeps ==
  ASSUME AdmissionInv, WaitStep
  PROVE  ResidenceInv'
<1>0. /\ Session!SocketInv /\ ResidenceTypeOK /\ LoopInv /\ TicketInv /\ ClientInv /\ RequestInv
      /\ ReadinessIsAttended /\ ClaimIsNotPassedOver
  BY DEF AdmissionInv, ResidenceInv
<1>1. PICK what \in {"stopped", "pending", "failed", "chosen"} :
        /\ WaitReturns(what) /\ wait \in {"watching", "aborting"}
        /\ what \in {"stopped", "pending"} => room[ordinal].marker = "waiting"
        /\ what = "chosen" => room[ordinal].marker = "claimed"
  BY DEF WaitStep, WaitStops, WaitElapses, WaitGivesUp, WaitFinds, WaitAborts, Unclaimed
<1>2. /\ wait' = what /\ room' = Withdrawn
      /\ UNCHANGED <<socketVars, retained, serveVars, clientVars, flagVars>>
  BY <1>1 DEF WaitReturns
<1>3. /\ client' = client /\ queue' = queue /\ ordinal' = ordinal
      /\ serve' = serve /\ outcome' = outcome /\ begun' = begun /\ job' = job
      /\ got' = got /\ call' = call /\ stop' = stop /\ failed' = failed /\ alive' = alive
      /\ detector' = detector /\ retained' = retained
  BY <1>2 DEF serveVars, clientVars, socketVars, flagVars
<1>4. serve \in {"waiting", "ending", "joining", "closed"} /\ ordinal \in Ordinals
      /\ outcome # "stopped"
  BY <1>0, <1>1 DEF LoopInv
<1>5. /\ TicketsStay
      /\ room' \in [Ordinals -> RoomType]
      /\ room'[ordinal].marker # "waiting"
      /\ room[ordinal].marker = "waiting" => room'[ordinal].marker = "none"
      /\ \A n \in Ordinals : n # ordinal => room'[n] = room[n]
  BY <1>2, <1>4, WithdrawnRoom
<1>6. ResidenceTypeOK'
  BY <1>0, <1>2, <1>3, <1>5 DEF ResidenceTypeOK, WaitStates
<1>7. LoopInv'
  BY <1>0, <1>1, <1>2, <1>3, <1>4, <1>5 DEF LoopInv, HasCommand, Serving, TicketsStay
<1>8. ReadinessIsAttended' /\ ClaimIsNotPassedOver'
  BY <1>0, <1>3, <1>4, <1>5 DEF ReadinessIsAttended, ClaimIsNotPassedOver, TicketsStay
<1>9. TicketInv' /\ ClientInv' /\ RequestInv'
  BY <1>2, <1>3, <1>5, TicketsKept DEF CallsStay
<1> QED BY <1>6, <1>7, <1>8, <1>9 DEF ResidenceInv

\* A pickup deadline passes.
LEMMA ExpiresKeeps ==
  ASSUME AdmissionInv, NEW n \in Ordinals, Expires(n)
  PROVE  ResidenceInv'
<1>0. /\ ResidenceTypeOK /\ LoopInv /\ ReadinessIsAttended /\ ClaimIsNotPassedOver
  BY DEF AdmissionInv, ResidenceInv
<1>1. /\ room' = [room EXCEPT ![n].late = TRUE]
      /\ UNCHANGED <<socketVars, wait, retained, serveVars, clientVars, flagVars>>
  BY DEF Expires
<1>2. /\ client' = client /\ queue' = queue /\ ordinal' = ordinal
      /\ serve' = serve /\ outcome' = outcome /\ begun' = begun /\ job' = job
      /\ got' = got /\ call' = call /\ stop' = stop /\ failed' = failed /\ alive' = alive
      /\ detector' = detector /\ retained' = retained /\ wait' = wait
  BY <1>1 DEF serveVars, clientVars, socketVars, flagVars
<1>3. /\ room' \in [Ordinals -> RoomType]
      /\ \A m \in Ordinals : /\ room'[m].by = room[m].by
                             /\ room'[m].observed = room[m].observed
                             /\ room'[m].marker = room[m].marker
  BY <1>0, <1>1 DEF ResidenceTypeOK, RoomType
<1>4. TicketInv' /\ ClientInv' /\ RequestInv'
  BY <1>2, <1>3, TicketsKept DEF TicketsStay, CallsStay
<1>5. ResidenceTypeOK'
  BY <1>0, <1>2, <1>3 DEF ResidenceTypeOK
<1>6. LoopInv'
  BY <1>0, <1>2, <1>3 DEF LoopInv, HasCommand, Serving
<1>7. ReadinessIsAttended' /\ ClaimIsNotPassedOver'
  BY <1>0, <1>2, <1>3 DEF ReadinessIsAttended, ClaimIsNotPassedOver
<1> QED BY <1>4, <1>5, <1>6, <1>7 DEF ResidenceInv
\* The loop offers its readiness for the ordinal it is at.
LEMMA StartWaitKeeps ==
  ASSUME AdmissionInv, StartWait
  PROVE  ResidenceInv'
<1>0. /\ ResidenceTypeOK /\ LoopInv /\ ReadinessIsAttended /\ ClaimIsNotPassedOver
  BY DEF AdmissionInv, ResidenceInv
<1>1. /\ serve = "idle" /\ serve' = "waiting" /\ wait = "none" /\ ordinal <= MaxOrdinal
      /\ wait' \in {"failed", "watching"} /\ detector' = "armed"
      /\ UNCHANGED <<socketVars, ordinal, outcome, begun, job, clientVars, stop,
                     failed, alive>>
  BY DEF StartWait, Armed
<1>2. /\ client' = client /\ queue' = queue /\ got' = got /\ call' = call
      /\ ordinal' = ordinal /\ outcome' = outcome /\ begun' = begun /\ job' = job
      /\ stop' = stop /\ failed' = failed /\ alive' = alive
  BY <1>1 DEF clientVars, socketVars
<1>3. ordinal \in Ordinals
  BY <1>0, <1>1, AdmissionAssumption DEF ResidenceTypeOK, Ordinals
<1>4. retained' \in BOOLEAN
  BY <1>0 DEF StartWait, ResidenceTypeOK
<1>5. /\ room' \in [Ordinals -> RoomType]
      /\ \A n \in Ordinals : /\ room'[n].by = room[n].by
                             /\ room'[n].observed = room[n].observed
                             /\ room'[n].marker = "claimed" <=> room[n].marker = "claimed"
      /\ \A n \in Ordinals : room'[n].marker = "waiting" =>
           room[n].marker = "waiting" \/ (n = ordinal /\ wait' = "watching")
  <2>1. CASE room' = room
    BY <1>0, <2>1 DEF ResidenceTypeOK
  <2>2. CASE /\ room[ordinal].marker = "none" /\ wait' = "watching"
             /\ room' = [room EXCEPT ![ordinal].marker = "waiting"]
    BY <1>0, <1>3, <2>2 DEF ResidenceTypeOK, RoomType, Markers
  <2> QED BY <2>1, <2>2 DEF StartWait
<1>6. TicketInv' /\ ClientInv' /\ RequestInv'
  BY <1>1, <1>2, <1>5, TicketsKept DEF TicketsStay, CallsStay
<1>7. ResidenceTypeOK'
  BY <1>0, <1>1, <1>2, <1>4, <1>5 DEF ResidenceTypeOK, ServePCs, WaitStates
<1>8. LoopInv'
  BY <1>0, <1>1, <1>2, <1>3 DEF LoopInv, HasCommand, Serving
<1>9. ReadinessIsAttended' /\ ClaimIsNotPassedOver'
  BY <1>0, <1>1, <1>2, <1>5 DEF ReadinessIsAttended, ClaimIsNotPassedOver
<1> QED BY <1>6, <1>7, <1>8, <1>9 DEF ResidenceInv

\* The loop moves and nothing is observed, begun or received: what it must not do
\* then is pass over a claim or call the residence stopped.
LEMMA LoopMoveKeeps ==
  ASSUME AdmissionInv, CallsStay, ReceivesStay,
         UNCHANGED <<room, client, queue, ordinal, begun, job>>,
         {stop', failed', alive', retained'} \subseteq BOOLEAN,
         detector' \in {"off", "armed", "expired"},
         serve' \in {"idle", "draining", "chosen", "receiving", "ending", "joining", "closed"},
         outcome' \in {"none", "stopped", "failed"},
         \/ wait' = "none" /\ wait # "watching" /\ wait # "aborting"
         \/ /\ wait' = wait \/ (wait = "watching" /\ wait' = "aborting")
            /\ wait = "none" \/ serve' \in {"ending", "joining", "closed"},
         serve' \in {"idle", "draining"} =>
           serve \in {"idle", "draining"} \/ room[ordinal].marker = "none",
         serve' = "chosen" => wait = "chosen",
         serve' = "receiving" => serve = "observed" /\ got'[ordinal].st # "unopened",
         outcome' = "stopped" =>
           /\ serve' \in {"ending", "joining", "closed"}
           /\ outcome = "stopped" \/ serve = "draining"
  PROVE  ResidenceInv'
<1>0. /\ ResidenceTypeOK /\ LoopInv /\ TicketInv /\ ReadinessIsAttended /\ ClaimIsNotPassedOver
  BY DEF AdmissionInv, ResidenceInv
<1>1. /\ room' = room /\ client' = client /\ queue' = queue /\ ordinal' = ordinal
      /\ begun' = begun /\ job' = job
  OBVIOUS
<1>2. HasCommand' => HasCommand
  BY <1>0 DEF HasCommand, Serving, LoopInv
<1>3. TicketInv' /\ ClientInv' /\ RequestInv'
  BY <1>1, TicketsKept DEF TicketsStay
<1>4. ResidenceTypeOK'
  BY <1>0, <1>1 DEF ResidenceTypeOK, WaitStates, ServePCs
<1>5. LoopInv'
  BY <1>0, <1>1, <1>2 DEF LoopInv, HasCommand, Serving, ReceivesStay
<1>6. ReadinessIsAttended'
  BY <1>0, <1>1 DEF ReadinessIsAttended, LoopInv
<1>7. ClaimIsNotPassedOver'
  BY <1>0, <1>1 DEF ClaimIsNotPassedOver, LoopInv
<1> QED BY <1>3, <1>4, <1>5, <1>6, <1>7 DEF ResidenceInv
\* The loop takes what the native wait returned.
LEMMA TakeWaitKeeps ==
  ASSUME AdmissionInv, TakeWait
  PROVE  ResidenceInv'
<1>0. ResidenceTypeOK /\ LoopInv
  BY DEF AdmissionInv, ResidenceInv
<1>1. /\ serve = "waiting" /\ wait' = "none"
      /\ wait \in {"pending", "stopped", "chosen", "failed"}
      /\ UNCHANGED <<socketVars, room, retained, ordinal, begun, job, clientVars, flagVars>>
  BY DEF TakeWait
<1>2. \/ serve' = "ending" /\ outcome' = "failed"
      \/ /\ outcome' = outcome /\ wait # "failed"
         /\ serve' = CASE wait = "pending" -> "idle"
                       [] wait = "stopped" -> "draining"
                       [] wait = "chosen"  -> "chosen"
  BY DEF TakeWait, Fails
<1>3. /\ CallsStay /\ ReceivesStay
      /\ UNCHANGED <<room, client, queue, ordinal, begun, job>>
      /\ detector' \in {"off", "armed", "expired"}
  BY <1>0, <1>1 DEF CallsStay, ReceivesStay, socketVars, clientVars, flagVars, ResidenceTypeOK
<1>4. {stop', failed', alive', retained'} \subseteq BOOLEAN
  BY <1>0, <1>1 DEF flagVars, ResidenceTypeOK
<1>5. /\ serve' \in {"idle", "draining", "chosen", "ending"}
      /\ serve' \in {"idle", "draining"} => wait \in {"pending", "stopped"}
      /\ serve' = "chosen" => wait = "chosen"
  BY <1>1, <1>2
<1>6. outcome # "stopped" /\ outcome' \in {"none", "failed"}
  BY <1>0, <1>1, <1>2 DEF LoopInv, ResidenceTypeOK
<1> QED BY <1>0, <1>1, <1>3, <1>4, <1>5, <1>6, LoopMoveKeeps DEF LoopInv

\* One receive is opened, or refused for a stop, a deadline or the detector.
LEMMA OpenReceiveKeeps ==
  ASSUME AdmissionInv, OpenReceive
  PROVE  ResidenceInv'
<1>0. Session!SocketInv /\ ResidenceTypeOK /\ LoopInv
  BY DEF AdmissionInv, ResidenceInv
<1>1. /\ serve = "observed"
      /\ UNCHANGED <<waitVars, ordinal, begun, job, clientVars, flagVars>>
  BY DEF OpenReceive
<1>2. /\ UNCHANGED <<room, client, queue, ordinal, begun, job>> /\ wait' = wait
      /\ detector' \in {"off", "armed", "expired"}
  BY <1>0, <1>1 DEF waitVars, clientVars, flagVars, ResidenceTypeOK
<1>3. {stop', failed', alive', retained'} \subseteq BOOLEAN
  BY <1>0, <1>1 DEF flagVars, waitVars, ResidenceTypeOK
<1>4. wait = "none" /\ outcome # "stopped" /\ ordinal \in Ordinals /\ outcome \in {"none", "failed"}
  BY <1>0, <1>1 DEF LoopInv, ResidenceTypeOK, Serving
<1>5. CASE Fails /\ UNCHANGED socketVars
  <2>1. CallsStay /\ ReceivesStay
    BY <1>5 DEF socketVars, CallsStay, ReceivesStay
  <2>2. serve' = "ending" /\ outcome' = "failed"
    BY <1>5 DEF Fails
  <2> QED BY <1>2, <1>3, <1>4, <2>1, <2>2, LoopMoveKeeps
<1>6. CASE Socket!Receive(ordinal) /\ serve' = "receiving" /\ UNCHANGED outcome
  <2>1. CallsStay /\ ReceivesStay /\ got'[ordinal].st # "unopened"
    BY <1>0, <1>4, <1>6, ReceiveStays
  <2>2. serve' = "receiving" /\ outcome' = outcome
    BY <1>6
  <2> QED BY <1>1, <1>2, <1>3, <1>4, <2>1, <2>2, LoopMoveKeeps
<1> QED BY <1>5, <1>6 DEF OpenReceive

\* The loop halts, joins its jobs, or is refused a call.
LEMMA HaltsKeep ==
  ASSUME AdmissionInv, Halt \/ Drain \/ Refused
  PROVE  ResidenceInv'
<1>0. ResidenceTypeOK /\ LoopInv
  BY DEF AdmissionInv, ResidenceInv
<1>1. UNCHANGED <<socketVars, waitVars, ordinal, begun, job, clientVars, flagVars>>
  BY DEF Halt, Drain, Refused
<1>2. /\ UNCHANGED <<room, client, queue, ordinal, begun, job>> /\ wait' = wait
      /\ detector' \in {"off", "armed", "expired"} /\ CallsStay /\ ReceivesStay
  BY <1>0, <1>1 DEF waitVars, clientVars, flagVars, socketVars, ResidenceTypeOK,
     CallsStay, ReceivesStay
<1>3. {stop', failed', alive', retained'} \subseteq BOOLEAN
  BY <1>0, <1>1 DEF flagVars, waitVars, ResidenceTypeOK
<1>4. serve \in {"idle", "draining", "waiting", "receiving"}
  BY DEF Halt, Drain, Refused
<1>5. outcome # "stopped" /\ outcome \in {"none", "failed"}
  BY <1>0, <1>4 DEF LoopInv, ResidenceTypeOK
<1>6. \/ serve' = "ending" /\ outcome' = "failed"
      \/ serve' = "ending" /\ outcome' = "stopped" /\ serve = "draining"
      \/ serve' = "draining" /\ outcome' = outcome /\ serve = "idle"
  BY DEF Halt, Drain, Refused, Fails
<1>7. serve \in {"idle", "draining"} => wait = "none"
  BY <1>0 DEF LoopInv
<1> QED BY <1>2, <1>3, <1>5, <1>6, <1>7, LoopMoveKeeps

\* The evaluation withdraws its admission and closes.
LEMMA ClosingKeeps ==
  ASSUME AdmissionInv, StopAdmission \/ CloseServe
  PROVE  ResidenceInv'
<1>0. Session!SocketInv /\ ResidenceTypeOK /\ LoopInv
  BY DEF AdmissionInv, ResidenceInv
<1>1. /\ UNCHANGED <<room, retained, ordinal, outcome, begun, job, clientVars, stop, alive>>
      /\ serve \in {"ending", "joining"} /\ serve' \in {"joining", "closed"}
  BY DEF StopAdmission, CloseServe, waitVars
<1>2. CallsStay /\ ReceivesStay
  <2>1. CASE \E why : Socket!Close(why)
    BY <1>0, <2>1, ClosesStay
  <2>2. CASE UNCHANGED socketVars
    BY <2>2 DEF socketVars, CallsStay, ReceivesStay
  <2> QED BY <2>1, <2>2 DEF StopAdmission, CloseServe
<1>3. wait' = wait \/ (wait = "watching" /\ wait' = "aborting")
  BY DEF StopAdmission, CloseServe, Aborted, waitVars
<1>4. detector' \in {"off", "armed", "expired"}
  BY <1>0 DEF StopAdmission, CloseServe, ResidenceTypeOK
<1>5. {stop', failed', alive', retained'} \subseteq BOOLEAN
  <2>1. failed' \in BOOLEAN
    BY <1>0 DEF StopAdmission, CloseServe, ResidenceTypeOK
  <2> QED BY <1>0, <1>1, <2>1 DEF ResidenceTypeOK
<1>6. UNCHANGED <<room, client, queue, ordinal, begun, job>> /\ outcome' = outcome
      /\ outcome \in {"none", "stopped", "failed"}
  BY <1>0, <1>1 DEF clientVars, ResidenceTypeOK
<1> QED BY <1>1, <1>2, <1>3, <1>4, <1>5, <1>6, LoopMoveKeeps
----------------------------------------------------------------------------
(* Steps that admit, serve and end a request                                 *)

\* The ticket of a claimed marker is a client's, and so is the command's request.
LEMMA WantedByClient ==
  ASSUME AdmissionInv, NEW n \in Ordinals, room[n].marker = "claimed"
  PROVE  /\ room[n].by \in Clients /\ client[room[n].by].pc # "start"
         /\ client[room[n].by].n = n
         /\ Wanted(n) \in Requests
<1>1. room[n].by \in Clients \cup {None} /\ room[n].by # None
  BY DEF AdmissionInv, ResidenceInv, ResidenceTypeOK, RoomType, TicketInv
<1> QED BY <1>1 DEF AdmissionInv, ResidenceInv, TicketInv, Wanted

\* A slot is reserved for the chosen request, or the loop fails.
LEMMA BeginKeeps ==
  ASSUME AdmissionInv, Begin
  PROVE  ResidenceInv'
<1>0. /\ ResidenceTypeOK /\ LoopInv /\ TicketInv /\ ClientInv /\ RequestInv
      /\ ReadinessIsAttended /\ ClaimIsNotPassedOver
  BY DEF AdmissionInv, ResidenceInv
<1>1. serve = "chosen" /\ UNCHANGED <<socketVars, waitVars, ordinal, job, clientVars, flagVars>>
  BY DEF Begin
<1>2. /\ room' = room /\ wait' = wait /\ client' = client /\ queue' = queue
      /\ ordinal' = ordinal /\ job' = job /\ got' = got /\ call' = call
      /\ stop' = stop /\ failed' = failed /\ alive' = alive /\ retained' = retained
      /\ detector' = detector
  BY <1>1 DEF waitVars, clientVars, flagVars, socketVars
<1>3. /\ ordinal \in Ordinals /\ room[ordinal].marker = "claimed"
      /\ wait = "none" /\ outcome # "stopped" /\ outcome \in {"none", "failed"}
  BY <1>0, <1>1 DEF LoopInv, HasCommand, Serving, ResidenceTypeOK
<1>4. {stop', failed', alive', retained'} \subseteq BOOLEAN
  BY <1>0, <1>2 DEF ResidenceTypeOK
<1>5. CASE Fails /\ UNCHANGED begun
  <2>1. serve' = "ending" /\ outcome' = "failed" /\ begun' = begun
    BY <1>5 DEF Fails
  <2>2. CallsStay /\ ReceivesStay /\ detector' \in {"off", "armed", "expired"}
    BY <1>0, <1>2 DEF CallsStay, ReceivesStay, ResidenceTypeOK
  <2> QED BY <1>2, <1>3, <1>4, <2>1, <2>2, LoopMoveKeeps
<1>6. CASE /\ Wanted(ordinal) \notin begun /\ begun' = Reserved(Wanted(ordinal))
           /\ serve' = "begun" /\ UNCHANGED outcome
  <2>1. Wanted(ordinal) \in Requests
    BY <1>3, WantedByClient
  <2>2. begun' = begun \cup {Wanted(ordinal)}
    BY <1>6 DEF Reserved
  <2>3. job[Wanted(ordinal)] # "running"
    BY <1>0, <1>6, <2>1 DEF RequestInv
  <2>4. ResidenceTypeOK'
    BY <1>0, <1>2, <1>6, <2>1, <2>2 DEF ResidenceTypeOK, ServePCs
  <2>5. LoopInv'
    BY <1>0, <1>1, <1>2, <1>3, <1>6 DEF LoopInv, HasCommand, Serving
  <2>6. TicketInv' /\ ClientInv'
    BY <1>0, <1>2 DEF TicketInv, ClientInv
  <2>7. \A n \in Ordinals : Wanted(n)' = Wanted(n)
    BY <1>2 DEF Wanted
  <2>8. RequestInv'
    <3>2. /\ \A n \in Ordinals : room'[n].observed /\ n # ordinal' => Wanted(n)' \in queue'
          /\ \A m, n \in Ordinals : room'[m].observed /\ room'[n].marker = "claimed" /\ m # n =>
               Wanted(m)' # Wanted(n)'
      BY <1>0, <1>2, <1>3, <2>7 DEF RequestInv
    <3>3. \A c \in Clients :
            /\ client'[c].pc \in {"claiming", "awaiting", "granted", "submitted"}
            /\ room'[client'[c].n].observed
            => client'[c].req \in begun'
      BY <1>0, <1>2, <2>2 DEF RequestInv
    <3>4. /\ \A r \in Requests : job'[r] = "running" => r \in begun'
          /\ Wanted(ordinal)' \in begun' /\ job'[Wanted(ordinal)'] # "running"
      BY <1>0, <1>2, <1>3, <2>2, <2>3, <2>7 DEF RequestInv
    <3> QED BY <3>2, <3>3, <3>4 DEF RequestInv
  <2>9. ReadinessIsAttended' /\ ClaimIsNotPassedOver'
    BY <1>0, <1>2, <1>3, <1>6 DEF ReadinessIsAttended, ClaimIsNotPassedOver
  <2> QED BY <2>4, <2>5, <2>6, <2>8, <2>9 DEF ResidenceInv
<1> QED BY <1>5, <1>6 DEF Begin

\* The command is observed, or comes too late.
LEMMA ObserveCommandKeeps ==
  ASSUME AdmissionInv, ObserveCommand
  PROVE  ResidenceInv'
<1>0. /\ ResidenceTypeOK /\ LoopInv /\ TicketInv /\ ClientInv /\ RequestInv
      /\ ReadinessIsAttended /\ ClaimIsNotPassedOver
  BY DEF AdmissionInv, ResidenceInv
<1>1. /\ serve = "begun"
      /\ UNCHANGED <<socketVars, wait, retained, ordinal, begun, job, clientVars,
                     stop, failed, alive>>
  BY DEF ObserveCommand
<1>2. /\ wait' = wait /\ client' = client /\ queue' = queue /\ begun' = begun
      /\ ordinal' = ordinal /\ job' = job /\ got' = got /\ call' = call
      /\ stop' = stop /\ failed' = failed /\ alive' = alive /\ retained' = retained
  BY <1>1 DEF clientVars, socketVars
<1>3. /\ ordinal \in Ordinals /\ room[ordinal].marker = "claimed"
      /\ wait = "none" /\ outcome # "stopped" /\ outcome \in {"none", "failed"}
  BY <1>0, <1>1 DEF LoopInv, HasCommand, Serving, ResidenceTypeOK
<1>4. {stop', failed', alive', retained'} \subseteq BOOLEAN
  BY <1>0, <1>2 DEF ResidenceTypeOK
<1>5. CASE Fails /\ UNCHANGED <<room, detector>>
  <2>1. /\ serve' = "ending" /\ outcome' = "failed" /\ room' = room
        /\ detector' \in {"off", "armed", "expired"}
    BY <1>0, <1>5 DEF Fails, ResidenceTypeOK
  <2>2. CallsStay /\ ReceivesStay
    BY <1>2 DEF CallsStay, ReceivesStay
  <2> QED BY <1>2, <1>3, <1>4, <2>1, <2>2, LoopMoveKeeps
<1>6. CASE /\ room' = [room EXCEPT ![ordinal].observed = TRUE]
           /\ serve' = "observed" /\ detector' = "armed" /\ UNCHANGED outcome
  <2>1. /\ room' \in [Ordinals -> RoomType] /\ room'[ordinal].observed
        /\ \A n \in Ordinals : room'[n].by = room[n].by /\ room'[n].marker = room[n].marker
        /\ \A n \in Ordinals : n # ordinal => room'[n].observed = room[n].observed
    BY <1>0, <1>3, <1>6 DEF ResidenceTypeOK, RoomType
  <2>2. ResidenceTypeOK'
    BY <1>0, <1>2, <1>6, <2>1 DEF ResidenceTypeOK, ServePCs
  <2>3. LoopInv'
    BY <1>0, <1>1, <1>2, <1>3, <1>6, <2>1 DEF LoopInv, HasCommand, Serving
  <2>4. TicketInv'
    BY <1>0, <1>2, <1>3, <2>1 DEF TicketInv
  <2>5. \A n \in Ordinals : room[n].observed => room'[n].observed
    BY <2>1
  <2>6. ClientInv'
    BY <1>0, <1>2, <2>5 DEF ClientInv, TicketInv
  <2>7. \A n \in Ordinals : Wanted(n)' = Wanted(n)
    BY <1>2, <2>1 DEF Wanted
  <2>8. RequestInv'
    <3>1. HasCommand
      BY <1>1 DEF HasCommand, Serving
    <3>2. /\ \A n \in Ordinals : room'[n].observed /\ n # ordinal' => Wanted(n)' \in queue'
      BY <1>0, <1>2, <1>3, <2>1, <2>7 DEF RequestInv
    <3>3. ASSUME NEW m \in Ordinals, NEW n \in Ordinals,
                 room'[m].observed, room'[n].marker = "claimed", m # n
          PROVE  Wanted(m)' # Wanted(n)'
      <4>1. room[n].marker = "claimed" /\ room[ordinal].marker = "claimed"
        BY <1>0, <1>3, <2>1, <3>1, <3>3 DEF LoopInv
      <4>2. CASE m = ordinal
        <5>1. room[n].observed
          BY <1>0, <3>3, <4>1, <4>2 DEF ClaimIsNotPassedOver
        <5> QED BY <1>0, <1>3, <2>7, <3>3, <4>1, <4>2, <5>1 DEF RequestInv
      <4>3. CASE m # ordinal
        <5>1. room[m].observed
          BY <2>1, <3>3, <4>3
        <5> QED BY <1>0, <2>7, <3>3, <4>1, <5>1 DEF RequestInv
      <4> QED BY <4>2, <4>3
    <3>4. ASSUME NEW c \in Clients,
                 client'[c].pc \in {"claiming", "awaiting", "granted", "submitted"},
                 room'[client'[c].n].observed
          PROVE  client'[c].req \in begun'
      <4>1. client[c].n \in Ordinals /\ room[client[c].n].by = c
        BY <1>0, <1>2, <3>4 DEF TicketInv
      <4>2. CASE client[c].n = ordinal
        <5>1. client[c].req = Wanted(ordinal)
          BY <4>1, <4>2 DEF Wanted
        <5> QED BY <1>0, <1>1, <1>2, <5>1 DEF RequestInv
      <4>3. CASE client[c].n # ordinal
        BY <1>0, <1>2, <2>1, <3>4, <4>1, <4>3 DEF RequestInv
      <4> QED BY <4>2, <4>3
    <3>5. /\ \A r \in Requests : job'[r] = "running" => r \in begun'
          /\ Wanted(ordinal)' \in begun' /\ job'[Wanted(ordinal)'] # "running"
      BY <1>0, <1>1, <1>2, <1>3, <2>7 DEF RequestInv
    <3> QED BY <3>2, <3>3, <3>4, <3>5 DEF RequestInv
  <2>9. ReadinessIsAttended' /\ ClaimIsNotPassedOver'
    BY <1>0, <1>2, <1>3, <1>6, <2>1 DEF ReadinessIsAttended, ClaimIsNotPassedOver
  <2> QED BY <2>2, <2>3, <2>4, <2>6, <2>8, <2>9 DEF ResidenceInv
<1> QED BY <1>5, <1>6 DEF ObserveCommand
\* The request of a wake in use is in the queue.
LEMMA WokenIsQueued ==
  ASSUME AdmissionInv, NEW w \in Wakes, call[w].st \notin NotInUse
  PROVE  call[w].req \in queue
<1>1. PICK c \in Clients, op \in {"run", "observe"} : w = <<c, op>>
  BY DEF Wakes
<1> QED BY <1>1 DEF AdmissionInv, ResidenceInv, ClientInv

\* The receive returned: the admitted request runs, or the loop fails.
LEMMA TakeDeliveryKeeps ==
  ASSUME AdmissionInv, TakeDelivery
  PROVE  ResidenceInv'
<1>0. /\ Session!SocketInv
      /\ ResidenceTypeOK /\ LoopInv /\ TicketInv /\ ClientInv /\ RequestInv
      /\ ReadinessIsAttended /\ ClaimIsNotPassedOver
  BY DEF AdmissionInv, ResidenceInv
<1>1. /\ serve = "receiving" /\ got[ordinal].st # "open"
      /\ UNCHANGED <<socketVars, waitVars, begun, clientVars, stop, failed, alive>>
  BY DEF TakeDelivery, Receiving
<1>2. /\ room' = room /\ wait' = wait /\ client' = client /\ queue' = queue
      /\ begun' = begun /\ got' = got /\ call' = call
      /\ stop' = stop /\ failed' = failed /\ alive' = alive /\ retained' = retained
  BY <1>1 DEF waitVars, clientVars, socketVars
<1>3. /\ ordinal \in Ordinals /\ room[ordinal].marker = "claimed" /\ room[ordinal].observed
      /\ wait = "none" /\ outcome # "stopped" /\ outcome \in {"none", "failed"}
      /\ got[ordinal].st # "unopened"
  BY <1>0, <1>1 DEF LoopInv, HasCommand, Serving, ResidenceTypeOK
<1>4. {stop', failed', alive', retained'} \subseteq BOOLEAN
  BY <1>0, <1>2 DEF ResidenceTypeOK
<1>5. detector' \in {"off", "armed", "expired"}
  BY <1>0 DEF TakeDelivery, ResidenceTypeOK
<1>6. CASE Fails /\ UNCHANGED <<ordinal, job>>
  <2>1. /\ serve' = "ending" /\ outcome' = "failed" /\ ordinal' = ordinal /\ job' = job
    BY <1>6 DEF Fails
  <2>2. CallsStay /\ ReceivesStay
    BY <1>2 DEF CallsStay, ReceivesStay
  <2> QED BY <1>2, <1>3, <1>4, <1>5, <2>1, <2>2, LoopMoveKeeps
<1>7. CASE /\ got[ordinal].st # "null" /\ call[got[ordinal].call].req = Wanted(ordinal)
           /\ job' = [job EXCEPT ![Wanted(ordinal)] = "running"]
           /\ ordinal' = ordinal + 1 /\ serve' = "idle" /\ UNCHANGED outcome
  <2>1. Wanted(ordinal) \in queue
    <3>1. got[ordinal].st = "call"
      BY <1>0, <1>1, <1>3, <1>7, SessionFacts DEF Session!ReceiveType
    <3>2. got[ordinal].call \in Wakes /\ call[got[ordinal].call].st \notin NotInUse
      BY <1>0, <1>3, <3>1, SessionFacts
    <3> QED BY <1>7, <3>2, WokenIsQueued
  <2>2. Wanted(ordinal) \in Requests
    BY <1>3, WantedByClient
  <2>3. /\ job' \in [Requests -> JobStates] /\ job'[Wanted(ordinal)] = "running"
        /\ \A r \in Requests : r # Wanted(ordinal) => job'[r] = job[r]
    BY <1>0, <1>7, <2>2 DEF ResidenceTypeOK, JobStates
  <2>4. ordinal' \in 1..(MaxOrdinal + 1) /\ ordinal' # ordinal
    BY <1>3, <1>7, AdmissionAssumption DEF Ordinals
  <2>5. ResidenceTypeOK'
    BY <1>0, <1>2, <1>5, <1>7, <2>3, <2>4 DEF ResidenceTypeOK, ServePCs
  <2>6. LoopInv'
    BY <1>0, <1>2, <1>3, <1>7 DEF LoopInv, HasCommand, Serving
  <2>7. TicketInv' /\ ClientInv'
    BY <1>0, <1>2 DEF TicketInv, ClientInv
  <2>8. \A n \in Ordinals : Wanted(n)' = Wanted(n)
    BY <1>2 DEF Wanted
  <2>9. RequestInv'
    <3>2. \A n \in Ordinals : room'[n].observed /\ n # ordinal' => Wanted(n)' \in queue'
      BY <1>0, <1>2, <2>1, <2>8 DEF RequestInv
    <3>3. \A m, n \in Ordinals : room'[m].observed /\ room'[n].marker = "claimed" /\ m # n =>
            Wanted(m)' # Wanted(n)'
      BY <1>0, <1>2, <2>8 DEF RequestInv
    <3>4. \A c \in Clients :
            /\ client'[c].pc \in {"claiming", "awaiting", "granted", "submitted"}
            /\ room'[client'[c].n].observed
            => client'[c].req \in begun'
      BY <1>0, <1>2 DEF RequestInv
    <3>5. \A r \in Requests : job'[r] = "running" => r \in begun'
      BY <1>0, <1>1, <1>2, <2>3 DEF RequestInv
    <3>6. serve' \notin {"begun", "observed", "receiving"}
      BY <1>7
    <3> QED BY <3>2, <3>3, <3>4, <3>5, <3>6 DEF RequestInv
  <2>10. ReadinessIsAttended'
    BY <1>0, <1>2, <1>3 DEF ReadinessIsAttended
  <2>11. ClaimIsNotPassedOver'
    BY <1>0, <1>2, <1>3 DEF ClaimIsNotPassedOver
  <2> QED BY <2>5, <2>6, <2>7, <2>9, <2>10, <2>11 DEF ResidenceInv
<1> QED BY <1>6, <1>7 DEF TakeDelivery

\* A job ends: nobody who may still submit has its request, so its slot can go.
LEMMA EndJobKeeps ==
  ASSUME AdmissionInv, NEW r \in Requests, EndJob(r)
  PROVE  ResidenceInv'
<1>0. /\ Session!SocketInv
      /\ ResidenceTypeOK /\ LoopInv /\ TicketInv /\ ClientInv /\ RequestInv
      /\ ReadinessIsAttended /\ ClaimIsNotPassedOver
  BY DEF AdmissionInv, ResidenceInv
<1>1. /\ job[r] = "running"
      /\ UNCHANGED <<socketVars, waitVars, ordinal, serve, outcome, clientVars, flagVars>>
  BY DEF EndJob
<1>2. PICK d \in Clients :
        /\ call[<<d, "run">>].req = r /\ call[<<d, "run">>].st = "finished"
        /\ \E state \in {"done", "held", "broken"} : JobBecomes(r, state)
        /\ begun' = begun \/ begun' = begun \ {r}
  BY DEF EndJob
<1>3. /\ room' = room /\ wait' = wait /\ client' = client /\ queue' = queue
      /\ ordinal' = ordinal /\ serve' = serve /\ outcome' = outcome
      /\ got' = got /\ call' = call /\ detector' = detector
      /\ stop' = stop /\ failed' = failed /\ alive' = alive /\ retained' = retained
  BY <1>1 DEF waitVars, clientVars, socketVars, flagVars
<1>6. /\ job' \in [Requests -> JobStates] /\ job'[r] # "running"
      /\ \A q \in Requests : q # r => job'[q] = job[q]
  BY <1>0, <1>2 DEF ResidenceTypeOK, JobStates, JobBecomes
<1>7. begun' \subseteq begun /\ \A q \in begun : q # r => q \in begun'
  BY <1>2
<1>8. ResidenceTypeOK'
  BY <1>0, <1>3, <1>6, <1>7 DEF ResidenceTypeOK
<1>9. LoopInv' /\ TicketInv' /\ ClientInv'
  BY <1>0, <1>3 DEF LoopInv, HasCommand, Serving, TicketInv, ClientInv
<1>10. ReadinessIsAttended' /\ ClaimIsNotPassedOver'
  BY <1>0, <1>3 DEF ReadinessIsAttended, ClaimIsNotPassedOver
<1>11. \A n \in Ordinals : Wanted(n)' = Wanted(n)
  BY <1>3 DEF Wanted
<1>12. RequestInv'
  <2>1. serve \in {"begun", "observed", "receiving"} =>
          ordinal \in Ordinals /\ Wanted(ordinal) # r /\ Wanted(ordinal) \in Requests
    <3>1. serve \in {"begun", "observed", "receiving"} =>
            ordinal \in Ordinals /\ room[ordinal].marker = "claimed"
      BY <1>0 DEF LoopInv, HasCommand, Serving
    <3> QED BY <1>0, <1>1, <3>1, WantedByClient DEF RequestInv
  <2>3. /\ \A n \in Ordinals : room'[n].observed /\ n # ordinal' => Wanted(n)' \in queue'
        /\ \A m, n \in Ordinals : room'[m].observed /\ room'[n].marker = "claimed" /\ m # n =>
             Wanted(m)' # Wanted(n)'
    BY <1>0, <1>3, <1>11 DEF RequestInv
  <2>4. ASSUME NEW c \in Clients,
               client[c].pc \in {"claiming", "awaiting", "granted", "submitted"},
               room[client[c].n].observed
        PROVE  client[c].req # r
    <3>1. /\ client[d].pc \in {"waking", "held", "over"} /\ room[client[d].n].observed
          /\ client[d].req = r
      BY <1>0, <1>2 DEF ClientInv, NotInUse
    <3>2. /\ client[c].n \in Ordinals /\ room[client[c].n].by = c
          /\ client[d].n \in Ordinals /\ room[client[d].n].by = d
      BY <1>0, <2>4, <3>1 DEF TicketInv
    <3>3. Wanted(client[c].n) = client[c].req /\ Wanted(client[d].n) = r /\ c # d
      BY <2>4, <3>1, <3>2 DEF Wanted
    <3>4. room[client[c].n].marker = "claimed" /\ client[c].n # client[d].n
      BY <1>0, <2>4, <3>2, <3>3 DEF TicketInv
    <3> QED BY <1>0, <3>1, <3>2, <3>3, <3>4 DEF RequestInv
  <2>5. \A c \in Clients :
          /\ client'[c].pc \in {"claiming", "awaiting", "granted", "submitted"}
          /\ room'[client'[c].n].observed
          => client'[c].req \in begun'
    BY <1>0, <1>3, <1>7, <2>4 DEF RequestInv
  <2>6. \A q \in Requests : job'[q] = "running" => q \in begun'
    BY <1>0, <1>6, <1>7 DEF RequestInv
  <2>7. serve' \in {"begun", "observed", "receiving"} =>
          Wanted(ordinal)' \in begun' /\ job'[Wanted(ordinal)'] # "running"
    BY <1>0, <1>3, <1>6, <1>7, <1>11, <2>1 DEF RequestInv
  <2> QED BY <2>3, <2>5, <2>6, <2>7 DEF RequestInv
<1> QED BY <1>8, <1>9, <1>10, <1>12 DEF ResidenceInv

\* A job whose finish was lost rejects, and its slot stays reserved.
LEMMA LoseFinishKeeps ==
  ASSUME AdmissionInv, NEW r \in Requests, LoseFinish(r)
  PROVE  ResidenceInv'
<1>0. /\ ResidenceTypeOK /\ LoopInv /\ TicketInv /\ ClientInv /\ RequestInv
      /\ ReadinessIsAttended /\ ClaimIsNotPassedOver
  BY DEF AdmissionInv, ResidenceInv
<1>1. /\ job' = [job EXCEPT ![r] = "broken"]
      /\ UNCHANGED <<socketVars, waitVars, ordinal, serve, outcome, begun, clientVars, flagVars>>
  BY DEF LoseFinish, JobBecomes
<1>2. /\ room' = room /\ wait' = wait /\ client' = client /\ queue' = queue
      /\ ordinal' = ordinal /\ serve' = serve /\ outcome' = outcome /\ begun' = begun
      /\ got' = got /\ call' = call /\ detector' = detector
      /\ stop' = stop /\ failed' = failed /\ alive' = alive /\ retained' = retained
  BY <1>1 DEF waitVars, clientVars, socketVars, flagVars
<1>3. /\ job' \in [Requests -> JobStates]
      /\ \A q \in Requests : job'[q] = "running" => job[q] = "running"
  BY <1>0, <1>1 DEF ResidenceTypeOK, JobStates
<1>4. ResidenceTypeOK'
  BY <1>0, <1>2, <1>3 DEF ResidenceTypeOK
<1>5. LoopInv' /\ TicketInv' /\ ClientInv'
  BY <1>0, <1>2 DEF LoopInv, HasCommand, Serving, TicketInv, ClientInv
<1>6. ReadinessIsAttended' /\ ClaimIsNotPassedOver'
  BY <1>0, <1>2 DEF ReadinessIsAttended, ClaimIsNotPassedOver
<1>7. \A n \in Ordinals : Wanted(n)' = Wanted(n)
  BY <1>2 DEF Wanted
<1>8. RequestInv'
  <2>1. serve \in {"begun", "observed", "receiving"} =>
          ordinal \in Ordinals /\ Wanted(ordinal) \in Requests
    BY <1>0, WantedByClient DEF LoopInv, HasCommand, Serving
  <2>2. /\ \A n \in Ordinals : room'[n].observed /\ n # ordinal' => Wanted(n)' \in queue'
        /\ \A m, n \in Ordinals : room'[m].observed /\ room'[n].marker = "claimed" /\ m # n =>
             Wanted(m)' # Wanted(n)'
    BY <1>0, <1>2, <1>7 DEF RequestInv
  <2>3. \A c \in Clients :
          /\ client'[c].pc \in {"claiming", "awaiting", "granted", "submitted"}
          /\ room'[client'[c].n].observed
          => client'[c].req \in begun'
    BY <1>0, <1>2 DEF RequestInv
  <2>4. /\ \A q \in Requests : job'[q] = "running" => q \in begun'
        /\ serve' \in {"begun", "observed", "receiving"} =>
             Wanted(ordinal)' \in begun' /\ job'[Wanted(ordinal)'] # "running"
    BY <1>0, <1>2, <1>3, <1>7, <2>1 DEF RequestInv
  <2> QED BY <2>2, <2>3, <2>4 DEF RequestInv
<1> QED BY <1>4, <1>5, <1>6, <1>8 DEF ResidenceInv

----------------------------------------------------------------------------
(* Steps of the clients                                                      *)

\* A client that has its ticket goes on.
LEMMA ClientMoveKeeps ==
  ASSUME AdmissionInv, NEW c \in Clients, NEW p \in ClientPCs \ {"start"},
         client[c].pc # "start", client' = [client EXCEPT ![c].pc = p],
         queue \subseteq queue', queue' \subseteq Requests,
         room' \in [Ordinals -> RoomType], TicketsStay,
         \A n \in Ordinals : room'[n].marker = room[n].marker,
         UNCHANGED <<wait, retained, serveVars, flagVars>>, ReceivesStay,
         p \in {"granted", "submitted", "waking", "held"} => room[client[c].n].observed,
         p \in {"submitted", "waking", "held"} => client[c].req \in queue',
         p \in {"claiming", "awaiting", "granted", "submitted"} =>
           client[c].pc \in {"claiming", "awaiting", "granted", "submitted"},
         \A d \in Clients, op \in {"run", "observe"} : call'[<<d, op>>].st \notin NotInUse =>
           /\ d # c => call[<<d, op>>].st \notin NotInUse
           /\ d = c => /\ p \in {"waking", "held", "over"} /\ room[client[c].n].observed
                       /\ client[c].req \in queue'
           /\ call'[<<d, op>>].req = client[d].req
  PROVE  ResidenceInv'
<1>0. /\ ResidenceTypeOK /\ LoopInv /\ TicketInv /\ ClientInv /\ RequestInv
      /\ ReadinessIsAttended /\ ClaimIsNotPassedOver
  BY DEF AdmissionInv, ResidenceInv
<1>1. /\ wait' = wait /\ retained' = retained /\ ordinal' = ordinal /\ serve' = serve
      /\ outcome' = outcome /\ begun' = begun /\ job' = job
      /\ stop' = stop /\ failed' = failed /\ alive' = alive /\ detector' = detector
  BY DEF serveVars, flagVars
<1>2. /\ client' \in [Clients -> [pc : ClientPCs, req : Requests \cup {None}, n : 0..MaxOrdinal]]
      /\ client'[c].pc = p
      /\ \A d \in Clients : /\ client'[d].req = client[d].req
                            /\ client'[d].n = client[d].n
                            /\ d # c => client'[d].pc = client[d].pc
  BY <1>0 DEF ResidenceTypeOK
<1>3. \A n \in Ordinals : /\ room'[n].by = room[n].by
                          /\ room'[n].observed = room[n].observed
                          /\ room'[n].marker = room[n].marker
  BY DEF TicketsStay
<1>4. \A d \in Clients : client'[d].pc # "start" => client[d].pc # "start"
  BY <1>2
<1>5. ResidenceTypeOK'
  BY <1>0, <1>1, <1>2 DEF ResidenceTypeOK
<1>6. LoopInv'
  BY <1>0, <1>1, <1>3 DEF LoopInv, HasCommand, Serving, ReceivesStay
<1>7. TicketInv'
  <2>1. \A d \in Clients : client'[d].pc # "start" =>
          /\ client'[d].n \in Ordinals /\ client'[d].req \in Requests
          /\ room'[client'[d].n].by = d
    BY <1>0, <1>2, <1>3, <1>4 DEF TicketInv
  <2>2. ASSUME NEW n \in Ordinals
        PROVE  /\ room'[n].by # None =>
                    client'[room'[n].by].pc # "start" /\ client'[room'[n].by].n = n
               /\ room'[n].by # None <=> room'[n].marker = "claimed"
               /\ room'[n].observed => room'[n].marker = "claimed"
    <3>1. room[n].by \in Clients \cup {None}
      BY <1>0 DEF ResidenceTypeOK, RoomType
    <3> QED BY <1>0, <1>2, <1>3, <3>1 DEF TicketInv
  <2> QED BY <2>1, <2>2 DEF TicketInv
<1>8. \A d \in Clients : client'[d].pc # "start" =>
        client[d].n \in Ordinals /\ (room'[client'[d].n].observed <=> room[client[d].n].observed)
  BY <1>0, <1>2, <1>3, <1>4 DEF TicketInv
<1>9. ClientInv'
  <2>1. ASSUME NEW d \in Clients
        PROVE  /\ client'[d].pc \in {"granted", "submitted", "waking", "held"} =>
                    room'[client'[d].n].observed
               /\ client'[d].pc \in {"submitted", "waking", "held"} => client'[d].req \in queue'
    BY <1>0, <1>2, <1>8 DEF ClientInv
  <2>2. ASSUME NEW d \in Clients, NEW op \in {"run", "observe"}, call'[<<d, op>>].st \notin NotInUse
        PROVE  /\ client'[d].pc \in {"waking", "held", "over"}
               /\ room'[client'[d].n].observed
               /\ call'[<<d, op>>].req = client'[d].req
               /\ client'[d].req \in queue'
    <3>1. CASE d = c
      BY <1>2, <1>8, <2>2, <3>1
    <3>2. CASE d # c
      <4>1. /\ client[d].pc \in {"waking", "held", "over"} /\ room[client[d].n].observed
            /\ client[d].req \in queue
        BY <1>0, <2>2, <3>2 DEF ClientInv
      <4> QED BY <1>2, <1>8, <2>2, <3>2, <4>1
    <3> QED BY <3>1, <3>2
  <2> QED BY <2>1, <2>2 DEF ClientInv
<1>10. \A n \in Ordinals : room[n].marker = "claimed" => Wanted(n)' = Wanted(n)
  BY <1>2, <1>3, WantedByClient DEF Wanted
<1>11. RequestInv'
  <2>1. \A n \in Ordinals : room'[n].observed => room[n].observed /\ Wanted(n)' = Wanted(n)
    BY <1>0, <1>3, <1>10 DEF TicketInv
  <2>2. HasCommand' => HasCommand /\ ordinal \in Ordinals /\ Wanted(ordinal)' = Wanted(ordinal)
    BY <1>0, <1>1, <1>10 DEF HasCommand, LoopInv, Serving
  <2>3. serve' \in {"begun", "observed", "receiving"} => HasCommand'
    BY DEF HasCommand, Serving
  <2>4. \A n \in Ordinals : room'[n].marker = "claimed" =>
          room[n].marker = "claimed" /\ Wanted(n)' = Wanted(n)
    BY <1>3, <1>10
  <2>5. /\ \A n \in Ordinals : room'[n].observed /\ n # ordinal' => Wanted(n)' \in queue'
        /\ \A m, n \in Ordinals : room'[m].observed /\ room'[n].marker = "claimed" /\ m # n =>
             Wanted(m)' # Wanted(n)'
    BY <1>0, <1>1, <2>1, <2>4 DEF RequestInv
  <2>6. ASSUME NEW d \in Clients,
               client'[d].pc \in {"claiming", "awaiting", "granted", "submitted"},
               room'[client'[d].n].observed
        PROVE  client'[d].req \in begun'
    <3>1. client[d].pc \in {"claiming", "awaiting", "granted", "submitted"}
      BY <1>2, <2>6
    <3> QED BY <1>0, <1>1, <1>2, <1>8, <2>6, <3>1 DEF RequestInv
  <2>7. /\ \A r \in Requests : job'[r] = "running" => r \in begun'
        /\ serve' \in {"begun", "observed", "receiving"} =>
             Wanted(ordinal)' \in begun' /\ job'[Wanted(ordinal)'] # "running"
    BY <1>0, <1>1, <2>2, <2>3 DEF RequestInv
  <2> QED BY <2>5, <2>6, <2>7 DEF RequestInv
<1>12. ReadinessIsAttended' /\ ClaimIsNotPassedOver'
  BY <1>0, <1>1, <1>3 DEF ReadinessIsAttended, ClaimIsNotPassedOver
<1> QED BY <1>5, <1>6, <1>7, <1>9, <1>11, <1>12 DEF ResidenceInv
\* A client that leaves the socket alone goes on.
LEMMA QuietMoveKeeps ==
  ASSUME AdmissionInv, NEW c \in Clients, NEW p \in ClientPCs \ {"start"},
         client[c].pc # "start", Step(c, p),
         queue \subseteq queue', queue' \subseteq Requests,
         room' \in [Ordinals -> RoomType], TicketsStay,
         \A n \in Ordinals : room'[n].marker = room[n].marker,
         UNCHANGED <<socketVars, wait, retained, serveVars, flagVars>>,
         p \in {"granted", "submitted", "waking", "held"} => room[client[c].n].observed,
         p \in {"submitted", "waking", "held"} => client[c].req \in queue',
         p \in {"claiming", "awaiting", "granted", "submitted"} =>
           client[c].pc \in {"claiming", "awaiting", "granted", "submitted"}
  PROVE  ResidenceInv'
<1>1. ClientInv
  BY DEF AdmissionInv, ResidenceInv
<1>2. call' = call /\ ReceivesStay
  BY DEF socketVars, ReceivesStay
<1>3. ASSUME NEW d \in Clients, NEW op \in {"run", "observe"}, call'[<<d, op>>].st \notin NotInUse
      PROVE  /\ d # c => call[<<d, op>>].st \notin NotInUse
             /\ d = c => /\ p \in {"waking", "held", "over"} /\ room[client[c].n].observed
                         /\ client[c].req \in queue'
             /\ call'[<<d, op>>].req = client[d].req
  <2>1. /\ client[d].pc \in {"waking", "held", "over"} /\ room[client[d].n].observed
        /\ client[d].req \in queue /\ call[<<d, op>>].req = client[d].req
    BY <1>1, <1>2, <1>3 DEF ClientInv
  <2>2. d = c => p \in {"waking", "held", "over"}
    BY <2>1 DEF ClientPCs
  <2> QED BY <1>2, <1>3, <2>1, <2>2
<1>4. client' = [client EXCEPT ![c].pc = p]
  BY DEF Step
<1> QED BY <1>2, <1>3, <1>4, ClientMoveKeeps

\* Publishing, waiting for the readiness, submitting, being told and dying.
LEMMA QuietClientKeeps ==
  ASSUME AdmissionInv, NEW c \in Clients,
         Publish(c) \/ SeeReady(c) \/ GiveUp(c) \/ Submit(c) \/ Told(c) \/ Die(c)
  PROVE  ResidenceInv'
<1>0. /\ ResidenceTypeOK /\ TicketInv /\ ClientInv
  BY DEF AdmissionInv, ResidenceInv
<1>1. room \in [Ordinals -> RoomType] /\ queue \subseteq Requests
  BY <1>0 DEF ResidenceTypeOK
<1>2. CASE Publish(c)
  <2>1. /\ client[c].pc = "claiming" /\ Step(c, "awaiting")
        /\ room' = [room EXCEPT ![client[c].n].published = TRUE]
        /\ UNCHANGED <<socketVars, wait, retained, serveVars, queue, flagVars>>
    BY <1>2 DEF Publish
  <2>2. /\ room' \in [Ordinals -> RoomType]
        /\ \A n \in Ordinals : /\ room'[n].by = room[n].by
                               /\ room'[n].observed = room[n].observed
                               /\ room'[n].marker = room[n].marker
    BY <1>1, <2>1 DEF RoomType
  <2>3. "awaiting" \in ClientPCs \ {"start"}
    BY DEF ClientPCs
  <2>4. TicketsStay
    BY <2>2 DEF TicketsStay
  <2> QED BY <1>1, <2>1, <2>2, <2>3, <2>4, QuietMoveKeeps
<1>3. ASSUME NEW p \in {"granted", "submitted", "held", "over"}, Step(c, p),
             client[c].pc # "start", queue \subseteq queue', queue' \subseteq Requests,
             UNCHANGED <<socketVars, waitVars, serveVars, flagVars>>,
             p \in {"granted", "submitted", "held"} => room[client[c].n].observed,
             p \in {"submitted", "held"} => client[c].req \in queue',
             p \in {"granted", "submitted"} =>
               client[c].pc \in {"claiming", "awaiting", "granted", "submitted"}
      PROVE  ResidenceInv'
  <2>1. room' = room /\ UNCHANGED <<socketVars, wait, retained, serveVars, flagVars>>
    BY <1>3 DEF waitVars
  <2>2. p \in ClientPCs \ {"start"}
    BY DEF ClientPCs
  <2>3. TicketsStay
    BY <2>1 DEF TicketsStay
  <2> QED BY <1>1, <1>3, <2>1, <2>2, <2>3, QuietMoveKeeps
<1>4. CASE SeeReady(c)
  BY <1>1, <1>3, <1>4 DEF SeeReady
<1>5. CASE GiveUp(c)
  BY <1>1, <1>3, <1>5 DEF GiveUp
<1>6. CASE Submit(c)
  <2>1. /\ client[c].pc = "granted" /\ queue' = queue \cup {client[c].req}
        /\ Step(c, "submitted") /\ UNCHANGED <<socketVars, waitVars, serveVars, flagVars>>
    BY <1>6 DEF Submit
  <2>2. client[c].req \in Requests /\ room[client[c].n].observed
    BY <1>0, <2>1 DEF TicketInv, ClientInv
  <2> QED BY <1>1, <1>3, <2>1, <2>2
<1>7. CASE Told(c)
  <2>1. /\ client[c].pc = "waking" /\ UNCHANGED <<socketVars, waitVars, serveVars, queue, flagVars>>
        /\ Step(c, "held") \/ Step(c, "over")
    BY <1>7 DEF Told
  <2>2. client[c].req \in queue /\ room[client[c].n].observed
    BY <1>0, <2>1 DEF ClientInv
  <2> QED BY <1>1, <1>3, <2>1, <2>2
<1>8. CASE Die(c)
  BY <1>1, <1>3, <1>8 DEF Die
<1> QED BY <1>2, <1>4, <1>5, <1>6, <1>7, <1>8

\* A client wakes the socket for the request it submitted.
LEMMA WakingKeeps ==
  ASSUME AdmissionInv, NEW c \in Clients, WakeUp(c) \/ Observe(c)
  PROVE  ResidenceInv'
<1>0. /\ Session!SocketInv /\ ResidenceTypeOK /\ TicketInv /\ ClientInv
  BY DEF AdmissionInv, ResidenceInv
<1>1. PICK op \in {"run", "observe"}, p \in {"waking", "over"} :
        /\ Socket!Wake(<<c, op>>, client[c].req, op) /\ Step(c, p)
        /\ client[c].pc \in {"submitted", "held"}
  BY DEF WakeUp, Observe
<1>2. UNCHANGED <<waitVars, serveVars, queue, flagVars>>
  BY DEF WakeUp, Observe
<1>3. <<c, op>> \in Wakes
  BY DEF Wakes
<1>4. /\ call'[<<c, op>>].st \notin NotInUse => call'[<<c, op>>].req = client[c].req
      /\ \A w \in Wakes : w # <<c, op>> => call'[w] = call[w]
      /\ ReceivesStay
  BY <1>0, <1>1, <1>3, WakeStays
<1>5. room[client[c].n].observed /\ client[c].req \in queue
  BY <1>0, <1>1 DEF ClientInv
<1>6. ASSUME NEW d \in Clients, NEW o \in {"run", "observe"}, call'[<<d, o>>].st \notin NotInUse
      PROVE  /\ d # c => call[<<d, o>>].st \notin NotInUse
             /\ d = c => /\ p \in {"waking", "held", "over"} /\ room[client[c].n].observed
                         /\ client[c].req \in queue'
             /\ call'[<<d, o>>].req = client[d].req
  <2>1. CASE <<d, o>> = <<c, op>>
    BY <1>2, <1>4, <1>5, <1>6, <2>1
  <2>2. CASE <<d, o>> # <<c, op>>
    <3>1. call'[<<d, o>>] = call[<<d, o>>]
      BY <1>4, <2>2 DEF Wakes
    <3>2. call[<<d, o>>].req = client[d].req
      BY <1>0, <1>6, <3>1 DEF ClientInv
    <3> QED BY <1>2, <1>5, <1>6, <3>1, <3>2
  <2> QED BY <2>1, <2>2
<1>7. client' = [client EXCEPT ![c].pc = p] /\ p \in ClientPCs \ {"start"}
  BY <1>1 DEF Step, ClientPCs
<1>8. room' = room /\ wait' = wait /\ retained' = retained /\ TicketsStay
  BY <1>2 DEF waitVars, TicketsStay
<1>9. /\ room' \in [Ordinals -> RoomType] /\ queue \subseteq queue' /\ queue' \subseteq Requests
      /\ \A n \in Ordinals : room'[n].marker = room[n].marker
      /\ client[c].pc # "start"
  BY <1>0, <1>1, <1>2, <1>8 DEF ResidenceTypeOK
<1>10. UNCHANGED <<wait, retained, serveVars, flagVars>>
  BY <1>2, <1>8
<1>11. /\ p \in {"granted", "submitted", "waking", "held"} => room[client[c].n].observed
       /\ p \in {"submitted", "waking", "held"} => client[c].req \in queue'
       /\ p \in {"claiming", "awaiting", "granted", "submitted"} =>
            client[c].pc \in {"claiming", "awaiting", "granted", "submitted"}
  BY <1>2, <1>5
<1> QED BY <1>4, <1>6, <1>7, <1>8, <1>9, <1>10, <1>11, ClientMoveKeeps

\* A client claims the readiness: nobody else has, and nothing was observed there.
LEMMA AdmitKeeps ==
  ASSUME AdmissionInv, NEW c \in Clients, NEW r \in Requests, NEW n \in Ordinals, Admit(c, r, n)
  PROVE  ResidenceInv'
<1>0. /\ ResidenceTypeOK /\ LoopInv /\ TicketInv /\ ClientInv /\ RequestInv
      /\ ReadinessIsAttended /\ ClaimIsNotPassedOver
  BY DEF AdmissionInv, ResidenceInv
<1>1. /\ client[c].pc = "start" /\ room[n].marker = "waiting" /\ ~room[n].observed
      /\ room' = [room EXCEPT ![n].marker = "claimed", ![n].by = c]
      /\ client' = [client EXCEPT ![c] = [pc |-> "claiming", req |-> r, n |-> n]]
      /\ UNCHANGED <<socketVars, wait, retained, serveVars, queue, flagVars>>
  BY DEF Admit, Admissible
<1>2. /\ wait' = wait /\ retained' = retained /\ ordinal' = ordinal /\ serve' = serve
      /\ outcome' = outcome /\ begun' = begun /\ job' = job /\ queue' = queue
      /\ stop' = stop /\ failed' = failed /\ alive' = alive /\ detector' = detector
      /\ got' = got /\ call' = call
  BY <1>1 DEF serveVars, flagVars, socketVars
<1>3. /\ client' \in [Clients -> [pc : ClientPCs, req : Requests \cup {None}, n : 0..MaxOrdinal]]
      /\ client'[c].pc = "claiming" /\ client'[c].req = r /\ client'[c].n = n
      /\ \A d \in Clients : d # c => client'[d] = client[d]
  <2>1. [pc |-> "claiming", req |-> r, n |-> n]
          \in [pc : ClientPCs, req : Requests \cup {None}, n : 0..MaxOrdinal]
    BY AdmissionAssumption DEF ClientPCs, Ordinals
  <2> QED BY <1>0, <1>1, <2>1 DEF ResidenceTypeOK
<1>4. /\ room' \in [Ordinals -> RoomType]
      /\ room'[n].marker = "claimed" /\ room'[n].by = c /\ ~room'[n].observed
      /\ \A m \in Ordinals : m # n => room'[m] = room[m]
  BY <1>0, <1>1 DEF ResidenceTypeOK, RoomType, Markers
<1>5. /\ n = ordinal /\ wait \in {"watching", "aborting"}
      /\ serve \in {"waiting", "ending", "joining", "closed"} /\ outcome # "stopped"
  BY <1>0, <1>1 DEF ReadinessIsAttended, LoopInv
<1>6. c # None /\ \A m \in Ordinals : room[m].by # c
  BY <1>0, <1>1, AdmissionAssumption DEF TicketInv
<1>7. ResidenceTypeOK'
  BY <1>0, <1>2, <1>3, <1>4 DEF ResidenceTypeOK
<1>8. LoopInv'
  BY <1>0, <1>2, <1>4, <1>5 DEF LoopInv, HasCommand, Serving
<1>9. TicketInv'
  <2>1. ASSUME NEW d \in Clients, client'[d].pc # "start"
        PROVE  /\ client'[d].n \in Ordinals /\ client'[d].req \in Requests
               /\ room'[client'[d].n].by = d
    <3>1. CASE d = c
      BY <1>3, <1>4, <3>1
    <3>2. CASE d # c
      <4>1. /\ client[d].n \in Ordinals /\ client[d].req \in Requests
            /\ room[client[d].n].by = d
        BY <1>0, <1>3, <2>1, <3>2 DEF TicketInv
      <4>2. client[d].n # n
        BY <1>0, <1>1, <4>1, AdmissionAssumption DEF TicketInv
      <4> QED BY <1>3, <1>4, <3>2, <4>1, <4>2
    <3> QED BY <3>1, <3>2
  <2>2. ASSUME NEW m \in Ordinals
        PROVE  /\ room'[m].by # None =>
                    client'[room'[m].by].pc # "start" /\ client'[room'[m].by].n = m
               /\ room'[m].by # None <=> room'[m].marker = "claimed"
               /\ room'[m].observed => room'[m].marker = "claimed"
    <3>1. CASE m = n
      BY <1>3, <1>4, <1>6, <3>1
    <3>2. CASE m # n
      <4>1. room'[m] = room[m] /\ room[m].by # c /\ room[m].by \in Clients \cup {None}
        BY <1>0, <1>4, <1>6, <3>2 DEF ResidenceTypeOK, RoomType
      <4> QED BY <1>0, <1>3, <4>1 DEF TicketInv
    <3> QED BY <3>1, <3>2
  <2> QED BY <2>1, <2>2 DEF TicketInv
<1>10. \A d \in Clients : d # c /\ client[d].pc # "start" => room'[client[d].n] = room[client[d].n]
  <2> SUFFICES ASSUME NEW d \in Clients, d # c, client[d].pc # "start"
               PROVE  room'[client[d].n] = room[client[d].n]
    OBVIOUS
  <2>1. client[d].n \in Ordinals /\ room[client[d].n].by = d
    BY <1>0 DEF TicketInv
  <2>2. client[d].n # n
    BY <1>0, <1>1, <2>1, AdmissionAssumption DEF TicketInv
  <2> QED BY <1>4, <2>1, <2>2
<1>11. ClientInv'
  <2>1. ASSUME NEW d \in Clients
        PROVE  /\ client'[d].pc \in {"granted", "submitted", "waking", "held"} =>
                    room'[client'[d].n].observed
               /\ client'[d].pc \in {"submitted", "waking", "held"} => client'[d].req \in queue'
    BY <1>0, <1>2, <1>3, <1>10 DEF ClientInv
  <2>2. ASSUME NEW d \in Clients, NEW op \in {"run", "observe"}, call'[<<d, op>>].st \notin NotInUse
        PROVE  /\ client'[d].pc \in {"waking", "held", "over"}
               /\ room'[client'[d].n].observed
               /\ call'[<<d, op>>].req = client'[d].req
               /\ client'[d].req \in queue'
    <3>1. /\ client[d].pc \in {"waking", "held", "over"} /\ room[client[d].n].observed
          /\ client[d].req \in queue /\ call[<<d, op>>].req = client[d].req
      BY <1>0, <1>2, <2>2 DEF ClientInv
    <3>2. d # c
      BY <1>1, <3>1
    <3> QED BY <1>2, <1>3, <1>10, <3>1, <3>2
  <2> QED BY <2>1, <2>2 DEF ClientInv
<1>12. \A m \in Ordinals : m # n /\ room[m].marker = "claimed" => Wanted(m)' = Wanted(m)
  BY <1>3, <1>4, <1>6, WantedByClient DEF Wanted
<1>13. RequestInv'
  <2>2. \A m \in Ordinals : room'[m].observed =>
          m # n /\ room[m].observed /\ Wanted(m)' = Wanted(m)
    BY <1>0, <1>4, <1>12 DEF TicketInv
  <2>3. \A m \in Ordinals : room'[m].observed /\ m # ordinal' => Wanted(m)' \in queue'
    BY <1>0, <1>2, <2>2 DEF RequestInv
  <2>4. ASSUME NEW m \in Ordinals, NEW k \in Ordinals,
               room'[m].observed, room'[k].marker = "claimed", m # k
        PROVE  Wanted(m)' # Wanted(k)'
    <3>1. CASE k = n
      <4>1. Wanted(m)' \in queue /\ r \notin queue
        BY <1>2, <1>5, <2>2, <2>3, <2>4 DEF Admit, Admissible
      <4>2. Wanted(n)' = r
        BY <1>3, <1>4 DEF Wanted
      <4> QED BY <3>1, <4>1, <4>2
    <3>2. CASE k # n
      <4>1. room[k].marker = "claimed" /\ Wanted(k)' = Wanted(k)
        BY <1>4, <1>12, <2>4, <3>2
      <4> QED BY <1>0, <2>2, <2>4, <4>1 DEF RequestInv
    <3> QED BY <3>1, <3>2
  <2>5. ASSUME NEW d \in Clients,
               client'[d].pc \in {"claiming", "awaiting", "granted", "submitted"},
               room'[client'[d].n].observed
        PROVE  client'[d].req \in begun'
    <3>1. d # c
      BY <1>3, <1>4, <2>5
    <3> QED BY <1>0, <1>2, <1>3, <1>10, <2>5, <3>1 DEF RequestInv
  <2>6. \A q \in Requests : job'[q] = "running" => q \in begun'
    BY <1>0, <1>2 DEF RequestInv
  <2>7. serve' \notin {"begun", "observed", "receiving"}
    BY <1>2, <1>5
  <2> QED BY <2>3, <2>4, <2>5, <2>6, <2>7 DEF RequestInv
<1>14. ReadinessIsAttended'
  BY <1>0, <1>2, <1>4, <1>5 DEF ReadinessIsAttended
<1>15. ClaimIsNotPassedOver'
  BY <1>0, <1>2, <1>4, <1>5 DEF ClaimIsNotPassedOver
<1> QED BY <1>7, <1>8, <1>9, <1>11, <1>13, <1>14, <1>15 DEF ResidenceInv
----------------------------------------------------------------------------
(* Theorems                                                                  *)

\* Each step of the residence is a step of a session of its socket, or leaves the
\* socket alone.
LEMMA ResidenceStep ==
  ASSUME AdmissionInv, [Next]_vars
  PROVE  [Socket!SocketNext]_socketVars
<1>0. /\ ResidenceTypeOK /\ LoopInv /\ TicketInv
  BY DEF AdmissionInv, ResidenceInv
<1>1. ASSUME NEW c \in Clients, ClientStep(c) PROVE [Socket!SocketNext]_socketVars
  <2>1. CASE WakeUp(c) \/ Observe(c)
    <3>1. PICK op \in {"run", "observe"} :
            Socket!Wake(<<c, op>>, client[c].req, op) /\ client[c].pc # "start"
      BY <2>1 DEF WakeUp, Observe
    <3>2. <<c, op>> \in Wakes /\ op \in Socket!Operations /\ client[c].req \in Requests
      BY <1>0, <3>1 DEF Wakes, Socket!Operations, TicketInv
    <3> QED BY <3>1, <3>2 DEF Socket!SocketNext, Socket!ClientNext
  <2>2. CASE ~(WakeUp(c) \/ Observe(c))
    <3>1. UNCHANGED socketVars
      BY <1>1, <2>2 DEF ClientStep, Admit, Publish, SeeReady, GiveUp, Submit, Told, Die
    <3> QED BY <3>1
  <2> QED BY <2>1, <2>2
<1>2. CASE Expire
  BY <1>2 DEF Expire, Socket!SocketNext
<1>3. CASE ServeStep
  <2>1. CASE StopAdmission \/ CloseServe
    <3>1. UNCHANGED socketVars \/ \E why \in {"resident_failed", "resident_stopped"} : Socket!Close(why)
      BY <2>1 DEF StopAdmission, CloseServe
    <3> QED BY <3>1 DEF Socket!SocketNext
  <2>2. CASE OpenReceive
    <3>1. ordinal \in Socket!Receives
      BY <1>0, <2>2 DEF OpenReceive, LoopInv, Serving, Ordinals, Socket!Receives
    <3> QED BY <2>2, <3>1 DEF OpenReceive, Socket!SocketNext
  <2>3. CASE ~(StopAdmission \/ CloseServe \/ OpenReceive)
    <3>1. UNCHANGED socketVars
      BY <1>3, <2>3 DEF ServeStep, StartWait, TakeWait, Begin, ObserveCommand, TakeDelivery,
         Halt, Drain, Refused
    <3> QED BY <3>1
  <2> QED BY <2>1, <2>2, <2>3
<1>4. CASE SocketStep
  BY <1>4 DEF SocketStep, Socket!SocketNext, Socket!ClientNext, Socket!JobNext,
     Socket!Receives, Ordinals
<1>5. ASSUME NEW r \in Requests, FinishJob(r) \/ EndJob(r) \/ LoseFinish(r)
      PROVE  [Socket!SocketNext]_socketVars
  <2>1. CASE FinishJob(r)
    <3>1. PICK c \in Clients, d \in Socket!Dispositions : Socket!Finish(<<c, "run">>, d)
      BY <2>1 DEF FinishJob
    <3>2. <<c, "run">> \in Wakes
      BY DEF Wakes
    <3> QED BY <3>1, <3>2 DEF Socket!SocketNext, Socket!JobNext
  <2>2. CASE EndJob(r) \/ LoseFinish(r)
    BY <2>2 DEF EndJob, LoseFinish
  <2> QED BY <1>5, <2>1, <2>2
<1>6. CASE \/ \E n \in Ordinals : Expires(n)
           \/ PublishStop \/ Lose \/ RecordLoss \/ ReceiveReturns \/ WaitStep
           \/ UNCHANGED vars
  <2>1. UNCHANGED socketVars
    BY <1>6 DEF Expires, PublishStop, Lose, RecordLoss, ReceiveReturns, WaitStep, WaitStops, WaitElapses,
       WaitGivesUp, WaitFinds, WaitAborts, WaitReturns, vars
  <2> QED BY <2>1
<1> QED BY <1>1, <1>2, <1>3, <1>4, <1>5, <1>6 DEF Next

\* Each step of the residence keeps what is its own.
LEMMA ResidenceKept ==
  ASSUME AdmissionInv, Next
  PROVE  ResidenceInv'
<1>1. ASSUME NEW c \in Clients, ClientStep(c) PROVE ResidenceInv'
  BY <1>1, AdmitKeeps, QuietClientKeeps, WakingKeeps DEF ClientStep
<1>2. CASE ServeStep
  BY <1>2, StartWaitKeeps, TakeWaitKeeps, BeginKeeps, ObserveCommandKeeps, OpenReceiveKeeps,
     TakeDeliveryKeeps, HaltsKeep, ClosingKeeps DEF ServeStep
<1> QED BY <1>1, <1>2, ExpiresKeeps, FlagsKeep, WaitStepKeeps, SocketStepKeeps, EndJobKeeps,
        LoseFinishKeeps DEF Next

\* Every step keeps the invariant, the session's and the residence's.
LEMMA AdmissionStep == AdmissionInv /\ [Next]_vars => AdmissionInv'
<1> SUFFICES ASSUME AdmissionInv, [Next]_vars PROVE AdmissionInv'
  OBVIOUS
<1>1. Session!SocketInv'
  <2>1. CASE Socket!SocketNext
    BY <2>1, SameStep, Session!SocketInvStep, SessionAssumption DEF AdmissionInv
  <2>2. CASE UNCHANGED socketVars
    <3>1. UNCHANGED Session!socketVars
      BY <2>2 DEF socketVars, Session!socketVars
    <3> QED BY <3>1, Session!SocketInvStep, SessionAssumption DEF AdmissionInv
  <2> QED BY <2>1, <2>2, ResidenceStep
<1>2. ResidenceInv'
  <2>1. CASE Next
    BY <2>1, ResidenceKept
  <2>2. CASE UNCHANGED vars
    <3>1. /\ UNCHANGED <<socketVars, waitVars, serveVars, clientVars, flagVars>>
      BY <2>2 DEF vars
    <3>2. CallsStay /\ ReceivesStay
      BY <3>1 DEF socketVars, CallsStay, ReceivesStay
    <3>3. /\ UNCHANGED <<room, client, queue, serveVars>> /\ wait' = wait
          /\ {stop', failed', alive', retained'} \subseteq BOOLEAN
          /\ detector' \in {"off", "armed", "expired"}
      BY <3>1 DEF waitVars, clientVars, flagVars, AdmissionInv, ResidenceInv, ResidenceTypeOK
    <3> QED BY <3>2, <3>3, ElsewhereKeeps
  <2> QED BY <2>1, <2>2
<1> QED BY <1>1, <1>2 DEF AdmissionInv

\* The inductive invariant of a residence.
THEOREM AdmissionInvariant == Spec => []AdmissionInv
<1> QED BY AdmissionInit, AdmissionStep, PTL DEF Spec

\* Every reachable residence is well typed, its socket included.
THEOREM AdmissionTypeCorrect == Spec => []TypeOK
<1>1. AdmissionInv => TypeOK
  BY SessionFacts DEF AdmissionInv, ResidenceInv, ResidenceTypeOK, TypeOK
<1> QED BY <1>1, AdmissionInvariant, PTL

\* A marker says that the residence waits only while its wait runs.
THEOREM ReadinessAttended == Spec => []ReadinessIsAttended
<1>1. AdmissionInv => ReadinessIsAttended
  BY DEF AdmissionInv, ResidenceInv
<1> QED BY <1>1, AdmissionInvariant, PTL

\* A client that claimed the readiness is never passed over.
THEOREM ClaimsNotPassedOver == Spec => []ClaimIsNotPassedOver
<1>1. AdmissionInv => ClaimIsNotPassedOver
  BY DEF AdmissionInv, ResidenceInv
<1> QED BY <1>1, AdmissionInvariant, PTL

\* No request is admitted twice, and who may submit has a ticket and a slot.
THEOREM RequestsAdmittedOnce == Spec => []AdmittedOnce
<1>1. AdmissionInv => AdmittedOnce
  <2> SUFFICES ASSUME AdmissionInv PROVE AdmittedOnce
    OBVIOUS
  <2>1. TicketInv /\ ClientInv /\ RequestInv
    BY DEF AdmissionInv, ResidenceInv
  <2>2. \A m, n \in Ordinals : (m # n /\ room[m].observed /\ room[n].marker = "claimed")
          => Wanted(m) # Wanted(n)
    BY <2>1 DEF RequestInv
  <2>3. \A c \in Clients : client[c].pc \in {"granted", "submitted"} =>
          room[client[c].n].by = c /\ client[c].req \in begun
    BY <2>1 DEF TicketInv, ClientInv, RequestInv
  <2> QED BY <2>2, <2>3 DEF AdmittedOnce
<1> QED BY <1>1, AdmissionInvariant, PTL

\* The socket of a residence is a session of ParkedSocket.
THEOREM ResidenceIsSession == Spec => Socket!SocketSpec
<1>1. Init => Socket!SocketInit
  BY DEF Init
<1>2. AdmissionInv /\ [Next]_vars => [Socket!SocketNext]_Socket!socketVars
  BY ResidenceStep DEF socketVars, Socket!socketVars
<1> QED BY <1>1, <1>2, AdmissionInvariant, PTL DEF Spec, Socket!SocketSpec

=============================================================================
