---------------------------- MODULE StorageProofs ----------------------------
(* What a reader gets of the authority's files, for all files, values and     *)
(* processes, after any number of crashes and power losses.                   *)
EXTENDS Storage, TLAPS

\* The call in progress is about a file, and its value was begun; a ticket that is
\* being written is not there yet.
CallInv ==
  call.at # "idle" =>
    /\ holder # None /\ call.file \in Files
    /\ call.value \in tried[call.file]
    /\ call.at = "unlinked" => call.file \in Records
    /\ call.at # "unlinked" => call.value \in Values
    /\ call.at \in {"checked", "created", "written", "synced"} /\ call.file \in Tickets
         => entry[call.file].value = None

\* What a call has done to its file so far.
StageInv ==
  /\ call.at \in {"written", "synced"} => temp[call.file].value = call.value
  /\ call.at = "synced" => temp[call.file].synced
  /\ call.at \in {"replaced", "unlinked"} => entry[call.file].value = call.value
  /\ call.at = "replaced" => temp[call.file] = Nothing

\* A name leads, and led when its directory was synced, to whole content that
\* was acknowledged or begun.
NameInv ==
  \A f \in Files :
    /\ entry[f].synced /\ entry[f].value \in {acked[f]} \cup tried[f]
    /\ durable[f].synced /\ durable[f].value \in {acked[f]} \cup tried[f]

\* An acknowledged ticket is durable and nothing is under way about it.
TicketInv ==
  \A f \in Tickets : acked[f] # None =>
    /\ entry[f].value = acked[f] /\ durable[f] = entry[f] /\ temp[f] = Nothing
    /\ call.at # "idle" => call.file # f

\* The inductive invariant.
StorageInv == StorageTypeOK /\ CallInv /\ StageInv /\ NameInv /\ TicketInv

\* A fresh directory satisfies the invariant.
LEMMA StorageInit == Init => StorageInv
<1> SUFFICES ASSUME Init PROVE StorageInv
  OBVIOUS
<1>1. /\ holder = None /\ call = NoCall
      /\ entry = [f \in Files |-> Nothing] /\ temp = [f \in Files |-> Nothing]
      /\ durable = [f \in Files |-> Nothing] /\ acked = [f \in Files |-> None]
      /\ tried = [f \in Files |-> {}] /\ found = [f \in Tickets |-> None]
  BY DEF Init
<1>2. Nothing \in Content /\ Nothing.synced = TRUE /\ Nothing.value = None
  BY DEF Nothing, Content
<1>3. /\ NoCall \in [at : Stages, file : Files \cup {None}, value : Values \cup {None}]
      /\ NoCall.at = "idle"
  BY DEF NoCall, Stages
<1> HIDE DEF Nothing, NoCall
<1>4. StorageTypeOK
  BY <1>1, <1>2, <1>3 DEF StorageTypeOK
<1>5. CallInv /\ StageInv /\ NameInv /\ TicketInv
  <2>1. \A f \in Tickets : f \in Files
    BY DEF Files
  <2> QED BY <1>1, <1>2, <1>3, <2>1 DEF CallInv, StageInv, NameInv, TicketInv
<1> QED BY <1>4, <1>5 DEF StorageInv

\* The lock is taken and given back.
LEMMA LockStep ==
  ASSUME StorageInv, (\E p \in Processes : Lock(p)) \/ Unlock
  PROVE  StorageInv'
<1>1. /\ UNCHANGED <<call, entry, temp, durable, acked, tried, found>>
      /\ call = NoCall /\ holder' \in Processes \cup {None}
  BY DEF Lock, Unlock, StorageInv, StorageTypeOK
<1>2. call.at = "idle"
  BY <1>1 DEF NoCall
<1> QED BY <1>1, <1>2
        DEF StorageInv, StorageTypeOK, CallInv, StageInv, NameInv, TicketInv

\* A repeated write changes no file.
LEMMA RepeatStep ==
  ASSUME StorageInv, NEW f \in Tickets, NEW v \in Values, RepeatWrite(f, v)
  PROVE  StorageInv'
<1>1. /\ UNCHANGED <<holder, call, entry, temp, durable, acked, tried>>
      /\ found' = [found EXCEPT ![f] = v]
  BY DEF RepeatWrite
<1>2. found' \in [Tickets -> Values \cup {None}]
  BY <1>1 DEF StorageInv, StorageTypeOK
<1> QED BY <1>1, <1>2
        DEF StorageInv, StorageTypeOK, CallInv, StageInv, NameInv, TicketInv

\* A write begins: its value is one a reader may get from now on.
LEMMA BeginStep ==
  ASSUME StorageInv, NEW f \in Files, NEW v \in Values, BeginWrite(f, v)
  PROVE  StorageInv'
<1>1. /\ holder # None /\ MayWrite(f)
      /\ call' = [at |-> "checked", file |-> f, value |-> v]
      /\ tried' = [tried EXCEPT ![f] = @ \cup {v}]
      /\ UNCHANGED <<holder, entry, temp, durable, acked, found>>
  BY DEF BeginWrite, Change
<1>2. call'.at = "checked" /\ call'.file = f /\ call'.value = v
  BY <1>1
<1>3. /\ tried' \in [Files -> SUBSET (Values \cup {None})]
      /\ v \in tried'[f] /\ \A x \in Files : tried[x] \subseteq tried'[x]
  BY <1>1 DEF StorageInv, StorageTypeOK
<1>4. call' \in [at : Stages, file : Files \cup {None}, value : Values \cup {None}]
  BY <1>1 DEF Stages
<1>5. f \in Tickets => acked[f] = None
  <2>1. f \in Tickets => entry[f].value = None
    BY <1>1 DEF MayWrite
  <2> QED BY <2>1 DEF StorageInv, TicketInv
<1>6. StorageTypeOK'
  BY <1>1, <1>3, <1>4 DEF StorageInv, StorageTypeOK
<1>7. CallInv' /\ StageInv'
  BY <1>1, <1>2, <1>3 DEF CallInv, StageInv, MayWrite
<1>8. NameInv'
  BY <1>1, <1>3 DEF StorageInv, NameInv
<1>9. TicketInv'
  BY <1>1, <1>2, <1>5 DEF StorageInv, TicketInv
<1> QED BY <1>6, <1>7, <1>8, <1>9 DEF StorageInv

\* Only the temporary file of the call's file is written before it is renamed.
LEMMA TempStep ==
  ASSUME StorageInv, CreateTemp \/ WriteTemp \/ SyncTemp
  PROVE  StorageInv'
<1> DEFINE f == call.file
<1>1. /\ call.at \in {"checked", "created", "written"}
      /\ UNCHANGED <<holder, entry, durable, acked, tried, found>>
      /\ \E s \in {"created", "written", "synced"} : call' = [call EXCEPT !.at = s]
  BY DEF CreateTemp, WriteTemp, SyncTemp, At
<1>2. /\ call \in [at : Stages, file : Files \cup {None}, value : Values \cup {None}]
      /\ temp \in [Files -> Content] /\ f \in Files /\ holder # None
      /\ call.value \in Values /\ call.value \in tried[f]
  BY <1>1 DEF StorageInv, StorageTypeOK, CallInv
<1>3. /\ call' \in [at : Stages, file : Files \cup {None}, value : Values \cup {None}]
      /\ call'.at \in {"created", "written", "synced"}
      /\ call'.file = call.file /\ call'.value = call.value
  BY <1>1, <1>2 DEF Stages
<1>4. /\ temp' \in [Files -> Content]
      /\ \A x \in Files : x # f => temp'[x] = temp[x]
      /\ call'.at \in {"written", "synced"} => temp'[f].value = call.value
      /\ call'.at = "synced" => temp'[f].synced
  <2>1. CASE CreateTemp
    <3>1. /\ temp' = [temp EXCEPT ![f] = [value |-> Torn, synced |-> FALSE]]
          /\ call' = [call EXCEPT !.at = "created"]
      BY <2>1 DEF CreateTemp, At
    <3>2. [value |-> Torn, synced |-> FALSE] \in Content /\ call'.at = "created"
      BY <1>2, <3>1 DEF Content
    <3> QED BY <1>2, <3>1, <3>2
  <2>2. CASE WriteTemp
    <3> DEFINE c == [temp[f] EXCEPT !.value = call.value]
    <3>1. temp' = [temp EXCEPT ![f] = c] /\ call' = [call EXCEPT !.at = "written"]
      BY <2>2 DEF WriteTemp, At
    <3>2. c \in Content /\ c.value = call.value
      BY <1>2 DEF Content
    <3>3. call'.at = "written"
      BY <1>2, <3>1
    <3> HIDE DEF c
    <3> QED BY <1>2, <3>1, <3>2, <3>3
  <2>3. CASE SyncTemp
    <3> DEFINE c == Synced(temp[f])
    <3>1. call.at = "written" /\ temp' = [temp EXCEPT ![f] = c]
      BY <2>3 DEF SyncTemp
    <3>2. temp[f].value = call.value
      BY <3>1 DEF StorageInv, StageInv
    <3>3. c \in Content /\ c.value = call.value /\ c.synced
      BY <1>2, <3>2 DEF Content, Synced
    <3> HIDE DEF c
    <3> QED BY <1>2, <3>1, <3>3
  <2> QED BY <2>1, <2>2, <2>3
<1>5. StorageTypeOK'
  BY <1>1, <1>2, <1>3, <1>4 DEF StorageInv, StorageTypeOK
<1>6. CallInv'
  BY <1>1, <1>2, <1>3 DEF StorageInv, CallInv
<1>7. StageInv'
  BY <1>1, <1>3, <1>4 DEF StageInv
<1>8. NameInv'
  BY <1>1 DEF StorageInv, NameInv
<1>9. TicketInv'
  <2>1. \A x \in Tickets : x \in Files /\ (acked[x] # None => x # f)
    BY <1>1 DEF StorageInv, TicketInv, Files
  <2> QED BY <1>1, <1>3, <1>4, <2>1 DEF StorageInv, TicketInv
<1> QED BY <1>5, <1>6, <1>7, <1>8, <1>9 DEF StorageInv

\* A rename puts whole, synced content under the name.
LEMMA ReplaceStep ==
  ASSUME StorageInv, Replace
  PROVE  StorageInv'
<1> DEFINE f == call.file
<1>1. /\ call.at = "synced" /\ call' = [call EXCEPT !.at = "replaced"]
      /\ entry' = [entry EXCEPT ![f] = temp[f]] /\ temp' = [temp EXCEPT ![f] = Nothing]
      /\ UNCHANGED <<holder, durable, acked, tried, found>>
  BY DEF Replace, At
<1>2. /\ call \in [at : Stages, file : Files \cup {None}, value : Values \cup {None}]
      /\ temp \in [Files -> Content] /\ entry \in [Files -> Content]
      /\ f \in Files /\ holder # None /\ call.value \in Values /\ call.value \in tried[f]
      /\ temp[f].value = call.value /\ temp[f].synced
  BY <1>1 DEF StorageInv, StorageTypeOK, CallInv, StageInv
<1>3. /\ call' \in [at : Stages, file : Files \cup {None}, value : Values \cup {None}]
      /\ call'.at = "replaced" /\ call'.file = call.file /\ call'.value = call.value
  BY <1>1, <1>2 DEF Stages
<1>4. /\ temp' \in [Files -> Content] /\ temp'[f] = Nothing
      /\ entry' \in [Files -> Content] /\ entry'[f] = temp[f]
      /\ \A x \in Files : x # f => temp'[x] = temp[x] /\ entry'[x] = entry[x]
  <2>1. Nothing \in Content
    BY DEF Nothing, Content
  <2> QED BY <1>1, <1>2, <2>1
<1>5. \A x \in Files : entry'[x].synced /\ entry'[x].value \in {acked[x]} \cup tried[x]
  BY <1>2, <1>4 DEF StorageInv, NameInv
<1>6. StorageTypeOK'
  BY <1>1, <1>2, <1>3, <1>4, <1>5 DEF StorageInv, StorageTypeOK
<1>7. CallInv' /\ StageInv'
  BY <1>1, <1>2, <1>3, <1>4 DEF CallInv, StageInv
<1>8. NameInv'
  BY <1>1, <1>5 DEF StorageInv, NameInv
<1>9. TicketInv'
  <2>1. \A x \in Tickets : x \in Files /\ (acked[x] # None => x # f)
    BY <1>1 DEF StorageInv, TicketInv, Files
  <2> QED BY <1>1, <1>3, <1>4, <2>1 DEF StorageInv, TicketInv
<1> QED BY <1>6, <1>7, <1>8, <1>9 DEF StorageInv

\* A record is removed.
LEMMA UnlinkStep ==
  ASSUME StorageInv, NEW f \in Files, Unlink(f)
  PROVE  StorageInv'
<1>1. /\ holder # None /\ call = NoCall /\ f \in Records
      /\ call' = [at |-> "unlinked", file |-> f, value |-> None]
      /\ tried' = [tried EXCEPT ![f] = @ \cup {None}]
      /\ entry' = [entry EXCEPT ![f] = Nothing]
      /\ UNCHANGED <<holder, temp, durable, acked, found>>
  BY DEF Unlink, Change
<1>2. call'.at = "unlinked" /\ call'.file = f /\ call'.value = None
  BY <1>1
<1>3. /\ tried' \in [Files -> SUBSET (Values \cup {None})]
      /\ None \in tried'[f] /\ \A x \in Files : tried[x] \subseteq tried'[x]
  BY <1>1 DEF StorageInv, StorageTypeOK
<1>4. call' \in [at : Stages, file : Files \cup {None}, value : Values \cup {None}]
  BY <1>1 DEF Stages
<1>5. Nothing \in Content /\ Nothing.synced /\ Nothing.value = None
  BY DEF Nothing, Content
<1> HIDE DEF Nothing
<1>6. /\ entry' \in [Files -> Content] /\ entry'[f] = Nothing
      /\ \A x \in Files : x # f => entry'[x] = entry[x]
  BY <1>1, <1>5 DEF StorageInv, StorageTypeOK
<1>7. StorageTypeOK'
  BY <1>1, <1>3, <1>4, <1>5, <1>6 DEF StorageInv, StorageTypeOK
<1>8. CallInv' /\ StageInv'
  BY <1>1, <1>2, <1>3, <1>5, <1>6 DEF CallInv, StageInv
<1>9. NameInv'
  BY <1>1, <1>3, <1>5, <1>6 DEF StorageInv, NameInv
<1>10. f \notin Tickets
  BY <1>1, StorageAssumption
<1>11. TicketInv'
  <2>1. \A x \in Tickets : x \in Files /\ x # f
    BY <1>10 DEF Files
  <2> QED BY <1>1, <1>2, <1>6, <2>1 DEF StorageInv, TicketInv
<1> QED BY <1>7, <1>8, <1>9, <1>11 DEF StorageInv

\* What is synced with the directory is what the caller is told.
LEMMA SyncStep ==
  ASSUME StorageInv, SyncDirectory
  PROVE  StorageInv'
<1> DEFINE f == call.file
<1>1. /\ call.at \in {"replaced", "unlinked"} /\ call' = NoCall
      /\ durable' = [durable EXCEPT ![f] = entry[f]]
      /\ acked' = [acked EXCEPT ![f] = call.value] /\ tried' = [tried EXCEPT ![f] = {}]
      /\ UNCHANGED <<holder, entry, temp, found>>
  BY DEF SyncDirectory, SyncedEntry
<1>2. /\ f \in Files /\ holder # None /\ call.value \in Values \cup {None}
      /\ entry[f].value = call.value /\ entry[f].synced
      /\ call.at = "unlinked" => f \in Records
      /\ call.at = "replaced" => temp[f] = Nothing
  BY <1>1 DEF StorageInv, StorageTypeOK, CallInv, StageInv
<1>3. /\ call' \in [at : Stages, file : Files \cup {None}, value : Values \cup {None}]
      /\ call'.at = "idle"
  BY <1>1 DEF NoCall, Stages
<1>4. /\ durable' \in [Files -> Content] /\ durable'[f] = entry[f]
      /\ acked' \in [Files -> Values \cup {None}] /\ acked'[f] = call.value
      /\ tried' \in [Files -> SUBSET (Values \cup {None})]
      /\ \A x \in Files : x # f => /\ durable'[x] = durable[x] /\ acked'[x] = acked[x]
                                   /\ tried'[x] = tried[x]
  BY <1>1, <1>2 DEF StorageInv, StorageTypeOK
<1>5. StorageTypeOK'
  BY <1>1, <1>2, <1>3, <1>4 DEF StorageInv, StorageTypeOK
<1>6. CallInv' /\ StageInv'
  BY <1>3 DEF CallInv, StageInv
<1>7. NameInv'
  BY <1>1, <1>2, <1>4 DEF StorageInv, NameInv
<1>8. TicketInv'
  <2>1. \A x \in Tickets : x \in Files /\ (x = f => temp[f] = Nothing)
    BY <1>1, <1>2, StorageAssumption DEF Files
  <2> QED BY <1>1, <1>2, <1>3, <1>4, <2>1 DEF StorageInv, TicketInv
<1> QED BY <1>5, <1>6, <1>7, <1>8 DEF StorageInv

\* A call that fails leaves the files as they are.
LEMMA FailStep ==
  ASSUME StorageInv, Fail
  PROVE  StorageInv'
<1>1. /\ holder' = None /\ call' = NoCall /\ call'.at = "idle"
      /\ UNCHANGED <<entry, temp, durable, acked, tried, found>>
  BY DEF Fail, NoCall
<1>2. call' \in [at : Stages, file : Files \cup {None}, value : Values \cup {None}]
  BY <1>1 DEF NoCall, Stages
<1> QED BY <1>1, <1>2
        DEF StorageInv, StorageTypeOK, CallInv, StageInv, NameInv, TicketInv

\* Content after a power loss is content, and what was synced is unchanged.
LEMMA AfterFacts ==
  ASSUME NEW c \in Content, NEW b \in BOOLEAN
  PROVE  After(c, b) \in Content /\ (c.synced => After(c, b) = c)
BY DEF After, Content

\* A power loss takes a name back at most to what was synced, and an
\* acknowledged ticket was.
LEMMA PowerLossStep ==
  ASSUME StorageInv, PowerLoss
  PROVE  StorageInv'
<1>1. PICK old \in SUBSET Files, gone \in SUBSET Files, torn \in SUBSET Files :
        /\ entry' = [f \in Files |-> IF f \in old THEN durable[f]
                                     ELSE After(entry[f], f \in torn)]
        /\ temp' = [f \in Files |->
             IF f \in gone THEN Nothing
             ELSE After(IF f \in old /\ entry[f] # durable[f] /\ temp[f] = Nothing
                        THEN entry[f] ELSE temp[f], f \in torn)]
        /\ durable' = entry' /\ holder' = None /\ call' = NoCall
        /\ UNCHANGED <<acked, tried, found>>
  BY DEF PowerLoss
<1>2. /\ entry \in [Files -> Content] /\ temp \in [Files -> Content]
      /\ durable \in [Files -> Content]
  BY DEF StorageInv, StorageTypeOK
<1>3. Nothing \in Content /\ Nothing.synced
  BY DEF Nothing, Content
<1>4. \A f \in Files : \A b \in BOOLEAN :
        After(entry[f], b) = entry[f] /\ After(Nothing, b) = Nothing
        /\ After(entry[f], b) \in Content /\ After(temp[f], b) \in Content
  BY <1>2, <1>3, AfterFacts DEF StorageInv, NameInv
<1> HIDE DEF Nothing
<1>5. \A f \in Files : (f \in torn) \in BOOLEAN
  OBVIOUS
<1>6. /\ entry' \in [Files -> Content] /\ temp' \in [Files -> Content]
      /\ \A f \in Files : entry'[f] \in {entry[f], durable[f]}
      /\ \A f \in Files : (durable[f] = entry[f] /\ temp[f] = Nothing) => temp'[f] = Nothing
  <2>1. \A f \in Files : entry'[f] \in {entry[f], durable[f]}
    BY <1>1, <1>4, <1>5
  <2>2. entry' \in [Files -> Content]
    BY <1>1, <1>2, <2>1
  <2>3. \A f \in Files : temp'[f] \in Content
    BY <1>1, <1>2, <1>3, <1>4, <1>5
  <2>4. temp' \in [Files -> Content]
    BY <1>1, <2>3
  <2>5. \A f \in Files : (durable[f] = entry[f] /\ temp[f] = Nothing) => temp'[f] = Nothing
    BY <1>1, <1>4, <1>5
  <2> QED BY <2>1, <2>2, <2>4, <2>5
<1>7. /\ call' \in [at : Stages, file : Files \cup {None}, value : Values \cup {None}]
      /\ call'.at = "idle"
  BY <1>1 DEF NoCall, Stages
<1>8. NameInv'
  BY <1>1, <1>6 DEF StorageInv, NameInv
<1>9. StorageTypeOK'
  BY <1>1, <1>6, <1>7, <1>8 DEF StorageInv, StorageTypeOK, NameInv
<1>10. CallInv' /\ StageInv'
  BY <1>7 DEF CallInv, StageInv
<1>11. TicketInv'
  <2>1. \A f \in Tickets : f \in Files
    BY DEF Files
  <2> QED BY <1>1, <1>6, <1>7, <2>1 DEF StorageInv, TicketInv
<1> QED BY <1>8, <1>9, <1>10, <1>11 DEF StorageInv

\* Every step preserves the invariant.
LEMMA StorageStep == StorageInv /\ [Next]_vars => StorageInv'
<1> SUFFICES ASSUME StorageInv, [Next]_vars PROVE StorageInv'
  OBVIOUS
<1>1. CASE UNCHANGED vars
  BY <1>1 DEF vars, StorageInv, StorageTypeOK, CallInv, StageInv, NameInv, TicketInv
<1> QED BY <1>1, LockStep, BeginStep, RepeatStep, TempStep, ReplaceStep, UnlinkStep, SyncStep,
           FailStep, PowerLossStep DEF Next

\* The invariant holds of every behaviour.
THEOREM StorageInvariant == Spec => []StorageInv
<1>1. Init => StorageInv
  BY StorageInit
<1>2. StorageInv /\ [Next]_vars => StorageInv'
  BY StorageStep
<1> QED BY <1>1, <1>2, PTL DEF Spec

\* A reader never gets a value that is torn, or older than what was acknowledged.
THEOREM ReadsNeverStale == Spec => []ReadsAreCurrent
<1>1. StorageInv => ReadsAreCurrent
  BY DEF StorageInv, NameInv, ReadsAreCurrent, Read
<1> QED BY <1>1, StorageInvariant, PTL

\* A ticket that is there stays as it is, unless the power goes before its
\* directory was synced.
LEMMA TicketStep ==
  ASSUME StorageInv, [Next]_vars, NEW f \in Tickets, temp[f] = Nothing, entry[f].value # None
  PROVE  \/ temp'[f] = Nothing /\ entry'[f] = entry[f]
         \/ PowerLoss /\ durable[f] # entry[f]
<1>1. f \in Files /\ f \notin Records
  BY StorageAssumption DEF Files
<1>2. entry \in [Files -> Content] /\ temp \in [Files -> Content]
  BY DEF StorageInv, StorageTypeOK
<1>3. CASE CreateTemp \/ WriteTemp \/ SyncTemp \/ Replace
  <2>1. call.file # f
    BY <1>3 DEF CreateTemp, WriteTemp, SyncTemp, Replace, StorageInv, CallInv
  <2>2. entry'[f] = entry[f] /\ temp'[f] = temp[f]
    BY <1>1, <1>2, <1>3, <2>1 DEF CreateTemp, WriteTemp, SyncTemp, Replace
  <2> QED BY <2>2
<1>4. CASE \E x \in Files : Unlink(x)
  <2>1. PICK x \in Records : entry' = [entry EXCEPT ![x] = Nothing] /\ temp' = temp
    BY <1>4 DEF Unlink
  <2> QED BY <1>1, <1>2, <2>1
<1>5. CASE PowerLoss /\ durable[f] = entry[f]
  <2>1. PICK old \in SUBSET Files, gone \in SUBSET Files, torn \in SUBSET Files :
          /\ entry' = [x \in Files |-> IF x \in old THEN durable[x]
                                       ELSE After(entry[x], x \in torn)]
          /\ temp' = [x \in Files |->
               IF x \in gone THEN Nothing
               ELSE After(IF x \in old /\ entry[x] # durable[x] /\ temp[x] = Nothing
                          THEN entry[x] ELSE temp[x], x \in torn)]
    BY <1>5 DEF PowerLoss
  <2>2. Nothing \in Content /\ Nothing.synced
    BY DEF Nothing, Content
  <2>3. entry[f] \in Content /\ entry[f].synced /\ (f \in torn) \in BOOLEAN
    BY <1>1, <1>2 DEF StorageInv, NameInv
  <2> HIDE DEF Nothing
  <2>4. After(entry[f], f \in torn) = entry[f] /\ After(Nothing, f \in torn) = Nothing
    BY <2>2, <2>3, AfterFacts
  <2> QED BY <1>1, <1>5, <2>1, <2>4
<1>6. CASE UNCHANGED <<entry, temp>>
  BY <1>6
<1> QED BY <1>3, <1>4, <1>5, <1>6 DEF Next, vars, Lock, Unlock, BeginWrite, RepeatWrite,
        SyncDirectory, Fail

\* A ticket written, synced and returned for is never changed and never lost; one
\* that a repeated write found is lost by nothing but a power loss that comes
\* before the directory was synced.
THEOREM TicketsAreKept == Spec => TicketsStay
<1> DEFINE Kept == \A f \in Tickets :
                     /\ acked[f] # None => acked'[f] = acked[f] /\ Read(f)' = acked[f]
                     /\ found[f] # None /\ Read(f) = found[f] /\ Read(f)' # found[f]
                          => PowerLoss /\ durable[f] # entry[f]
<1>1. StorageInv /\ StorageInv' /\ [Next]_vars => [Kept]_vars
  <2> SUFFICES ASSUME StorageInv, StorageInv', [Next]_vars, NEW f \in Tickets
               PROVE  /\ acked[f] # None => acked'[f] = acked[f] /\ Read(f)' = acked[f]
                      /\ found[f] # None /\ Read(f) = found[f] /\ Read(f)' # found[f]
                           => PowerLoss /\ durable[f] # entry[f]
    OBVIOUS
  <2>1. ASSUME acked[f] # None PROVE acked'[f] = acked[f] /\ Read(f)' = acked[f]
    <3>1. CASE SyncDirectory
      <4>1. /\ call.at # "idle" /\ acked' = [acked EXCEPT ![call.file] = call.value]
        BY <3>1 DEF SyncDirectory
      <4>2. call.file # f
        BY <2>1, <4>1 DEF StorageInv, TicketInv
      <4> QED BY <2>1, <4>1, <4>2 DEF StorageInv, StorageTypeOK, TicketInv, Files, Read
    <3>2. CASE UNCHANGED acked
      BY <2>1, <3>2 DEF StorageInv, TicketInv, Read
    <3> QED BY <3>1, <3>2 DEF Next, vars, Lock, Unlock, BeginWrite, RepeatWrite, Unlink,
                              CreateTemp, WriteTemp, SyncTemp, Replace, Fail, PowerLoss
  <2>2. ASSUME found[f] # None, Read(f) = found[f], Read(f)' # found[f]
        PROVE  PowerLoss /\ durable[f] # entry[f]
    <3>1. found[f] \in Values
      BY <2>2 DEF StorageInv, StorageTypeOK
    <3>2. temp[f] = Nothing /\ entry[f].value = found[f]
      BY <2>2, <3>1, StorageAssumption DEF Read
    <3>3. CASE temp'[f] = Nothing /\ entry'[f] = entry[f]
      BY <2>2, <3>2, <3>3 DEF Read
    <3> QED BY <2>2, <3>2, <3>3, TicketStep
  <2> QED BY <2>1, <2>2
<1>2. QED
  BY <1>1, StorageInvariant, PTL DEF Spec, TicketsStay
=============================================================================
