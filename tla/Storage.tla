------------------------------- MODULE Storage -------------------------------
(* The files of the authority (native_storage.Directory) under the state lock *)
(* (core.state_lock): a write goes to an exclusive temporary file, is synced, *)
(* and replaces the record; then the directory is synced and the caller told. *)
(* A process may be killed, or its call fail, between any two of these steps; *)
(* the machine may lose power, which loses or keeps whatever was not synced.  *)
(* A read takes no part in it: it refuses a record that has a temporary file. *)
EXTENDS Naturals

CONSTANTS Processes, Values,
          Records,   \* files that are written and removed
          Tickets,   \* files written once (immutable)
          None       \* no value, no process

Torn    == "torn"    \* content that was not synced when the power went
Refused == "refused" \* the answer of a read that finds a temporary file

ASSUME StorageAssumption == /\ None \notin Values \cup Processes
                            /\ {Torn, Refused} \cap (Values \cup {None}) = {}
                            /\ Records \cap Tickets = {}

Files == Records \cup Tickets

VARIABLES
  holder,   \* the process that has the flock of state.lock
  call,     \* the write or removal it is doing
  entry,    \* file -> what its name leads to now
  temp,     \* file -> its temporary file
  durable,  \* file -> what its name led to when the directory was last synced
  acked,    \* file -> value of the last change that returned (observed)
  tried,    \* file -> values of the changes begun since (observed)
  found     \* ticket -> value of the last repeated write that returned (observed)

vars == <<holder, call, entry, temp, durable, acked, tried, found>>

Stages   == {"idle", "checked", "created", "written", "synced", "replaced", "unlinked"}
NoCall   == [at |-> "idle", file |-> None, value |-> None]
Content  == [value : Values \cup {None, Torn}, synced : BOOLEAN]
Nothing  == [value |-> None, synced |-> TRUE]

Init ==
  /\ holder = None /\ call = NoCall
  /\ entry = [f \in Files |-> Nothing]
  /\ temp = [f \in Files |-> Nothing]
  /\ durable = [f \in Files |-> Nothing]
  /\ acked = [f \in Files |-> None]
  /\ tried = [f \in Files |-> {}]
  /\ found = [f \in Tickets |-> None]

----------------------------------------------------------------------------
\* Directory.read: what a reader gets.
Read(f) == IF temp[f] # Nothing THEN Refused ELSE entry[f].value

At(stage) == call' = [call EXCEPT !.at = stage]
Change(f, v, stage) ==
  /\ call' = [at |-> stage, file |-> f, value |-> v]
  /\ tried' = [tried EXCEPT ![f] = @ \cup {v}]

\* core.state_lock: one holder, for one change of one file here.
Lock(p) ==
  /\ holder = None
  /\ holder' = p
  /\ UNCHANGED <<call, entry, temp, durable, acked, tried, found>>

Unlock ==
  /\ holder # None /\ call = NoCall
  /\ holder' = None
  /\ UNCHANGED <<call, entry, temp, durable, acked, tried, found>>

\* Mutated: a ticket is written again.
MayWriteAgain(f) == temp[f] = Nothing
\* Directory.write begins: with no temporary file, and a ticket just once.
MayWrite(f) == temp[f] = Nothing /\ (f \in Tickets => entry[f].value = None)

BeginWrite(f, v) ==
  /\ holder # None /\ call = NoCall
  /\ MayWrite(f)
  /\ Change(f, v, "checked")
  /\ UNCHANGED <<holder, entry, temp, durable, acked, found>>

\* The write of a ticket that is there, with the same value: the call returns, as
\* a write does, and has neither written nor synced anything.
RepeatWrite(f, v) ==
  /\ holder # None /\ call = NoCall
  /\ temp[f] = Nothing /\ entry[f].value = v
  /\ found' = [found EXCEPT ![f] = v]
  /\ UNCHANGED <<holder, call, entry, temp, durable, acked, tried>>

CreateTemp ==
  /\ call.at = "checked" /\ At("created")
  /\ temp' = [temp EXCEPT ![call.file] = [value |-> Torn, synced |-> FALSE]]
  /\ UNCHANGED <<holder, entry, durable, acked, tried, found>>

WriteTemp ==
  /\ call.at = "created" /\ At("written")
  /\ temp' = [temp EXCEPT ![call.file].value = call.value]
  /\ UNCHANGED <<holder, entry, durable, acked, tried, found>>

Synced(content) == [content EXCEPT !.synced = TRUE]

SyncTemp ==
  /\ call.at = "written" /\ At("synced")
  /\ temp' = [temp EXCEPT ![call.file] = Synced(@)]
  /\ UNCHANGED <<holder, entry, durable, acked, tried, found>>

Replace ==
  /\ call.at = "synced" /\ At("replaced")
  /\ entry' = [entry EXCEPT ![call.file] = temp[call.file]]
  /\ temp' = [temp EXCEPT ![call.file] = Nothing]
  /\ UNCHANGED <<holder, durable, acked, tried, found>>

\* Directory.remove
Unlink(f) ==
  /\ holder # None /\ call = NoCall
  /\ f \in Records /\ entry[f].value # None
  /\ Change(f, None, "unlinked")
  /\ entry' = [entry EXCEPT ![f] = Nothing]
  /\ UNCHANGED <<holder, temp, durable, acked, found>>

\* Mutated: the directory is not synced.
NotSynced(f) == durable[f]
SyncedEntry(f) == entry[f]

\* The directory is synced and the call returns.
SyncDirectory ==
  /\ call.at \in {"replaced", "unlinked"}
  /\ call' = NoCall
  /\ durable' = [durable EXCEPT ![call.file] = SyncedEntry(call.file)]
  /\ acked' = [acked EXCEPT ![call.file] = call.value]
  /\ tried' = [tried EXCEPT ![call.file] = {}]
  /\ UNCHANGED <<holder, entry, temp, found>>

----------------------------------------------------------------------------
(* Failures                                                                 *)

\* The call fails, or its process is killed: the descriptor of the lock closes
\* and every file stays as it is.
Fail ==
  /\ holder # None
  /\ holder' = None /\ call' = NoCall
  /\ UNCHANGED <<entry, temp, durable, acked, tried, found>>

\* A content after a power loss, whole or torn.
After(content, torn) ==
  IF torn /\ ~content.synced THEN [value |-> Torn, synced |-> TRUE]
  ELSE [content EXCEPT !.synced = TRUE]

\* Some names lead where they led when the directory was last synced, with the
\* new file under its temporary name again; some temporary files are gone.
PowerLoss ==
  \E old, gone, torn \in SUBSET Files :
    LET Renamed(f) == f \in old /\ entry[f] # durable[f] /\ temp[f] = Nothing
    IN /\ entry' = [f \in Files |-> IF f \in old THEN durable[f]
                                    ELSE After(entry[f], f \in torn)]
       /\ temp' = [f \in Files |-> IF f \in gone THEN Nothing
                                   ELSE After(IF Renamed(f) THEN entry[f] ELSE temp[f],
                                              f \in torn)]
       /\ durable' = entry'
       /\ holder' = None /\ call' = NoCall
       /\ UNCHANGED <<acked, tried, found>>

Next ==
  \/ \E p \in Processes : Lock(p)
  \/ Unlock
  \/ \E f \in Files, v \in Values : BeginWrite(f, v)
  \/ \E f \in Tickets, v \in Values : RepeatWrite(f, v)
  \/ \E f \in Files : Unlink(f)
  \/ CreateTemp \/ WriteTemp \/ SyncTemp \/ Replace \/ SyncDirectory
  \/ Fail \/ PowerLoss

Spec == Init /\ [][Next]_vars

----------------------------------------------------------------------------
(* Properties                                                               *)

\* Types; a name never leads to content that was not synced.
StorageTypeOK ==
  /\ holder \in Processes \cup {None}
  /\ call \in [at : Stages, file : Files \cup {None}, value : Values \cup {None}]
  /\ holder = None => call = NoCall
  /\ \A f \in Files : entry[f].synced
  /\ entry \in [Files -> Content] /\ temp \in [Files -> Content]
  /\ durable \in [Files -> Content]
  /\ acked \in [Files -> Values \cup {None}]
  /\ tried \in [Files -> SUBSET (Values \cup {None})]
  /\ found \in [Tickets -> Values \cup {None}]

\* What a reader gets, at any moment and after any failure, is the value of the
\* last change that was acknowledged or of one begun since, whole; or a refusal.
ReadsAreCurrent ==
  \A f \in Files : Read(f) \in {Refused, acked[f]} \cup tried[f]

\* A ticket that a call wrote, synced and returned for is there with its value
\* for ever.  A repeated write returns too, and promises less: the ticket it found
\* may be one whose write was killed before the sync.  No later write changes
\* that ticket and no failure of a call loses it, but a power loss may while the
\* directory has not been synced.
TicketsStay ==
  [][\A f \in Tickets :
       /\ acked[f] # None => acked'[f] = acked[f] /\ Read(f)' = acked[f]
       /\ found[f] # None /\ Read(f) = found[f] /\ Read(f)' # found[f]
            => PowerLoss /\ durable[f] # entry[f]]_vars

\* What the comment of Directory says: a write that failed leaves its temporary
\* file, so that what follows is refused and does not guess.
FailedWriteIsRefused ==
  [][\A f \in Files :
        (Fail /\ call.file = f /\ call.at \in {"created", "written", "synced", "replaced"})
          => Read(f)' = Refused]_vars

\* A ticket that a repeated write finds, and accepts without a write of its own,
\* is as durable as one whose write returned.
RetriesAreDurable ==
  \A f \in Tickets :
    (call = NoCall /\ entry[f].value # None /\ temp[f] = Nothing)
      => durable[f] = entry[f]
=============================================================================
