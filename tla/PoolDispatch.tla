---------------------------- MODULE PoolDispatch ----------------------------
(* The worker pool of codex-pro-dispatch: a client's requests, the canonical *)
(* files the Python helper keeps for them (queue records, dispatch receipts, *)
(* the resident owner with its worker slots, the collector marker), and the  *)
(* runners of the serving evaluations that drive those files and the native  *)
(* chats.  Every helper call holds the state lock, so a call is one action;  *)
(* it makes several separately durable file writes, so when Faulty an action *)
(* may stop after any prefix of them, or finish and lose its acknowledgment. *)
(* A runner belongs to one generation of the owner and outlives it: nothing  *)
(* stops a runner of a replaced generation except the checks of the helper.  *)
EXTENDS Naturals, Sequences

CONSTANTS Requests,  \* request identifiers
          Parents,   \* native tasks that may own the pool
          NumSlots,  \* configured workers; a slot and its worker are one
          MaxGen,    \* bound on owner generations
          Faulty,    \* may a helper call be cut short or its answer be lost?
          Events,    \* which of OptionalEvents may happen
          None       \* no request, no parent

\* Happenings an instance may leave out to keep its states few.
OptionalEvents == {"cancel", "refuse", "cooldown", "abandon", "handoff"}

ASSUME PoolAssumption ==
  /\ NumSlots \in Nat \ {0}
  /\ MaxGen \in Nat \ {0}
  /\ Faulty \in BOOLEAN
  /\ Events \subseteq OptionalEvents
  /\ Parents # {}
  /\ None \notin Requests
  /\ None \notin Parents

Gens  == 1..MaxGen
Slots == 1..NumSlots

VARIABLES
  queue,       \* request -> queue record
  receipt,     \* request -> dispatch receipt
  generation,  \* of the resident owner
  parent,      \* of the resident owner
  session,     \* is a native session bound to the owner?
  slots,       \* slot -> reserved request, its invocation, its phase
  audits,      \* committed takeovers, oldest first; the last is the current one
  marker,      \* generation in the collector marker, 0 when there is none
  run,         \* generation -> request -> where its runner is
  chat,        \* request -> what its worker chat holds for it
  sends        \* request -> native send calls made for it (observed, not stored)

ownerVars == <<generation, parent, session, slots, audits>>
vars == <<queue, receipt, ownerVars, marker, run, chat, sends>>

QueueStates   == {"absent", "queued", "claimed", "published",
                  "acknowledged", "cancelled", "released"}
ReceiptStates == {"absent", "prepared", "armed", "submitted", "indeterminate",
                  "complete", "abandoned"}
PostArm   == {"armed", "submitted", "indeterminate"}
Active    == PostArm \cup {"prepared"}
Settled   == {"complete", "abandoned"}
Phases    == {"idle", "reserved", "running", "collect_only", "cancel_pending"}
Inherited == {"collect_only", "cancel_pending"}
RunnerPCs == {"none", "begun", "claimed", "armed", "observing", "rejected",
              "done", "failed", "ended"}
ChatStates == {"silent", "delivered", "answered", "refused"}

NoRecord  == [st |-> "absent", slot |-> 0, gen |-> 0, parent |-> None,
              established |-> FALSE, staged |-> FALSE]
NoReceipt == [st |-> "absent", slot |-> 0, gen |-> 0, parent |-> None,
              no_resend |-> FALSE, verified |-> FALSE, cooldown |-> "none"]
FreeSlot  == [req |-> None, inv |-> 0, phase |-> "idle"]
NoBinding == [parent |-> None, slot |-> 0]

RecordType  == [st : QueueStates, slot : 0..NumSlots, gen : 0..MaxGen,
                parent : Parents \cup {None}, established : BOOLEAN,
                staged : BOOLEAN]
ReceiptType == [st : ReceiptStates, slot : 0..NumSlots, gen : 0..MaxGen,
                parent : Parents \cup {None}, no_resend : BOOLEAN,
                verified : BOOLEAN, cooldown : {"none", "active", "over"}]
\* An invocation is named by the generation it belongs to: a generation is
\* served once, and a serve begins a request at most once.
SlotType    == [req : Requests \cup {None}, inv : 0..MaxGen, phase : Phases]
BindingType == [parent : Parents \cup {None}, slot : 0..NumSlots]
AuditType   == [from : Parents, cancel : SUBSET Requests,
                collect : SUBSET Requests, bind : [Requests -> BindingType]]

Init ==
  /\ queue = [r \in Requests |-> NoRecord]
  /\ receipt = [r \in Requests |-> NoReceipt]
  /\ generation = 1
  /\ parent \in Parents
  /\ session = FALSE
  /\ slots = [s \in Slots |-> FreeSlot]
  /\ audits = <<>>
  /\ marker = 0
  /\ run = [g \in Gens |-> [r \in Requests |-> "none"]]
  /\ chat = [r \in Requests |-> "silent"]
  /\ sends = [r \in Requests |-> 0]

----------------------------------------------------------------------------
(* Helpers                                                                 *)

\* How a call of n durable writes can end: all done and acknowledged, or, when
\* faults are on, cut after any prefix (all n included: the answer is lost).
Outcomes(n) == {[done |-> n, acked |-> TRUE]} \cup
               (IF Faulty THEN [done : 0..n, acked : {FALSE}] ELSE {})

\* resident.guard: current credentials, and the slot is this invocation's.
Guard(g, r, s) ==
  /\ generation = g
  /\ slots[s].req = r
  /\ slots[s].inv = g
  /\ slots[s].phase \notin Inherited

\* core.active_cooldown: some receipt's account cooldown has not expired.
Cooling == \E r \in Requests : receipt[r].cooldown = "active"

\* resident._other_claim_occupies
OtherClaim(s, r) ==
  \E x \in Requests \ {r} : queue[x].st = "claimed" /\ queue[x].slot = s

\* Queue._pool_occupancy: the worker is used by another claim or receipt.
UsedByOther(s, r) ==
  OtherClaim(s, r) \/ \E x \in Requests \ {r} :
                        receipt[x].st \in Active /\ receipt[x].slot = s

\* No runner invocation is reserved on a slot that could still send.
NoLiveInvocation ==
  \A s \in Slots : slots[s].inv = 0 \/ slots[s].phase = "collect_only"

\* The receipt prepare_assignment saves for a claimed record.
PreparedFor(q, p) == [NoReceipt EXCEPT !.st = "prepared", !.slot = q.slot,
                                       !.gen = q.gen, !.parent = p]

Move(g, r, pc) == run' = [run EXCEPT ![g][r] = pc]

----------------------------------------------------------------------------
(* The client: queue submit, cancel and ack take no owner guard             *)

Submit(r) ==
  /\ queue[r].st = "absent"
  /\ receipt[r].st = "absent"
  /\ queue' = [queue EXCEPT ![r].st = "queued"]
  /\ UNCHANGED <<receipt, ownerVars, marker, run, chat, sends>>

Cancel(r) ==
  /\ "cancel" \in Events
  /\ queue[r].st = "queued"
  /\ queue' = [queue EXCEPT ![r].st = "cancelled"]
  /\ UNCHANGED <<receipt, ownerVars, marker, run, chat, sends>>

Acknowledge(r) ==
  /\ queue[r].st = "published"
  /\ receipt[r].st = "complete"
  /\ queue' = [queue EXCEPT ![r].st = "acknowledged", ![r].staged = FALSE]
  /\ UNCHANGED <<receipt, ownerVars, marker, run, chat, sends>>

----------------------------------------------------------------------------
(* A runner: begin, claim, arm, send once, observe, end                     *)

\* The slot begin selects: the one that already holds r, else the first idle
\* one whose worker no other claim occupies.
BeginsAt(s, r) ==
  \/ slots[s].req = r
  \/ /\ \A t \in Slots : slots[t].req # r
     /\ slots[s].phase = "idle"
     /\ ~OtherClaim(s, r)
     /\ \A t \in Slots : t < s => slots[t].phase # "idle" \/ OtherClaim(t, r)

\* A published request is refused, so no runner begins with its answer there.
Begin(r) ==
  /\ session
  /\ run[generation][r] = "none"
  /\ \E s \in Slots, o \in Outcomes(1) :
       /\ BeginsAt(s, r)
       /\ ~OtherClaim(s, r)
       /\ slots[s].phase \notin Inherited
       /\ \/ queue[r].st \in {"absent", "queued"}
          \/ queue[r].parent = parent /\ queue[r].slot = s
       /\ \/ slots[s].req = r /\ slots[s].inv = 0
          \/ slots[s].req = None /\ queue[r].st \in {"absent", "queued", "claimed"}
       /\ slots' = IF o.done = 0 THEN slots
                   ELSE [slots EXCEPT ![s] = [req |-> r, inv |-> generation,
                                              phase |-> "reserved"]]
       /\ Move(generation, r, IF o.acked THEN "begun" ELSE "failed")
  /\ UNCHANGED <<queue, receipt, generation, parent, session, audits, marker,
                 chat, sends>>

\* queue claim of a queued request on its reserved slot.  Three writes: the
\* claim, the receipt, the mark that the receipt was established.
ClaimQueued(g, r) ==
  /\ run[g][r] = "begun"
  /\ queue[r].st = "queued"
  /\ receipt[r].st = "absent"
  /\ ~Cooling
  /\ \E s \in Slots, o \in Outcomes(3) :
       /\ Guard(g, r, s)
       /\ ~UsedByOther(s, r)
       /\ LET claim == [queue[r] EXCEPT !.st = "claimed", !.slot = s, !.gen = g,
                                        !.parent = parent,
                                        !.established = (o.done = 3)]
          IN /\ queue' = IF o.done = 0 THEN queue
                         ELSE [queue EXCEPT ![r] = claim]
             /\ receipt' = IF o.done < 2 THEN receipt
                           ELSE [receipt EXCEPT ![r] = PreparedFor(claim, parent)]
       /\ Move(g, r, IF o.acked THEN "claimed" ELSE "failed")
  /\ UNCHANGED <<ownerVars, marker, chat, sends>>

\* queue claim of a request an earlier generation claimed: its missing receipt
\* is established first.  Only a prepared receipt is armed, any other observed.
ClaimRetained(g, r) ==
  /\ run[g][r] = "begun"
  /\ queue[r].st = "claimed"
  /\ queue[r].parent = parent
  /\ \E s \in Slots : Guard(g, r, s)
  /\ IF receipt[r].st = "absent"
     THEN /\ ~queue[r].established
          /\ queue[r].gen = generation
          /\ ~Cooling
          /\ ~UsedByOther(queue[r].slot, r)
          /\ \E o \in Outcomes(2) :
               /\ receipt' = IF o.done = 0 THEN receipt
                             ELSE [receipt EXCEPT ![r] = PreparedFor(queue[r], parent)]
               /\ queue' = IF o.done < 2 THEN queue
                           ELSE [queue EXCEPT ![r].established = TRUE]
               /\ Move(g, r, IF o.acked THEN "claimed" ELSE "failed")
     ELSE /\ Move(g, r, IF receipt[r].st = "prepared" THEN "claimed"
                        ELSE "observing")
          /\ UNCHANGED <<queue, receipt>>
  /\ UNCHANGED <<ownerVars, marker, chat, sends>>

\* Mutated: the arm is not saved; the arm is saved without its fence.
ArmNotSaved(rc) == rc
ArmNotFenced(rc) == [rc EXCEPT !.st = "armed"]
\* core.arm_for_send: from here on the receipt forbids a resend.
ArmedReceipt(rc) == [rc EXCEPT !.st = "armed", !.no_resend = TRUE]

\* arm-for-send: the slot is marked running, then the receipt is armed.
Arm(g, r) ==
  /\ run[g][r] = "claimed"
  /\ marker # generation
  /\ queue[r].st = "claimed"
  /\ queue[r].parent = parent
  /\ queue[r].gen <= g
  /\ receipt[r].st = "prepared"
  /\ receipt[r].gen <= g
  /\ ~Cooling
  /\ \E s \in Slots, o \in Outcomes(2) :
       /\ Guard(g, r, s)
       /\ queue[r].slot = s
       /\ receipt[r].slot = s
       /\ slots[s].phase = "reserved"
       /\ slots' = IF o.done = 0 THEN slots
                   ELSE [slots EXCEPT ![s].phase = "running"]
       /\ receipt' = IF o.done < 2 THEN receipt
                     ELSE [receipt EXCEPT ![r] = ArmedReceipt(@)]
       /\ Move(g, r, IF o.acked THEN "armed" ELSE "failed")
  /\ UNCHANGED <<queue, generation, parent, session, audits, marker, chat, sends>>

\* The native send.  It happens outside the lock: the owner may have been
\* replaced since the arm.  The message may be lost.
Send(g, r) ==
  /\ run[g][r] = "armed"
  /\ sends' = [sends EXCEPT ![r] = @ + 1]
  /\ \/ chat' = chat
     \/ chat[r] = "silent" /\ chat' = [chat EXCEPT ![r] = "delivered"]
  /\ Move(g, r, "observing")
  /\ UNCHANGED <<queue, receipt, ownerVars, marker>>

\* The worker chat replies, well or not.
Answer(r) ==
  /\ chat[r] = "delivered"
  /\ \E c \in {"answered", "refused"} :
       /\ c = "refused" => "refuse" \in Events
       /\ chat' = [chat EXCEPT ![r] = c]
  /\ UNCHANGED <<queue, receipt, ownerVars, marker, run, sends>>

\* What a history read may return: it is taken before the helper has the lock.
Snapshots(r) == CASE chat[r] = "silent"    -> {}
                  [] chat[r] = "delivered" -> {"delivered"}
                  [] OTHER                 -> {"delivered", chat[r]}

Observable(r) ==
  /\ queue[r].st \in {"claimed", "published"}
  /\ receipt[r].st \in PostArm \cup {"complete"}
  /\ receipt[r].no_resend

\* core.mark_submitted, called by observe while delivery is not yet verified
Submitted(rc) == IF rc.verified THEN rc
                 ELSE [rc EXCEPT !.st = "submitted", !.verified = TRUE]

\* Mutated: the answer is published as soon as it is staged.
PublishedEarly(q, n) ==
  IF n < 2 THEN q ELSE [q EXCEPT !.staged = TRUE, !.st = "published"]
\* The record and the receipt after n writes of an observation.
ObservedRecord(q, n) ==
  IF n < 2 THEN q
  ELSE [q EXCEPT !.staged = TRUE, !.st = IF n = 4 THEN "published" ELSE @]
ObservedReceipt(rc, n) ==
  CASE n = 0      -> rc
    [] n \in 1..2 -> Submitted(rc)
    [] OTHER      -> [Submitted(rc) EXCEPT !.st = "complete"]

\* queue observe.  A valid answer is staged, completes the receipt, and is
\* published, in that order; other histories only record delivery.  A staged
\* history is read instead of the chat.
ObserveWrites(r, seen, o) ==
  /\ seen \in (IF queue[r].staged THEN {"answered"} ELSE Snapshots(r))
  /\ o \in Outcomes(IF seen = "answered" THEN 4 ELSE 1)
  /\ receipt' = [receipt EXCEPT ![r] = ObservedReceipt(@, o.done)]
  /\ queue' = [queue EXCEPT ![r] = ObservedRecord(@, o.done)]

Observe(g, r) ==
  /\ run[g][r] = "observing"
  /\ \E s \in Slots : Guard(g, r, s)
  /\ queue[r].parent = parent
  /\ Observable(r)
  /\ \E seen \in ChatStates, o \in Outcomes(4) \cup Outcomes(1) :
       /\ ObserveWrites(r, seen, o)
       /\ Move(g, r, CASE ~o.acked          -> "failed"
                       [] seen = "answered" -> "done"
                       [] seen = "refused"  -> "rejected"
                       [] OTHER             -> "observing")
  /\ UNCHANGED <<ownerVars, marker, chat, sends>>

\* A runner stops before arm: rendezvous expired, chat busy, call rejected.
Fail(g, r) ==
  /\ run[g][r] \in {"begun", "claimed"}
  /\ Move(g, r, "failed")
  /\ UNCHANGED <<queue, receipt, ownerVars, marker, chat, sends>>

\* A runner stops after arm.  With its helper joined it records that a send may
\* have happened, if the helper still accepts it.
FailArmed(g, r) ==
  /\ run[g][r] \in {"armed", "observing", "rejected"}
  /\ \/ /\ \E s \in Slots : Guard(g, r, s)
        /\ receipt[r].st \in PostArm
        /\ receipt' = [receipt EXCEPT ![r].st = "indeterminate",
                                      ![r].no_resend = TRUE]
     \/ receipt' = receipt
  /\ Move(g, r, "failed")
  /\ UNCHANGED <<queue, ownerVars, marker, chat, sends>>

\* Mutated: the receipt is not looked at; a slot that has run is not ended.
MayEndUnsettled(g, r, s) ==
  /\ generation = g
  /\ queue[r].parent = parent /\ queue[r].slot = s
  /\ slots[s].req = r /\ slots[s].inv = g /\ slots[s].phase # "collect_only"
MayEndReserved(g, r, s) ==
  MayEndUnsettled(g, r, s) /\ receipt[r].st \in Settled
                           /\ slots[s].phase = "reserved"
\* resident end by the invocation that began, once its receipt is settled.
MayEnd(g, r, s) ==
  /\ generation = g
  /\ queue[r].parent = parent
  /\ receipt[r].st \in Settled
  /\ slots[s].req = r
  /\ slots[s].inv = g
  /\ slots[s].phase # "collect_only"
  /\ queue[r].slot = s

End(g, r) ==
  /\ run[g][r] \in {"done", "failed"}
  /\ \E s \in Slots, o \in Outcomes(1) :
       /\ MayEnd(g, r, s)
       /\ slots' = IF o.done = 0 THEN slots ELSE [slots EXCEPT ![s] = FreeSlot]
       /\ Move(g, r, IF o.acked THEN "ended" ELSE "failed")
  /\ UNCHANGED <<queue, receipt, generation, parent, session, audits, marker,
                 chat, sends>>

\* Mutated: the receipt of the abandoned assignment is removed.
Forgotten(rc) == NoReceipt
\* core.abandon_assignment
Abandoned(rc) == [rc EXCEPT !.st = "abandoned"]

\* The user gives up the request of a stopped runner, with its invocation.
Abandon(g, r) ==
  /\ "abandon" \in Events
  /\ run[g][r] = "failed"
  /\ \E s \in Slots : Guard(g, r, s)
  /\ receipt[r].st \in Active
  /\ receipt' = [receipt EXCEPT ![r] = Abandoned(@)]
  /\ UNCHANGED <<queue, ownerVars, marker, run, chat, sends>>

Release(g, r) ==
  /\ run[g][r] = "failed"
  /\ \E s \in Slots : Guard(g, r, s)
  /\ queue[r].st = "claimed"
  /\ queue[r].parent = parent
  /\ receipt[r].st = "abandoned"
  /\ queue' = [queue EXCEPT ![r].st = "released", ![r].staged = FALSE]
  /\ UNCHANGED <<receipt, ownerVars, marker, run, chat, sends>>

\* Mutated: any receipt will do.
MayReport403Any(rc) == rc.st # "absent" /\ rc.cooldown = "none"
MayReport403(rc) == rc.st \in PostArm /\ rc.cooldown = "none"

\* core.mark_unusual_activity_403 starts the account cooldown; also the
\* observer that prepared the receipt may report it after a rotation.
UnusualActivity403(r) ==
  /\ "cooldown" \in Events
  /\ MayReport403(receipt[r])
  /\ receipt' = [receipt EXCEPT ![r].st = "indeterminate", ![r].no_resend = TRUE,
                                ![r].cooldown = "active"]
  /\ UNCHANGED <<queue, ownerVars, marker, run, chat, sends>>

CooldownExpires(r) ==
  /\ receipt[r].cooldown = "active"
  /\ receipt' = [receipt EXCEPT ![r].cooldown = "over"]
  /\ UNCHANGED <<queue, ownerVars, marker, run, chat, sends>>

----------------------------------------------------------------------------
(* The owner: start, bind, recover, collect                                 *)

Start ==
  /\ generation < MaxGen
  /\ ~session
  /\ NoLiveInvocation
  /\ \A s \in Slots : slots[s].phase # "cancel_pending"
  /\ (\E s \in Slots : slots[s].phase = "collect_only") =>
       \E s \in Slots : slots[s].phase = "idle"
  /\ generation' = generation + 1
  /\ UNCHANGED <<queue, receipt, parent, session, slots, audits, marker, run,
                 chat, sends>>

BindSession ==
  /\ ~session
  /\ NoLiveInvocation
  /\ session' = TRUE
  /\ UNCHANGED <<queue, receipt, generation, parent, slots, audits, marker, run,
                 chat, sends>>

\* Mutated: only the mark in the record is trusted.
NotEstablished(r) == queue[r].st = "claimed" /\ ~queue[r].established
\* A claim whose receipt was never written: recovery re-stamps its generation.
PreReceipt(r) == /\ queue[r].st = "claimed"
                 /\ receipt[r].st = "absent"
                 /\ ~queue[r].established

\* Mutated: a misspelt phase; inherited work is classified again; a claim
\* without receipt is freed.
RecoveredMisspelt(slot) ==
  IF slot.req = None THEN slot ELSE [slot EXCEPT !.inv = 0, !.phase = "collecting"]
RecoveredAgain(slot) ==
  IF slot.req = None THEN slot
  ELSE [slot EXCEPT !.inv = 0,
          !.phase = IF receipt[slot.req].st = "prepared" THEN "reserved"
                    ELSE "collect_only"]
RecoveredFreed(slot) ==
  IF slot.req = None THEN slot
  ELSE IF PreReceipt(slot.req) THEN FreeSlot
  ELSE [slot EXCEPT !.inv = 0, !.phase = "collect_only"]
\* The phase recover-start gives a slot.
RecoveredSlot(slot) ==
  LET r == slot.req IN
  IF r = None THEN slot
  ELSE IF slot.phase \in Inherited THEN [slot EXCEPT !.inv = 0]
  ELSE IF queue[r].st = "absent" THEN FreeSlot
  ELSE [slot EXCEPT !.inv = 0,
          !.phase = IF receipt[r].st = "prepared" \/ queue[r].st = "queued"
                       \/ PreReceipt(r)
                    THEN "reserved" ELSE "collect_only"]

\* recover-start: fences the generation on evidence that its runners are gone
\* (nothing here relies on that evidence).  Re-stamped claims precede the owner.
RecoverStart ==
  /\ generation < MaxGen
  /\ marker # generation
  /\ \E o \in Outcomes(NumSlots + 1) :
       /\ queue' = [r \in Requests |->
            IF /\ PreReceipt(r)
               /\ \E s \in Slots : /\ s <= o.done
                                   /\ slots[s].req = r
                                   /\ slots[s].phase \notin Inherited
            THEN [queue[r] EXCEPT !.gen = generation + 1] ELSE queue[r]]
       /\ IF o.done = NumSlots + 1
          THEN /\ generation' = generation + 1
               /\ session' = FALSE
               /\ slots' = [s \in Slots |-> RecoveredSlot(slots[s])]
          ELSE UNCHANGED <<generation, session, slots>>
  /\ UNCHANGED <<receipt, parent, audits, marker, run, chat, sends>>

\* collector-open; a marker of an earlier generation is retired.
CollectorOpen ==
  /\ marker # generation
  /\ marker' = generation
  /\ UNCHANGED <<queue, receipt, ownerVars, run, chat, sends>>

CollectorClose ==
  /\ marker = generation
  /\ marker' = 0
  /\ UNCHANGED <<queue, receipt, ownerVars, run, chat, sends>>

\* resident._takeover_binding: where a request stood before the takeovers that
\* list it.  Evidence that disagrees is invalid.
Bound(i, r) == audits[i].bind[r].slot # 0
BindingValid(r) ==
  LET pending == \E s \in Slots : slots[s].req = r
                                  /\ slots[s].phase = "cancel_pending"
  IN \A i \in DOMAIN audits : Bound(i, r) =>
       /\ r \in IF pending THEN audits[i].cancel ELSE audits[i].collect
       /\ \A j \in DOMAIN audits :
            Bound(j, r) => audits[j].bind[r] = audits[i].bind[r]
       /\ (\A j \in 1..(i - 1) : ~Bound(j, r)) =>
            audits[i].bind[r].parent = audits[i].from
Binding(r) ==
  IF \E i \in DOMAIN audits : Bound(i, r)
  THEN audits[CHOOSE i \in DOMAIN audits : Bound(i, r)].bind[r]
  ELSE NoBinding

\* The takeover the qualification of the owner shows, if any.
CurrentBind(r) == IF audits = <<>> THEN NoBinding
                  ELSE audits[Len(audits)].bind[r]
CurrentCancel  == IF audits = <<>> THEN {} ELSE audits[Len(audits)].cancel
CurrentCollect == IF audits = <<>> THEN {} ELSE audits[Len(audits)].collect

\* Mutated: the record must name the new parent.
SettlementScopeNew(s, r) ==
  /\ slots[s].req = r /\ slots[s].phase \in Inherited
  /\ CurrentBind(r).slot = s
  /\ queue[r].parent = parent /\ queue[r].slot = s
\* What resident._settlement_binding requires of a request on slot s, apart
\* from the states each operation permits.
SettlementScope(s, r) ==
  /\ slots[s].req = r
  /\ slots[s].phase \in Inherited
  /\ CurrentBind(r).slot = s
  /\ r \in IF slots[s].phase = "cancel_pending" THEN CurrentCancel
                                                ELSE CurrentCollect
  /\ queue[r].st \notin {"absent", "queued"} =>
       queue[r].parent = CurrentBind(r).parent /\ queue[r].slot = s

\* The collector observes inherited work, under the marker, and nothing else.
CollectorObserve(r) ==
  /\ marker = generation
  /\ Observable(r)
  /\ \E s \in Slots :
       /\ slots[s].req = r
       /\ slots[s].phase = "collect_only"
       /\ queue[r].slot = s
       /\ queue[r].parent # parent =>
            /\ r \in CurrentCollect
            /\ BindingValid(r)
            /\ Binding(r) = [parent |-> queue[r].parent, slot |-> s]
  /\ \E seen \in ChatStates, o \in Outcomes(4) \cup Outcomes(1) :
       ObserveWrites(r, seen, o)
  /\ UNCHANGED <<ownerVars, marker, run, chat, sends>>

\* Mutated: inherited work is ended whatever its receipt says.
MayEndAnyCollected(s, r) ==
  slots[s].req = r /\ slots[s].phase = "collect_only" /\ queue[r].slot = s
\* resident end of an inherited slot: through the settlement scope when the
\* current takeover binds the request, else on a settled receipt.
MayEndCollected(s, r) ==
  /\ slots[s].req = r
  /\ slots[s].phase = "collect_only"
  /\ receipt[r].st \in Settled
  /\ IF CurrentBind(r).slot # 0 THEN SettlementScope(s, r)
     ELSE /\ queue[r].slot = s
          /\ queue[r].parent # parent =>
               BindingValid(r) /\ Binding(r).parent = queue[r].parent

EndCollected(r) ==
  /\ \E s \in Slots :
       /\ MayEndCollected(s, r)
       /\ slots' = [slots EXCEPT ![s] = FreeSlot]
  /\ UNCHANGED <<queue, receipt, generation, parent, session, audits, marker,
                 run, chat, sends>>

----------------------------------------------------------------------------
(* Takeover by another parent, its settlement, and the idle handoff         *)

\* Mutated: the slot and the record decide, the receipt is not read.
CancellableClaim(s) ==
  \/ slots[s].phase = "cancel_pending"
  \/ /\ slots[s].phase \in {"reserved", "running"}
     /\ queue[slots[s].req].st \in {"queued", "claimed"}
\* The narrow shapes a takeover cancels; all else it only collects.
Cancellable(s) ==
  LET r == slots[s].req IN
  \/ slots[s].phase = "cancel_pending"
  \/ /\ slots[s].phase = "reserved"
     /\ \/ queue[r].st = "queued"
        \/ PreReceipt(r)
        \/ /\ queue[r].st = "claimed"
           /\ queue[r].established
           /\ receipt[r].st = "prepared"
           /\ ~receipt[r].no_resend

Kept(s) == slots[s].req # None /\ queue[slots[s].req].st # "absent"

\* resident._takeover_slot_record refuses any other occupied slot.
TakeoverEvidence(s) ==
  LET r == slots[s].req IN
  Kept(s) =>
    /\ BindingValid(r)
    /\ queue[r].parent \notin {None, parent} =>
         /\ slots[s].phase \in Inherited
         /\ Binding(r) = [parent |-> queue[r].parent, slot |-> s]
    /\ \/ queue[r].st \in {"queued", "claimed", "published"}
       \/ receipt[r].st \in Settled
    /\ queue[r].st # "queued" => queue[r].slot = s

TakeoverBind(r, s) ==
  IF Binding(r).slot # 0 THEN Binding(r)
  ELSE [parent |-> IF queue[r].parent = None THEN parent ELSE queue[r].parent,
        slot |-> s]

\* One owner write.  The host says the replaced task is idle or gone; its
\* runners are not asked.
Takeover(p) ==
  /\ generation < MaxGen
  /\ p # parent
  /\ \A r \in Requests : receipt[r].st \in Active =>
       /\ queue[r].st \in {"claimed", "published"}
       /\ \E s \in Slots : slots[s].req = r
  /\ \A r \in Requests : queue[r].st = "claimed" =>
       \E s \in Slots : slots[s].req = r /\ queue[r].slot = s
  /\ \A s \in Slots : TakeoverEvidence(s)
  /\ LET At(r, s) == slots[s].req = r /\ Kept(s)
         held     == {r \in Requests : \E s \in Slots : At(r, s)}
         cancel   == {r \in held : \E s \in Slots : At(r, s) /\ Cancellable(s)}
     IN /\ audits' = Append(audits,
             [from |-> parent, cancel |-> cancel, collect |-> held \ cancel,
              bind |-> [r \in Requests |->
                IF r \in held
                THEN TakeoverBind(r, CHOOSE s \in Slots : At(r, s))
                ELSE NoBinding]])
        /\ slots' = [s \in Slots |->
             IF ~Kept(s) THEN FreeSlot
             ELSE [slots[s] EXCEPT !.inv = 0,
                     !.phase = IF Cancellable(s) THEN "cancel_pending"
                                                 ELSE "collect_only"]]
  /\ generation' = generation + 1
  /\ parent' = p
  /\ session' = FALSE
  /\ UNCHANGED <<queue, receipt, marker, run, chat, sends>>

\* resident settle, for one request it cancels: at most five writes, each of
\* which a repeated call finds done.  The receipt is created when the claim has
\* none, marked established, abandoned, the claim released, the slot freed.
Settle(r) ==
  /\ r \in CurrentCancel
  /\ \E s \in Slots, o \in Outcomes(5) :
       /\ SettlementScope(s, r)
       /\ slots[s].phase = "cancel_pending"
       /\ IF queue[r].st \in {"absent", "queued"}
          THEN /\ receipt[r].st = "absent"
               /\ UNCHANGED <<queue, receipt>>
          ELSE /\ queue[r].st \in {"claimed", "released"}
               /\ receipt[r].st = "absent" => /\ PreReceipt(r)
                                              /\ ~Cooling
                                              /\ ~UsedByOther(s, r)
               /\ receipt[r].st \in {"absent", "prepared", "abandoned"}
               /\ receipt' = CASE o.done = 0 -> receipt
                    [] o.done \in 1..2 /\ receipt[r].st = "absent" ->
                         [receipt EXCEPT ![r] =
                            PreparedFor(queue[r], CurrentBind(r).parent)]
                    [] o.done > 2 ->
                         [receipt EXCEPT ![r] =
                            Abandoned(IF receipt[r].st = "absent"
                                      THEN PreparedFor(queue[r], CurrentBind(r).parent)
                                      ELSE receipt[r])]
                    [] OTHER -> receipt
               /\ queue' = [queue EXCEPT
                    ![r].established = @ \/ o.done > 1,
                    ![r].st = IF o.done > 3 THEN "released" ELSE @]
       /\ slots' = IF o.done = 5 THEN [slots EXCEPT ![s] = FreeSlot] ELSE slots
  /\ UNCHANGED <<generation, parent, session, audits, marker, run, chat, sends>>

\* The new owner gives up inherited work the takeover left to collect.
SettleAbandon(r) ==
  /\ "abandon" \in Events
  /\ \E s \in Slots : SettlementScope(s, r) /\ slots[s].phase = "collect_only"
  /\ receipt[r].st \in Active
  /\ receipt' = [receipt EXCEPT ![r] = Abandoned(@)]
  /\ UNCHANGED <<queue, ownerVars, marker, run, chat, sends>>

SettleRelease(r) ==
  /\ \E s \in Slots : SettlementScope(s, r) /\ slots[s].phase = "collect_only"
  /\ queue[r].st = "claimed"
  /\ receipt[r].st = "abandoned"
  /\ queue' = [queue EXCEPT ![r].st = "released", ![r].staged = FALSE]
  /\ UNCHANGED <<receipt, ownerVars, marker, run, chat, sends>>

\* resident handoff: everything idle, and the serving evaluation has joined.
Handoff(p) ==
  /\ "handoff" \in Events
  /\ generation < MaxGen
  /\ p # parent
  /\ marker # generation
  /\ \A s \in Slots : slots[s] = FreeSlot
  /\ \A r \in Requests : receipt[r].st \notin Active /\ queue[r].st # "claimed"
  /\ session
  /\ \A r \in Requests : run[generation][r] \in {"none", "ended"}
  /\ generation' = generation + 1
  /\ parent' = p
  /\ session' = FALSE
  /\ UNCHANGED <<queue, receipt, slots, audits, marker, run, chat, sends>>

----------------------------------------------------------------------------
ClientStep(r) == Submit(r) \/ Cancel(r) \/ Acknowledge(r)

RunnerStep(g, r) ==
  \/ ClaimQueued(g, r) \/ ClaimRetained(g, r)
  \/ Arm(g, r) \/ Send(g, r) \/ Observe(g, r)
  \/ Fail(g, r) \/ FailArmed(g, r)
  \/ End(g, r) \/ Abandon(g, r) \/ Release(g, r)

ChatStep(r) == Answer(r) \/ UnusualActivity403(r) \/ CooldownExpires(r)

OwnerStep ==
  \/ Start \/ BindSession \/ RecoverStart \/ CollectorOpen \/ CollectorClose
  \/ \E p \in Parents : Takeover(p) \/ Handoff(p)
  \/ \E r \in Requests : \/ Begin(r) \/ CollectorObserve(r) \/ EndCollected(r)
                         \/ Settle(r) \/ SettleAbandon(r) \/ SettleRelease(r)

Next ==
  \/ \E r \in Requests : ClientStep(r) \/ ChatStep(r)
  \/ \E g \in Gens, r \in Requests : RunnerStep(g, r)
  \/ OwnerStep

Spec == Init /\ [][Next]_vars

----------------------------------------------------------------------------
(* Properties                                                               *)

TypeOK ==
  /\ queue \in [Requests -> RecordType]
  /\ receipt \in [Requests -> ReceiptType]
  /\ generation \in Gens
  /\ parent \in Parents
  /\ session \in BOOLEAN
  /\ slots \in [Slots -> SlotType]
  /\ audits \in Seq(AuditType)
  /\ marker \in 0..MaxGen
  /\ run \in [Gens -> [Requests -> RunnerPCs]]
  /\ chat \in [Requests -> ChatStates]
  /\ sends \in [Requests -> Nat]

\* A request is sent to a worker chat at most once, whatever crashes, lost
\* acknowledgments, recoveries, takeovers and runners of replaced generations
\* there are (the arm fence of core.arm_for_send).
AtMostOneSend == \A r \in Requests : sends[r] <= 1

\* Nothing was sent, and no runner may send, unless the receipt durably forbids
\* a resend, as every receipt does from its arm on and none does before; and at
\* most one runner of all generations holds the permission.
SendIsFenced ==
  \A r \in Requests :
    /\ receipt[r].st \in PostArm \cup {"complete"} => receipt[r].no_resend
    /\ receipt[r].st \in {"absent", "prepared"} => ~receipt[r].no_resend
    /\ sends[r] > 0 => receipt[r].no_resend
    /\ \A g \in Gens : run[g][r] = "armed" =>
         /\ receipt[r].no_resend
         /\ sends[r] = 0
         /\ \A h \in Gens \ {g} : run[h][r] # "armed"

\* Work that may be in a worker chat keeps that worker's slot: no two requests
\* are ever unresolved on one slot, and no call frees a slot too early.
ActiveHoldsSlot ==
  \A r \in Requests : receipt[r].st \in Active =>
    /\ queue[r].st = "claimed"
    /\ slots[receipt[r].slot].req = r
    /\ slots[receipt[r].slot].phase # "idle"

\* A claim and its receipt never disagree, and an established receipt exists:
\* Queue.receipt would refuse the request for good otherwise.
ClaimMatchesReceipt ==
  \A r \in Requests :
    /\ receipt[r].st # "absent" =>
         /\ queue[r].slot = receipt[r].slot
         /\ queue[r].gen = receipt[r].gen
         /\ queue[r].parent = receipt[r].parent
    /\ (queue[r].established \/ queue[r].st \in {"published", "acknowledged", "released"})
         => receipt[r].st # "absent"

\* What a client is given as published was sent once, verified as delivered,
\* answered well, and staged or already acknowledged.
PublishedIsAnswered ==
  \A r \in Requests :
    /\ queue[r].st \in {"published", "acknowledged"} =>
         /\ receipt[r].st = "complete"
         /\ receipt[r].verified
         /\ chat[r] = "answered"
    /\ receipt[r].st = "complete" =>
         queue[r].staged \/ queue[r].st = "acknowledged"

\* A takeover cancels only what was never sent and never can be, also by a
\* runner of the generation it replaced that has not noticed.
CancelledIsUnsent ==
  \A s \in Slots : slots[s].phase = "cancel_pending" =>
    /\ sends[slots[s].req] = 0
    /\ ~receipt[slots[s].req].no_resend
    /\ \A g \in Gens : run[g][slots[s].req] # "armed"

\* Each request is reserved on one slot, and each invocation on a slot belongs
\* to the current generation.
ReservationsAreCurrent ==
  \A s \in Slots :
    /\ slots[s].inv \in {0, generation}
    /\ slots[s].inv # 0 => slots[s].phase \in {"reserved", "running"}
    /\ slots[s].req # None => \A t \in Slots \ {s} : slots[t].req # slots[s].req
    /\ (slots[s].phase = "idle") <=> (slots[s].req = None)

\* No two claims share a worker: Queue._pool_occupancy would refuse every later
\* claim of the pool.
OneClaimPerWorker ==
  \A r, x \in Requests :
    (r # x /\ queue[r].st = "claimed" /\ queue[x].st = "claimed") =>
      queue[r].slot # queue[x].slot

\* A claim that no slot holds is settled: nothing can be sent for it, and what
\* is left is to publish its staged answer or to release it.
ClaimHoldsSlot ==
  \A r \in Requests : queue[r].st = "claimed" =>
    \/ slots[queue[r].slot].req = r
    \/ receipt[r].st \in Settled

\* The slots, the claims and the receipts, which are files of their own, agree
\* on who holds which worker.
WorkersAreHeldOnce == ReservationsAreCurrent /\ OneClaimPerWorker /\ ClaimHoldsSlot

\* Inherited work never becomes sendable again: a slot that a recovery or a
\* takeover left to collect or to cancel keeps its request and stays so until
\* it is freed.
InheritedStaysInherited ==
  [][\A s \in Slots : slots[s].phase \in Inherited =>
       \/ slots'[s] = FreeSlot
       \/ /\ slots'[s].req = slots[s].req
          /\ slots'[s].phase = slots[s].phase
          /\ slots'[s].inv = 0]_vars

\* A slot is freed only of settled work or of work that was never armed.
FreedOnlySettled ==
  [][\A s \in Slots : LET r == slots[s].req IN
       (r # None /\ slots'[s].req # r) =>
         \/ receipt'[r].st \in Settled
         \/ receipt'[r].st = "absent" /\ sends[r] = 0]_vars

\* Receipts only move forward: a settled receipt never changes its status
\* again, and what forbids a resend or verifies delivery is never taken back.
ReceiptsMoveForward ==
  [][\A r \in Requests :
       /\ receipt[r].st \in Settled => receipt'[r].st = receipt[r].st
       /\ receipt[r].st # "absent" => receipt'[r].st # "absent"
       /\ receipt[r].st \in PostArm => receipt'[r].st # "prepared"
       /\ receipt[r].no_resend => receipt'[r].no_resend
       /\ receipt[r].verified => receipt'[r].verified]_vars

\* Once an inherited request's receipt is settled its slot can be ended, so its
\* worker is not lost, except for a request an earlier takeover cancelled while
\* it was still queued and that was begun again: the retained takeover entry
\* makes resident end refuse it.
SettledCanEnd ==
  \A s \in Slots : LET r == slots[s].req IN
    (slots[s].phase = "collect_only" /\ receipt[r].st \in Settled) =>
      \/ MayEndCollected(s, r)
      \/ \E i \in DOMAIN audits : r \in audits[i].cancel

\* The request ledger the canonical files stand for.
ledger == [r \in Requests |->
  CASE receipt[r].st = "complete"                       -> "complete"
    [] receipt[r].st = "abandoned" /\ receipt[r].no_resend -> "withdrawn"
    [] receipt[r].st = "abandoned" /\ ~receipt[r].no_resend -> "dropped"
    [] receipt[r].st \in PostArm                         -> "committed"
    [] queue[r].st = "cancelled" /\ receipt[r].st = "absent" -> "dropped"
    [] OTHER                                             -> "open"]

Abstract == INSTANCE SendOnce

\* The pool implements the at-most-once ledger: every write of every helper
\* call and every native send is one step of it, or none.
ImplementsSendOnce == Abstract!Spec

\* Fairness of a serve whose calls all return: its scheduler runs each runner,
\* a rejected answer or a replaced owner stops it, and a chat replies to what
\* reached it.
ServeFairness ==
  /\ WF_vars(BindSession)
  /\ \A r \in Requests : WF_vars(Answer(r))
  /\ \A g \in Gens, r \in Requests :
       /\ WF_vars(\/ ClaimQueued(g, r) \/ ClaimRetained(g, r)
                  \/ Arm(g, r) \/ Fail(g, r))
       /\ WF_vars(Send(g, r))
       /\ WF_vars(Observe(g, r))
       /\ WF_vars(FailArmed(g, r) /\ (run[g][r] = "rejected" \/ generation # g))
       /\ WF_vars(End(g, r))

FairSpec == Spec /\ ServeFairness

\* A serve never keeps a reservation silently: each request it has begun is
\* ended with its slot free, or its runner stops (a pending result, which keeps
\* the slot by design, is one of its exits), or the owner is replaced, or its
\* message was lost on the way to the chat.
BegunIsEnded ==
  \A g \in Gens, r \in Requests :
    (run[g][r] = "begun" /\ queue[r].st # "absent") ~>
      \/ run[g][r] = "ended" /\ \A s \in Slots : slots[s].req # r
      \/ run[g][r] = "failed"
      \/ generation # g
      \/ run[g][r] = "observing" /\ chat[r] = "silent"

\* What recover-start says of itself: "A begin reservation with no receipt has
\* not crossed arm. Keep it sendable, or release a missing request so the slot
\* cannot deadlock" (resident.py).  A cancelled request's slot is neither.
NoReceiptNotInherited ==
  \A s \in Slots : slots[s].phase = "collect_only" =>
    receipt[slots[s].req].st # "absent"

=============================================================================
