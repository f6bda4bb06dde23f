------------------------- MODULE PoolDispatchProofs -------------------------
(* The worker pool sends once, behind its fence, implements the ledger of    *)
(* SendOnce, never takes a receipt back, and publishes answers only: for     *)
(* every number of requests, parents, slots and generations, with and        *)
(* without faults.                                                           *)
EXTENDS PoolDispatch, TLAPS

----------------------------------------------------------------------------
(* Facts about the helpers                                                 *)

\* A call that is acknowledged has made all its writes.
LEMMA OutcomeFacts ==
  ASSUME NEW n \in Nat, NEW o \in Outcomes(n)
  PROVE  /\ o.done \in 0..n
         /\ o.acked \in BOOLEAN
         /\ o.acked => o.done = n
<1>1. CASE o \in {[done |-> n, acked |-> TRUE]}
  <2>1. o = [done |-> n, acked |-> TRUE]
    BY <1>1
  <2>2. o.done = n /\ n \in 0..n
    BY <2>1
  <2>3. o.acked = TRUE
    BY <2>1
  <2>4. QED
    BY <2>2, <2>3
<1>2. CASE o \in [done : 0..n, acked : {FALSE}]
  BY <1>2
<1>3. QED
  BY <1>1, <1>2, Zenon DEF Outcomes

\* Observing keeps a receipt a receipt, and its fence with it.
LEMMA ObservedReceiptType ==
  ASSUME NEW rc \in ReceiptType, NEW n \in Nat
  PROVE  /\ ObservedReceipt(rc, n) \in ReceiptType
         /\ ObservedReceipt(rc, n).no_resend = rc.no_resend
         /\ n = 0 => ObservedReceipt(rc, n) = rc
         /\ n > 0 => ObservedReceipt(rc, n).st \in {rc.st, "submitted", "complete"}
<1>1. Submitted(rc) \in ReceiptType
  BY DEF Submitted, ReceiptType, ReceiptStates
<1>2. Submitted(rc).no_resend = rc.no_resend
  BY DEF Submitted, ReceiptType
<1>3. Submitted(rc).st \in {rc.st, "submitted"}
  BY DEF Submitted, ReceiptType
<1>4. CASE n = 0
  BY <1>4 DEF ObservedReceipt
<1>5. CASE n \in 1..2
  BY <1>1, <1>2, <1>3, <1>5 DEF ObservedReceipt
<1>6. CASE n \notin 0..2
  <2>1. ObservedReceipt(rc, n) = [Submitted(rc) EXCEPT !.st = "complete"]
    BY <1>6 DEF ObservedReceipt
  <2>2. QED
    BY <1>1, <1>2, <1>6, <2>1 DEF ReceiptType, ReceiptStates
<1>7. QED
  BY <1>4, <1>5, <1>6

\* Observing keeps a record a record.
LEMMA ObservedRecordType ==
  ASSUME NEW q \in RecordType, NEW n \in Nat
  PROVE  ObservedRecord(q, n) \in RecordType
BY DEF ObservedRecord, RecordType, QueueStates

\* A runner that moves is still a runner; only it moves.
LEMMA MoveType ==
  ASSUME TypeOK, NEW g \in Gens, NEW r \in Requests, NEW pc \in RunnerPCs,
         Move(g, r, pc)
  PROVE  /\ run' \in [Gens -> [Requests -> RunnerPCs]]
         /\ run'[g][r] = pc
         /\ \A h \in Gens, x \in Requests :
              (h # g \/ x # r) => run'[h][x] = run[h][x]
BY DEF TypeOK, Move

\* Recovery gives every slot one of the phases a slot may have.
LEMMA RecoveredSlotType ==
  ASSUME NEW slot \in SlotType
  PROVE  RecoveredSlot(slot) \in SlotType
<1>1. FreeSlot \in SlotType
  BY PoolAssumption DEF FreeSlot, SlotType, Phases
<1>2. ASSUME NEW ph \in Phases
      PROVE  [slot EXCEPT !.inv = 0, !.phase = ph] \in SlotType
  <2>1. 0 \in 0..MaxGen
    BY PoolAssumption
  <2>2. QED
    BY <2>1 DEF SlotType
<1>3. [slot EXCEPT !.inv = 0] \in SlotType
  BY PoolAssumption DEF SlotType
<1>4. QED
  BY <1>1, <1>2, <1>3 DEF RecoveredSlot, Phases

\* What the takeovers recorded of a request is a binding.
LEMMA BindingTyped ==
  ASSUME TypeOK, NEW r \in Requests
  PROVE  /\ Binding(r) \in BindingType
         /\ CurrentBind(r) \in BindingType
<1>1. NoBinding \in BindingType
  BY PoolAssumption DEF NoBinding, BindingType
<1>2. \A i \in DOMAIN audits : audits[i].bind[r] \in BindingType
  <2>1. TAKE i \in DOMAIN audits
  <2>2. audits[i] \in AuditType
    BY DEF TypeOK
  <2>3. audits[i].bind \in [Requests -> BindingType]
    BY <2>2 DEF AuditType
  <2>4. QED
    BY <2>3
<1>3. Binding(r) \in BindingType
  BY <1>1, <1>2 DEF Binding
<1>4. audits # <<>> => Len(audits) \in DOMAIN audits
  BY DEF TypeOK
<1>5. CurrentBind(r) \in BindingType
  BY <1>1, <1>2, <1>4 DEF CurrentBind
<1>6. QED
  BY <1>3, <1>5

\* The prepared receipt of a claimed record is a receipt.
LEMMA PreparedForType ==
  ASSUME NEW q \in RecordType, NEW p \in Parents \cup {None}
  PROVE  /\ PreparedFor(q, p) \in ReceiptType
         /\ PreparedFor(q, p).st = "prepared"
         /\ PreparedFor(q, p).no_resend = FALSE
         /\ PreparedFor(q, p).verified = FALSE
BY DEF PreparedFor, NoReceipt, ReceiptType, ReceiptStates, RecordType

----------------------------------------------------------------------------
(* Type correctness                                                        *)

\* The initial state is well typed.
LEMMA TypeInit == Init => TypeOK
<1>1. SUFFICES ASSUME Init PROVE TypeOK
  OBVIOUS
<1>2. queue \in [Requests -> RecordType]
  BY <1>1, PoolAssumption DEF Init, NoRecord, RecordType, QueueStates
<1>3. receipt \in [Requests -> ReceiptType]
  BY <1>1, PoolAssumption DEF Init, NoReceipt, ReceiptType, ReceiptStates
<1>4. slots \in [Slots -> SlotType]
  BY <1>1, PoolAssumption DEF Init, FreeSlot, SlotType, Phases
<1>5. run \in [Gens -> [Requests -> RunnerPCs]]
  BY <1>1 DEF Init, RunnerPCs
<1>6. chat \in [Requests -> ChatStates] /\ sends \in [Requests -> Nat]
  BY <1>1 DEF Init, ChatStates
<1>7. audits \in Seq(AuditType)
  BY <1>1 DEF Init
<1>8. generation \in Gens /\ marker \in 0..MaxGen
  BY <1>1, PoolAssumption DEF Init, Gens
<1>9. QED
  BY <1>1, <1>2, <1>3, <1>4, <1>5, <1>6, <1>7, <1>8 DEF Init, TypeOK

\* The client's steps keep the types.
LEMMA TypeClient ==
  ASSUME TypeOK, NEW r \in Requests, ClientStep(r)
  PROVE  TypeOK'
<1>1. queue[r] \in RecordType
  BY DEF TypeOK
<1>2. CASE Submit(r) \/ Cancel(r)
  <2>1. ASSUME NEW st \in QueueStates
        PROVE  [queue[r] EXCEPT !.st = st] \in RecordType
    BY <1>1 DEF RecordType
  <2>2. queue' \in [Requests -> RecordType]
    BY <1>2, <2>1 DEF Submit, Cancel, TypeOK, QueueStates
  <2>3. QED
    BY <1>2, <2>2 DEF Submit, Cancel, TypeOK, ownerVars
<1>3. CASE Acknowledge(r)
  <2>1. [queue[r] EXCEPT !.st = "acknowledged", !.staged = FALSE] \in RecordType
    BY <1>1 DEF RecordType, QueueStates
  <2>2. queue' \in [Requests -> RecordType]
    BY <1>3, <2>1 DEF Acknowledge, TypeOK
  <2>3. QED
    BY <1>3, <2>2 DEF Acknowledge, TypeOK, ownerVars
<1>4. QED
  BY <1>2, <1>3 DEF ClientStep

\* The steps of the worker chat and of the account keep the types.
LEMMA TypeChat ==
  ASSUME TypeOK, NEW r \in Requests, ChatStep(r)
  PROVE  TypeOK'
<1>1. CASE Answer(r)
  BY <1>1 DEF Answer, TypeOK, ownerVars, ChatStates
<1>2. receipt[r] \in ReceiptType
  BY DEF TypeOK
<1>3. CASE UnusualActivity403(r)
  <2>1. [receipt[r] EXCEPT !.st = "indeterminate", !.no_resend = TRUE,
                           !.cooldown = "active"] \in ReceiptType
    BY <1>2 DEF ReceiptType, ReceiptStates
  <2>2. receipt' \in [Requests -> ReceiptType]
    BY <1>3, <2>1 DEF UnusualActivity403, TypeOK
  <2>3. QED
    BY <1>3, <2>2 DEF UnusualActivity403, TypeOK, ownerVars
<1>4. CASE CooldownExpires(r)
  <2>1. [receipt[r] EXCEPT !.cooldown = "over"] \in ReceiptType
    BY <1>2 DEF ReceiptType
  <2>2. receipt' \in [Requests -> ReceiptType]
    BY <1>4, <2>1 DEF CooldownExpires, TypeOK
  <2>3. QED
    BY <1>4, <2>2 DEF CooldownExpires, TypeOK, ownerVars
<1>5. QED
  BY <1>1, <1>3, <1>4 DEF ChatStep

\* A runner's claim keeps the types.
LEMMA TypeClaim ==
  ASSUME TypeOK, NEW g \in Gens, NEW r \in Requests,
         ClaimQueued(g, r) \/ ClaimRetained(g, r)
  PROVE  TypeOK'
<1>1. queue[r] \in RecordType /\ receipt[r] \in ReceiptType
  BY DEF TypeOK
<1>2. CASE ClaimQueued(g, r)
  <2>1. PICK s \in Slots, o \in Outcomes(3) :
          LET claim == [queue[r] EXCEPT !.st = "claimed", !.slot = s, !.gen = g,
                                        !.parent = parent,
                                        !.established = (o.done = 3)]
          IN /\ queue' = IF o.done = 0 THEN queue
                         ELSE [queue EXCEPT ![r] = claim]
             /\ receipt' = IF o.done < 2 THEN receipt
                           ELSE [receipt EXCEPT ![r] = PreparedFor(claim, parent)]
             /\ Move(g, r, IF o.acked THEN "claimed" ELSE "failed")
    BY <1>2 DEF ClaimQueued
  <2>2. DEFINE claim == [queue[r] EXCEPT !.st = "claimed", !.slot = s, !.gen = g,
                                         !.parent = parent,
                                         !.established = (o.done = 3)]
  <2>3. claim \in RecordType
    <3>1. s \in 0..NumSlots /\ g \in 0..MaxGen /\ parent \in Parents
      BY PoolAssumption DEF TypeOK, Slots, Gens
    <3>2. ASSUME NEW b \in BOOLEAN
          PROVE  [queue[r] EXCEPT !.st = "claimed", !.slot = s, !.gen = g,
                                  !.parent = parent, !.established = b]
                   \in RecordType
      BY <1>1, <3>1 DEF RecordType, QueueStates
    <3>3. (o.done = 3) \in BOOLEAN
      OBVIOUS
    <3>4. QED
      BY <3>2, <3>3, Zenon
  <2>4. queue' \in [Requests -> RecordType]
    BY <2>1, <2>3 DEF TypeOK
  <2>5. PreparedFor(claim, parent) \in ReceiptType
    <3> HIDE DEF claim
    <3>1. QED
      BY <2>3, PreparedForType DEF TypeOK
  <2>6. receipt' \in [Requests -> ReceiptType]
    BY <2>1, <2>5 DEF TypeOK
  <2>7. run' \in [Gens -> [Requests -> RunnerPCs]]
    BY <2>1, MoveType DEF RunnerPCs
  <2>8. QED
    BY <1>2, <2>4, <2>6, <2>7 DEF ClaimQueued, TypeOK, ownerVars
<1>3. CASE ClaimRetained(g, r) /\ receipt[r].st = "absent"
  <2>1. PICK o \in Outcomes(2) :
          /\ receipt' = IF o.done = 0 THEN receipt
                        ELSE [receipt EXCEPT ![r] = PreparedFor(queue[r], parent)]
          /\ queue' = IF o.done < 2 THEN queue
                      ELSE [queue EXCEPT ![r].established = TRUE]
          /\ Move(g, r, IF o.acked THEN "claimed" ELSE "failed")
    BY <1>3 DEF ClaimRetained
  <2>2. PreparedFor(queue[r], parent) \in ReceiptType
    BY <1>1, PreparedForType DEF TypeOK
  <2>3. [queue[r] EXCEPT !.established = TRUE] \in RecordType
    BY <1>1 DEF RecordType
  <2>4. receipt' \in [Requests -> ReceiptType] /\ queue' \in [Requests -> RecordType]
    BY <2>1, <2>2, <2>3 DEF TypeOK
  <2>5. run' \in [Gens -> [Requests -> RunnerPCs]]
    BY <2>1, MoveType DEF RunnerPCs
  <2>6. QED
    BY <1>3, <2>4, <2>5 DEF ClaimRetained, TypeOK, ownerVars
<1>4. CASE ClaimRetained(g, r) /\ receipt[r].st # "absent"
  <2>1. run' \in [Gens -> [Requests -> RunnerPCs]]
    BY <1>4, MoveType DEF ClaimRetained, RunnerPCs
  <2>2. QED
    BY <1>4, <2>1 DEF ClaimRetained, TypeOK, ownerVars
<1>5. QED
  BY <1>2, <1>3, <1>4

\* An observation keeps records and receipts what they are, and changes no
\* fence.
LEMMA TypeObserve ==
  ASSUME TypeOK, NEW r \in Requests, NEW seen, NEW o, ObserveWrites(r, seen, o)
  PROVE  /\ queue' \in [Requests -> RecordType]
         /\ receipt' \in [Requests -> ReceiptType]
         /\ \A x \in Requests : x # r => receipt'[x] = receipt[x]
         /\ receipt'[r].no_resend = receipt[r].no_resend
         /\ receipt'[r].st \in {receipt[r].st, "submitted", "complete"}
<1>1. o.done \in Nat
  BY OutcomeFacts DEF ObserveWrites
<1>2. queue[r] \in RecordType /\ receipt[r] \in ReceiptType
  BY DEF TypeOK
<1>3. /\ ObservedReceipt(receipt[r], o.done) \in ReceiptType
      /\ ObservedReceipt(receipt[r], o.done).no_resend = receipt[r].no_resend
      /\ ObservedReceipt(receipt[r], o.done).st
           \in {receipt[r].st, "submitted", "complete"}
  BY <1>1, <1>2, ObservedReceiptType
<1>4. ObservedRecord(queue[r], o.done) \in RecordType
  BY <1>1, <1>2, ObservedRecordType
<1>5. QED
  BY <1>3, <1>4 DEF ObserveWrites, TypeOK

\* Giving a request up or releasing it keeps the types.
LEMMA GiveUpType ==
  ASSUME TypeOK, NEW r \in Requests
  PROVE  /\ [receipt EXCEPT ![r] = Abandoned(@)] \in [Requests -> ReceiptType]
         /\ [queue EXCEPT ![r].st = "released", ![r].staged = FALSE]
              \in [Requests -> RecordType]
<1>1. queue[r] \in RecordType /\ receipt[r] \in ReceiptType
  BY DEF TypeOK
<1>2. Abandoned(receipt[r]) \in ReceiptType
  BY <1>1 DEF Abandoned, ReceiptType, ReceiptStates
<1>3. [queue[r] EXCEPT !.st = "released", !.staged = FALSE] \in RecordType
  BY <1>1 DEF RecordType, QueueStates
<1>4. QED
  BY <1>2, <1>3 DEF TypeOK

\* A runner's other steps keep the types.
LEMMA TypeRunner ==
  ASSUME TypeOK, NEW g \in Gens, NEW r \in Requests, RunnerStep(g, r)
  PROVE  TypeOK'
<1>1. queue[r] \in RecordType /\ receipt[r] \in ReceiptType
  BY DEF TypeOK
<1>2. CASE Fail(g, r)
  <2>1. run' \in [Gens -> [Requests -> RunnerPCs]]
    BY <1>2, MoveType DEF Fail, RunnerPCs
  <2>2. QED
    BY <1>2, <2>1 DEF Fail, TypeOK, ownerVars
<1>3. CASE ClaimQueued(g, r) \/ ClaimRetained(g, r)
  BY <1>3, TypeClaim
<1>4. CASE Arm(g, r)
  <2>1. PICK s \in Slots, o \in Outcomes(2) :
          /\ slots' = IF o.done = 0 THEN slots
                      ELSE [slots EXCEPT ![s].phase = "running"]
          /\ receipt' = IF o.done < 2 THEN receipt
                        ELSE [receipt EXCEPT ![r] = ArmedReceipt(@)]
          /\ Move(g, r, IF o.acked THEN "armed" ELSE "failed")
    BY <1>4 DEF Arm
  <2>2. [slots[s] EXCEPT !.phase = "running"] \in SlotType
    BY DEF TypeOK, SlotType, Phases
  <2>3. ArmedReceipt(receipt[r]) \in ReceiptType
    BY <1>1 DEF ArmedReceipt, ReceiptType, ReceiptStates
  <2>4. slots' \in [Slots -> SlotType] /\ receipt' \in [Requests -> ReceiptType]
    BY <2>1, <2>2, <2>3 DEF TypeOK
  <2>5. run' \in [Gens -> [Requests -> RunnerPCs]]
    BY <2>1, MoveType DEF RunnerPCs
  <2>6. QED
    BY <1>4, <2>4, <2>5 DEF Arm, TypeOK
<1>5. CASE Send(g, r)
  <2>1. run' \in [Gens -> [Requests -> RunnerPCs]]
    BY <1>5, MoveType DEF Send, RunnerPCs
  <2>2. chat' \in [Requests -> ChatStates] /\ sends' \in [Requests -> Nat]
    BY <1>5 DEF Send, TypeOK, ChatStates
  <2>3. QED
    BY <1>5, <2>1, <2>2 DEF Send, TypeOK, ownerVars
<1>6. CASE Observe(g, r)
  <2>1. PICK seen \in ChatStates, o \in Outcomes(4) \cup Outcomes(1) :
          /\ ObserveWrites(r, seen, o)
          /\ Move(g, r, CASE ~o.acked          -> "failed"
                          [] seen = "answered" -> "done"
                          [] seen = "refused"  -> "rejected"
                          [] OTHER             -> "observing")
    BY <1>6 DEF Observe
  <2>2. queue' \in [Requests -> RecordType] /\ receipt' \in [Requests -> ReceiptType]
    BY <2>1, TypeObserve
  <2>3. run' \in [Gens -> [Requests -> RunnerPCs]]
    BY <2>1, MoveType DEF RunnerPCs
  <2>4. QED
    BY <1>6, <2>2, <2>3 DEF Observe, TypeOK, ownerVars
<1>7. CASE FailArmed(g, r)
  <2>1. [receipt[r] EXCEPT !.st = "indeterminate", !.no_resend = TRUE] \in ReceiptType
    BY <1>1 DEF ReceiptType, ReceiptStates
  <2>2. receipt' \in [Requests -> ReceiptType]
    BY <1>7, <2>1 DEF FailArmed, TypeOK
  <2>3. run' \in [Gens -> [Requests -> RunnerPCs]]
    BY <1>7, MoveType DEF FailArmed, RunnerPCs
  <2>4. QED
    BY <1>7, <2>2, <2>3 DEF FailArmed, TypeOK, ownerVars
<1>8. CASE End(g, r)
  <2>1. PICK s \in Slots, o \in Outcomes(1) :
          /\ slots' = IF o.done = 0 THEN slots
                      ELSE [slots EXCEPT ![s] = FreeSlot]
          /\ Move(g, r, IF o.acked THEN "ended" ELSE "failed")
    BY <1>8 DEF End
  <2>2. slots' \in [Slots -> SlotType]
    BY <2>1, PoolAssumption DEF TypeOK, FreeSlot, SlotType, Phases
  <2>3. run' \in [Gens -> [Requests -> RunnerPCs]]
    BY <2>1, MoveType DEF RunnerPCs
  <2>4. QED
    BY <1>8, <2>2, <2>3 DEF End, TypeOK
<1>9. CASE Abandon(g, r)
  BY <1>9, GiveUpType DEF Abandon, TypeOK, ownerVars
<1>10. CASE Release(g, r)
  BY <1>10, GiveUpType DEF Release, TypeOK, ownerVars
<1>11. QED
  BY <1>2, <1>3, <1>4, <1>5, <1>6, <1>7, <1>8, <1>9, <1>10 DEF RunnerStep

\* The steps that replace the owner keep the types.
LEMMA TypeGeneration ==
  ASSUME TypeOK, Start \/ BindSession \/ RecoverStart \/ \E p \in Parents : Handoff(p)
  PROVE  TypeOK'
<1>1. \A g \in Gens : g < MaxGen => g + 1 \in Gens
  BY PoolAssumption DEF Gens
<1>2. CASE Start \/ BindSession
  BY <1>1, <1>2 DEF Start, BindSession, TypeOK
<1>3. CASE RecoverStart
  <2>1. PICK o \in Outcomes(NumSlots + 1) :
          /\ queue' = [r \in Requests |->
               IF /\ PreReceipt(r)
                  /\ \E s \in Slots : /\ s <= o.done
                                      /\ slots[s].req = r
                                      /\ slots[s].phase \notin Inherited
               THEN [queue[r] EXCEPT !.gen = generation + 1] ELSE queue[r]]
          /\ IF o.done = NumSlots + 1
             THEN /\ generation' = generation + 1
                  /\ session' = FALSE
                  /\ slots' = [s \in Slots |-> RecoveredSlot(slots[s])]
             ELSE UNCHANGED <<generation, session, slots>>
    BY <1>3 DEF RecoverStart
  <2>2. generation + 1 \in Gens /\ Gens \subseteq 0..MaxGen
    BY <1>1, <1>3, PoolAssumption DEF RecoverStart, TypeOK, Gens
  <2>3. ASSUME NEW r \in Requests
        PROVE  [queue[r] EXCEPT !.gen = generation + 1] \in RecordType
    BY <2>2 DEF TypeOK, RecordType
  <2>4. queue' \in [Requests -> RecordType]
    BY <2>1, <2>3 DEF TypeOK
  <2>5. slots' \in [Slots -> SlotType]
    BY <2>1, RecoveredSlotType DEF TypeOK
  <2>6. generation' \in Gens /\ session' \in BOOLEAN
    BY <2>1, <2>2 DEF TypeOK
  <2>7. QED
    BY <1>3, <2>4, <2>5, <2>6 DEF RecoverStart, TypeOK
<1>4. ASSUME NEW p \in Parents, Handoff(p)
      PROVE  TypeOK'
  BY <1>1, <1>4 DEF Handoff, TypeOK
<1>5. QED
  BY <1>2, <1>3, <1>4

\* A takeover records bindings and keeps the types.
LEMMA TypeTakeover ==
  ASSUME TypeOK, NEW p \in Parents, Takeover(p)
  PROVE  TypeOK'
<1> DEFINE At(r, s) == slots[s].req = r /\ Kept(s)
           held     == {r \in Requests : \E s \in Slots : At(r, s)}
           cancel   == {r \in held : \E s \in Slots : At(r, s) /\ Cancellable(s)}
           bind     == [r \in Requests |->
                          IF r \in held
                          THEN TakeoverBind(r, CHOOSE s \in Slots : At(r, s))
                          ELSE NoBinding]
           audit    == [from |-> parent, cancel |-> cancel,
                        collect |-> held \ cancel, bind |-> bind]
<1>1. ASSUME NEW r \in held
      PROVE  TakeoverBind(r, CHOOSE s \in Slots : At(r, s)) \in BindingType
  <2>1. (CHOOSE s \in Slots : At(r, s)) \in Slots
    BY <1>1
  <2>2. Slots \subseteq 0..NumSlots
    BY PoolAssumption DEF Slots
  <2>3. queue[r].parent \in Parents \cup {None} /\ parent \in Parents
    BY <1>1 DEF TypeOK, RecordType
  <2>4. Binding(r) \in BindingType
    BY <1>1, BindingTyped
  <2>5. QED
    BY <2>1, <2>2, <2>3, <2>4 DEF TakeoverBind, BindingType
<1>2. bind \in [Requests -> BindingType]
  BY <1>1, PoolAssumption DEF NoBinding, BindingType
<1>3. audit \in AuditType
  BY <1>2 DEF AuditType, TypeOK
<1>4. audits' = Append(audits, audit)
  BY DEF Takeover
<1>5. audits' \in Seq(AuditType)
  BY <1>3, <1>4 DEF TypeOK
<1>6. slots' \in [Slots -> SlotType]
  <2>1. slots' = [s \in Slots |->
             IF ~Kept(s) THEN FreeSlot
             ELSE [slots[s] EXCEPT !.inv = 0,
                     !.phase = IF Cancellable(s) THEN "cancel_pending"
                                                 ELSE "collect_only"]]
    BY DEF Takeover
  <2>2. FreeSlot \in SlotType
    BY PoolAssumption DEF FreeSlot, SlotType, Phases
  <2>3. ASSUME NEW s \in Slots, NEW ph \in {"cancel_pending", "collect_only"}
        PROVE  [slots[s] EXCEPT !.inv = 0, !.phase = ph] \in SlotType
    <3>1. slots[s] \in SlotType /\ 0 \in 0..MaxGen
      BY PoolAssumption DEF TypeOK
    <3>2. QED
      BY <3>1 DEF SlotType, Phases
  <2>4. QED
    BY <2>1, <2>2, <2>3
<1>7. generation' \in Gens
  <2>1. generation \in Gens /\ generation < MaxGen
    BY DEF Takeover, TypeOK
  <2>2. generation' = generation + 1
    BY DEF Takeover
  <2>3. QED
    BY <2>1, <2>2, PoolAssumption DEF Gens
<1>8. QED
  BY <1>5, <1>6, <1>7 DEF Takeover, TypeOK

\* One request's settlement writes only what it may: a receipt that was absent
\* is prepared or abandoned, one that was there is kept or abandoned.
LEMMA SettleReceipt ==
  ASSUME TypeOK, NEW r \in Requests, Settle(r)
  PROVE  /\ receipt' \in [Requests -> ReceiptType]
         /\ \A x \in Requests : x # r => receipt'[x] = receipt[x]
         /\ \/ receipt'[r] = receipt[r]
            \/ /\ receipt[r].st = "absent"
               /\ receipt'[r].st \in {"prepared", "abandoned"}
               /\ receipt'[r].no_resend = FALSE
               /\ receipt'[r].verified = FALSE
            \/ /\ receipt[r].st \in {"prepared", "abandoned"}
               /\ receipt'[r] = Abandoned(receipt[r])
<1>1. PICK o \in Outcomes(5) :
        \/ UNCHANGED receipt
        \/ /\ receipt[r].st \in {"absent", "prepared", "abandoned"}
           /\ receipt' = CASE o.done = 0 -> receipt
                [] o.done \in 1..2 /\ receipt[r].st = "absent" ->
                     [receipt EXCEPT ![r] =
                        PreparedFor(queue[r], CurrentBind(r).parent)]
                [] o.done > 2 ->
                     [receipt EXCEPT ![r] =
                        Abandoned(IF receipt[r].st = "absent"
                                  THEN PreparedFor(queue[r], CurrentBind(r).parent)
                                  ELSE receipt[r])]
                [] OTHER -> receipt
  BY DEF Settle
<1> DEFINE prep == PreparedFor(queue[r], CurrentBind(r).parent)
<1>2. /\ prep \in ReceiptType
      /\ prep.st = "prepared"
      /\ prep.no_resend = FALSE
      /\ prep.verified = FALSE
  <2>1. CurrentBind(r).parent \in Parents \cup {None} /\ queue[r] \in RecordType
    BY BindingTyped DEF BindingType, TypeOK
  <2>2. QED
    BY <2>1, PreparedForType
<1>3. receipt[r] \in ReceiptType
  BY DEF TypeOK
<1> HIDE DEF prep
<1>4. /\ Abandoned(prep) \in ReceiptType
      /\ Abandoned(prep).st = "abandoned"
      /\ Abandoned(prep).no_resend = FALSE
      /\ Abandoned(prep).verified = FALSE
  BY <1>2 DEF Abandoned, ReceiptType, ReceiptStates
<1>5. Abandoned(receipt[r]) \in ReceiptType
  BY <1>3 DEF Abandoned, ReceiptType, ReceiptStates
<1>6. o.done \in Nat
  BY OutcomeFacts
<1>7. \/ receipt' = receipt
      \/ receipt[r].st = "absent" /\ receipt' = [receipt EXCEPT ![r] = prep]
      \/ receipt[r].st = "absent" /\ receipt' = [receipt EXCEPT ![r] = Abandoned(prep)]
      \/ /\ receipt[r].st \in {"prepared", "abandoned"}
         /\ receipt' = [receipt EXCEPT ![r] = Abandoned(receipt[r])]
  BY <1>1, <1>6 DEF prep
<1>8. QED
  BY <1>2, <1>4, <1>5, <1>7 DEF TypeOK

\* The settlement of a takeover keeps the types.
LEMMA TypeSettle ==
  ASSUME TypeOK, NEW r \in Requests,
         Settle(r) \/ SettleAbandon(r) \/ SettleRelease(r)
  PROVE  TypeOK'
<1>1. CASE Settle(r)
  <2>1. PICK s \in Slots, o \in Outcomes(5) :
          /\ \/ UNCHANGED queue
             \/ queue' = [queue EXCEPT
                    ![r].established = @ \/ o.done > 1,
                    ![r].st = IF o.done > 3 THEN "released" ELSE @]
          /\ slots' = IF o.done = 5 THEN [slots EXCEPT ![s] = FreeSlot] ELSE slots
    BY <1>1 DEF Settle
  <2>2. queue[r] \in RecordType
    BY DEF TypeOK
  <2>3. ASSUME NEW b \in BOOLEAN, NEW st \in QueueStates
        PROVE  [queue EXCEPT ![r].established = b, ![r].st = st]
                 \in [Requests -> RecordType]
    <3>1. [queue[r] EXCEPT !.established = b, !.st = st] \in RecordType
      BY <2>2 DEF RecordType
    <3>2. QED
      BY <3>1 DEF TypeOK
  <2>4. DEFINE b  == queue[r].established \/ o.done > 1
               st == IF o.done > 3 THEN "released" ELSE queue[r].st
  <2>5. queue' \in [Requests -> RecordType]
    <3>1. b \in BOOLEAN /\ st \in QueueStates
      BY <2>2 DEF RecordType, QueueStates
    <3>2. \/ UNCHANGED queue
          \/ queue' = [queue EXCEPT ![r].established = b, ![r].st = st]
      BY <2>1, <2>2 DEF TypeOK, RecordType
    <3> HIDE DEF b, st
    <3>3. [queue EXCEPT ![r].established = b, ![r].st = st]
            \in [Requests -> RecordType]
      BY <2>3, <3>1
    <3>4. QED
      BY <3>2, <3>3 DEF TypeOK
  <2>6. slots' \in [Slots -> SlotType]
    BY <2>1, PoolAssumption DEF TypeOK, FreeSlot, SlotType, Phases
  <2>7. QED
    BY <1>1, <2>5, <2>6, SettleReceipt DEF Settle, TypeOK
<1>2. CASE SettleAbandon(r) \/ SettleRelease(r)
  BY <1>2, GiveUpType DEF SettleAbandon, SettleRelease, TypeOK, ownerVars
<1>3. QED
  BY <1>1, <1>2

\* Every step of the owner keeps the types.
LEMMA TypeOwner ==
  ASSUME TypeOK, OwnerStep
  PROVE  TypeOK'
<1>1. CASE Start \/ BindSession \/ RecoverStart \/ \E p \in Parents : Handoff(p)
  BY <1>1, TypeGeneration
<1>2. CASE CollectorOpen \/ CollectorClose
  BY <1>2, PoolAssumption DEF CollectorOpen, CollectorClose, TypeOK, ownerVars, Gens
<1>3. CASE \E p \in Parents : Takeover(p)
  BY <1>3, TypeTakeover
<1>4. ASSUME NEW r \in Requests, Begin(r)
      PROVE  TypeOK'
  <2>1. PICK s \in Slots, o \in Outcomes(1) :
          /\ slots' = IF o.done = 0 THEN slots
                      ELSE [slots EXCEPT ![s] = [req |-> r, inv |-> generation,
                                                 phase |-> "reserved"]]
          /\ Move(generation, r, IF o.acked THEN "begun" ELSE "failed")
    BY <1>4 DEF Begin
  <2>2. [req |-> r, inv |-> generation, phase |-> "reserved"] \in SlotType
    BY PoolAssumption DEF TypeOK, Gens, SlotType, Phases
  <2>3. slots' \in [Slots -> SlotType]
    BY <2>1, <2>2 DEF TypeOK
  <2>4. generation \in Gens
    BY DEF TypeOK
  <2>5. run' \in [Gens -> [Requests -> RunnerPCs]]
    BY <2>1, <2>4, MoveType DEF RunnerPCs
  <2>6. QED
    BY <1>4, <2>3, <2>5 DEF Begin, TypeOK
<1>5. ASSUME NEW r \in Requests, CollectorObserve(r)
      PROVE  TypeOK'
  <2>1. queue' \in [Requests -> RecordType] /\ receipt' \in [Requests -> ReceiptType]
    BY <1>5, TypeObserve DEF CollectorObserve
  <2>2. QED
    BY <1>5, <2>1 DEF CollectorObserve, TypeOK, ownerVars
<1>6. ASSUME NEW r \in Requests, EndCollected(r)
      PROVE  TypeOK'
  BY <1>6, PoolAssumption DEF EndCollected, TypeOK, FreeSlot, SlotType, Phases
<1>7. ASSUME NEW r \in Requests, Settle(r) \/ SettleAbandon(r) \/ SettleRelease(r)
      PROVE  TypeOK'
  BY <1>7, TypeSettle
<1>8. QED
  BY <1>1, <1>2, <1>3, <1>4, <1>5, <1>6, <1>7 DEF OwnerStep

\* Every step, and stuttering, keeps the types.
LEMMA TypeStep ==
  ASSUME TypeOK, [Next]_vars
  PROVE  TypeOK'
<1>1. CASE UNCHANGED vars
  BY <1>1 DEF vars, ownerVars, TypeOK
<1>2. CASE Next
  BY <1>2, TypeClient, TypeChat, TypeRunner, TypeOwner DEF Next
<1>3. QED
  BY <1>1, <1>2

\* Every variable keeps its type, for every instance of the pool.
THEOREM TypeCorrect == Spec => []TypeOK
BY TypeInit, TypeStep, PTL DEF Spec

----------------------------------------------------------------------------
(* The fence: at most one send                                             *)

\* AtMostOneSend is not inductive: that an armed runner has not sent yet, and
\* that no other one is armed, follows from what the receipt says of it.
FenceInv == TypeOK /\ SendIsFenced /\ AtMostOneSend

\* What a step may do to a receipt without weakening its fence.
FenceHolds(r) ==
  /\ receipt[r].no_resend => receipt'[r].no_resend
  /\ receipt'[r].st \in PostArm \cup {"complete"} => receipt'[r].no_resend
  /\ receipt'[r].st \in {"absent", "prepared"} => ~receipt'[r].no_resend

\* Initially nothing is fenced and nothing sent.
LEMMA FenceInit == Init => SendIsFenced /\ AtMostOneSend
BY DEF Init, SendIsFenced, AtMostOneSend, NoReceipt, PostArm

\* A step that sends nothing, arms nobody and weakens no fence keeps the fence.
LEMMA FenceKept ==
  ASSUME FenceInv, UNCHANGED sends,
         \A x \in Requests : receipt'[x] = receipt[x] \/ FenceHolds(x),
         \A h \in Gens, x \in Requests : run'[h][x] = "armed" => run[h][x] = "armed"
  PROVE  SendIsFenced' /\ AtMostOneSend'
<1>1. AtMostOneSend'
  BY DEF FenceInv, AtMostOneSend
<1>2. ASSUME NEW x \in Requests
      PROVE  FenceHolds(x)
  BY DEF FenceInv, SendIsFenced, FenceHolds
<1>3. SendIsFenced'
  BY <1>2 DEF FenceInv, SendIsFenced, FenceHolds
<1>4. QED
  BY <1>1, <1>3

\* An observation finds the fence and keeps it.
LEMMA FenceObserve ==
  ASSUME FenceInv, NEW r \in Requests, Observable(r), NEW seen, NEW o,
         ObserveWrites(r, seen, o)
  PROVE  \A x \in Requests : receipt'[x] = receipt[x] \/ FenceHolds(x)
<1>1. /\ \A x \in Requests : x # r => receipt'[x] = receipt[x]
      /\ receipt'[r].no_resend = receipt[r].no_resend
      /\ receipt'[r].st \in {receipt[r].st, "submitted", "complete"}
  BY TypeObserve DEF FenceInv
<1>2. FenceHolds(r)
  BY <1>1 DEF Observable, FenceHolds, PostArm
<1>3. QED
  BY <1>1, <1>2

\* A call that moves its runner to a state other than armed arms nobody.
LEMMA NobodyArmed ==
  ASSUME TypeOK, NEW g \in Gens, NEW r \in Requests, NEW pc \in RunnerPCs \ {"armed"},
         Move(g, r, pc)
  PROVE  \A h \in Gens, x \in Requests : run'[h][x] = "armed" => run[h][x] = "armed"
BY MoveType

\* Claiming establishes a receipt without fence, where there was none.
LEMMA FenceClaim ==
  ASSUME FenceInv, NEW g \in Gens, NEW r \in Requests,
         ClaimQueued(g, r) \/ ClaimRetained(g, r)
  PROVE  SendIsFenced' /\ AtMostOneSend'
<1>1. TypeOK
  BY DEF FenceInv
<1>2. ASSUME NEW q \in RecordType
      PROVE  /\ PreparedFor(q, parent).st = "prepared"
             /\ PreparedFor(q, parent).no_resend = FALSE
  BY <1>1, PreparedForType DEF TypeOK
<1>3. receipt[r].st = "absent" => receipt[r].no_resend = FALSE
  BY <1>1 DEF FenceInv, SendIsFenced, TypeOK, ReceiptType
<1>4. \A x \in Requests : receipt'[x] = receipt[x] \/ FenceHolds(x)
  <2>1. CASE ClaimQueued(g, r)
    <3>1. PICK s \in Slots, o \in Outcomes(3) :
            LET claim == [queue[r] EXCEPT !.st = "claimed", !.slot = s, !.gen = g,
                                          !.parent = parent,
                                          !.established = (o.done = 3)]
            IN receipt' = IF o.done < 2 THEN receipt
                          ELSE [receipt EXCEPT ![r] = PreparedFor(claim, parent)]
      BY <2>1 DEF ClaimQueued
    <3>2. ASSUME NEW q
          PROVE  /\ PreparedFor(q, parent).st = "prepared"
                 /\ PreparedFor(q, parent).no_resend = FALSE
      BY DEF PreparedFor, NoReceipt
    <3>3. QED
      BY <1>1, <1>3, <2>1, <3>1, <3>2
         DEF ClaimQueued, FenceHolds, TypeOK, PostArm
  <2>2. CASE ClaimRetained(g, r)
    <3>1. \/ receipt' = receipt
          \/ /\ receipt[r].st = "absent"
             /\ receipt' = [receipt EXCEPT ![r] = PreparedFor(queue[r], parent)]
      BY <2>2 DEF ClaimRetained
    <3>2. queue[r] \in RecordType
      BY <1>1 DEF TypeOK
    <3>3. QED
      BY <1>1, <1>2, <1>3, <3>1, <3>2 DEF FenceHolds, TypeOK, PostArm
  <2>3. QED
    BY <2>1, <2>2
<1>5. PICK pc \in {"claimed", "failed", "observing"} : Move(g, r, pc)
  BY DEF ClaimQueued, ClaimRetained
<1>6. \A h \in Gens, x \in Requests : run'[h][x] = "armed" => run[h][x] = "armed"
  BY <1>1, <1>5, NobodyArmed DEF RunnerPCs
<1>7. UNCHANGED sends
  BY DEF ClaimQueued, ClaimRetained
<1>8. QED
  BY <1>4, <1>6, <1>7, FenceKept

\* Arming finds a receipt without fence, so nothing was sent and nobody is
\* armed; a runner is armed only when the fence is saved.
LEMMA FenceArm ==
  ASSUME FenceInv, NEW g \in Gens, NEW r \in Requests, Arm(g, r)
  PROVE  SendIsFenced' /\ AtMostOneSend'
<1>1. TypeOK
  BY DEF FenceInv
<1>2. /\ ~receipt[r].no_resend
      /\ sends[r] = 0
      /\ \A h \in Gens : run[h][r] # "armed"
  BY <1>1 DEF FenceInv, SendIsFenced, Arm, TypeOK
<1>3. PICK o \in Outcomes(2) :
        /\ receipt' = IF o.done < 2 THEN receipt
                      ELSE [receipt EXCEPT ![r] = ArmedReceipt(@)]
        /\ Move(g, r, IF o.acked THEN "armed" ELSE "failed")
  BY DEF Arm
<1>4. o.acked => o.done = 2
  BY OutcomeFacts
<1>5. UNCHANGED sends
  BY DEF Arm
<1>6. CASE ~o.acked
  <2>1. \A x \in Requests : receipt'[x] = receipt[x] \/ FenceHolds(x)
    BY <1>1, <1>3 DEF FenceHolds, ArmedReceipt, TypeOK, ReceiptType, PostArm
  <2>2. \A h \in Gens, x \in Requests : run'[h][x] = "armed" => run[h][x] = "armed"
    BY <1>1, <1>3, <1>6, NobodyArmed DEF RunnerPCs
  <2>3. QED
    BY <1>5, <2>1, <2>2, FenceKept
<1>7. CASE o.acked
  <2>1. receipt' = [receipt EXCEPT ![r] = ArmedReceipt(@)]
    BY <1>3, <1>4, <1>7
  <2>2. receipt'[r].st = "armed" /\ receipt'[r].no_resend
    BY <1>1, <2>1 DEF ArmedReceipt, TypeOK, ReceiptType
  <2>3. /\ run'[g][r] = "armed"
        /\ \A h \in Gens, x \in Requests :
             (h # g \/ x # r) => run'[h][x] = run[h][x]
    BY <1>1, <1>3, <1>7, MoveType DEF RunnerPCs
  <2>4. SendIsFenced'
    <3>1. ASSUME NEW x \in Requests, x # r
          PROVE  receipt'[x] = receipt[x] /\ sends'[x] = sends[x]
                 /\ \A h \in Gens : run'[h][x] = run[h][x]
      BY <1>1, <1>5, <2>1, <2>3, <3>1 DEF TypeOK
    <3>2. QED
      BY <1>2, <1>5, <2>2, <2>3, <3>1 DEF FenceInv, SendIsFenced, PostArm
  <2>5. QED
    BY <1>5, <2>4 DEF FenceInv, AtMostOneSend
<1>8. QED
  BY <1>6, <1>7

\* Only an armed runner sends, it is the only one, and it is armed no longer.
LEMMA FenceSend ==
  ASSUME FenceInv, NEW g \in Gens, NEW r \in Requests, Send(g, r)
  PROVE  SendIsFenced' /\ AtMostOneSend'
<1>1. TypeOK
  BY DEF FenceInv
<1>2. /\ sends[r] = 0
      /\ receipt[r].no_resend
      /\ \A h \in Gens \ {g} : run[h][r] # "armed"
  BY DEF FenceInv, SendIsFenced, Send
<1>3. sends' = [sends EXCEPT ![r] = 1] /\ UNCHANGED receipt
  BY <1>1, <1>2 DEF Send, TypeOK
<1>4. /\ run'[g][r] = "observing"
      /\ \A h \in Gens, x \in Requests :
           (h # g \/ x # r) => run'[h][x] = run[h][x]
  BY <1>1, MoveType DEF Send, RunnerPCs
<1>5. AtMostOneSend'
  BY <1>1, <1>3 DEF FenceInv, AtMostOneSend, TypeOK
<1>6. SendIsFenced'
  BY <1>1, <1>2, <1>3, <1>4 DEF FenceInv, SendIsFenced, TypeOK
<1>7. QED
  BY <1>5, <1>6

\* The other steps of a runner keep the fence.
LEMMA FenceRunner ==
  ASSUME FenceInv, NEW g \in Gens, NEW r \in Requests, RunnerStep(g, r)
  PROVE  SendIsFenced' /\ AtMostOneSend'
<1>1. TypeOK
  BY DEF FenceInv
<1>2. CASE ClaimQueued(g, r) \/ ClaimRetained(g, r)
  BY <1>2, FenceClaim
<1>3. CASE Arm(g, r)
  BY <1>3, FenceArm
<1>4. CASE Send(g, r)
  BY <1>4, FenceSend
<1>5. CASE Fail(g, r) \/ End(g, r)
  <2>1. PICK pc \in {"failed", "ended"} : Move(g, r, pc)
    BY <1>5 DEF Fail, End
  <2>2. UNCHANGED <<receipt, sends>>
    BY <1>5 DEF Fail, End
  <2>3. QED
    BY <1>1, <2>1, <2>2, NobodyArmed, FenceKept DEF RunnerPCs
<1>6. CASE Observe(g, r)
  <2>1. PICK pc \in {"failed", "done", "rejected", "observing"} : Move(g, r, pc)
    BY <1>6 DEF Observe
  <2>2. \A x \in Requests : receipt'[x] = receipt[x] \/ FenceHolds(x)
    BY <1>6, FenceObserve DEF Observe
  <2>3. QED
    BY <1>1, <1>6, <2>1, <2>2, NobodyArmed, FenceKept DEF Observe, RunnerPCs
<1>7. CASE FailArmed(g, r)
  <2>1. Move(g, r, "failed") /\ UNCHANGED sends
    BY <1>7 DEF FailArmed
  <2>2. \A x \in Requests : receipt'[x] = receipt[x] \/ FenceHolds(x)
    BY <1>1, <1>7 DEF FailArmed, FenceHolds, TypeOK, ReceiptType
  <2>3. QED
    BY <1>1, <2>1, <2>2, NobodyArmed, FenceKept DEF RunnerPCs
<1>8. CASE Abandon(g, r)
  <2>1. \A x \in Requests : receipt'[x] = receipt[x] \/ FenceHolds(x)
    BY <1>1, <1>8 DEF Abandon, Abandoned, FenceHolds, TypeOK, ReceiptType, PostArm
  <2>2. QED
    BY <1>8, <2>1, FenceKept DEF Abandon
<1>9. CASE Release(g, r)
  BY <1>9, FenceKept DEF Release
<1>10. QED
  BY <1>2, <1>3, <1>4, <1>5, <1>6, <1>7, <1>8, <1>9 DEF RunnerStep

\* The client, the chat and the account keep the fence.
LEMMA FenceEnvironment ==
  ASSUME FenceInv, NEW r \in Requests, ClientStep(r) \/ ChatStep(r)
  PROVE  SendIsFenced' /\ AtMostOneSend'
<1>1. TypeOK
  BY DEF FenceInv
<1>2. UNCHANGED <<run, sends>>
  BY DEF ClientStep, Submit, Cancel, Acknowledge, ChatStep, Answer,
         UnusualActivity403, CooldownExpires
<1>3. CASE UnusualActivity403(r) \/ CooldownExpires(r)
  <2>1. \A x \in Requests : x # r => receipt'[x] = receipt[x]
    BY <1>1, <1>3 DEF UnusualActivity403, CooldownExpires, TypeOK
  <2>2. ASSUME UnusualActivity403(r) PROVE FenceHolds(r)
    BY <1>1, <2>2 DEF UnusualActivity403, FenceHolds, TypeOK, ReceiptType
  <2>3. ASSUME CooldownExpires(r) PROVE FenceHolds(r)
    <3>1. /\ receipt'[r].st = receipt[r].st
          /\ receipt'[r].no_resend = receipt[r].no_resend
      BY <1>1, <2>3 DEF CooldownExpires, TypeOK, ReceiptType
    <3>2. QED
      BY <3>1 DEF FenceInv, SendIsFenced, FenceHolds
  <2>4. QED
    BY <1>2, <1>3, <2>1, <2>2, <2>3, FenceKept
<1>4. CASE UNCHANGED receipt
  BY <1>2, <1>4, FenceKept
<1>5. QED
  BY <1>3, <1>4 DEF ClientStep, Submit, Cancel, Acknowledge, ChatStep, Answer

\* No step of an owner, whichever it is, weakens a fence or arms a runner.
LEMMA FenceOwner ==
  ASSUME FenceInv, OwnerStep
  PROVE  SendIsFenced' /\ AtMostOneSend'
<1>1. TypeOK
  BY DEF FenceInv
<1>2. ASSUME NEW r \in Requests, Begin(r)
      PROVE  SendIsFenced' /\ AtMostOneSend'
  <2>1. PICK pc \in {"begun", "failed"} : Move(generation, r, pc)
    BY <1>2 DEF Begin
  <2>2. generation \in Gens
    BY <1>1 DEF TypeOK
  <2>3. QED
    BY <1>1, <1>2, <2>1, <2>2, NobodyArmed, FenceKept DEF Begin, RunnerPCs
<1>3. ASSUME NEW r \in Requests, CollectorObserve(r)
      PROVE  SendIsFenced' /\ AtMostOneSend'
  <2>1. \A x \in Requests : receipt'[x] = receipt[x] \/ FenceHolds(x)
    BY <1>3, FenceObserve DEF CollectorObserve
  <2>2. QED
    BY <1>3, <2>1, FenceKept DEF CollectorObserve
<1>4. ASSUME NEW r \in Requests, Settle(r)
      PROVE  SendIsFenced' /\ AtMostOneSend'
  <2>1. FenceHolds(r) \/ receipt'[r] = receipt[r]
    <3>1. CASE /\ receipt[r].st = "absent"
               /\ receipt'[r].st \in {"prepared", "abandoned"}
               /\ receipt'[r].no_resend = FALSE
      BY <3>1 DEF FenceInv, SendIsFenced, FenceHolds, PostArm
    <3>2. CASE receipt'[r] = Abandoned(receipt[r])
      BY <1>1, <3>2 DEF Abandoned, FenceHolds, TypeOK, ReceiptType, PostArm
    <3>3. QED
      BY <1>1, <1>4, <3>1, <3>2, SettleReceipt
  <2>2. QED
    BY <1>1, <1>4, <2>1, SettleReceipt, FenceKept DEF Settle
<1>5. ASSUME NEW r \in Requests, SettleAbandon(r)
      PROVE  SendIsFenced' /\ AtMostOneSend'
  <2>1. \A x \in Requests : receipt'[x] = receipt[x] \/ FenceHolds(x)
    BY <1>1, <1>5 DEF SettleAbandon, Abandoned, FenceHolds, TypeOK, ReceiptType, PostArm
  <2>2. QED
    BY <1>5, <2>1, FenceKept DEF SettleAbandon
<1>6. CASE UNCHANGED <<receipt, run, sends>>
  BY <1>6, FenceKept
<1>7. QED
  BY <1>2, <1>3, <1>4, <1>5, <1>6
     DEF OwnerStep, Start, BindSession, RecoverStart, CollectorOpen, CollectorClose,
         Takeover, Handoff, EndCollected, SettleRelease

\* Every step keeps the fence and the send count.
LEMMA FenceStep ==
  ASSUME FenceInv, [Next]_vars
  PROVE  FenceInv'
<1>1. TypeOK'
  BY TypeStep DEF FenceInv
<1>2. CASE UNCHANGED vars
  BY <1>1, <1>2, FenceKept DEF FenceInv, vars
<1>3. CASE Next
  BY <1>1, <1>3, FenceRunner, FenceEnvironment, FenceOwner DEF FenceInv, Next
<1>4. QED
  BY <1>2, <1>3

\* The invariant holds of every reachable state.
THEOREM FenceInvariant == Spec => []FenceInv
<1>1. Init => FenceInv
  BY TypeInit, FenceInit DEF FenceInv
<1>2. FenceInv /\ [Next]_vars => FenceInv'
  BY FenceStep
<1>3. QED
  BY <1>1, <1>2, PTL DEF Spec

\* Whatever is cut short, lost, recovered, taken over or still running from a
\* replaced generation, a request is sent to its chat at most once.
THEOREM NeverSentTwice == Spec => []AtMostOneSend
<1>1. FenceInv => AtMostOneSend
  BY DEF FenceInv
<1>2. QED
  BY <1>1, FenceInvariant, PTL

\* No runner may send, and nothing was sent, without a receipt that forbids it
\* to be sent again; and two runners are never armed for one request.
THEOREM AlwaysFenced == Spec => []SendIsFenced
<1>1. FenceInv => SendIsFenced
  BY DEF FenceInv
<1>2. QED
  BY <1>1, FenceInvariant, PTL
----------------------------------------------------------------------------
(* The invariant: delivery, answer and publication                         *)

\* What the files say of a delivery agrees with the chat.
Delivered(r) ==
  /\ chat[r] # "silent" => sends[r] > 0
  /\ queue[r].staged => chat[r] = "answered"
  /\ receipt[r].st \in {"absent", "prepared"} => ~receipt[r].verified
  /\ receipt[r].st = "complete" => receipt[r].verified /\ chat[r] = "answered"
  /\ receipt[r].st = "complete" =>
       queue[r].staged \/ queue[r].st = "acknowledged"
  /\ queue[r].st \in {"published", "acknowledged"} => receipt[r].st = "complete"

DeliveryInv == FenceInv /\ \A r \in Requests : Delivered(r)

\* Initially nothing is delivered.
LEMMA DeliveryInit == Init => \A r \in Requests : Delivered(r)
<1>1. SUFFICES ASSUME Init, NEW r \in Requests PROVE Delivered(r)
  OBVIOUS
<1>2. queue[r] = NoRecord /\ receipt[r] = NoReceipt /\ chat[r] = "silent"
  BY <1>1 DEF Init
<1>3. /\ queue[r].st = "absent" /\ queue[r].staged = FALSE
      /\ receipt[r].st = "absent" /\ receipt[r].verified = FALSE
  BY <1>2 DEF NoRecord, NoReceipt
<1>4. QED
  BY <1>2, <1>3 DEF Delivered

\* What one step may do to a receipt.
MovesForward(r) ==
  /\ receipt[r].st \in Settled => receipt'[r].st = receipt[r].st
  /\ receipt[r].st # "absent" => receipt'[r].st # "absent"
  /\ receipt[r].st \in PostArm => receipt'[r].st # "prepared"
  /\ receipt[r].no_resend => receipt'[r].no_resend
  /\ receipt[r].verified => receipt'[r].verified

\* A step that leaves the request's files and chat alone keeps all of it.
LEMMA DeliveryUntouched ==
  ASSUME NEW r \in Requests, Delivered(r),
         queue'[r].st = queue[r].st, queue'[r].staged = queue[r].staged,
         receipt'[r] = receipt[r], chat'[r] = chat[r], sends'[r] = sends[r]
  PROVE  Delivered(r)' /\ MovesForward(r)
BY DEF Delivered, MovesForward, PostArm

\* An answer never changes again, and a staged history is an answer.
LEMMA SeenIsAnswered ==
  ASSUME TypeOK, NEW r \in Requests, Delivered(r), NEW seen, NEW o,
         ObserveWrites(r, seen, o)
  PROVE  /\ sends[r] > 0
         /\ o.done > 1 => chat[r] = "answered"
         /\ o.done \in 0..4
<1>1. CASE seen = "answered"
  <2>1. chat[r] = "answered"
    BY <1>1 DEF ObserveWrites, Delivered, Snapshots
  <2>2. o.done \in 0..4
    BY <1>1, OutcomeFacts DEF ObserveWrites
  <2>3. QED
    BY <2>1, <2>2 DEF Delivered
<1>2. CASE seen # "answered"
  <2>1. o.done \in 0..1
    BY <1>2, OutcomeFacts DEF ObserveWrites
  <2>2. seen \in Snapshots(r)
    BY <1>2 DEF ObserveWrites
  <2>3. chat[r] # "silent"
    BY <2>2 DEF Snapshots
  <2>4. QED
    BY <2>1, <2>3 DEF Delivered
<1>3. QED
  BY <1>1, <1>2

\* An observation stages, completes and publishes in that order.
LEMMA DeliveryObserve ==
  ASSUME DeliveryInv, NEW r \in Requests, Observable(r), NEW seen, NEW o,
         ObserveWrites(r, seen, o), UNCHANGED <<chat, sends>>
  PROVE  \A x \in Requests : Delivered(x)' /\ MovesForward(x)
<1>1. TypeOK /\ Delivered(r)
  BY DEF DeliveryInv, FenceInv
<1>2. /\ sends[r] > 0
      /\ o.done > 1 => chat[r] = "answered"
      /\ o.done \in 0..4
  BY <1>1, SeenIsAnswered
<1>3. /\ receipt'[r] = ObservedReceipt(receipt[r], o.done)
      /\ queue'[r] = ObservedRecord(queue[r], o.done)
      /\ \A x \in Requests : x # r => receipt'[x] = receipt[x] /\ queue'[x] = queue[x]
  BY <1>1 DEF ObserveWrites, TypeOK
<1>4. queue[r] \in RecordType /\ receipt[r] \in ReceiptType
  BY <1>1 DEF TypeOK
<1>5. queue[r].st \in {"claimed", "published"} /\ receipt[r].st \in PostArm \cup {"complete"}
  BY DEF Observable
<1>6. Delivered(r)' /\ MovesForward(r)
  <2>1. CASE o.done = 0
    BY <1>1, <1>3, <2>1, DeliveryUntouched DEF ObservedReceipt, ObservedRecord
  <2>2. /\ Submitted(receipt[r]) \in ReceiptType
        /\ Submitted(receipt[r]).verified = TRUE
        /\ Submitted(receipt[r]).no_resend = receipt[r].no_resend
        /\ Submitted(receipt[r]).st \in {receipt[r].st, "submitted"}
        /\ receipt[r].st = "complete" => Submitted(receipt[r]) = receipt[r]
    BY <1>1, <1>4 DEF Submitted, ReceiptType, ReceiptStates, Delivered
  <2>3. CASE o.done \in 1..2
    <3>1. receipt'[r] = Submitted(receipt[r])
      BY <1>3, <2>3 DEF ObservedReceipt
    <3>2. /\ queue'[r].st = queue[r].st
          /\ queue[r].staged => queue'[r].staged
          /\ queue'[r].staged => queue[r].staged \/ o.done = 2
      BY <1>3, <1>4, <2>3 DEF ObservedRecord, RecordType
    <3>3. QED
      BY <1>1, <1>2, <1>5, <2>2, <3>1, <3>2 DEF Delivered, MovesForward, PostArm, Settled
  <2>4. CASE o.done \in 3..4
    <3>1. receipt'[r] = [Submitted(receipt[r]) EXCEPT !.st = "complete"]
      BY <1>3, <2>4 DEF ObservedReceipt
    <3>2. /\ receipt'[r].st = "complete"
          /\ receipt'[r].verified = TRUE
          /\ receipt'[r].no_resend = receipt[r].no_resend
      BY <2>2, <3>1 DEF ReceiptType
    <3>3. /\ queue'[r].staged = TRUE
          /\ queue'[r].st \in {queue[r].st, "published"}
      BY <1>3, <1>4, <2>4 DEF ObservedRecord, RecordType
    <3>4. QED
      BY <1>1, <1>2, <1>5, <2>4, <3>2, <3>3 DEF Delivered, MovesForward, PostArm, Settled
  <2>5. QED
    BY <1>2, <2>1, <2>3, <2>4
<1>7. QED
  BY <1>3, <1>6, DeliveryUntouched DEF DeliveryInv

----------------------------------------------------------------------------
(* Every step keeps the invariant and moves receipts forward               *)

Forward == \A x \in Requests : Delivered(x)' /\ MovesForward(x)

\* The client's steps.
LEMMA ForwardClient ==
  ASSUME DeliveryInv, NEW r \in Requests, ClientStep(r)
  PROVE  Forward
<1>1. TypeOK /\ Delivered(r)
  BY DEF DeliveryInv, FenceInv
<1>2. queue[r] \in RecordType
  BY <1>1 DEF TypeOK
<1>3. UNCHANGED <<receipt, chat, sends>>
  BY DEF ClientStep, Submit, Cancel, Acknowledge
<1>4. \A x \in Requests : x # r => queue'[x] = queue[x]
  BY <1>1 DEF ClientStep, Submit, Cancel, Acknowledge, TypeOK
<1>5. CASE Submit(r) \/ Cancel(r)
  <2>1. /\ queue'[r].st \in {"queued", "cancelled"}
        /\ queue'[r].staged = queue[r].staged
        /\ queue[r].st \in {"absent", "queued"}
    BY <1>1, <1>2, <1>5 DEF Submit, Cancel, TypeOK, RecordType
  <2>2. Delivered(r)' /\ MovesForward(r)
    BY <1>1, <1>3, <2>1 DEF Delivered, MovesForward, PostArm
  <2>3. QED
    BY <1>3, <1>4, <2>2, DeliveryUntouched DEF DeliveryInv, Forward
<1>6. CASE Acknowledge(r)
  <2>1. /\ queue'[r].st = "acknowledged"
        /\ queue'[r].staged = FALSE
        /\ receipt[r].st = "complete"
    BY <1>1, <1>2, <1>6 DEF Acknowledge, TypeOK, RecordType
  <2>2. Delivered(r)' /\ MovesForward(r)
    BY <1>1, <1>3, <2>1 DEF Delivered, MovesForward, PostArm
  <2>3. QED
    BY <1>3, <1>4, <2>2, DeliveryUntouched DEF DeliveryInv, Forward
<1>7. QED
  BY <1>5, <1>6 DEF ClientStep

\* The steps of the worker chat and of the account.
LEMMA ForwardChat ==
  ASSUME DeliveryInv, NEW r \in Requests, ChatStep(r)
  PROVE  Forward
<1>1. TypeOK /\ Delivered(r)
  BY DEF DeliveryInv, FenceInv
<1>2. receipt[r] \in ReceiptType
  BY <1>1 DEF TypeOK
<1>3. UNCHANGED <<queue, sends>>
  BY DEF ChatStep, Answer, UnusualActivity403, CooldownExpires
<1>4. \A x \in Requests : x # r => receipt'[x] = receipt[x] /\ chat'[x] = chat[x]
  BY <1>1 DEF ChatStep, Answer, UnusualActivity403, CooldownExpires, TypeOK
<1>5. Delivered(r)' /\ MovesForward(r)
  <2>1. CASE Answer(r)
    <3>1. chat[r] = "delivered" /\ UNCHANGED receipt
      BY <2>1 DEF Answer
    <3>2. QED
      BY <1>1, <1>3, <3>1 DEF Delivered, MovesForward, PostArm
  <2>2. CASE UnusualActivity403(r)
    <3>1. /\ receipt[r].st \in PostArm
          /\ receipt'[r].st = "indeterminate"
          /\ receipt'[r].no_resend = TRUE
          /\ receipt'[r].verified = receipt[r].verified
      BY <1>1, <1>2, <2>2 DEF UnusualActivity403, MayReport403, TypeOK, ReceiptType
    <3>2. UNCHANGED chat
      BY <2>2 DEF UnusualActivity403
    <3>3. QED
      BY <1>1, <1>3, <3>1, <3>2 DEF Delivered, MovesForward, PostArm, Settled
  <2>3. CASE CooldownExpires(r)
    <3>1. /\ receipt'[r].st = receipt[r].st
          /\ receipt'[r].no_resend = receipt[r].no_resend
          /\ receipt'[r].verified = receipt[r].verified
      BY <1>1, <1>2, <2>3 DEF CooldownExpires, TypeOK, ReceiptType
    <3>2. UNCHANGED chat
      BY <2>3 DEF CooldownExpires
    <3>3. QED
      BY <1>1, <1>3, <3>1, <3>2 DEF Delivered, MovesForward, PostArm
  <2>4. QED
    BY <2>1, <2>2, <2>3 DEF ChatStep
<1>6. QED
  BY <1>3, <1>4, <1>5, DeliveryUntouched DEF DeliveryInv, Forward

\* A receipt given up, by the runner's owner or by the one that took over.
LEMMA ForwardAbandon ==
  ASSUME DeliveryInv, NEW r \in Requests, receipt[r].st \in Active,
         receipt' = [receipt EXCEPT ![r] = Abandoned(@)],
         UNCHANGED <<queue, chat, sends>>
  PROVE  Forward
<1>1. TypeOK /\ Delivered(r)
  BY DEF DeliveryInv, FenceInv
<1>2. /\ receipt'[r].st = "abandoned"
      /\ receipt'[r].no_resend = receipt[r].no_resend
      /\ receipt'[r].verified = receipt[r].verified
  BY <1>1 DEF Abandoned, TypeOK, ReceiptType
<1>3. \A x \in Requests : x # r => receipt'[x] = receipt[x]
  BY <1>1 DEF TypeOK
<1>4. Delivered(r)' /\ MovesForward(r)
  BY <1>1, <1>2 DEF Delivered, MovesForward, Active, PostArm, Settled
<1>5. QED
  BY <1>3, <1>4, DeliveryUntouched DEF DeliveryInv, Forward

\* A claim released after its receipt was given up.
LEMMA ForwardRelease ==
  ASSUME DeliveryInv, NEW r \in Requests, receipt[r].st = "abandoned",
         queue' = [queue EXCEPT ![r].st = "released", ![r].staged = FALSE],
         UNCHANGED <<receipt, chat, sends>>
  PROVE  Forward
<1>1. TypeOK /\ Delivered(r)
  BY DEF DeliveryInv, FenceInv
<1>2. queue'[r].st = "released" /\ queue'[r].staged = FALSE
  BY <1>1 DEF TypeOK, RecordType
<1>3. \A x \in Requests : x # r => queue'[x] = queue[x]
  BY <1>1 DEF TypeOK
<1>4. Delivered(r)' /\ MovesForward(r)
  BY <1>1, <1>2 DEF Delivered, MovesForward, PostArm
<1>5. QED
  BY <1>3, <1>4, DeliveryUntouched DEF DeliveryInv, Forward

\* A claim, queued or retained.
LEMMA ForwardClaim ==
  ASSUME DeliveryInv, NEW g \in Gens, NEW r \in Requests,
         ClaimQueued(g, r) \/ ClaimRetained(g, r)
  PROVE  Forward
<1>1. TypeOK /\ Delivered(r)
  BY DEF DeliveryInv, FenceInv
<1>2. queue[r] \in RecordType
  BY <1>1 DEF TypeOK
<1>3. UNCHANGED <<chat, sends>>
  BY DEF ClaimQueued, ClaimRetained
<1>4. /\ \A x \in Requests : x # r => queue'[x] = queue[x] /\ receipt'[x] = receipt[x]
      /\ queue'[r].staged = queue[r].staged
      /\ queue'[r].st \in {queue[r].st, "claimed"}
      /\ queue[r].st \in {"queued", "claimed"}
      /\ \/ receipt'[r] = receipt[r]
         \/ /\ receipt[r].st = "absent"
            /\ \E q : receipt'[r] = PreparedFor(q, parent)
  <2>1. CASE ClaimQueued(g, r)
    <3>1. PICK s \in Slots, o \in Outcomes(3) :
            LET claim == [queue[r] EXCEPT !.st = "claimed", !.slot = s, !.gen = g,
                                          !.parent = parent,
                                          !.established = (o.done = 3)]
            IN /\ queue' = IF o.done = 0 THEN queue
                           ELSE [queue EXCEPT ![r] = claim]
               /\ receipt' = IF o.done < 2 THEN receipt
                             ELSE [receipt EXCEPT ![r] = PreparedFor(claim, parent)]
      BY <2>1 DEF ClaimQueued
    <3>2. QED
      BY <1>1, <1>2, <2>1, <3>1 DEF ClaimQueued, TypeOK, RecordType
  <2>2. CASE ClaimRetained(g, r)
    <3>1. PICK o \in Outcomes(2) :
            /\ \/ receipt' = receipt
               \/ /\ receipt[r].st = "absent"
                  /\ receipt' = [receipt EXCEPT ![r] = PreparedFor(queue[r], parent)]
            /\ \/ queue' = queue
               \/ queue' = [queue EXCEPT ![r].established = TRUE]
      BY <2>2, OutcomeFacts DEF ClaimRetained, Outcomes
    <3>2. QED
      BY <1>1, <1>2, <2>2, <3>1 DEF ClaimRetained, TypeOK, RecordType
  <2>3. QED
    BY <2>1, <2>2
<1>5. Delivered(r)' /\ MovesForward(r)
  <2>1. CASE receipt'[r] = receipt[r]
    BY <1>1, <1>3, <1>4, <2>1 DEF Delivered, MovesForward, PostArm
  <2>2. CASE receipt[r].st = "absent" /\ \E q : receipt'[r] = PreparedFor(q, parent)
    <3>1. /\ receipt'[r].st = "prepared"
          /\ receipt'[r].no_resend = FALSE
          /\ receipt'[r].verified = FALSE
      BY <2>2 DEF PreparedFor, NoReceipt
    <3>2. ~receipt[r].no_resend
      BY <2>2 DEF DeliveryInv, FenceInv, SendIsFenced
    <3>3. QED
      BY <1>1, <1>3, <1>4, <2>2, <3>1, <3>2 DEF Delivered, MovesForward, PostArm, Settled
  <2>3. QED
    BY <1>4, <2>1, <2>2
<1>6. QED
  BY <1>3, <1>4, <1>5, DeliveryUntouched DEF DeliveryInv, Forward

\* Arming, sending and failing after the arm.
LEMMA ForwardArmed ==
  ASSUME DeliveryInv, NEW g \in Gens, NEW r \in Requests,
         Arm(g, r) \/ Send(g, r) \/ FailArmed(g, r)
  PROVE  Forward
<1>1. TypeOK /\ Delivered(r)
  BY DEF DeliveryInv, FenceInv
<1>2. receipt[r] \in ReceiptType
  BY <1>1 DEF TypeOK
<1>3. UNCHANGED queue
  BY DEF Arm, Send, FailArmed
<1>4. \A x \in Requests : x # r => /\ receipt'[x] = receipt[x]
                                  /\ chat'[x] = chat[x]
                                  /\ sends'[x] = sends[x]
  BY <1>1 DEF Arm, Send, FailArmed, TypeOK
<1>5. Delivered(r)' /\ MovesForward(r)
  <2>1. CASE Arm(g, r)
    <3>1. UNCHANGED <<chat, sends>> /\ receipt[r].st = "prepared"
      BY <2>1 DEF Arm
    <3>2. \/ receipt'[r] = receipt[r]
          \/ receipt'[r] = ArmedReceipt(receipt[r])
      BY <1>1, <2>1 DEF Arm, TypeOK
    <3>3. /\ ArmedReceipt(receipt[r]).st = "armed"
          /\ ArmedReceipt(receipt[r]).no_resend = TRUE
          /\ ArmedReceipt(receipt[r]).verified = receipt[r].verified
      BY <1>2 DEF ArmedReceipt, ReceiptType
    <3>4. QED
      BY <1>1, <1>3, <3>1, <3>2, <3>3 DEF Delivered, MovesForward, PostArm, Settled
  <2>2. CASE Send(g, r)
    <3>1. UNCHANGED receipt /\ sends'[r] > 0
      BY <1>1, <2>2 DEF Send, TypeOK
    <3>2. \/ chat'[r] = chat[r]
          \/ chat[r] = "silent" /\ chat'[r] = "delivered"
      BY <1>1, <2>2 DEF Send, TypeOK
    <3>3. QED
      BY <1>1, <1>3, <3>1, <3>2 DEF Delivered, MovesForward, PostArm
  <2>3. CASE FailArmed(g, r)
    <3>1. UNCHANGED <<chat, sends>>
      BY <2>3 DEF FailArmed
    <3>2. \/ receipt'[r] = receipt[r]
          \/ /\ receipt[r].st \in PostArm
             /\ receipt'[r].st = "indeterminate"
             /\ receipt'[r].no_resend = TRUE
             /\ receipt'[r].verified = receipt[r].verified
      BY <1>1, <1>2, <2>3 DEF FailArmed, TypeOK, ReceiptType
    <3>3. QED
      BY <1>1, <1>3, <3>1, <3>2 DEF Delivered, MovesForward, PostArm, Settled
  <2>4. QED
    BY <2>1, <2>2, <2>3
<1>6. QED
  BY <1>3, <1>4, <1>5, DeliveryUntouched DEF DeliveryInv, Forward

\* A step that changes none of the files and chats these facts are about.
LEMMA ForwardUntouched ==
  ASSUME DeliveryInv, UNCHANGED <<receipt, chat, sends>>,
         \A x \in Requests : /\ queue'[x].st = queue[x].st
                             /\ queue'[x].staged = queue[x].staged
  PROVE  Forward
BY DeliveryUntouched DEF DeliveryInv, Forward

\* The steps of a runner.
LEMMA ForwardRunner ==
  ASSUME DeliveryInv, NEW g \in Gens, NEW r \in Requests, RunnerStep(g, r)
  PROVE  Forward
<1>1. CASE ClaimQueued(g, r) \/ ClaimRetained(g, r)
  BY <1>1, ForwardClaim
<1>2. CASE Arm(g, r) \/ Send(g, r) \/ FailArmed(g, r)
  BY <1>2, ForwardArmed
<1>3. CASE Observe(g, r)
  BY <1>3, DeliveryObserve DEF Observe, Forward
<1>4. CASE Abandon(g, r)
  BY <1>4, ForwardAbandon DEF Abandon
<1>5. CASE Release(g, r)
  BY <1>5, ForwardRelease DEF Release
<1>6. CASE Fail(g, r) \/ End(g, r)
  BY <1>6, ForwardUntouched DEF Fail, End
<1>7. QED
  BY <1>1, <1>2, <1>3, <1>4, <1>5, <1>6 DEF RunnerStep

\* The settlement of one request: prepared, abandoned, released.
LEMMA ForwardSettle ==
  ASSUME DeliveryInv, NEW r \in Requests, Settle(r)
  PROVE  Forward
<1>1. TypeOK /\ Delivered(r)
  BY DEF DeliveryInv, FenceInv
<1>2. UNCHANGED <<chat, sends>>
  BY DEF Settle
<1>3. /\ \A x \in Requests : x # r => queue'[x] = queue[x]
      /\ queue'[r].staged = queue[r].staged
      /\ \/ queue'[r].st = queue[r].st
         \/ /\ queue[r].st \in {"claimed", "released"}
            /\ queue'[r].st = "released"
  BY <1>1 DEF Settle, TypeOK, RecordType
<1>4. /\ \A x \in Requests : x # r => receipt'[x] = receipt[x]
      /\ \/ receipt'[r] = receipt[r]
         \/ /\ receipt[r].st = "absent"
            /\ receipt'[r].st \in {"prepared", "abandoned"}
            /\ receipt'[r].no_resend = FALSE
            /\ receipt'[r].verified = FALSE
         \/ /\ receipt[r].st \in {"prepared", "abandoned"}
            /\ receipt'[r] = Abandoned(receipt[r])
  BY <1>1, SettleReceipt
<1>5. ~receipt[r].no_resend \/ receipt[r].st # "absent"
  BY DEF DeliveryInv, FenceInv, SendIsFenced
<1>6. /\ Abandoned(receipt[r]).st = "abandoned"
      /\ Abandoned(receipt[r]).no_resend = receipt[r].no_resend
      /\ Abandoned(receipt[r]).verified = receipt[r].verified
  BY <1>1 DEF Abandoned, TypeOK, ReceiptType
<1>7. Delivered(r)' /\ MovesForward(r)
  BY <1>1, <1>2, <1>3, <1>4, <1>5, <1>6 DEF Delivered, MovesForward, PostArm, Settled
<1>8. QED
  BY <1>2, <1>3, <1>4, <1>7, DeliveryUntouched DEF DeliveryInv, Forward

\* The steps of the owner.
LEMMA ForwardOwner ==
  ASSUME DeliveryInv, OwnerStep
  PROVE  Forward
<1>1. TypeOK
  BY DEF DeliveryInv, FenceInv
<1>2. CASE RecoverStart
  <2>1. \A x \in Requests : /\ queue'[x].st = queue[x].st
                            /\ queue'[x].staged = queue[x].staged
    BY <1>1, <1>2 DEF RecoverStart, TypeOK, RecordType
  <2>2. QED
    BY <1>2, <2>1, ForwardUntouched DEF RecoverStart
<1>3. ASSUME NEW r \in Requests, CollectorObserve(r)
      PROVE  Forward
  BY <1>3, DeliveryObserve DEF CollectorObserve, Forward
<1>4. ASSUME NEW r \in Requests, Settle(r)
      PROVE  Forward
  BY <1>4, ForwardSettle
<1>5. ASSUME NEW r \in Requests, SettleAbandon(r)
      PROVE  Forward
  BY <1>5, ForwardAbandon DEF SettleAbandon
<1>6. ASSUME NEW r \in Requests, SettleRelease(r)
      PROVE  Forward
  BY <1>6, ForwardRelease DEF SettleRelease
<1>7. CASE UNCHANGED <<queue, receipt, chat, sends>>
  BY <1>7, ForwardUntouched
<1>8. QED
  BY <1>2, <1>3, <1>4, <1>5, <1>6, <1>7
     DEF OwnerStep, Start, BindSession, CollectorOpen, CollectorClose, Takeover,
         Handoff, Begin, EndCollected

\* Every step moves receipts forward or leaves them.
LEMMA ForwardStep ==
  ASSUME DeliveryInv, [Next]_vars
  PROVE  Forward
<1>1. CASE UNCHANGED vars
  BY <1>1, ForwardUntouched DEF vars
<1>2. CASE Next
  BY <1>2, ForwardClient, ForwardChat, ForwardRunner, ForwardOwner DEF Next
<1>3. QED
  BY <1>1, <1>2

\* The invariant holds of every reachable state.
THEOREM DeliveryInvariant == Spec => []DeliveryInv
<1>1. Init => DeliveryInv
  BY TypeInit, FenceInit, DeliveryInit DEF FenceInv, DeliveryInv
<1>2. DeliveryInv /\ [Next]_vars => DeliveryInv'
  BY FenceStep, ForwardStep DEF DeliveryInv, Forward
<1>3. QED
  BY <1>1, <1>2, PTL DEF Spec

\* A client is given only what was sent, verified as delivered and answered.
THEOREM PublishedWasAnswered == Spec => []PublishedIsAnswered
<1>1. DeliveryInv => PublishedIsAnswered
  BY DEF DeliveryInv, Delivered, PublishedIsAnswered
<1>2. QED
  BY <1>1, DeliveryInvariant, PTL

\* A settled receipt stays settled, and no fence or verification is taken back.
THEOREM ReceiptsNeverGoBack == Spec => ReceiptsMoveForward
<1>1. DeliveryInv /\ [Next]_vars =>
        [\A r \in Requests :
           /\ receipt[r].st \in Settled => receipt'[r].st = receipt[r].st
           /\ receipt[r].st # "absent" => receipt'[r].st # "absent"
           /\ receipt[r].st \in PostArm => receipt'[r].st # "prepared"
           /\ receipt[r].no_resend => receipt'[r].no_resend
           /\ receipt[r].verified => receipt'[r].verified]_vars
  BY ForwardStep DEF Forward, MovesForward
<1>2. QED
  BY <1>1, DeliveryInvariant, PTL DEF Spec, ReceiptsMoveForward

----------------------------------------------------------------------------
(* The pool implements the ledger                                          *)

\* The entry of one request, from the status of its receipt and its record.
LEMMA EntryOf ==
  ASSUME NEW r \in Requests
  PROVE  /\ receipt[r].st = "complete" => ledger[r] = "complete"
         /\ receipt[r].st = "abandoned" /\ receipt[r].no_resend
              => ledger[r] = "withdrawn"
         /\ receipt[r].st = "abandoned" /\ ~receipt[r].no_resend
              => ledger[r] = "dropped"
         /\ receipt[r].st \in PostArm => ledger[r] = "committed"
         /\ receipt[r].st = "prepared" => ledger[r] = "open"
         /\ receipt[r].st = "absent" /\ queue[r].st = "cancelled"
              => ledger[r] = "dropped"
         /\ receipt[r].st = "absent" /\ queue[r].st # "cancelled"
              => ledger[r] = "open"
BY DEF ledger, PostArm

\* The same of the entry after a step.
LEMMA EntryNext ==
  ASSUME NEW r \in Requests
  PROVE  /\ receipt'[r].st = "complete" => ledger'[r] = "complete"
         /\ receipt'[r].st = "abandoned" /\ receipt'[r].no_resend
              => ledger'[r] = "withdrawn"
         /\ receipt'[r].st = "abandoned" /\ ~receipt'[r].no_resend
              => ledger'[r] = "dropped"
         /\ receipt'[r].st \in PostArm => ledger'[r] = "committed"
         /\ receipt'[r].st = "prepared" => ledger'[r] = "open"
         /\ receipt'[r].st = "absent" /\ queue'[r].st = "cancelled"
              => ledger'[r] = "dropped"
         /\ receipt'[r].st = "absent" /\ queue'[r].st # "cancelled"
              => ledger'[r] = "open"
BY DEF ledger, PostArm

\* A receipt has one of its statuses.
LEMMA StatusCases ==
  ASSUME TypeOK, NEW r \in Requests
  PROVE  receipt[r].st \in {"complete", "abandoned", "prepared", "absent"} \cup PostArm
BY DEF TypeOK, ReceiptType, ReceiptStates, PostArm

\* An entry depends on nothing else.
LEMMA EntryKept ==
  ASSUME NEW r \in Requests,
         receipt'[r].st = receipt[r].st,
         receipt'[r].no_resend = receipt[r].no_resend,
         receipt[r].st = "absent" =>
           ((queue'[r].st = "cancelled") <=> (queue[r].st = "cancelled"))
  PROVE  ledger'[r] = ledger[r]
BY DEF ledger, PostArm

\* A step that changes one request's entry is a step of the ledger, or none.
LEMMA EntryStep ==
  ASSUME NEW r \in Requests, UNCHANGED sends,
         \A x \in Requests : x # r => ledger'[x] = ledger[x],
         \/ ledger'[r] = ledger[r]
         \/ ledger[r] = "open" /\ ledger'[r] \in {"committed", "dropped"}
         \/ ledger[r] = "committed" /\ ledger'[r] = "withdrawn"
         \/ ledger[r] = "committed" /\ ledger'[r] = "complete" /\ sends[r] = 1
  PROVE  [Abstract!Next]_(Abstract!vars)
<1>1. /\ ledger  = [x \in Requests |-> ledger[x]]
      /\ ledger' = [x \in Requests |-> ledger'[x]]
      /\ ledger' = [ledger EXCEPT ![r] = ledger'[r]]
  <2>1. ledger = [x \in Requests |-> ledger[x]]
    BY DEF ledger
  <2>2. ledger' = [x \in Requests |-> ledger'[x]]
    BY DEF ledger
  <2>3. QED
    BY <2>1, <2>2
<1>2. CASE ledger'[r] = ledger[r]
  <2>1. ledger' = ledger
    BY <1>1, <1>2
  <2>2. QED
    BY <2>1 DEF Abstract!vars
<1>3. CASE ledger[r] = "open" /\ ledger'[r] = "committed"
  <2>1. Abstract!Commit(r)
    BY <1>1, <1>3 DEF Abstract!Commit
  <2>2. QED
    BY <2>1 DEF Abstract!Next
<1>4. CASE \/ ledger[r] = "open" /\ ledger'[r] = "dropped"
           \/ ledger[r] = "committed" /\ ledger'[r] = "withdrawn"
  <2>1. Abstract!GiveUp(r)
    BY <1>1, <1>4 DEF Abstract!GiveUp
  <2>2. QED
    BY <2>1 DEF Abstract!Next
<1>5. CASE ledger[r] = "committed" /\ ledger'[r] = "complete" /\ sends[r] = 1
  <2>1. Abstract!Complete(r)
    BY <1>1, <1>5 DEF Abstract!Complete
  <2>2. QED
    BY <2>1 DEF Abstract!Next
<1>6. QED
  BY <1>2, <1>3, <1>4, <1>5

\* A step that sends nothing and writes no receipt and cancels no request.
LEMMA LedgerKept ==
  ASSUME UNCHANGED <<receipt, sends>>,
         \A x \in Requests : (queue'[x].st = "cancelled") <=> (queue[x].st = "cancelled")
  PROVE  [Abstract!Next]_(Abstract!vars)
<1>1. \A x \in Requests : ledger'[x] = ledger[x]
  BY EntryKept
<1>2. ledger = [x \in Requests |-> ledger[x]]
  BY DEF ledger
<1>3. ledger' = [x \in Requests |-> ledger'[x]]
  BY DEF ledger
<1>4. ledger' = ledger
  BY <1>1, <1>2, <1>3
<1>5. QED
  BY <1>4 DEF Abstract!vars

\* The native send is the ledger's Emit: an armed runner's request is committed,
\* or was withdrawn since, and it has not been sent.
LEMMA LedgerSend ==
  ASSUME DeliveryInv, NEW g \in Gens, NEW r \in Requests, Send(g, r)
  PROVE  [Abstract!Next]_(Abstract!vars)
<1>1. TypeOK /\ Delivered(r)
  BY DEF DeliveryInv, FenceInv
<1>2. sends[r] = 0 /\ receipt[r].no_resend
  BY DEF DeliveryInv, FenceInv, SendIsFenced, Send
<1>3. receipt[r].st \notin {"absent", "prepared"}
  BY <1>2 DEF DeliveryInv, FenceInv, SendIsFenced
<1>4. receipt[r].st # "complete"
  BY <1>1, <1>2 DEF Delivered
<1>5. ledger[r] \in {"committed", "withdrawn"}
  BY <1>1, <1>2, <1>3, <1>4, EntryOf, StatusCases
<1>6. ledger' = ledger
  <2>1. UNCHANGED <<receipt, queue>>
    BY DEF Send
  <2>2. QED
    BY <2>1 DEF ledger
<1>7. sends' = [sends EXCEPT ![r] = 1]
  BY <1>1, <1>2 DEF Send, TypeOK
<1>8. Abstract!Emit(r)
  BY <1>2, <1>5, <1>6, <1>7 DEF Abstract!Emit
<1>9. QED
  BY <1>8 DEF Abstract!Next

\* An observation completes a committed request that was sent, or changes no
\* entry.
LEMMA LedgerObserve ==
  ASSUME DeliveryInv, NEW r \in Requests, Observable(r), NEW seen, NEW o,
         ObserveWrites(r, seen, o), UNCHANGED <<chat, sends>>
  PROVE  [Abstract!Next]_(Abstract!vars)
<1>1. TypeOK /\ Delivered(r)
  BY DEF DeliveryInv, FenceInv
<1>2. Forward
  BY DeliveryObserve DEF Forward
<1>3. /\ \A x \in Requests : x # r => receipt'[x] = receipt[x] /\ queue'[x] = queue[x]
      /\ receipt'[r].no_resend = receipt[r].no_resend
      /\ receipt'[r].st \in {receipt[r].st, "submitted", "complete"}
  BY <1>1, TypeObserve DEF ObserveWrites, TypeOK
<1>4. sends[r] = 1
  <2>1. sends[r] > 0
    BY <1>1, SeenIsAnswered
  <2>2. sends[r] \in Nat /\ sends[r] <= 1
    BY <1>1 DEF DeliveryInv, FenceInv, AtMostOneSend, TypeOK
  <2>3. QED
    BY <2>1, <2>2
<1>5. \A x \in Requests : x # r => ledger'[x] = ledger[x]
  BY <1>3, EntryKept
<1>6. receipt[r].st \in PostArm \cup {"complete"}
  BY DEF Observable
<1>7. /\ receipt'[r].st = "complete" => ledger'[r] = "complete"
      /\ receipt'[r].st \in PostArm => ledger'[r] = "committed"
  BY EntryNext
<1>8. /\ receipt[r].st = "complete" => ledger[r] = "complete"
      /\ receipt[r].st \in PostArm => ledger[r] = "committed"
  BY <1>1, EntryOf
<1>9. receipt[r].st = "complete" => receipt'[r].st = "complete"
  BY <1>2 DEF Forward, MovesForward, Settled
<1>10. \/ ledger'[r] = ledger[r]
       \/ ledger[r] = "committed" /\ ledger'[r] = "complete"
  BY <1>3, <1>6, <1>7, <1>8, <1>9 DEF PostArm
<1>11. QED
  BY <1>4, <1>5, <1>10, EntryStep

\* A receipt given up drops an open request and withdraws a committed one.
LEMMA LedgerAbandon ==
  ASSUME DeliveryInv, NEW r \in Requests, receipt[r].st \in Active,
         receipt' = [receipt EXCEPT ![r] = Abandoned(@)], UNCHANGED <<queue, sends>>
  PROVE  [Abstract!Next]_(Abstract!vars)
<1>1. TypeOK
  BY DEF DeliveryInv, FenceInv
<1>2. /\ receipt'[r].st = "abandoned"
      /\ receipt'[r].no_resend = receipt[r].no_resend
  BY <1>1 DEF Abandoned, TypeOK, ReceiptType
<1>3. \A x \in Requests : x # r => receipt'[x] = receipt[x]
  BY <1>1 DEF TypeOK
<1>4. \A x \in Requests : x # r => ledger'[x] = ledger[x]
  BY <1>3, EntryKept
<1>5. CASE receipt[r].st = "prepared"
  <2>1. ~receipt[r].no_resend
    BY <1>5 DEF DeliveryInv, FenceInv, SendIsFenced
  <2>2. ledger[r] = "open" /\ ledger'[r] = "dropped"
    BY <1>2, <1>5, <2>1, EntryOf, EntryNext
  <2>3. QED
    BY <1>4, <2>2, EntryStep
<1>6. CASE receipt[r].st \in PostArm
  <2>1. receipt[r].no_resend
    BY <1>6 DEF DeliveryInv, FenceInv, SendIsFenced
  <2>2. ledger[r] = "committed" /\ ledger'[r] = "withdrawn"
    BY <1>2, <1>6, <2>1, EntryOf, EntryNext
  <2>3. QED
    BY <1>4, <2>2, EntryStep
<1>7. QED
  BY <1>5, <1>6 DEF Active

\* The client's steps: a cancelled request is dropped unless it has a receipt.
LEMMA LedgerClient ==
  ASSUME DeliveryInv, NEW r \in Requests, ClientStep(r)
  PROVE  [Abstract!Next]_(Abstract!vars)
<1>1. TypeOK
  BY DEF DeliveryInv, FenceInv
<1>2. UNCHANGED <<receipt, sends>>
  BY DEF ClientStep, Submit, Cancel, Acknowledge
<1>3. CASE Submit(r) \/ Acknowledge(r)
  <2>1. /\ \A x \in Requests : x # r => queue'[x] = queue[x]
        /\ queue[r].st # "cancelled" /\ queue'[r].st # "cancelled"
    BY <1>1, <1>3 DEF Submit, Acknowledge, TypeOK, RecordType
  <2>2. QED
    BY <1>2, <2>1, LedgerKept
<1>4. CASE Cancel(r)
  <2>1. /\ \A x \in Requests : x # r => queue'[x] = queue[x]
        /\ queue[r].st = "queued" /\ queue'[r].st = "cancelled"
    BY <1>1, <1>4 DEF Cancel, TypeOK, RecordType
  <2>2. \A x \in Requests : x # r => ledger'[x] = ledger[x]
    BY <1>2, <2>1, EntryKept
  <2>3. CASE receipt[r].st = "absent"
    <3>1. ledger[r] = "open" /\ ledger'[r] = "dropped"
      BY <1>2, <2>1, <2>3, EntryOf, EntryNext
    <3>2. QED
      BY <1>2, <2>2, <3>1, EntryStep
  <2>4. CASE receipt[r].st # "absent"
    <3>1. ledger'[r] = ledger[r]
      BY <1>2, <2>4, EntryKept
    <3>2. QED
      BY <1>2, <2>2, <3>1, EntryStep
  <2>5. QED
    BY <2>3, <2>4
<1>5. QED
  BY <1>3, <1>4 DEF ClientStep

\* The chat and the account change no entry.
LEMMA LedgerChat ==
  ASSUME DeliveryInv, NEW r \in Requests, ChatStep(r)
  PROVE  [Abstract!Next]_(Abstract!vars)
<1>1. TypeOK
  BY DEF DeliveryInv, FenceInv
<1>2. UNCHANGED <<queue, sends>>
  BY DEF ChatStep, Answer, UnusualActivity403, CooldownExpires
<1>3. \A x \in Requests : x # r => receipt'[x] = receipt[x]
  BY <1>1 DEF ChatStep, Answer, UnusualActivity403, CooldownExpires, TypeOK
<1>4. \A x \in Requests : x # r => ledger'[x] = ledger[x]
  BY <1>2, <1>3, EntryKept
<1>5. ledger'[r] = ledger[r]
  <2>1. CASE Answer(r)
    BY <1>2, <2>1, EntryKept DEF Answer
  <2>2. CASE UnusualActivity403(r)
    <3>1. receipt[r].st \in PostArm /\ receipt'[r].st \in PostArm
      BY <1>1, <2>2 DEF UnusualActivity403, MayReport403, TypeOK, ReceiptType, PostArm
    <3>2. QED
      BY <3>1, EntryOf, EntryNext
  <2>3. CASE CooldownExpires(r)
    <3>1. /\ receipt'[r].st = receipt[r].st
          /\ receipt'[r].no_resend = receipt[r].no_resend
      BY <1>1, <2>3 DEF CooldownExpires, TypeOK, ReceiptType
    <3>2. QED
      BY <1>2, <3>1, EntryKept
  <2>4. QED
    BY <2>1, <2>2, <2>3 DEF ChatStep
<1>6. QED
  BY <1>2, <1>4, <1>5, EntryStep

\* What a claim does to the files of its request, for the ledger.
LEMMA ClaimEffect ==
  ASSUME TypeOK, NEW g \in Gens, NEW r \in Requests,
         ClaimQueued(g, r) \/ ClaimRetained(g, r)
  PROVE  /\ sends' = sends
         /\ \A x \in Requests : x # r => queue'[x] = queue[x] /\ receipt'[x] = receipt[x]
         /\ queue[r].st # "cancelled" /\ queue'[r].st # "cancelled"
         /\ \/ receipt'[r] = receipt[r]
            \/ receipt[r].st = "absent" /\ receipt'[r].st = "prepared"
<1>1. queue[r] \in RecordType
  BY DEF TypeOK
<1>2. ASSUME NEW q
      PROVE  PreparedFor(q, parent).st = "prepared"
  BY DEF PreparedFor, NoReceipt
<1>3. CASE ClaimQueued(g, r)
  <2>1. PICK s \in Slots, o \in Outcomes(3) :
          LET claim == [queue[r] EXCEPT !.st = "claimed", !.slot = s, !.gen = g,
                                        !.parent = parent,
                                        !.established = (o.done = 3)]
          IN /\ queue' = IF o.done = 0 THEN queue
                         ELSE [queue EXCEPT ![r] = claim]
             /\ receipt' = IF o.done < 2 THEN receipt
                           ELSE [receipt EXCEPT ![r] = PreparedFor(claim, parent)]
    BY <1>3 DEF ClaimQueued
  <2>2. QED
    BY <1>1, <1>2, <1>3, <2>1 DEF ClaimQueued, TypeOK, RecordType
<1>4. CASE ClaimRetained(g, r)
  <2>1. /\ \/ receipt' = receipt
           \/ /\ receipt[r].st = "absent"
              /\ receipt' = [receipt EXCEPT ![r] = PreparedFor(queue[r], parent)]
        /\ \/ queue' = queue
           \/ queue' = [queue EXCEPT ![r].established = TRUE]
    BY <1>4 DEF ClaimRetained
  <2>2. sends' = sends /\ queue[r].st = "claimed"
    BY <1>4 DEF ClaimRetained
  <2>3. /\ \A x \in Requests : x # r => queue'[x] = queue[x]
        /\ queue'[r].st = queue[r].st
    BY <1>1, <2>1 DEF TypeOK, RecordType
  <2>4. /\ \A x \in Requests : x # r => receipt'[x] = receipt[x]
        /\ \/ receipt'[r] = receipt[r]
           \/ receipt[r].st = "absent" /\ receipt'[r].st = "prepared"
    BY <1>2, <2>1 DEF TypeOK
  <2>5. QED
    BY <2>2, <2>3, <2>4
<1>5. QED
  BY <1>3, <1>4

\* The steps of a runner: the arm commits, the send emits, the observation
\* completes, giving up drops or withdraws; nothing else changes an entry.
LEMMA LedgerRunner ==
  ASSUME DeliveryInv, NEW g \in Gens, NEW r \in Requests, RunnerStep(g, r)
  PROVE  [Abstract!Next]_(Abstract!vars)
<1>1. TypeOK
  BY DEF DeliveryInv, FenceInv
<1>2. CASE ClaimQueued(g, r) \/ ClaimRetained(g, r)
  <2>1. /\ sends' = sends
        /\ \A x \in Requests : x # r => queue'[x] = queue[x] /\ receipt'[x] = receipt[x]
        /\ queue[r].st # "cancelled" /\ queue'[r].st # "cancelled"
        /\ \/ receipt'[r] = receipt[r]
           \/ receipt[r].st = "absent" /\ receipt'[r].st = "prepared"
    BY <1>1, <1>2, ClaimEffect
  <2>2. \A x \in Requests : x # r => ledger'[x] = ledger[x]
    BY <2>1, EntryKept
  <2>3. ledger'[r] = ledger[r]
    <3>1. CASE receipt'[r] = receipt[r]
      BY <2>1, <3>1, EntryKept
    <3>2. CASE receipt[r].st = "absent" /\ receipt'[r].st = "prepared"
      BY <2>1, <3>2, EntryOf, EntryNext
    <3>3. QED
      BY <2>1, <3>1, <3>2
  <2>4. QED
    BY <2>1, <2>2, <2>3, EntryStep
<1>3. CASE Arm(g, r)
  <2>1. UNCHANGED <<queue, sends>> /\ receipt[r].st = "prepared"
    BY <1>3 DEF Arm
  <2>2. \/ receipt' = receipt
        \/ receipt' = [receipt EXCEPT ![r] = ArmedReceipt(@)]
    BY <1>3 DEF Arm
  <2>3. ArmedReceipt(receipt[r]).st = "armed"
    BY <1>1 DEF ArmedReceipt, TypeOK, ReceiptType
  <2>4. \A x \in Requests : x # r => receipt'[x] = receipt[x]
    BY <1>1, <2>2 DEF TypeOK
  <2>5. \A x \in Requests : x # r => ledger'[x] = ledger[x]
    BY <2>1, <2>4, EntryKept
  <2>6. receipt'[r].st = "armed" \/ receipt'[r] = receipt[r]
    BY <1>1, <2>2, <2>3 DEF TypeOK
  <2>7. \/ ledger'[r] = ledger[r]
        \/ ledger[r] = "open" /\ ledger'[r] = "committed"
    BY <2>1, <2>6, EntryOf, EntryNext DEF PostArm
  <2>8. QED
    BY <2>1, <2>5, <2>7, EntryStep
<1>4. CASE Send(g, r)
  BY <1>4, LedgerSend
<1>5. CASE Observe(g, r)
  BY <1>5, LedgerObserve DEF Observe
<1>6. CASE FailArmed(g, r)
  <2>1. UNCHANGED <<queue, sends>>
    BY <1>6 DEF FailArmed
  <2>2. /\ \A x \in Requests : x # r => receipt'[x] = receipt[x]
        /\ \/ receipt'[r] = receipt[r]
           \/ receipt[r].st \in PostArm /\ receipt'[r].st \in PostArm
    BY <1>1, <1>6 DEF FailArmed, TypeOK, ReceiptType, PostArm
  <2>3. \A x \in Requests : x # r => ledger'[x] = ledger[x]
    BY <2>1, <2>2, EntryKept
  <2>4. ledger'[r] = ledger[r]
    <3>1. CASE receipt'[r] = receipt[r]
      BY <2>1, <3>1, EntryKept
    <3>2. CASE receipt[r].st \in PostArm /\ receipt'[r].st \in PostArm
      BY <3>2, EntryOf, EntryNext
    <3>3. QED
      BY <2>2, <3>1, <3>2
  <2>5. QED
    BY <2>1, <2>3, <2>4, EntryStep
<1>7. CASE Abandon(g, r)
  BY <1>7, LedgerAbandon DEF Abandon
<1>8. CASE Release(g, r)
  <2>1. \A x \in Requests :
          (queue'[x].st = "cancelled") <=> (queue[x].st = "cancelled")
    BY <1>1, <1>8 DEF Release, TypeOK, RecordType
  <2>2. QED
    BY <1>8, <2>1, LedgerKept DEF Release
<1>9. CASE Fail(g, r) \/ End(g, r)
  BY <1>9, LedgerKept DEF Fail, End
<1>10. QED
  BY <1>2, <1>3, <1>4, <1>5, <1>6, <1>7, <1>8, <1>9 DEF RunnerStep

\* Settling drops what was prepared or never got a receipt.
LEMMA LedgerSettle ==
  ASSUME DeliveryInv, NEW r \in Requests, Settle(r)
  PROVE  [Abstract!Next]_(Abstract!vars)
<1>1. TypeOK
  BY DEF DeliveryInv, FenceInv
<1>2. UNCHANGED sends
  BY DEF Settle
<1>3. /\ \A x \in Requests : x # r => queue'[x] = queue[x]
      /\ \/ /\ queue[r].st # "cancelled" /\ queue'[r].st # "cancelled"
         \/ UNCHANGED <<queue, receipt>>
  BY <1>1 DEF Settle, TypeOK, RecordType
<1>4. \A x \in Requests : x # r => receipt'[x] = receipt[x]
  BY <1>1, SettleReceipt
<1>5. \A x \in Requests : x # r => ledger'[x] = ledger[x]
  BY <1>3, <1>4, EntryKept
<1>6. \/ ledger'[r] = ledger[r]
      \/ ledger[r] = "open" /\ ledger'[r] = "dropped"
  <2>1. CASE receipt'[r] = receipt[r]
    BY <1>3, <2>1, EntryKept
  <2>2. CASE /\ receipt[r].st = "absent"
             /\ receipt'[r].st \in {"prepared", "abandoned"}
             /\ receipt'[r].no_resend = FALSE
    BY <1>3, <2>2, EntryOf, EntryNext
  <2>3. CASE /\ receipt[r].st \in {"prepared", "abandoned"}
             /\ receipt'[r] = Abandoned(receipt[r])
    <3>1. /\ receipt'[r].st = "abandoned"
          /\ receipt'[r].no_resend = receipt[r].no_resend
      BY <1>1, <2>3 DEF Abandoned, TypeOK, ReceiptType
    <3>2. receipt[r].st = "prepared" => ~receipt[r].no_resend
      BY DEF DeliveryInv, FenceInv, SendIsFenced
    <3>3. QED
      BY <2>3, <3>1, <3>2, EntryOf, EntryNext
  <2>4. QED
    BY <1>1, <2>1, <2>2, <2>3, SettleReceipt
<1>7. QED
  BY <1>2, <1>5, <1>6, EntryStep

\* The steps of an owner.
LEMMA LedgerOwner ==
  ASSUME DeliveryInv, OwnerStep
  PROVE  [Abstract!Next]_(Abstract!vars)
<1>1. TypeOK
  BY DEF DeliveryInv, FenceInv
<1>2. CASE RecoverStart
  <2>1. \A x \in Requests : queue'[x].st = queue[x].st
    BY <1>1, <1>2 DEF RecoverStart, TypeOK, RecordType
  <2>2. QED
    BY <1>2, <2>1, LedgerKept DEF RecoverStart
<1>3. ASSUME NEW r \in Requests, CollectorObserve(r)
      PROVE  [Abstract!Next]_(Abstract!vars)
  BY <1>3, LedgerObserve DEF CollectorObserve
<1>4. ASSUME NEW r \in Requests, Settle(r)
      PROVE  [Abstract!Next]_(Abstract!vars)
  BY <1>4, LedgerSettle
<1>5. ASSUME NEW r \in Requests, SettleAbandon(r)
      PROVE  [Abstract!Next]_(Abstract!vars)
  BY <1>5, LedgerAbandon DEF SettleAbandon
<1>6. ASSUME NEW r \in Requests, SettleRelease(r)
      PROVE  [Abstract!Next]_(Abstract!vars)
  <2>1. \A x \in Requests :
          (queue'[x].st = "cancelled") <=> (queue[x].st = "cancelled")
    BY <1>1, <1>6 DEF SettleRelease, TypeOK, RecordType
  <2>2. QED
    BY <1>6, <2>1, LedgerKept DEF SettleRelease
<1>7. CASE UNCHANGED <<queue, receipt, sends>>
  BY <1>7, LedgerKept
<1>8. QED
  BY <1>2, <1>3, <1>4, <1>5, <1>6, <1>7
     DEF OwnerStep, Start, BindSession, CollectorOpen, CollectorClose, Takeover,
         Handoff, Begin, EndCollected

\* Every step is a step of the ledger or leaves it as it is.
LEMMA LedgerStep ==
  ASSUME DeliveryInv, [Next]_vars
  PROVE  [Abstract!Next]_(Abstract!vars)
<1>1. CASE UNCHANGED vars
  BY <1>1, LedgerKept DEF vars
<1>2. CASE Next
  BY <1>2, LedgerClient, LedgerChat, LedgerRunner, LedgerOwner DEF Next
<1>3. QED
  BY <1>1, <1>2

\* The initial states map to the initial states of the ledger.
LEMMA LedgerInit == Init => Abstract!Init
<1>1. SUFFICES ASSUME Init PROVE Abstract!Init
  OBVIOUS
<1>2. \A r \in Requests : ledger[r] = "open"
  <2>1. \A r \in Requests : receipt[r].st = "absent" /\ queue[r].st = "absent"
    BY <1>1 DEF Init, NoRecord, NoReceipt
  <2>2. QED
    BY <2>1, EntryOf
<1>3. ledger = [r \in Requests |-> ledger[r]]
  BY DEF ledger
<1>4. QED
  BY <1>1, <1>2, <1>3 DEF Init, Abstract!Init

\* Every write of every call, wherever it is cut, is a step of the at-most-once
\* ledger or changes nothing in it.
THEOREM PoolImplementsSendOnce == Spec => ImplementsSendOnce
<1>1. Init => Abstract!Init
  BY LedgerInit
<1>2. DeliveryInv /\ [Next]_vars => [Abstract!Next]_(Abstract!vars)
  BY LedgerStep
<1>3. QED
  BY <1>1, <1>2, DeliveryInvariant, PTL DEF Spec, ImplementsSendOnce, Abstract!Spec
=============================================================================
