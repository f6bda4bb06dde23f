---------------------------- MODULE PoolSlotProofs ----------------------------
(* The slots, the claims, the receipts and the takeover entries of the worker *)
(* pool agree: for every number of requests, parents, slots and generations,  *)
(* with and without faults.                                                   *)
EXTENDS PoolDispatchProofs, SequenceTheorems

----------------------------------------------------------------------------
(* The invariant                                                            *)

\* A record that is in none of these states was claimed once.
Early == {"absent", "queued", "cancelled"}

\* A record and its receipt: before the claim there is no receipt, the receipt
\* repeats the claim, and only a claim has a receipt that is not settled.
Coherent(q, rc) ==
  /\ q.st \in Early => rc.st = "absent" /\ q.parent = None
  /\ q.st \notin Early => q.slot \in Slots /\ q.parent \in Parents
  /\ rc.st # "absent" => /\ q.slot = rc.slot
                         /\ q.gen = rc.gen
                         /\ q.parent = rc.parent
  /\ (q.established \/ q.st \in {"published", "acknowledged", "released"})
       => rc.st # "absent"
  /\ rc.st \in Active => q.st = "claimed"

\* A slot by itself.
Shaped(s) ==
  /\ slots[s].inv \in {0, generation}
  /\ slots[s].inv # 0 => slots[s].phase \in {"reserved", "running"}
  /\ slots[s].phase = "idle" <=> slots[s].req = None

\* A slot and the request it holds: no other slot holds it, a record of another
\* parent is in a takeover entry, and what awaits its cancellation is unsent.
HeldWell(s, r) ==
  slots[s].req = r =>
    /\ \A t \in Slots \ {s} : slots[t].req # r
    /\ queue[r].st \in {"absent", "queued"} =>
         slots[s].phase \in {"reserved", "cancel_pending"}
    /\ queue[r].st \notin Early => queue[r].slot = s
    /\ queue[r].st \notin Early /\ queue[r].parent # parent =>
         \E i \in DOMAIN audits : Bound(i, r)
    /\ slots[s].phase = "cancel_pending" => ~receipt[r].no_resend

\* A takeover entry that binds a request lists it; what it collects was claimed
\* and, unless some takeover cancelled it, is bound where its claim stands; all
\* entries bind it alike, the first one to the parent it took over from.
EntryWell(i, r) ==
  Bound(i, r) =>
    /\ r \in audits[i].cancel \cup audits[i].collect
    /\ r \in audits[i].collect =>
         /\ queue[r].st \notin Early
         /\ \/ audits[i].bind[r] = [parent |-> queue[r].parent, slot |-> queue[r].slot]
            \/ \E j \in DOMAIN audits : r \in audits[j].cancel
    /\ \A j \in DOMAIN audits : Bound(j, r) => audits[j].bind[r] = audits[i].bind[r]
    /\ (\A j \in 1..(i - 1) : ~Bound(j, r)) =>
         audits[i].bind[r].parent = audits[i].from

\* The inductive invariant: the files of each request, the slots, the takeover
\* entries, and what PoolDispatchProofs shows of delivery.
FilesInv == \A r \in Requests : Coherent(queue[r], receipt[r])
SlotInv  == /\ \A s \in Slots : Shaped(s)
            /\ \A s \in Slots, r \in Requests : HeldWell(s, r)
            /\ ClaimHoldsSlot
            /\ OneClaimPerWorker
AuditInv == \A i \in DOMAIN audits, r \in Requests : EntryWell(i, r)
PoolInv  == DeliveryInv /\ FilesInv /\ SlotInv /\ AuditInv

\* Initially nothing is claimed, held or taken over.
LEMMA PoolInit == Init => FilesInv /\ SlotInv /\ AuditInv
<1>1. SUFFICES ASSUME Init PROVE FilesInv /\ SlotInv /\ AuditInv
  OBVIOUS
<1>2. \A r \in Requests :
        /\ queue[r].st = "absent" /\ queue[r].parent = None
        /\ queue[r].established = FALSE /\ receipt[r].st = "absent"
  BY <1>1 DEF Init, NoRecord, NoReceipt
<1>3. \A s \in Slots : slots[s].req = None /\ slots[s].inv = 0 /\ slots[s].phase = "idle"
  BY <1>1 DEF Init, FreeSlot
<1>4. FilesInv
  BY <1>2 DEF FilesInv, Coherent, Early, Active, PostArm
<1>5. SlotInv
  BY <1>2, <1>3, PoolAssumption
     DEF SlotInv, Shaped, HeldWell, ClaimHoldsSlot, OneClaimPerWorker
<1>6. AuditInv
  <2>1. DOMAIN audits = {}
    BY <1>1 DEF Init
  <2>2. QED
    BY <2>1 DEF AuditInv
<1>7. QED
  BY <1>4, <1>5, <1>6

----------------------------------------------------------------------------
(* What a step does to a record and its receipt                             *)

\* Records and receipts that move as every call but a claim moves them: a
\* record neither enters nor leaves a claimed past, and keeps where it stands.
Moves(q, rc, q1, rc1) ==
  /\ Coherent(q1, rc1)
  /\ q.st \in Early <=> q1.st \in Early
  /\ q.st \notin Early => q1.slot = q.slot
  /\ q1.parent = q.parent
  /\ q1.st = "claimed" => q.st = "claimed"
  /\ q1.st \in {"absent", "queued"} => q.st \in {"absent", "queued"}
  /\ rc.st \in Settled => rc1.st \in Settled

\* Files left alone move so.
LEMMA MovesNot ==
  ASSUME NEW q, NEW rc, Coherent(q, rc)
  PROVE  Moves(q, rc, q, rc)
BY DEF Moves

\* A receipt written in place: it names what it named, and it is not revived.
LEMMA MovesReceipt ==
  ASSUME NEW q, NEW rc, NEW rc1, Coherent(q, rc),
         rc.st # "absent", rc1.st # "absent",
         rc1.slot = rc.slot, rc1.gen = rc.gen, rc1.parent = rc.parent,
         rc1.st \in Active => rc.st \in Active,
         rc.st \in Settled => rc1.st \in Settled
  PROVE  Moves(q, rc, q, rc1)
BY DEF Moves, Coherent

\* A record written in place, whose state is one its receipt permits.
LEMMA MovesRecord ==
  ASSUME NEW q, NEW q1, NEW rc, Coherent(q, rc),
         q1.slot = q.slot, q1.parent = q.parent, q1.established = q.established,
         q1.gen = q.gen,
         \/ q.st = "absent" /\ q1.st = "queued"
         \/ q.st = "queued" /\ q1.st = "cancelled"
         \/ rc.st \in Settled /\ q.st \notin Early
            /\ q1.st \in {"acknowledged", "released"}
  PROVE  Moves(q, rc, q1, rc)
<1>1. rc.st \in Settled => rc.st # "absent" /\ rc.st \notin Active
  BY DEF Settled, Active, PostArm
<1>2. QED
  BY <1>1 DEF Moves, Coherent, Early

\* The files of every request move so.
Files == \A x \in Requests : Moves(queue[x], receipt[x], queue'[x], receipt'[x])

\* A step that touches one request's files at most.
LEMMA FilesOfOne ==
  ASSUME FilesInv, NEW r \in Requests,
         \A x \in Requests : x # r => queue'[x] = queue[x] /\ receipt'[x] = receipt[x],
         Moves(queue[r], receipt[r], queue'[r], receipt'[r])
  PROVE  Files
<1>1. ASSUME NEW x \in Requests
      PROVE  Moves(queue[x], receipt[x], queue'[x], receipt'[x])
  <2>1. CASE x = r
    BY <2>1
  <2>2. CASE x # r
    <3>1. Moves(queue[x], receipt[x], queue[x], receipt[x])
      BY MovesNot DEF FilesInv
    <3>2. QED
      BY <2>2, <3>1
  <2>3. QED
    BY <2>1, <2>2
<1>2. QED
  BY <1>1 DEF Files

\* A step that touches no file.
LEMMA FilesUntouched ==
  ASSUME FilesInv, UNCHANGED <<queue, receipt>>
  PROVE  Files
<1>1. \A x \in Requests : Moves(queue[x], receipt[x], queue[x], receipt[x])
  BY MovesNot DEF FilesInv
<1>2. QED
  BY <1>1 DEF Files

\* The client's calls.
LEMMA FilesClient ==
  ASSUME PoolInv, NEW r \in Requests, ClientStep(r)
  PROVE  Files
<1>1. TypeOK /\ FilesInv /\ Delivered(r)
  BY DEF PoolInv, DeliveryInv, FenceInv
<1>2. UNCHANGED receipt
  BY DEF ClientStep, Submit, Cancel, Acknowledge
<1>3. /\ \A x \in Requests : x # r => queue'[x] = queue[x]
      /\ queue'[r].slot = queue[r].slot
      /\ queue'[r].gen = queue[r].gen
      /\ queue'[r].parent = queue[r].parent
      /\ queue'[r].established = queue[r].established
      /\ \/ queue[r].st = "absent" /\ queue'[r].st = "queued"
         \/ queue[r].st = "queued" /\ queue'[r].st = "cancelled"
         \/ queue[r].st = "published" /\ queue'[r].st = "acknowledged"
  BY <1>1 DEF ClientStep, Submit, Cancel, Acknowledge, TypeOK, RecordType
<1>4. queue[r].st = "published" =>
        receipt[r].st \in Settled /\ queue[r].st \notin Early
  BY <1>1 DEF Delivered, Settled, Early
<1>5. Coherent(queue[r], receipt[r])
  BY <1>1 DEF FilesInv
<1>6. Moves(queue[r], receipt[r], queue'[r], receipt[r])
  BY <1>3, <1>4, <1>5, MovesRecord
<1>7. QED
  BY <1>1, <1>2, <1>3, <1>6, FilesOfOne

\* The calls that write one receipt in place: failing after the arm, a report
\* of unusual activity, its expiry, giving up.
LEMMA FilesReceipt ==
  ASSUME PoolInv, NEW r \in Requests, UNCHANGED queue,
         \A x \in Requests : x # r => receipt'[x] = receipt[x],
         receipt[r].st # "absent", receipt'[r].st # "absent",
         receipt'[r].slot = receipt[r].slot, receipt'[r].gen = receipt[r].gen,
         receipt'[r].parent = receipt[r].parent,
         receipt'[r].st \in Active => receipt[r].st \in Active,
         receipt[r].st \in Settled => receipt'[r].st \in Settled
  PROVE  Files
<1>1. FilesInv /\ Coherent(queue[r], receipt[r])
  BY DEF PoolInv, FilesInv
<1>2. Moves(queue[r], receipt[r], queue[r], receipt'[r])
  BY <1>1, MovesReceipt
<1>3. QED
  BY <1>1, <1>2, FilesOfOne

\* The chat and the account.
LEMMA FilesChat ==
  ASSUME PoolInv, NEW r \in Requests, ChatStep(r)
  PROVE  Files
<1>1. TypeOK /\ FilesInv
  BY DEF PoolInv, DeliveryInv, FenceInv
<1>2. CASE Answer(r)
  BY <1>1, <1>2, FilesUntouched DEF Answer
<1>3. CASE UnusualActivity403(r)
  <2>1. /\ UNCHANGED queue
        /\ \A x \in Requests : x # r => receipt'[x] = receipt[x]
        /\ receipt[r].st \in PostArm
        /\ receipt'[r].st = "indeterminate"
        /\ receipt'[r].slot = receipt[r].slot
        /\ receipt'[r].gen = receipt[r].gen
        /\ receipt'[r].parent = receipt[r].parent
    BY <1>1, <1>3 DEF UnusualActivity403, MayReport403, TypeOK, ReceiptType
  <2>2. QED
    BY <2>1, FilesReceipt DEF PostArm, Active, Settled
<1>4. CASE CooldownExpires(r)
  <2>1. /\ UNCHANGED queue
        /\ \A x \in Requests : x # r => receipt'[x] = receipt[x]
        /\ receipt'[r].st = receipt[r].st
        /\ receipt'[r].slot = receipt[r].slot
        /\ receipt'[r].gen = receipt[r].gen
        /\ receipt'[r].parent = receipt[r].parent
    BY <1>1, <1>4 DEF CooldownExpires, TypeOK, ReceiptType
  <2>2. CASE receipt[r].st # "absent"
    BY <2>1, <2>2, FilesReceipt
  <2>3. CASE receipt[r].st = "absent"
    <3>1. Coherent(queue[r], receipt'[r])
      BY <1>1, <2>1, <2>3 DEF FilesInv, Coherent, Active, PostArm
    <3>2. Moves(queue[r], receipt[r], queue[r], receipt'[r])
      BY <2>1, <3>1 DEF Moves
    <3>3. QED
      BY <1>1, <2>1, <3>2, FilesOfOne
  <2>4. QED
    BY <2>2, <2>3
<1>5. QED
  BY <1>2, <1>3, <1>4 DEF ChatStep

\* A receipt given up.
LEMMA FilesAbandon ==
  ASSUME PoolInv, NEW r \in Requests, receipt[r].st \in Active,
         receipt' = [receipt EXCEPT ![r] = Abandoned(@)], UNCHANGED queue
  PROVE  Files
<1>1. TypeOK
  BY DEF PoolInv, DeliveryInv, FenceInv
<1>2. /\ \A x \in Requests : x # r => receipt'[x] = receipt[x]
      /\ receipt'[r].st = "abandoned"
      /\ receipt'[r].slot = receipt[r].slot
      /\ receipt'[r].gen = receipt[r].gen
      /\ receipt'[r].parent = receipt[r].parent
  BY <1>1 DEF Abandoned, TypeOK, ReceiptType
<1>3. QED
  BY <1>2, FilesReceipt DEF Active, PostArm, Settled

\* A claim released after its receipt was given up.
LEMMA FilesRelease ==
  ASSUME PoolInv, NEW r \in Requests, receipt[r].st = "abandoned",
         queue[r].st = "claimed",
         queue' = [queue EXCEPT ![r].st = "released", ![r].staged = FALSE],
         UNCHANGED receipt
  PROVE  Files
<1>1. TypeOK /\ FilesInv /\ Coherent(queue[r], receipt[r])
  BY DEF PoolInv, FilesInv, DeliveryInv, FenceInv
<1>2. /\ \A x \in Requests : x # r => queue'[x] = queue[x]
      /\ queue'[r].st = "released"
      /\ queue'[r].slot = queue[r].slot
      /\ queue'[r].gen = queue[r].gen
      /\ queue'[r].parent = queue[r].parent
      /\ queue'[r].established = queue[r].established
  BY <1>1 DEF TypeOK, RecordType
<1>3. Moves(queue[r], receipt[r], queue'[r], receipt[r])
  BY <1>1, <1>2, MovesRecord DEF Settled, Early
<1>4. QED
  BY <1>1, <1>2, <1>3, FilesOfOne

\* An observation completes a receipt before it publishes its record.
LEMMA FilesObserve ==
  ASSUME PoolInv, NEW r \in Requests, Observable(r), NEW seen, NEW o,
         ObserveWrites(r, seen, o)
  PROVE  Files
<1>1. TypeOK /\ FilesInv /\ Delivered(r) /\ Coherent(queue[r], receipt[r])
  BY DEF PoolInv, FilesInv, DeliveryInv, FenceInv
<1>2. o.done \in 0..4
  BY <1>1, SeenIsAnswered
<1>3. /\ receipt'[r] = ObservedReceipt(receipt[r], o.done)
      /\ queue'[r] = ObservedRecord(queue[r], o.done)
      /\ \A x \in Requests : x # r => receipt'[x] = receipt[x] /\ queue'[x] = queue[x]
  BY <1>1 DEF ObserveWrites, TypeOK
<1>4. queue[r] \in RecordType /\ receipt[r] \in ReceiptType
  BY <1>1 DEF TypeOK
<1>5. /\ queue'[r].slot = queue[r].slot
      /\ queue'[r].gen = queue[r].gen
      /\ queue'[r].parent = queue[r].parent
      /\ queue'[r].established = queue[r].established
      /\ queue'[r].st = IF o.done = 4 THEN "published" ELSE queue[r].st
  BY <1>2, <1>3, <1>4 DEF ObservedRecord, RecordType
<1>6. /\ Submitted(receipt[r]) \in ReceiptType
      /\ Submitted(receipt[r]).slot = receipt[r].slot
      /\ Submitted(receipt[r]).gen = receipt[r].gen
      /\ Submitted(receipt[r]).parent = receipt[r].parent
      /\ Submitted(receipt[r]).st \in {receipt[r].st, "submitted"}
      /\ receipt[r].st = "complete" => Submitted(receipt[r]) = receipt[r]
  BY <1>1, <1>4 DEF Submitted, ReceiptType, ReceiptStates, Delivered
<1>7. /\ receipt'[r].slot = receipt[r].slot
      /\ receipt'[r].gen = receipt[r].gen
      /\ receipt'[r].parent = receipt[r].parent
      /\ o.done < 3 => receipt'[r].st \in {receipt[r].st, "submitted"}
      /\ o.done < 3 /\ receipt[r].st = "complete" => receipt'[r].st = "complete"
      /\ o.done >= 3 => receipt'[r].st = "complete"
  <2>1. CASE o.done = 0
    BY <1>3, <2>1 DEF ObservedReceipt
  <2>2. CASE o.done \in 1..2
    BY <1>3, <1>6, <2>2 DEF ObservedReceipt
  <2>3. CASE o.done \in 3..4
    <3>1. receipt'[r] = [Submitted(receipt[r]) EXCEPT !.st = "complete"]
      BY <1>3, <2>3 DEF ObservedReceipt
    <3>2. QED
      BY <1>6, <2>3, <3>1 DEF ReceiptType
  <2>4. QED
    BY <1>2, <2>1, <2>2, <2>3
<1>8. /\ queue[r].st \in {"claimed", "published"}
      /\ receipt[r].st \in PostArm \cup {"complete"}
  BY DEF Observable
<1>9. Coherent(queue'[r], receipt'[r])
  BY <1>1, <1>2, <1>5, <1>7, <1>8 DEF Coherent, Early, Active, PostArm
<1>10. Moves(queue[r], receipt[r], queue'[r], receipt'[r])
  BY <1>2, <1>5, <1>7, <1>8, <1>9 DEF Moves, Early, Settled, PostArm
<1>11. QED
  BY <1>1, <1>3, <1>10, FilesOfOne

\* A retained claim gets the receipt it lacks, then the mark that it has it.
LEMMA FilesRetained ==
  ASSUME PoolInv, NEW g \in Gens, NEW r \in Requests, ClaimRetained(g, r)
  PROVE  Files
<1>1. TypeOK /\ FilesInv /\ Coherent(queue[r], receipt[r]) /\ queue[r] \in RecordType
  BY DEF PoolInv, FilesInv, DeliveryInv, FenceInv, TypeOK
<1>2. queue[r].st = "claimed" /\ queue[r].parent = parent
  BY DEF ClaimRetained
<1>3. CASE receipt[r].st = "absent"
  <2>1. PICK o \in Outcomes(2) :
          /\ receipt' = IF o.done = 0 THEN receipt
                        ELSE [receipt EXCEPT ![r] = PreparedFor(queue[r], parent)]
          /\ queue' = IF o.done < 2 THEN queue
                      ELSE [queue EXCEPT ![r].established = TRUE]
    BY <1>3 DEF ClaimRetained
  <2>2. o.done \in 0..2
    BY OutcomeFacts
  <2>3. \A x \in Requests : x # r => queue'[x] = queue[x] /\ receipt'[x] = receipt[x]
    BY <1>1, <2>1 DEF TypeOK
  <2>4. /\ queue'[r].st = "claimed"
        /\ queue'[r].slot = queue[r].slot
        /\ queue'[r].gen = queue[r].gen
        /\ queue'[r].parent = queue[r].parent
        /\ o.done < 2 => queue'[r] = queue[r]
    BY <1>1, <1>2, <2>1 DEF TypeOK, RecordType
  <2>5. CASE o.done = 0
    BY <1>1, <2>1, <2>5, FilesUntouched
  <2>6. CASE o.done \in 1..2
    <3>1. receipt'[r] = PreparedFor(queue[r], parent)
      BY <1>1, <2>1, <2>6 DEF TypeOK
    <3>2. /\ receipt'[r].st = "prepared"
          /\ receipt'[r].slot = queue[r].slot
          /\ receipt'[r].gen = queue[r].gen
          /\ receipt'[r].parent = queue[r].parent
      BY <1>2, <3>1 DEF PreparedFor, NoReceipt
    <3>3. Moves(queue[r], receipt[r], queue'[r], receipt'[r])
      BY <1>1, <1>2, <1>3, <2>4, <3>2 DEF Moves, Coherent, Early, Settled
    <3>4. QED
      BY <1>1, <2>3, <3>3, FilesOfOne
  <2>7. QED
    BY <2>2, <2>5, <2>6
<1>4. CASE receipt[r].st # "absent"
  BY <1>1, <1>4, FilesUntouched DEF ClaimRetained
<1>5. QED
  BY <1>3, <1>4

\* Arming fences the prepared receipt in place.
LEMMA FilesArm ==
  ASSUME PoolInv, NEW g \in Gens, NEW r \in Requests, Arm(g, r)
  PROVE  Files
<1>1. TypeOK /\ FilesInv
  BY DEF PoolInv, DeliveryInv, FenceInv
<1>2. /\ UNCHANGED queue
      /\ receipt[r].st = "prepared"
      /\ \/ receipt' = receipt
         \/ receipt' = [receipt EXCEPT ![r] = ArmedReceipt(@)]
  BY DEF Arm
<1>3. /\ \A x \in Requests : x # r => receipt'[x] = receipt[x]
      /\ receipt'[r].st \in {"prepared", "armed"}
      /\ receipt'[r].slot = receipt[r].slot
      /\ receipt'[r].gen = receipt[r].gen
      /\ receipt'[r].parent = receipt[r].parent
  <2>1. receipt[r] \in ReceiptType
    BY <1>1 DEF TypeOK
  <2>2. /\ ArmedReceipt(receipt[r]).st = "armed"
        /\ ArmedReceipt(receipt[r]).slot = receipt[r].slot
        /\ ArmedReceipt(receipt[r]).gen = receipt[r].gen
        /\ ArmedReceipt(receipt[r]).parent = receipt[r].parent
    BY <2>1 DEF ArmedReceipt, ReceiptType
  <2>3. /\ \A x \in Requests : x # r => receipt'[x] = receipt[x]
        /\ receipt'[r] = receipt[r] \/ receipt'[r] = ArmedReceipt(receipt[r])
    BY <1>1, <1>2 DEF TypeOK
  <2>4. QED
    BY <1>2, <2>2, <2>3
<1>4. QED
  BY <1>2, <1>3, FilesReceipt DEF Active, PostArm, Settled

\* The steps of a runner, but the claim of a queued request.
LEMMA FilesRunner ==
  ASSUME PoolInv, NEW g \in Gens, NEW r \in Requests, RunnerStep(g, r)
  PROVE  Files \/ ClaimQueued(g, r)
<1>1. TypeOK /\ FilesInv
  BY DEF PoolInv, DeliveryInv, FenceInv
<1>2. CASE ClaimRetained(g, r)
  BY <1>2, FilesRetained
<1>3. CASE Arm(g, r)
  BY <1>3, FilesArm
<1>4. CASE Observe(g, r)
  BY <1>4, FilesObserve DEF Observe
<1>5. CASE FailArmed(g, r)
  <2>1. CASE receipt' = receipt
    BY <1>1, <1>5, <2>1, FilesUntouched DEF FailArmed
  <2>2. CASE receipt' # receipt
    <3>1. /\ UNCHANGED queue
          /\ receipt[r].st \in PostArm
          /\ receipt' = [receipt EXCEPT ![r].st = "indeterminate",
                                        ![r].no_resend = TRUE]
      BY <1>5, <2>2 DEF FailArmed
    <3>2. /\ \A x \in Requests : x # r => receipt'[x] = receipt[x]
          /\ receipt'[r].st = "indeterminate"
          /\ receipt'[r].slot = receipt[r].slot
          /\ receipt'[r].gen = receipt[r].gen
          /\ receipt'[r].parent = receipt[r].parent
      BY <1>1, <3>1 DEF TypeOK, ReceiptType
    <3>3. QED
      BY <3>1, <3>2, FilesReceipt DEF PostArm, Active, Settled
  <2>3. QED
    BY <2>1, <2>2
<1>6. CASE Abandon(g, r)
  BY <1>6, FilesAbandon DEF Abandon
<1>7. CASE Release(g, r)
  BY <1>7, FilesRelease DEF Release
<1>8. CASE Send(g, r) \/ Fail(g, r) \/ End(g, r)
  BY <1>1, <1>8, FilesUntouched DEF Send, Fail, End
<1>9. QED
  BY <1>2, <1>3, <1>4, <1>5, <1>6, <1>7, <1>8 DEF RunnerStep

\* Recovery stamps claims that have no receipt with the next generation.
LEMMA FilesRecover ==
  ASSUME PoolInv, RecoverStart
  PROVE  Files
<1>1. TypeOK /\ FilesInv
  BY DEF PoolInv, DeliveryInv, FenceInv
<1>2. UNCHANGED receipt
  BY DEF RecoverStart
<1>3. ASSUME NEW x \in Requests
      PROVE  Moves(queue[x], receipt[x], queue'[x], receipt'[x])
  <2>1. queue[x] \in RecordType /\ Coherent(queue[x], receipt[x])
    BY <1>1 DEF TypeOK, FilesInv
  <2>2. \/ queue'[x] = queue[x]
        \/ PreReceipt(x) /\ queue'[x] = [queue[x] EXCEPT !.gen = generation + 1]
    BY DEF RecoverStart
  <2>3. CASE queue'[x] = queue[x]
    BY <1>2, <2>1, <2>3, MovesNot
  <2>4. CASE PreReceipt(x) /\ queue'[x] = [queue[x] EXCEPT !.gen = generation + 1]
    <3>1. /\ queue'[x].st = queue[x].st
          /\ queue'[x].slot = queue[x].slot
          /\ queue'[x].parent = queue[x].parent
          /\ queue'[x].established = queue[x].established
          /\ receipt[x].st = "absent"
      BY <2>1, <2>4 DEF PreReceipt, RecordType
    <3>2. QED
      BY <1>2, <2>1, <3>1 DEF Moves, Coherent
  <2>5. QED
    BY <2>2, <2>3, <2>4
<1>4. QED
  BY <1>3 DEF Files

\* What n writes of a settlement leave of a claim: prepared, established,
\* abandoned, released.
SettledBy(r, n) ==
  /\ queue[r].st \in {"claimed", "released"}
  /\ receipt[r].st \in {"absent", "prepared", "abandoned"}
  /\ receipt[r].st = "absent" => queue[r].st = "claimed"
  /\ queue'[r].st = IF n > 3 THEN "released" ELSE queue[r].st
  /\ queue'[r].slot = queue[r].slot
  /\ queue'[r].gen = queue[r].gen
  /\ queue'[r].parent = queue[r].parent
  /\ queue'[r].established => queue[r].established \/ n > 1
  /\ receipt'[r].st = IF n > 2 THEN "abandoned"
                      ELSE IF n > 0 /\ receipt[r].st = "absent"
                           THEN "prepared" ELSE receipt[r].st
  /\ receipt'[r].st # "absent" => /\ receipt'[r].slot = queue[r].slot
                                  /\ receipt'[r].gen = queue[r].gen
                                  /\ receipt'[r].parent = queue[r].parent
  /\ receipt'[r].no_resend => receipt[r].no_resend

\* A settlement leaves a request that was never claimed alone, settles a claim
\* as far as it gets, and frees the slot last.
LEMMA SettleWrites ==
  ASSUME PoolInv, NEW r \in Requests, Settle(r)
  PROVE  \E s \in Slots, o \in Outcomes(5) :
           /\ slots[s].req = r
           /\ slots[s].phase = "cancel_pending"
           /\ slots' = IF o.done = 5 THEN [slots EXCEPT ![s] = FreeSlot] ELSE slots
           /\ \A x \in Requests : x # r => queue'[x] = queue[x] /\ receipt'[x] = receipt[x]
           /\ \/ /\ UNCHANGED <<queue, receipt>>
                 /\ queue[r].st \in {"absent", "queued"}
                 /\ receipt[r].st = "absent"
              \/ SettledBy(r, o.done)
<1>1. TypeOK /\ Coherent(queue[r], receipt[r])
  BY DEF PoolInv, FilesInv, DeliveryInv, FenceInv
<1>2. queue[r] \in RecordType /\ receipt[r] \in ReceiptType
  BY <1>1 DEF TypeOK
<1>3. PICK s \in Slots, o \in Outcomes(5) :
       /\ SettlementScope(s, r)
       /\ slots[s].phase = "cancel_pending"
       /\ IF queue[r].st \in {"absent", "queued"}
          THEN /\ receipt[r].st = "absent"
               /\ UNCHANGED <<queue, receipt>>
          ELSE /\ queue[r].st \in {"claimed", "released"}
               /\ receipt[r].st = "absent" => /\ PreReceipt(r)
                                              /\ ~Cooling
                                              /\ ~UsedByOther(s, r)
               /\ receipt[r].st \in {"absent", "prepared", "abandoned"}
               /\ receipt' = CASE o.done = 0 -> receipt
                    [] o.done \in 1..2 /\ receipt[r].st = "absent" ->
                         [receipt EXCEPT ![r] =
                            PreparedFor(queue[r], CurrentBind(r).parent)]
                    [] o.done > 2 ->
                         [receipt EXCEPT ![r] =
                            Abandoned(IF receipt[r].st = "absent"
                                      THEN PreparedFor(queue[r], CurrentBind(r).parent)
                                      ELSE receipt[r])]
                    [] OTHER -> receipt
               /\ queue' = [queue EXCEPT
                    ![r].established = @ \/ o.done > 1,
                    ![r].st = IF o.done > 3 THEN "released" ELSE @]
       /\ slots' = IF o.done = 5 THEN [slots EXCEPT ![s] = FreeSlot] ELSE slots
  BY DEF Settle
<1>4. o.done \in 0..5
  BY OutcomeFacts
<1>5. slots[s].req = r
  BY <1>3 DEF SettlementScope
<1>6. CASE queue[r].st \in {"absent", "queued"}
  BY <1>3, <1>5, <1>6
<1>7. CASE queue[r].st \notin {"absent", "queued"}
  <2> DEFINE prep == PreparedFor(queue[r], queue[r].parent)
  <2>1. CurrentBind(r).parent = queue[r].parent
    BY <1>3, <1>7 DEF SettlementScope
  <2>2. /\ prep \in ReceiptType
        /\ prep.st = "prepared" /\ prep.no_resend = FALSE
        /\ prep.slot = queue[r].slot
        /\ prep.gen = queue[r].gen
        /\ prep.parent = queue[r].parent
    <3>1. queue[r].parent \in Parents \cup {None}
      BY <1>2 DEF RecordType
    <3>2. prep \in ReceiptType
      BY <1>2, <3>1, PreparedForType
    <3>3. QED
      BY <3>2 DEF PreparedFor, NoReceipt
  <2> HIDE DEF prep
  <2>3. /\ Abandoned(prep).st = "abandoned" /\ Abandoned(prep).no_resend = FALSE
        /\ Abandoned(prep).slot = queue[r].slot
        /\ Abandoned(prep).gen = queue[r].gen
        /\ Abandoned(prep).parent = queue[r].parent
    BY <2>2 DEF Abandoned, ReceiptType
  <2>4. /\ Abandoned(receipt[r]).st = "abandoned"
        /\ Abandoned(receipt[r]).no_resend = receipt[r].no_resend
        /\ Abandoned(receipt[r]).slot = receipt[r].slot
        /\ Abandoned(receipt[r]).gen = receipt[r].gen
        /\ Abandoned(receipt[r]).parent = receipt[r].parent
    BY <1>2 DEF Abandoned, ReceiptType
  <2>5. receipt' = CASE o.done = 0 -> receipt
                    [] o.done \in 1..2 /\ receipt[r].st = "absent" ->
                         [receipt EXCEPT ![r] = prep]
                    [] o.done > 2 ->
                         [receipt EXCEPT ![r] =
                            Abandoned(IF receipt[r].st = "absent"
                                      THEN prep ELSE receipt[r])]
                    [] OTHER -> receipt
    BY <1>3, <1>7, <2>1 DEF prep
  <2>6. /\ \A x \in Requests : x # r => receipt'[x] = receipt[x]
        /\ o.done = 0 => receipt'[r] = receipt[r]
        /\ o.done \in 1..2 /\ receipt[r].st = "absent" => receipt'[r] = prep
        /\ o.done \in 1..2 /\ receipt[r].st # "absent" => receipt'[r] = receipt[r]
        /\ o.done > 2 /\ receipt[r].st = "absent" => receipt'[r] = Abandoned(prep)
        /\ o.done > 2 /\ receipt[r].st # "absent" => receipt'[r] = Abandoned(receipt[r])
    BY <1>1, <1>4, <2>5 DEF TypeOK
  <2>7. /\ receipt'[r].st = IF o.done > 2 THEN "abandoned"
                            ELSE IF o.done > 0 /\ receipt[r].st = "absent"
                                 THEN "prepared" ELSE receipt[r].st
        /\ receipt'[r].st # "absent" => /\ receipt'[r].slot = queue[r].slot
                                        /\ receipt'[r].gen = queue[r].gen
                                        /\ receipt'[r].parent = queue[r].parent
        /\ receipt'[r].no_resend => receipt[r].no_resend
    <3>1. receipt[r].st # "absent" => /\ receipt[r].slot = queue[r].slot
                                      /\ receipt[r].gen = queue[r].gen
                                      /\ receipt[r].parent = queue[r].parent
      BY <1>1 DEF Coherent
    <3>2. CASE o.done = 0
      BY <2>6, <3>1, <3>2
    <3>3. CASE o.done \in 1..2
      BY <2>2, <2>6, <3>1, <3>3
    <3>4. CASE o.done \in 3..5
      BY <2>3, <2>4, <2>6, <3>1, <3>4
    <3>5. QED
      BY <1>4, <3>2, <3>3, <3>4
  <2>8. /\ \A x \in Requests : x # r => queue'[x] = queue[x]
        /\ queue'[r].st = IF o.done > 3 THEN "released" ELSE queue[r].st
        /\ queue'[r].slot = queue[r].slot
        /\ queue'[r].gen = queue[r].gen
        /\ queue'[r].parent = queue[r].parent
        /\ queue'[r].established => queue[r].established \/ o.done > 1
    BY <1>1, <1>2, <1>3, <1>7 DEF TypeOK, RecordType
  <2>9. receipt[r].st = "absent" => queue[r].st = "claimed"
    BY <1>3, <1>7 DEF PreReceipt
  <2>10. QED
    BY <1>3, <1>5, <1>7, <2>6, <2>7, <2>8, <2>9 DEF SettledBy
<1>8. QED
  BY <1>6, <1>7

\* A settlement moves its files as every call does.
LEMMA FilesSettle ==
  ASSUME PoolInv, NEW r \in Requests, Settle(r)
  PROVE  Files
<1>1. FilesInv /\ Coherent(queue[r], receipt[r])
  BY DEF PoolInv, FilesInv
<1>2. PICK o \in Outcomes(5) :
        /\ \A x \in Requests : x # r => queue'[x] = queue[x] /\ receipt'[x] = receipt[x]
        /\ \/ UNCHANGED <<queue, receipt>>
           \/ SettledBy(r, o.done)
  BY SettleWrites
<1>3. o.done \in 0..5
  BY OutcomeFacts
<1>4. CASE UNCHANGED <<queue, receipt>>
  BY <1>1, <1>4, FilesUntouched
<1>5. CASE ~UNCHANGED <<queue, receipt>>
  <2>1. Coherent(queue'[r], receipt'[r])
    BY <1>1, <1>2, <1>3, <1>5 DEF SettledBy, Coherent, Early, Active, PostArm
  <2>2. Moves(queue[r], receipt[r], queue'[r], receipt'[r])
    BY <1>2, <1>3, <1>5, <2>1 DEF SettledBy, Moves, Early, Settled
  <2>3. QED
    BY <1>1, <1>2, <2>2, FilesOfOne
<1>6. QED
  BY <1>4, <1>5

\* Every step but the claim of a queued request moves the files so.
LEMMA FilesStep ==
  ASSUME PoolInv, [Next]_vars
  PROVE  Files \/ \E g \in Gens, r \in Requests : ClaimQueued(g, r)
<1>1. FilesInv
  BY DEF PoolInv
<1>2. CASE UNCHANGED vars
  BY <1>1, <1>2, FilesUntouched DEF vars
<1>3. ASSUME NEW r \in Requests, ClientStep(r) \/ ChatStep(r)
      PROVE  Files
  BY <1>3, FilesClient, FilesChat
<1>4. ASSUME NEW g \in Gens, NEW r \in Requests, RunnerStep(g, r)
      PROVE  Files \/ ClaimQueued(g, r)
  BY <1>4, FilesRunner
<1>5. CASE OwnerStep
  <2>1. CASE RecoverStart
    BY <2>1, FilesRecover
  <2>2. ASSUME NEW r \in Requests, CollectorObserve(r)
        PROVE  Files
    BY <2>2, FilesObserve DEF CollectorObserve
  <2>3. ASSUME NEW r \in Requests, Settle(r)
        PROVE  Files
    BY <2>3, FilesSettle
  <2>4. ASSUME NEW r \in Requests, SettleAbandon(r)
        PROVE  Files
    BY <2>4, FilesAbandon DEF SettleAbandon
  <2>5. ASSUME NEW r \in Requests, SettleRelease(r)
        PROVE  Files
    BY <2>5, FilesRelease DEF SettleRelease
  <2>6. CASE UNCHANGED <<queue, receipt>>
    BY <1>1, <2>6, FilesUntouched
  <2>7. QED
    BY <1>5, <2>1, <2>2, <2>3, <2>4, <2>5, <2>6
       DEF OwnerStep, Start, BindSession, CollectorOpen, CollectorClose, Takeover,
           Handoff, Begin, EndCollected
<1>6. QED
  BY <1>2, <1>3, <1>4, <1>5 DEF Next

----------------------------------------------------------------------------
(* What a step does to a slot                                               *)

\* A slot left as it is, unless a new generation finds an invocation on it.
SlotStays(t) ==
  /\ slots'[t] = slots[t]
  /\ generation' = generation \/ slots[t].inv = 0

\* A slot freed of a request that is settled or has no receipt and no claim.
SlotFreed(t) ==
  /\ slots'[t] = FreeSlot
  /\ \A r \in Requests : slots[t].req = r =>
       \/ receipt'[r].st \in Settled
       \/ receipt'[r].st = "absent" /\ queue'[r].st # "claimed"

\* A slot that keeps its request: inherited work stays so, without invocation;
\* other work runs, is sent back, or is left to collect or to cancel.
SlotKept(t) ==
  /\ slots'[t].req = slots[t].req
  /\ slots[t].req # None
  /\ slots'[t].inv \in {0, generation'}
  /\ slots'[t].inv # 0 => slots'[t].phase \in {"reserved", "running"}
  /\ slots'[t].phase # "idle"
  /\ slots[t].phase \in Inherited =>
       slots'[t].phase = slots[t].phase /\ slots'[t].inv = 0
  /\ \A r \in Requests : slots[t].req = r =>
       /\ queue'[r].st \in {"absent", "queued"} =>
            slots'[t].phase \in {"reserved", "cancel_pending"}
       /\ slots'[t].phase = "cancel_pending" =>
            slots[t].phase = "cancel_pending" \/ ~receipt'[r].no_resend

\* What every step but the reservation of an idle slot does to a slot.
SlotMoves(t) == SlotStays(t) \/ SlotFreed(t) \/ SlotKept(t)

\* A step that leaves the slots and the generation alone.
LEMMA SlotsStay ==
  ASSUME UNCHANGED <<slots, generation>>
  PROVE  \A t \in Slots : SlotMoves(t)
BY DEF SlotMoves, SlotStays

\* A step that frees one slot, or none.
LEMMA SlotsFree ==
  ASSUME PoolInv, NEW s \in Slots, UNCHANGED generation,
         slots' = [slots EXCEPT ![s] = FreeSlot] \/ UNCHANGED slots,
         UNCHANGED slots \/ SlotFreed(s)
  PROVE  \A t \in Slots : SlotMoves(t)
<1>1. slots \in [Slots -> SlotType]
  BY DEF PoolInv, DeliveryInv, FenceInv, TypeOK
<1>2. ASSUME NEW t \in Slots PROVE SlotMoves(t)
  <2>1. CASE t = s
    BY <2>1 DEF SlotMoves, SlotStays
  <2>2. CASE t # s
    BY <1>1, <2>2 DEF SlotMoves, SlotStays
  <2>3. QED
    BY <2>1, <2>2
<1>3. QED
  BY <1>2

\* A runner's steps: the arm marks its slot running, the end frees it.
LEMMA SlotsRunner ==
  ASSUME PoolInv, NEW g \in Gens, NEW r \in Requests, RunnerStep(g, r)
  PROVE  \A t \in Slots : SlotMoves(t)
<1>1. TypeOK /\ FilesInv
  BY DEF PoolInv, DeliveryInv, FenceInv
<1>2. CASE Arm(g, r)
  <2>1. PICK s \in Slots, o \in Outcomes(2) :
          /\ Guard(g, r, s)
          /\ slots[s].phase = "reserved"
          /\ slots' = IF o.done = 0 THEN slots
                      ELSE [slots EXCEPT ![s].phase = "running"]
    BY <1>2 DEF Arm
  <2>2. UNCHANGED <<generation, queue>> /\ queue[r].st = "claimed"
    BY <1>2 DEF Arm
  <2>3. CASE UNCHANGED slots
    BY <2>2, <2>3, SlotsStay
  <2>4. CASE slots' = [slots EXCEPT ![s].phase = "running"]
    <3>1. ASSUME NEW t \in Slots, t # s PROVE SlotMoves(t)
      BY <1>1, <2>2, <2>4, <3>1 DEF TypeOK, SlotMoves, SlotStays
    <3>2. /\ slots'[s].req = r /\ slots[s].req = r
          /\ slots'[s].inv = generation
          /\ slots'[s].phase = "running"
      BY <1>1, <2>1, <2>4 DEF TypeOK, SlotType, Guard
    <3>3. SlotKept(s)
      BY <2>1, <2>2, <3>2, PoolAssumption DEF SlotKept, Inherited
    <3>4. QED
      BY <3>1, <3>3 DEF SlotMoves
  <2>5. QED
    BY <2>1, <2>3, <2>4
<1>3. CASE End(g, r)
  <2>1. PICK s \in Slots, o \in Outcomes(1) :
          /\ MayEnd(g, r, s)
          /\ slots' = IF o.done = 0 THEN slots ELSE [slots EXCEPT ![s] = FreeSlot]
    BY <1>3 DEF End
  <2>2. UNCHANGED <<generation, receipt, queue>>
    BY <1>3 DEF End
  <2>3. slots' = [slots EXCEPT ![s] = FreeSlot] => SlotFreed(s)
    BY <1>1, <2>1, <2>2 DEF MayEnd, SlotFreed, TypeOK
  <2>4. QED
    BY <2>1, <2>2, <2>3, SlotsFree
<1>4. CASE UNCHANGED <<slots, generation>>
  BY <1>4, SlotsStay
<1>5. QED
  BY <1>2, <1>3, <1>4
     DEF RunnerStep, ClaimQueued, ClaimRetained, Send, Observe, Fail, FailArmed,
         Abandon, Release, ownerVars

\* Recovery frees the slot of a request never submitted, sends back what was
\* never armed, and leaves the rest to collect.
LEMMA SlotsRecover ==
  ASSUME PoolInv, RecoverStart
  PROVE  \A t \in Slots : SlotMoves(t)
<1>1. TypeOK /\ FilesInv /\ \A t \in Slots : Shaped(t)
  BY DEF PoolInv, DeliveryInv, FenceInv, SlotInv
<1>2. /\ UNCHANGED receipt
      /\ \/ UNCHANGED <<generation, slots>>
         \/ slots' = [s \in Slots |-> RecoveredSlot(slots[s])]
  BY DEF RecoverStart
<1>3. \A x \in Requests : queue'[x].st = queue[x].st
  BY <1>1 DEF RecoverStart, TypeOK, RecordType
<1>4. ASSUME NEW t \in Slots, slots'[t] = RecoveredSlot(slots[t])
      PROVE  SlotMoves(t)
  <2> DEFINE r == slots[t].req
  <2>1. slots[t] \in SlotType /\ Shaped(t)
    BY <1>1 DEF TypeOK
  <2>2. CASE r = None
    <3>1. slots'[t] = slots[t] /\ slots[t].inv = 0
      BY <1>4, <2>1, <2>2 DEF RecoveredSlot, Shaped
    <3>2. QED
      BY <3>1 DEF SlotMoves, SlotStays
  <2>3. CASE r # None /\ slots[t].phase \in Inherited
    <3>1. /\ slots'[t].req = r
          /\ slots'[t].inv = 0
          /\ slots'[t].phase = slots[t].phase
      BY <1>4, <2>1, <2>3 DEF RecoveredSlot, SlotType
    <3>2. r \in Requests
      BY <2>1, <2>3 DEF SlotType
    <3>3. slots[t].phase # "idle" /\ r # None
      BY <2>3 DEF Inherited
    <3>4. ASSUME slots[t].phase = "collect_only", queue[r].st \in {"absent", "queued"}
          PROVE  FALSE
      BY <1>1, <3>2, <3>4 DEF PoolInv, SlotInv, HeldWell
    <3>5. SlotKept(t)
      BY <1>2, <1>3, <2>3, <3>1, <3>3, <3>4 DEF SlotKept, Inherited
    <3>6. QED
      BY <3>5 DEF SlotMoves
  <2>4. CASE r # None /\ slots[t].phase \notin Inherited /\ queue[r].st = "absent"
    <3>1. slots'[t] = FreeSlot /\ r \in Requests
      BY <1>4, <2>1, <2>4 DEF RecoveredSlot, SlotType
    <3>2. receipt[r].st = "absent"
      BY <1>1, <2>4, <3>1 DEF FilesInv, Coherent, Early
    <3>3. QED
      BY <1>2, <1>3, <2>4, <3>1, <3>2 DEF SlotMoves, SlotFreed
  <2>5. CASE r # None /\ slots[t].phase \notin Inherited /\ queue[r].st # "absent"
    <3>1. /\ slots'[t].req = r
          /\ slots'[t].inv = 0
          /\ slots'[t].phase = IF receipt[r].st = "prepared" \/ queue[r].st = "queued"
                                  \/ PreReceipt(r)
                               THEN "reserved" ELSE "collect_only"
      BY <1>4, <2>1, <2>5 DEF RecoveredSlot, SlotType
    <3>2. SlotKept(t)
      BY <1>2, <1>3, <2>5, <3>1 DEF SlotKept
    <3>3. QED
      BY <3>2 DEF SlotMoves
  <2>6. QED
    BY <2>2, <2>3, <2>4, <2>5
<1>5. QED
  BY <1>2, <1>4, SlotsStay

\* A takeover frees the slots of requests never submitted, and leaves all the
\* others to cancel or to collect: it cancels nothing that was fenced.
LEMMA SlotsTakeover ==
  ASSUME PoolInv, NEW p \in Parents, Takeover(p)
  PROVE  \A t \in Slots :
           /\ SlotMoves(t)
           /\ slots'[t].inv = 0
           /\ Kept(t) => slots'[t].req = slots[t].req
           /\ ~Kept(t) => slots'[t] = FreeSlot
<1>1. TypeOK /\ FilesInv /\ SendIsFenced /\ \A t \in Slots : Shaped(t)
  BY DEF PoolInv, DeliveryInv, FenceInv, SlotInv
<1>2. UNCHANGED <<queue, receipt>>
  BY DEF Takeover
<1>3. SUFFICES ASSUME NEW t \in Slots
               PROVE  /\ SlotMoves(t)
                      /\ slots'[t].inv = 0
                      /\ Kept(t) => slots'[t].req = slots[t].req
                      /\ ~Kept(t) => slots'[t] = FreeSlot
  OBVIOUS
<1> DEFINE r == slots[t].req
<1>4. slots[t] \in SlotType /\ Shaped(t)
  BY <1>1 DEF TypeOK
<1>5. slots'[t] = IF ~Kept(t) THEN FreeSlot
                  ELSE [slots[t] EXCEPT !.inv = 0,
                          !.phase = IF Cancellable(t) THEN "cancel_pending"
                                                      ELSE "collect_only"]
  BY DEF Takeover
<1>6. CASE ~Kept(t)
  <2>1. ASSUME NEW x \in Requests, r = x
        PROVE  receipt[x].st = "absent" /\ queue[x].st = "absent"
    <3>1. queue[x].st = "absent"
      BY <1>6, <2>1, PoolAssumption DEF Kept
    <3>2. QED
      BY <1>1, <3>1 DEF FilesInv, Coherent, Early
  <2>2. SlotFreed(t)
    BY <1>2, <1>5, <1>6, <2>1 DEF SlotFreed
  <2>3. QED
    BY <1>5, <1>6, <2>2 DEF SlotMoves, FreeSlot
<1>7. CASE Kept(t)
  <2>1. r # None /\ r \in Requests /\ queue[r].st # "absent"
    BY <1>4, <1>7 DEF Kept, SlotType
  <2>2. /\ slots'[t].req = r
        /\ slots'[t].inv = 0
        /\ slots'[t].phase = IF Cancellable(t) THEN "cancel_pending" ELSE "collect_only"
    BY <1>4, <1>5, <1>7 DEF SlotType
  <2>3. slots[t].phase \in Inherited => slots'[t].phase = slots[t].phase
    BY <2>2 DEF Cancellable, Inherited
  <2>4. queue[r].st = "queued" => slots'[t].phase = "cancel_pending"
    <3>1. HeldWell(t, r)
      BY <2>1 DEF PoolInv, SlotInv
    <3>2. QED
      BY <2>2, <3>1 DEF HeldWell, Cancellable
  <2>5. Cancellable(t) => slots[t].phase = "cancel_pending" \/ ~receipt[r].no_resend
    <3>1. queue[r].st = "queued" \/ PreReceipt(r) => receipt[r].st = "absent"
      BY <1>1, <2>1 DEF FilesInv, Coherent, Early, PreReceipt
    <3>2. receipt[r].st = "absent" => ~receipt[r].no_resend
      BY <1>1, <2>1 DEF SendIsFenced
    <3>3. QED
      BY <3>1, <3>2 DEF Cancellable
  <2>6. SlotKept(t)
    BY <1>2, <2>1, <2>2, <2>3, <2>4, <2>5 DEF SlotKept
  <2>7. QED
    BY <1>7, <2>2, <2>6 DEF SlotMoves
<1>8. QED
  BY <1>6, <1>7

\* The owner's other steps.
LEMMA SlotsOwner ==
  ASSUME PoolInv, OwnerStep
  PROVE  (\A t \in Slots : SlotMoves(t)) \/ \E r \in Requests : Begin(r)
<1>1. TypeOK /\ \A t \in Slots : Shaped(t)
  BY DEF PoolInv, DeliveryInv, FenceInv, SlotInv
<1>2. CASE Start
  <2>1. \A t \in Slots : slots[t].inv = 0
    BY <1>1, <1>2 DEF Start, NoLiveInvocation, Shaped
  <2>2. QED
    BY <1>2, <2>1 DEF Start, SlotMoves, SlotStays
<1>3. CASE RecoverStart
  BY <1>3, SlotsRecover
<1>4. ASSUME NEW p \in Parents, Takeover(p)
      PROVE  \A t \in Slots : SlotMoves(t)
  BY <1>4, SlotsTakeover
<1>5. ASSUME NEW p \in Parents, Handoff(p)
      PROVE  \A t \in Slots : SlotMoves(t)
  <2>1. \A t \in Slots : slots[t].inv = 0
    BY <1>5 DEF Handoff, FreeSlot
  <2>2. QED
    BY <1>5, <2>1 DEF Handoff, SlotMoves, SlotStays
<1>6. ASSUME NEW r \in Requests, EndCollected(r)
      PROVE  \A t \in Slots : SlotMoves(t)
  <2>1. PICK s \in Slots : /\ MayEndCollected(s, r)
                           /\ slots' = [slots EXCEPT ![s] = FreeSlot]
    BY <1>6 DEF EndCollected
  <2>2. UNCHANGED <<generation, receipt, queue>>
    BY <1>6 DEF EndCollected
  <2>3. SlotFreed(s)
    BY <1>1, <2>1, <2>2 DEF MayEndCollected, SlotFreed, TypeOK
  <2>4. QED
    BY <2>1, <2>2, <2>3, SlotsFree
<1>7. ASSUME NEW r \in Requests, Settle(r)
      PROVE  \A t \in Slots : SlotMoves(t)
  <2>1. PICK s \in Slots, o \in Outcomes(5) :
           /\ slots[s].req = r
           /\ slots' = IF o.done = 5 THEN [slots EXCEPT ![s] = FreeSlot] ELSE slots
           /\ \/ /\ UNCHANGED <<queue, receipt>>
                 /\ queue[r].st \in {"absent", "queued"}
                 /\ receipt[r].st = "absent"
              \/ SettledBy(r, o.done)
    BY <1>7, SettleWrites
  <2>2. CASE o.done = 5
    <3>1. SlotFreed(s)
      BY <1>1, <2>1, <2>2 DEF SettledBy, SlotFreed, TypeOK, Settled
    <3>2. QED
      BY <1>7, <2>1, <2>2, <3>1, SlotsFree DEF Settle
  <2>3. CASE o.done # 5
    BY <1>7, <2>1, <2>3, SlotsStay DEF Settle
  <2>4. QED
    BY <2>2, <2>3
<1>8. CASE UNCHANGED <<slots, generation>>
  BY <1>8, SlotsStay
<1>9. QED
  BY <1>2, <1>3, <1>4, <1>5, <1>6, <1>7, <1>8
     DEF OwnerStep, BindSession, CollectorOpen, CollectorClose, CollectorObserve,
         SettleAbandon, SettleRelease, ownerVars

\* What a reservation does: one slot, which holds the request already or is
\* idle while no slot does, becomes the reservation of this generation.
LEMMA BeginReserves ==
  ASSUME PoolInv, NEW r \in Requests, Begin(r)
  PROVE  \E s \in Slots :
           /\ slots[s].phase \notin Inherited
           /\ \/ queue[r].st \in {"absent", "queued"}
              \/ queue[r].parent = parent /\ queue[r].slot = s
           /\ slots[s].req = r \/ slots[s].req = None
           /\ \A t \in Slots \ {s} : slots[t].req # r
           /\ \/ UNCHANGED slots
              \/ /\ slots'[s].req = r
                 /\ slots'[s].inv = generation
                 /\ slots'[s].phase = "reserved"
                 /\ \A t \in Slots \ {s} : slots'[t] = slots[t]
<1>1. TypeOK
  BY DEF PoolInv, DeliveryInv, FenceInv
<1>2. PICK s \in Slots, o \in Outcomes(1) :
       /\ BeginsAt(s, r)
       /\ slots[s].phase \notin Inherited
       /\ \/ queue[r].st \in {"absent", "queued"}
          \/ queue[r].parent = parent /\ queue[r].slot = s
       /\ \/ slots[s].req = r /\ slots[s].inv = 0
          \/ slots[s].req = None /\ queue[r].st \in {"absent", "queued", "claimed"}
       /\ slots' = IF o.done = 0 THEN slots
                   ELSE [slots EXCEPT ![s] = [req |-> r, inv |-> generation,
                                              phase |-> "reserved"]]
  BY DEF Begin
<1>3. \A t \in Slots \ {s} : slots[t].req # r
  <2>1. CASE slots[s].req = r
    BY <2>1 DEF PoolInv, SlotInv, HeldWell
  <2>2. CASE slots[s].req # r
    BY <1>2, <2>2 DEF BeginsAt
  <2>3. QED
    BY <2>1, <2>2
<1>4. QED
  BY <1>1, <1>2, <1>3 DEF TypeOK

\* A fence appears only on a request whose slot does not await cancellation.
LEMMA FenceGrows ==
  ASSUME PoolInv, [Next]_vars, NEW x \in Requests, receipt'[x].no_resend
  PROVE  \/ receipt[x].no_resend
         \/ \E s \in Slots : slots[s].req = x /\ slots[s].phase # "cancel_pending"
<1>1. TypeOK /\ SendIsFenced
  BY DEF PoolInv, DeliveryInv, FenceInv
<1>2. CASE UNCHANGED receipt
  BY <1>2
<1>3. ASSUME NEW r \in Requests, ChatStep(r)
      PROVE  receipt[x].no_resend
  <2>1. \/ UNCHANGED receipt
        \/ receipt[r].st \in PostArm /\ \A y \in Requests \ {r} : receipt'[y] = receipt[y]
        \/ \A y \in Requests : receipt'[y].no_resend = receipt[y].no_resend
    BY <1>1, <1>3 DEF ChatStep, Answer, UnusualActivity403, MayReport403,
                      CooldownExpires, TypeOK, ReceiptType
  <2>2. QED
    BY <1>1, <2>1 DEF SendIsFenced
<1>4. ASSUME NEW g \in Gens, NEW r \in Requests, RunnerStep(g, r)
      PROVE  \/ receipt[x].no_resend
             \/ \E s \in Slots : slots[s].req = x /\ slots[s].phase # "cancel_pending"
  <2>1. CASE ClaimQueued(g, r) \/ ClaimRetained(g, r)
    <3>1. \/ UNCHANGED receipt
          \/ \E q : receipt' = [receipt EXCEPT ![r] = PreparedFor(q, parent)]
      BY <2>1 DEF ClaimQueued, ClaimRetained
    <3>2. \A q : PreparedFor(q, parent).no_resend = FALSE
      BY DEF PreparedFor, NoReceipt
    <3>3. QED
      BY <1>1, <3>1, <3>2 DEF TypeOK
  <2>2. CASE Arm(g, r)
    <3>1. /\ \E s \in Slots : slots[s].req = r /\ slots[s].phase = "reserved"
          /\ \A y \in Requests \ {r} : receipt'[y] = receipt[y]
      BY <1>1, <2>2 DEF Arm, Guard, TypeOK
    <3>2. QED
      BY <3>1
  <2>3. CASE Observe(g, r)
    BY <1>1, <2>3, TypeObserve DEF Observe
  <2>4. CASE FailArmed(g, r)
    <3>1. \/ UNCHANGED receipt
          \/ receipt[r].st \in PostArm /\ \A y \in Requests \ {r} : receipt'[y] = receipt[y]
      BY <1>1, <2>4 DEF FailArmed, TypeOK
    <3>2. QED
      BY <1>1, <3>1 DEF SendIsFenced
  <2>5. CASE Abandon(g, r)
    BY <1>1, <2>5 DEF Abandon, Abandoned, TypeOK, ReceiptType
  <2>6. CASE UNCHANGED receipt
    BY <2>6
  <2>7. QED
    BY <1>4, <2>1, <2>2, <2>3, <2>4, <2>5, <2>6
       DEF RunnerStep, Send, Fail, End, Release
<1>5. CASE OwnerStep
  <2>1. ASSUME NEW r \in Requests, CollectorObserve(r)
        PROVE  receipt[x].no_resend
    BY <1>1, <2>1, TypeObserve DEF CollectorObserve
  <2>2. ASSUME NEW r \in Requests, Settle(r)
        PROVE  receipt[x].no_resend
    <3>1. PICK o \in Outcomes(5) :
            /\ \A y \in Requests : y # r => receipt'[y] = receipt[y]
            /\ UNCHANGED receipt \/ SettledBy(r, o.done)
      BY <2>2, SettleWrites
    <3>2. QED
      BY <3>1 DEF SettledBy
  <2>3. ASSUME NEW r \in Requests, SettleAbandon(r)
        PROVE  receipt[x].no_resend
    BY <1>1, <2>3 DEF SettleAbandon, Abandoned, TypeOK, ReceiptType
  <2>4. CASE UNCHANGED receipt
    BY <2>4
  <2>5. QED
    BY <1>5, <2>1, <2>2, <2>3, <2>4
       DEF OwnerStep, Start, BindSession, RecoverStart, CollectorOpen, CollectorClose,
           Takeover, Handoff, Begin, EndCollected, SettleRelease
<1>6. QED
  BY <1>2, <1>3, <1>4, <1>5
     DEF Next, vars, ClientStep, Submit, Cancel, Acknowledge

----------------------------------------------------------------------------
(* Every step keeps the invariant                                           *)

\* Slots that move as steps move them, and files that move as calls move them,
\* stay in agreement, if each slot's request stands under the parent or is in
\* a takeover entry.
LEMMA SlotsMove ==
  ASSUME PoolInv, TypeOK', [Next]_vars, Files, \A t \in Slots : SlotMoves(t),
         \A t \in Slots, r \in Requests :
           (slots'[t].req = r /\ queue'[r].st \notin Early /\ queue'[r].parent # parent')
             => (\E i \in DOMAIN audits : Bound(i, r))'
  PROVE  SlotInv'
<1>1. /\ TypeOK /\ ClaimHoldsSlot /\ OneClaimPerWorker
      /\ \A t \in Slots : Shaped(t)
      /\ \A t \in Slots, r \in Requests : HeldWell(t, r)
  BY DEF PoolInv, SlotInv, DeliveryInv, FenceInv
<1>2. \A r \in Requests :
        /\ queue[r].st \in Early <=> queue'[r].st \in Early
        /\ queue[r].st \notin Early => queue'[r].slot = queue[r].slot
        /\ queue'[r].st = "claimed" => queue[r].st = "claimed"
        /\ queue'[r].st \in {"absent", "queued"} => queue[r].st \in {"absent", "queued"}
        /\ receipt[r].st \in Settled => receipt'[r].st \in Settled
        /\ queue'[r].st \notin Early => queue'[r].slot \in Slots
  BY DEF Files, Moves, Coherent
<1>3. ASSUME NEW t \in Slots
      PROVE  slots'[t].req \in {slots[t].req, None}
  BY DEF SlotMoves, SlotStays, SlotFreed, SlotKept, FreeSlot
<1>4. ASSUME NEW t \in Slots
      PROVE  Shaped(t)'
  <2>1. CASE SlotStays(t)
    BY <1>1, <2>1 DEF SlotStays, Shaped
  <2>2. CASE SlotFreed(t)
    BY <2>2 DEF SlotFreed, Shaped, FreeSlot
  <2>3. CASE SlotKept(t)
    BY <2>3 DEF SlotKept, Shaped
  <2>4. QED
    BY <2>1, <2>2, <2>3 DEF SlotMoves
<1>5. ASSUME NEW t \in Slots, NEW r \in Requests, slots'[t].req = r
      PROVE  HeldWell(t, r)'
  <2>1. r # None /\ slots[t].req = r
    BY <1>3, <1>5, PoolAssumption
  <2>2. \A u \in Slots \ {t} : slots'[u].req # r
    BY <1>1, <1>3, <2>1 DEF HeldWell
  <2>3. ~SlotFreed(t)
    BY <1>5, <2>1 DEF SlotFreed, FreeSlot
  <2>4. queue'[r].st \in {"absent", "queued"} =>
          slots'[t].phase \in {"reserved", "cancel_pending"}
    BY <1>1, <1>2, <2>1, <2>3 DEF SlotMoves, SlotStays, SlotKept, HeldWell
  <2>5. queue'[r].st \notin Early => queue'[r].slot = t
    BY <1>1, <1>2, <2>1 DEF HeldWell
  <2>6. slots'[t].phase = "cancel_pending" => ~receipt'[r].no_resend
    <3>1. ASSUME slots[t].phase = "cancel_pending"
          PROVE  ~receipt'[r].no_resend
      <4>1. ~receipt[r].no_resend /\ \A u \in Slots \ {t} : slots[u].req # r
        BY <1>1, <2>1, <3>1 DEF HeldWell
      <4>2. QED
        BY <3>1, <4>1, FenceGrows
    <3>2. QED
      BY <2>1, <2>3, <3>1 DEF SlotMoves, SlotStays, SlotKept
  <2>7. QED
    BY <1>5, <2>2, <2>4, <2>5, <2>6 DEF HeldWell
<1>6. ClaimHoldsSlot'
  <2>1. SUFFICES ASSUME NEW r \in Requests, queue'[r].st = "claimed",
                        receipt'[r].st \notin Settled
                 PROVE  slots'[queue'[r].slot].req = r
    BY DEF ClaimHoldsSlot
  <2>2. /\ slots[queue[r].slot].req = r
        /\ queue'[r].slot = queue[r].slot
        /\ queue[r].slot \in Slots
    BY <1>1, <1>2, <2>1 DEF ClaimHoldsSlot, Early
  <2>3. SlotMoves(queue[r].slot)
    BY <2>2
  <2>4. ~SlotFreed(queue[r].slot)
    BY <2>1, <2>2 DEF SlotFreed
  <2>5. QED
    BY <2>2, <2>3, <2>4 DEF SlotMoves, SlotStays, SlotKept
<1>7. OneClaimPerWorker'
  BY <1>1, <1>2 DEF OneClaimPerWorker, Early
<1>8. \A t \in Slots, r \in Requests : HeldWell(t, r)'
  BY <1>5 DEF HeldWell
<1>9. QED
  BY <1>4, <1>6, <1>7, <1>8 DEF SlotInv

\* The takeover entries stay right while no takeover adds one: what they
\* collect keeps its claim where it stands.
LEMMA AuditsStay ==
  ASSUME AuditInv, UNCHANGED audits,
         \A x \in Requests : queue[x].st \notin Early =>
           /\ queue'[x].st \notin Early
           /\ queue'[x].slot = queue[x].slot
           /\ queue'[x].parent = queue[x].parent
  PROVE  AuditInv'
<1>1. ASSUME NEW i \in DOMAIN audits, NEW x \in Requests
      PROVE  EntryWell(i, x)'
  <2>1. EntryWell(i, x)
    BY DEF AuditInv
  <2>2. QED
    BY <2>1 DEF EntryWell, Bound
<1>2. QED
  BY <1>1 DEF AuditInv

\* A step under the same parent, without takeover, reservation or claim.
LEMMA PoolKept ==
  ASSUME PoolInv, TypeOK', [Next]_vars, Files, \A t \in Slots : SlotMoves(t),
         UNCHANGED <<parent, audits>>
  PROVE  FilesInv' /\ SlotInv' /\ AuditInv'
<1>1. /\ AuditInv
      /\ \A t \in Slots, r \in Requests : HeldWell(t, r)
  BY DEF PoolInv, SlotInv
<1>2. \A r \in Requests :
        /\ Coherent(queue'[r], receipt'[r])
        /\ queue[r].st \in Early <=> queue'[r].st \in Early
        /\ queue[r].st \notin Early => queue'[r].slot = queue[r].slot
        /\ queue'[r].parent = queue[r].parent
  BY DEF Files, Moves
<1>3. FilesInv'
  BY <1>2 DEF FilesInv
<1>4. AuditInv'
  BY <1>1, <1>2, AuditsStay
<1>5. ASSUME NEW t \in Slots, NEW r \in Requests,
             slots'[t].req = r, queue'[r].st \notin Early, queue'[r].parent # parent'
      PROVE  (\E i \in DOMAIN audits : Bound(i, r))'
  <2>1. slots[t].req = r
    <3>1. r # None
      BY PoolAssumption
    <3>2. SlotMoves(t)
      OBVIOUS
    <3>3. QED
      BY <1>5, <3>1, <3>2 DEF SlotMoves, SlotStays, SlotFreed, SlotKept, FreeSlot
  <2>2. \E i \in DOMAIN audits : Bound(i, r)
    BY <1>1, <1>2, <1>5, <2>1 DEF HeldWell
  <2>3. QED
    BY <2>2 DEF Bound
<1>6. SlotInv'
  BY <1>5, SlotsMove
<1>7. QED
  BY <1>3, <1>4, <1>6

\* A reservation keeps the invariant: no other slot holds the request, and a
\* claim is reserved where it stands.
LEMMA PoolBegin ==
  ASSUME PoolInv, TypeOK', NEW r \in Requests, Begin(r)
  PROVE  FilesInv' /\ SlotInv' /\ AuditInv'
<1>1. /\ TypeOK /\ ClaimHoldsSlot /\ OneClaimPerWorker /\ FilesInv /\ AuditInv
      /\ \A t \in Slots : Shaped(t)
      /\ \A t \in Slots, x \in Requests : HeldWell(t, x)
  BY DEF PoolInv, SlotInv, DeliveryInv, FenceInv
<1>2. UNCHANGED <<queue, receipt, generation, parent, audits>>
  BY DEF Begin
<1>3. FilesInv' /\ AuditInv' /\ OneClaimPerWorker'
  BY <1>1, <1>2, AuditsStay DEF FilesInv, OneClaimPerWorker
<1>4. PICK s \in Slots :
           /\ slots[s].phase \notin Inherited
           /\ \/ queue[r].st \in {"absent", "queued"}
              \/ queue[r].parent = parent /\ queue[r].slot = s
           /\ slots[s].req = r \/ slots[s].req = None
           /\ \A t \in Slots \ {s} : slots[t].req # r
           /\ \/ UNCHANGED slots
              \/ /\ slots'[s].req = r
                 /\ slots'[s].inv = generation
                 /\ slots'[s].phase = "reserved"
                 /\ \A t \in Slots \ {s} : slots'[t] = slots[t]
  BY BeginReserves
<1>5. CASE UNCHANGED slots
  <2>1. \A t \in Slots : Shaped(t)'
    BY <1>1, <1>2, <1>5 DEF Shaped
  <2>2. ASSUME NEW t \in Slots, NEW x \in Requests
        PROVE  HeldWell(t, x)'
    <3>1. HeldWell(t, x)
      BY <1>1
    <3>2. QED
      BY <1>2, <1>5, <3>1 DEF HeldWell, Bound
  <2>3. ClaimHoldsSlot'
    BY <1>1, <1>2, <1>5 DEF ClaimHoldsSlot
  <2>4. QED
    BY <1>3, <2>1, <2>2, <2>3 DEF SlotInv
<1>6. CASE /\ slots'[s].req = r
           /\ slots'[s].inv = generation
           /\ slots'[s].phase = "reserved"
           /\ \A t \in Slots \ {s} : slots'[t] = slots[t]
  <2>1. r # None
    BY PoolAssumption
  <2>2. \A t \in Slots : Shaped(t)'
    <3>1. Shaped(s)'
      BY <1>2, <1>6, <2>1 DEF Shaped
    <3>2. ASSUME NEW t \in Slots \ {s} PROVE Shaped(t)'
      <4>1. Shaped(t) /\ slots'[t] = slots[t]
        BY <1>1, <1>6
      <4>2. QED
        BY <1>2, <4>1 DEF Shaped
    <3>3. QED
      BY <3>1, <3>2
  <2>3. ASSUME NEW t \in Slots, NEW x \in Requests, slots'[t].req = x
        PROVE  HeldWell(t, x)'
    <3>1. CASE t = s
      <4>1. x = r
        BY <1>6, <2>3, <3>1
      <4>2. \A u \in Slots \ {s} : slots'[u].req # r
        BY <1>4, <1>6
      <4>3. queue'[r].st \notin Early => queue'[r].slot = s /\ queue'[r].parent = parent'
        BY <1>2, <1>4 DEF Early
      <4>4. QED
        BY <1>6, <3>1, <4>1, <4>2, <4>3 DEF HeldWell
    <3>2. CASE t # s
      <4>1. slots'[t] = slots[t] /\ slots[t].req = x /\ x # r
        BY <1>4, <1>6, <2>3, <3>2
      <4>2. HeldWell(t, x)
        BY <1>1
      <4>3. \A u \in Slots \ {t} : slots'[u].req # x
        BY <1>6, <4>1, <4>2 DEF HeldWell
      <4>4. QED
        BY <1>2, <4>1, <4>2, <4>3 DEF HeldWell, Bound
    <3>3. QED
      BY <3>1, <3>2
  <2>4. ClaimHoldsSlot'
    <3>1. SUFFICES ASSUME NEW x \in Requests, queue[x].st = "claimed",
                          receipt[x].st \notin Settled
                   PROVE  slots'[queue[x].slot].req = x
      BY <1>2 DEF ClaimHoldsSlot
    <3>2. slots[queue[x].slot].req = x /\ queue[x].slot \in Slots
      BY <1>1, <3>1 DEF ClaimHoldsSlot, FilesInv, Coherent, Early
    <3>3. x # None
      BY PoolAssumption
    <3>4. QED
      BY <1>4, <1>6, <3>2, <3>3
  <2>5. \A t \in Slots, x \in Requests : HeldWell(t, x)'
    BY <2>3 DEF HeldWell
  <2>6. QED
    BY <1>3, <2>2, <2>4, <2>5 DEF SlotInv
<1>7. QED
  BY <1>4, <1>5, <1>6

\* A claim keeps the invariant: it stands on the slot that holds the request,
\* under the parent, and no other claim stands there.
LEMMA PoolClaim ==
  ASSUME PoolInv, TypeOK', NEW g \in Gens, NEW r \in Requests, ClaimQueued(g, r)
  PROVE  FilesInv' /\ SlotInv' /\ AuditInv'
<1>1. /\ TypeOK /\ ClaimHoldsSlot /\ OneClaimPerWorker /\ FilesInv /\ AuditInv
      /\ \A t \in Slots : Shaped(t)
      /\ \A t \in Slots, x \in Requests : HeldWell(t, x)
      /\ SendIsFenced
  BY DEF PoolInv, SlotInv, DeliveryInv, FenceInv
<1>2. UNCHANGED <<slots, generation, parent, audits>>
  BY DEF ClaimQueued, ownerVars
<1>3. queue[r].st = "queued" /\ receipt[r].st = "absent"
  BY DEF ClaimQueued
<1>4. PICK s \in Slots, o \in Outcomes(3) :
       /\ Guard(g, r, s)
       /\ ~UsedByOther(s, r)
       /\ LET claim == [queue[r] EXCEPT !.st = "claimed", !.slot = s, !.gen = g,
                                        !.parent = parent,
                                        !.established = (o.done = 3)]
          IN /\ queue' = IF o.done = 0 THEN queue
                         ELSE [queue EXCEPT ![r] = claim]
             /\ receipt' = IF o.done < 2 THEN receipt
                           ELSE [receipt EXCEPT ![r] = PreparedFor(claim, parent)]
  BY DEF ClaimQueued
<1>5. o.done \in 0..3
  BY OutcomeFacts
<1>6. queue[r] \in RecordType /\ Coherent(queue[r], receipt[r])
  BY <1>1 DEF TypeOK, FilesInv
<1> DEFINE claim == [queue[r] EXCEPT !.st = "claimed", !.slot = s, !.gen = g,
                                     !.parent = parent,
                                     !.established = (o.done = 3)]
<1>7. /\ claim.st = "claimed" /\ claim.slot = s /\ claim.gen = g
      /\ claim.parent = parent /\ claim.established = (o.done = 3)
  BY <1>6 DEF RecordType
<1>8. /\ queue' = IF o.done = 0 THEN queue ELSE [queue EXCEPT ![r] = claim]
      /\ receipt' = IF o.done < 2 THEN receipt
                    ELSE [receipt EXCEPT ![r] = PreparedFor(claim, parent)]
  BY <1>4
<1> HIDE DEF claim
<1>9. /\ PreparedFor(claim, parent).st = "prepared"
      /\ PreparedFor(claim, parent).slot = s
      /\ PreparedFor(claim, parent).gen = g
      /\ PreparedFor(claim, parent).parent = parent
      /\ PreparedFor(claim, parent).no_resend = FALSE
  BY <1>7 DEF PreparedFor, NoReceipt
<1>10. \A x \in Requests \ {r} : queue'[x] = queue[x] /\ receipt'[x] = receipt[x]
  BY <1>1, <1>8 DEF TypeOK
<1>11. /\ o.done = 0 => queue'[r] = queue[r]
       /\ o.done > 0 => queue'[r] = claim
       /\ o.done < 2 => receipt'[r] = receipt[r]
       /\ o.done >= 2 => receipt'[r] = PreparedFor(claim, parent)
  BY <1>1, <1>5, <1>8 DEF TypeOK
<1>12. slots[s].req = r
  BY <1>4 DEF Guard
<1>13. parent \in Parents
  BY <1>1 DEF TypeOK
<1>14. FilesInv'
  <2>1. Coherent(queue'[r], receipt'[r])
    <3>1. CASE o.done = 0
      BY <1>6, <1>11, <3>1
    <3>2. CASE o.done = 1
      <4>1. (o.done = 3) = FALSE
        BY <3>2
      <4>2. claim.established = FALSE
        BY <1>7, <4>1, Zenon
      <4>3. queue'[r] = claim /\ receipt'[r].st = "absent"
        BY <1>3, <1>11, <3>2
      <4>4. QED
        BY <1>7, <1>13, <4>2, <4>3 DEF Coherent, Early, Active, PostArm
    <3>3. CASE o.done \in 2..3
      BY <1>7, <1>9, <1>11, <1>13, <3>3 DEF Coherent, Early
    <3>4. QED
      BY <1>5, <3>1, <3>2, <3>3
  <2>2. QED
    BY <1>1, <1>10, <2>1 DEF FilesInv
<1>15. AuditInv'
  BY <1>1, <1>2, <1>3, <1>10, AuditsStay DEF Early
<1>16. \A t \in Slots : Shaped(t)'
  BY <1>1, <1>2 DEF Shaped
<1>17. ASSUME NEW t \in Slots, NEW x \in Requests, slots'[t].req = x
       PROVE  HeldWell(t, x)'
  <2>1. HeldWell(t, x) /\ slots[t].req = x
    BY <1>1, <1>2, <1>17
  <2>2. CASE x # r
    BY <1>2, <1>10, <2>1, <2>2 DEF HeldWell, Bound
  <2>3. CASE x = r
    <3>1. t = s
      BY <1>12, <2>1, <2>3 DEF HeldWell
    <3>2. /\ queue'[r].st \in {"absent", "queued"} => queue[r].st = "queued"
          /\ queue'[r].st \notin Early => queue'[r].slot = s /\ queue'[r].parent = parent
      BY <1>3, <1>5, <1>7, <1>11 DEF Early
    <3>3. ~receipt'[r].no_resend
      BY <1>1, <1>3, <1>5, <1>9, <1>11 DEF SendIsFenced
    <3>4. QED
      BY <1>2, <1>3, <2>1, <2>3, <3>1, <3>2, <3>3 DEF HeldWell
  <2>4. QED
    BY <2>2, <2>3
<1>18. ClaimHoldsSlot'
  <2>1. queue'[r].st = "claimed" => slots'[queue'[r].slot].req = r
    BY <1>2, <1>3, <1>5, <1>7, <1>11, <1>12
  <2>2. QED
    BY <1>1, <1>2, <1>10, <2>1 DEF ClaimHoldsSlot
<1>19. OneClaimPerWorker'
  <2>1. queue'[r].st = "claimed" => queue'[r].slot = s
    BY <1>3, <1>5, <1>7, <1>11
  <2>2. \A x \in Requests \ {r} : queue[x].st = "claimed" => queue[x].slot # s
    BY <1>4 DEF UsedByOther, OtherClaim
  <2>3. QED
    BY <1>1, <1>10, <2>1, <2>2 DEF OneClaimPerWorker
<1>20. \A t \in Slots, x \in Requests : HeldWell(t, x)'
  BY <1>17 DEF HeldWell
<1>21. QED
  BY <1>14, <1>15, <1>16, <1>18, <1>19, <1>20 DEF SlotInv

\* The idle handoff changes the parent while no slot holds anything.
LEMMA PoolHandoff ==
  ASSUME PoolInv, TypeOK', [Next]_vars, NEW p \in Parents, Handoff(p)
  PROVE  FilesInv' /\ SlotInv' /\ AuditInv'
<1>1. UNCHANGED <<queue, receipt, slots, audits>> /\ \A t \in Slots : slots[t] = FreeSlot
  BY DEF Handoff
<1>2. FilesInv /\ AuditInv /\ \A t \in Slots : Shaped(t)
  BY DEF PoolInv, SlotInv
<1>3. Files
  BY <1>1, <1>2, FilesUntouched
<1>4. \A t \in Slots : SlotMoves(t)
  BY <1>1 DEF SlotMoves, SlotStays, FreeSlot
<1>5. \A t \in Slots, r \in Requests : slots'[t].req # r
  BY <1>1, PoolAssumption DEF FreeSlot
<1>6. SlotInv'
  BY <1>3, <1>4, <1>5, SlotsMove
<1>7. QED
  BY <1>1, <1>2, <1>6, AuditsStay DEF FilesInv

\* The binding of a bound request is that of each entry that binds it.
LEMMA BindingOfEntry ==
  ASSUME AuditInv, NEW r \in Requests, NEW i \in DOMAIN audits, Bound(i, r)
  PROVE  Binding(r) = audits[i].bind[r] /\ Binding(r).slot # 0
<1>1. (CHOOSE j \in DOMAIN audits : Bound(j, r)) \in DOMAIN audits
  OBVIOUS
<1> DEFINE c == CHOOSE j \in DOMAIN audits : Bound(j, r)
<1>2. c \in DOMAIN audits /\ Bound(c, r)
  OBVIOUS
<1>3. Binding(r) = audits[c].bind[r]
  BY DEF Binding
<1> HIDE DEF c
<1>4. audits[c].bind[r] = audits[i].bind[r]
  BY <1>2 DEF AuditInv, EntryWell
<1>5. QED
  BY <1>2, <1>3, <1>4 DEF Bound

\* What is bound nowhere has no binding.
LEMMA BindingOfNone ==
  ASSUME NEW r \in Requests, \A i \in DOMAIN audits : ~Bound(i, r)
  PROVE  Binding(r) = NoBinding
BY DEF Binding

\* The entry a takeover adds.
NewEntry ==
  LET At(r, s) == slots[s].req = r /\ Kept(s)
      held     == {r \in Requests : \E s \in Slots : At(r, s)}
      cancel   == {r \in held : \E s \in Slots : At(r, s) /\ Cancellable(s)}
  IN [from |-> parent, cancel |-> cancel, collect |-> held \ cancel,
      bind |-> [r \in Requests |->
         IF r \in held
         THEN TakeoverBind(r, CHOOSE s \in Slots : At(r, s))
         ELSE NoBinding]]

\* What the new entry says of a request: bound if a slot holds it and it was
\* submitted, then cancelled or collected as that slot may be.
LEMMA NewEntryOf ==
  ASSUME PoolInv, NEW r \in Requests
  PROVE  /\ NewEntry.from = parent
         /\ \A s \in Slots : (slots[s].req = r /\ Kept(s)) =>
              /\ NewEntry.bind[r] = TakeoverBind(r, s)
              /\ r \in NewEntry.cancel <=> Cancellable(s)
              /\ r \in NewEntry.collect <=> ~Cancellable(s)
         /\ (\A s \in Slots : ~(slots[s].req = r /\ Kept(s))) =>
               NewEntry.bind[r] = NoBinding
<1> DEFINE At(x, s) == slots[s].req = x /\ Kept(s)
           held     == {x \in Requests : \E s \in Slots : At(x, s)}
           cancel   == {x \in held : \E s \in Slots : At(x, s) /\ Cancellable(s)}
           bind     == [x \in Requests |->
                          IF x \in held
                          THEN TakeoverBind(x, CHOOSE s \in Slots : At(x, s))
                          ELSE NoBinding]
<1>1. NewEntry = [from |-> parent, cancel |-> cancel, collect |-> held \ cancel,
                  bind |-> bind]
  BY DEF NewEntry
<1>2. /\ NewEntry.from = parent
      /\ NewEntry.cancel = cancel
      /\ NewEntry.collect = held \ cancel
      /\ NewEntry.bind = bind
  BY <1>1
<1>3. ASSUME NEW s \in Slots, slots[s].req = r, Kept(s)
      PROVE  /\ NewEntry.bind[r] = TakeoverBind(r, s)
             /\ r \in NewEntry.cancel <=> Cancellable(s)
             /\ r \in NewEntry.collect <=> ~Cancellable(s)
  <2>1. \A t \in Slots : At(r, t) => t = s
    BY <1>3 DEF PoolInv, SlotInv, HeldWell
  <2>2. At(r, s) /\ r \in held
    BY <1>3
  <2>3. (CHOOSE t \in Slots : At(r, t)) = s
    BY <2>1, <2>2
  <2>4. bind[r] = TakeoverBind(r, s)
    BY <2>2, <2>3
  <2>5. r \in cancel <=> Cancellable(s)
    BY <2>1, <2>2
  <2> HIDE DEF held, cancel, bind
  <2>6. QED
    BY <1>2, <2>2, <2>4, <2>5
<1>4. ASSUME \A s \in Slots : ~(slots[s].req = r /\ Kept(s))
      PROVE  NewEntry.bind[r] = NoBinding
  <2>1. r \notin held
    BY <1>4
  <2>2. QED
    BY <1>2, <2>1
<1>5. QED
  BY <1>2, <1>3, <1>4

\* The new entry is right of every request it binds, because the takeover was
\* refused unless the entries before it agree with the record.
LEMMA NewEntryWell ==
  ASSUME PoolInv, NEW p \in Parents, Takeover(p), NEW r \in Requests,
         NewEntry.bind[r].slot # 0
  PROVE  /\ r \in NewEntry.cancel \cup NewEntry.collect
         /\ r \in NewEntry.collect =>
              /\ queue[r].st \notin Early
              /\ \/ NewEntry.bind[r] = [parent |-> queue[r].parent, slot |-> queue[r].slot]
                 \/ \E j \in DOMAIN audits : r \in audits[j].cancel
         /\ \A j \in DOMAIN audits : Bound(j, r) => audits[j].bind[r] = NewEntry.bind[r]
         /\ (\A j \in DOMAIN audits : ~Bound(j, r)) =>
              NewEntry.bind[r].parent = NewEntry.from
<1>1. /\ TypeOK /\ FilesInv /\ AuditInv
      /\ \A t \in Slots, x \in Requests : HeldWell(t, x)
      /\ Coherent(queue[r], receipt[r])
  BY DEF PoolInv, SlotInv, DeliveryInv, FenceInv, FilesInv
<1>2. PICK s \in Slots : slots[s].req = r /\ Kept(s)
  BY NewEntryOf DEF NoBinding
<1>3. /\ NewEntry.from = parent
      /\ NewEntry.bind[r] = TakeoverBind(r, s)
      /\ r \in NewEntry.cancel <=> Cancellable(s)
      /\ r \in NewEntry.collect <=> ~Cancellable(s)
  BY <1>2, NewEntryOf
<1>4. /\ BindingValid(r)
      /\ queue[r].parent \notin {None, parent} =>
           Binding(r) = [parent |-> queue[r].parent, slot |-> s]
      /\ \/ queue[r].st \in {"queued", "claimed", "published"}
         \/ receipt[r].st \in Settled
      /\ queue[r].st # "queued" => queue[r].slot = s
  BY <1>2 DEF Takeover, TakeoverEvidence
<1>5. s # 0
  BY PoolAssumption DEF Slots
<1>6. HeldWell(s, r)
  BY <1>1
<1>7. CASE \A j \in DOMAIN audits : ~Bound(j, r)
  <2>1. Binding(r) = NoBinding
    BY <1>7, BindingOfNone
  <2>2. queue[r].parent \in {None, parent}
    <3>1. NoBinding # [parent |-> queue[r].parent, slot |-> s]
      BY <1>5 DEF NoBinding
    <3>2. QED
      BY <1>4, <2>1, <3>1
  <2>3. NewEntry.bind[r] = [parent |-> parent, slot |-> s]
    <3>1. Binding(r).slot = 0
      BY <2>1 DEF NoBinding
    <3>2. (IF queue[r].parent = None THEN parent ELSE queue[r].parent) = parent
      BY <2>2
    <3>3. QED
      BY <1>3, <3>1, <3>2 DEF TakeoverBind
  <2>4. r \in NewEntry.collect => queue[r].st \notin Early
    <3>1. queue[r].st # "absent"
      BY <1>2 DEF Kept
    <3>2. queue[r].st = "queued" => Cancellable(s)
      BY <1>2, <1>6 DEF HeldWell, Cancellable
    <3>3. queue[r].st = "cancelled" => receipt[r].st = "absent"
      BY <1>1 DEF Coherent, Early
    <3>4. QED
      BY <1>3, <1>4, <3>1, <3>2, <3>3 DEF Early, Settled
  <2>5. r \in NewEntry.collect =>
          NewEntry.bind[r] = [parent |-> queue[r].parent, slot |-> queue[r].slot]
    <3>1. queue[r].st \notin Early => queue[r].parent = parent /\ queue[r].slot = s
      BY <1>1, <1>4, <2>2, PoolAssumption DEF Coherent, Early
    <3>2. QED
      BY <2>3, <2>4, <3>1
  <2>6. NewEntry.bind[r].parent = NewEntry.from
    BY <1>3, <2>3
  <2>7. QED
    BY <1>3, <1>7, <2>4, <2>5, <2>6
<1>8. ASSUME NEW i \in DOMAIN audits, Bound(i, r)
      PROVE  /\ NewEntry.bind[r] = audits[i].bind[r]
             /\ r \in NewEntry.collect =>
                  /\ queue[r].st \notin Early
                  /\ \/ NewEntry.bind[r] = [parent |-> queue[r].parent, slot |-> queue[r].slot]
                     \/ \E j \in DOMAIN audits : r \in audits[j].cancel
  <2>1. Binding(r) = audits[i].bind[r] /\ Binding(r).slot # 0
    BY <1>1, <1>8, BindingOfEntry
  <2>2. NewEntry.bind[r] = audits[i].bind[r]
    BY <1>3, <2>1 DEF TakeoverBind
  <2>3. ASSUME r \in NewEntry.collect
        PROVE  r \in audits[i].collect
    <3>1. slots[s].phase # "cancel_pending"
      BY <1>3, <2>3 DEF Cancellable
    <3>2. ~\E t \in Slots : slots[t].req = r /\ slots[t].phase = "cancel_pending"
      BY <1>2, <1>6, <3>1 DEF HeldWell
    <3>3. QED
      BY <1>4, <1>8, <3>2 DEF BindingValid
  <2>4. EntryWell(i, r)
    BY <1>1 DEF AuditInv
  <2>5. QED
    BY <1>8, <2>2, <2>3, <2>4 DEF EntryWell
<1>9. QED
  BY <1>3, <1>7, <1>8

\* A takeover keeps the invariant.
LEMMA PoolTakeover ==
  ASSUME PoolInv, TypeOK', [Next]_vars, NEW p \in Parents, Takeover(p)
  PROVE  FilesInv' /\ SlotInv' /\ AuditInv'
<1>1. /\ TypeOK /\ FilesInv /\ AuditInv
      /\ \A t \in Slots, x \in Requests : HeldWell(t, x)
  BY DEF PoolInv, SlotInv, DeliveryInv, FenceInv
<1>2. UNCHANGED <<queue, receipt>>
  BY DEF Takeover
<1>3. audits' = Append(audits, NewEntry)
  BY DEF Takeover, NewEntry
<1>4. PICK n \in Nat : n = Len(audits) /\ DOMAIN audits = 1..n
  BY <1>1 DEF TypeOK
<1>5. /\ DOMAIN audits' = 1..(n + 1)
      /\ audits'[n + 1] = NewEntry
      /\ \A i \in 1..n : audits'[i] = audits[i]
  <2>1. audits \in Seq(AuditType)
    BY <1>1 DEF TypeOK
  <2>2. audits' \in Seq(AuditType)
    BY DEF TypeOK
  <2>3. NewEntry \in AuditType
    <3>1. TypeOK'
      OBVIOUS
    <3>2. audits'[Len(audits) + 1] = NewEntry /\ Len(audits') = Len(audits) + 1
      BY <1>3, <2>1
    <3>3. QED
      BY <1>4, <2>2, <3>2
  <2>4. QED
    BY <1>3, <1>4, <2>1, <2>3, AppendProperties
<1>6. ASSUME NEW r \in Requests
      PROVE  /\ \A i \in 1..n : Bound(i, r)' <=> Bound(i, r)
             /\ Bound(n + 1, r)' <=> NewEntry.bind[r].slot # 0
  BY <1>5 DEF Bound
<1>7. FilesInv'
  BY <1>1, <1>2 DEF FilesInv
<1>8. AuditInv'
  <2>1. ASSUME NEW i \in 1..(n + 1), NEW r \in Requests, Bound(i, r)'
        PROVE  EntryWell(i, r)'
    <3>1. CASE i = n + 1
      <4>1. NewEntry.bind[r].slot # 0
        BY <1>6, <2>1, <3>1
      <4>2. audits'[i] = NewEntry
        BY <1>5, <3>1
      <4>3. \A j \in 1..(n + 1) : Bound(j, r)' => audits'[j].bind[r] = NewEntry.bind[r]
        <5>1. \A j \in 1..n : Bound(j, r) => audits[j].bind[r] = NewEntry.bind[r]
          BY <1>4, <4>1, NewEntryWell
        <5>2. \A j \in 1..(n + 1) : j \in 1..n \/ j = n + 1
          BY <1>4
        <5>3. QED
          BY <1>5, <1>6, <5>1, <5>2
      <4>4. (\A j \in 1..(i - 1) : ~Bound(j, r)') => NewEntry.bind[r].parent = NewEntry.from
        <5>1. 1..(i - 1) = 1..n
          BY <1>4, <3>1
        <5>2. (\A j \in 1..n : ~Bound(j, r)) => NewEntry.bind[r].parent = NewEntry.from
          BY <1>4, <4>1, NewEntryWell
        <5>3. QED
          BY <1>6, <5>1, <5>2
      <4>5. /\ r \in NewEntry.cancel \cup NewEntry.collect
            /\ r \in NewEntry.collect =>
                 /\ queue[r].st \notin Early
                 /\ \/ NewEntry.bind[r] = [parent |-> queue[r].parent, slot |-> queue[r].slot]
                    \/ \E j \in 1..n : r \in audits[j].cancel
        BY <1>4, <4>1, NewEntryWell
      <4>6. (\E j \in 1..n : r \in audits[j].cancel) =>
              \E j \in 1..(n + 1) : r \in audits'[j].cancel
        BY <1>4, <1>5
      <4>7. QED
        BY <1>2, <1>5, <4>2, <4>3, <4>4, <4>5, <4>6 DEF EntryWell
    <3>2. CASE i \in 1..n
      <4>1. EntryWell(i, r) /\ Bound(i, r) /\ audits'[i] = audits[i]
        BY <1>1, <1>4, <1>5, <1>6, <2>1, <3>2 DEF AuditInv
      <4>2. \A j \in 1..(n + 1) : Bound(j, r)' => audits'[j].bind[r] = audits[i].bind[r]
        <5>1. \A j \in 1..n : Bound(j, r) => audits[j].bind[r] = audits[i].bind[r]
          BY <1>4, <4>1 DEF EntryWell
        <5>2. NewEntry.bind[r].slot # 0 => audits[i].bind[r] = NewEntry.bind[r]
          BY <1>4, <3>2, <4>1, NewEntryWell
        <5>3. \A j \in 1..(n + 1) : j \in 1..n \/ j = n + 1
          BY <1>4
        <5>4. QED
          BY <1>5, <1>6, <5>1, <5>2, <5>3
      <4>3. (\A j \in 1..(i - 1) : ~Bound(j, r)') => audits[i].bind[r].parent = audits[i].from
        <5>1. \A j \in 1..(i - 1) : j \in 1..n
          BY <1>4, <3>2
        <5>2. QED
          BY <1>6, <4>1, <5>1 DEF EntryWell
      <4>4. /\ r \in audits[i].cancel \cup audits[i].collect
            /\ r \in audits[i].collect =>
                 /\ queue[r].st \notin Early
                 /\ \/ audits[i].bind[r] = [parent |-> queue[r].parent, slot |-> queue[r].slot]
                    \/ \E j \in 1..n : r \in audits[j].cancel
        BY <1>4, <4>1 DEF EntryWell
      <4>5. (\E j \in 1..n : r \in audits[j].cancel) =>
              \E j \in 1..(n + 1) : r \in audits'[j].cancel
        BY <1>4, <1>5
      <4>6. QED
        BY <1>2, <1>5, <4>1, <4>2, <4>3, <4>4, <4>5 DEF EntryWell
    <3>3. QED
      BY <1>4, <3>1, <3>2
  <2>2. QED
    BY <1>5, <2>1 DEF AuditInv, EntryWell
<1>9. SlotInv'
  <2>1. Files
    BY <1>1, <1>2, FilesUntouched
  <2>2. \A t \in Slots : SlotMoves(t)
    BY SlotsTakeover
  <2>3. ASSUME NEW t \in Slots, NEW r \in Requests, slots'[t].req = r
        PROVE  (\E i \in DOMAIN audits : Bound(i, r))'
    <3>1. Kept(t) /\ slots[t].req = r
      BY <2>3, SlotsTakeover, PoolAssumption DEF FreeSlot
    <3>2. NewEntry.bind[r] = TakeoverBind(r, t)
      BY <3>1, NewEntryOf
    <3>3. TakeoverBind(r, t).slot # 0
      BY PoolAssumption DEF TakeoverBind, Slots
    <3>4. Bound(n + 1, r)' /\ n + 1 \in DOMAIN audits'
      BY <1>4, <1>5, <1>6, <3>2, <3>3
    <3>5. QED
      BY <3>4
  <2>4. QED
    BY <2>1, <2>2, <2>3, SlotsMove
<1>10. QED
  BY <1>7, <1>8, <1>9

\* What every step does to a slot: a slot that holds nothing may be reserved,
\* a reservation may be renewed, and the others move as told.
LEMMA SlotStep ==
  ASSUME PoolInv, [Next]_vars
  PROVE  \/ \A t \in Slots : SlotMoves(t)
         \/ \E r \in Requests : Begin(r)
<1>1. CASE UNCHANGED vars
  BY <1>1, SlotsStay DEF vars, ownerVars
<1>2. ASSUME NEW r \in Requests, ClientStep(r) \/ ChatStep(r)
      PROVE  \A t \in Slots : SlotMoves(t)
  BY <1>2, SlotsStay
     DEF ClientStep, Submit, Cancel, Acknowledge, ChatStep, Answer,
         UnusualActivity403, CooldownExpires, ownerVars
<1>3. ASSUME NEW g \in Gens, NEW r \in Requests, RunnerStep(g, r)
      PROVE  \A t \in Slots : SlotMoves(t)
  BY <1>3, SlotsRunner
<1>4. CASE OwnerStep
  BY <1>4, SlotsOwner
<1>5. QED
  BY <1>1, <1>2, <1>3, <1>4 DEF Next

\* Only a takeover and a handoff change the parent, and only a takeover the
\* entries.
LEMMA ParentStep ==
  ASSUME [Next]_vars
  PROVE  \/ UNCHANGED <<parent, audits>>
         \/ \E p \in Parents : Takeover(p) \/ Handoff(p)
<1>1. ASSUME NEW r \in Requests, ClientStep(r) \/ ChatStep(r)
      PROVE  UNCHANGED <<parent, audits>>
  BY <1>1 DEF ClientStep, Submit, Cancel, Acknowledge, ChatStep, Answer,
              UnusualActivity403, CooldownExpires, ownerVars
<1>2. ASSUME NEW g \in Gens, NEW r \in Requests, RunnerStep(g, r)
      PROVE  UNCHANGED <<parent, audits>>
  BY <1>2 DEF RunnerStep, ClaimQueued, ClaimRetained, Arm, Send, Observe, Fail,
              FailArmed, End, Abandon, Release, ownerVars
<1>3. ASSUME NEW r \in Requests,
             \/ Begin(r) \/ CollectorObserve(r) \/ EndCollected(r)
             \/ Settle(r) \/ SettleAbandon(r) \/ SettleRelease(r)
      PROVE  UNCHANGED <<parent, audits>>
  BY <1>3 DEF Begin, CollectorObserve, EndCollected, Settle, SettleAbandon,
              SettleRelease, ownerVars
<1>4. CASE Start \/ BindSession \/ RecoverStart \/ CollectorOpen \/ CollectorClose
  BY <1>4 DEF Start, BindSession, RecoverStart, CollectorOpen, CollectorClose,
              ownerVars
<1>5. CASE UNCHANGED vars
  BY <1>5 DEF vars, ownerVars
<1>6. QED
  BY <1>1, <1>2, <1>3, <1>4, <1>5 DEF Next, OwnerStep

\* Every step keeps the invariant.
LEMMA PoolStep ==
  ASSUME PoolInv, [Next]_vars
  PROVE  PoolInv'
<1>1. DeliveryInv'
  BY FenceStep, ForwardStep DEF PoolInv, DeliveryInv, Forward
<1>2. TypeOK'
  BY <1>1 DEF DeliveryInv, FenceInv
<1>3. CASE \E r \in Requests : Begin(r)
  BY <1>1, <1>2, <1>3, PoolBegin DEF PoolInv
<1>4. CASE \E g \in Gens, r \in Requests : ClaimQueued(g, r)
  BY <1>1, <1>2, <1>4, PoolClaim DEF PoolInv
<1>5. CASE \E p \in Parents : Takeover(p)
  BY <1>1, <1>2, <1>5, PoolTakeover DEF PoolInv
<1>6. CASE \E p \in Parents : Handoff(p)
  BY <1>1, <1>2, <1>6, PoolHandoff DEF PoolInv
<1>7. CASE /\ Files
           /\ \A t \in Slots : SlotMoves(t)
           /\ UNCHANGED <<parent, audits>>
  BY <1>1, <1>2, <1>7, PoolKept DEF PoolInv
<1>8. QED
  BY <1>3, <1>4, <1>5, <1>6, <1>7, FilesStep, SlotStep, ParentStep

----------------------------------------------------------------------------
(* What follows                                                             *)

\* The invariant holds of every reachable state.
THEOREM PoolInvariant == Spec => []PoolInv
<1>1. Init => PoolInv
  BY TypeInit, FenceInit, DeliveryInit, PoolInit DEF FenceInv, DeliveryInv, PoolInv
<1>2. PoolInv /\ [Next]_vars => PoolInv'
  BY PoolStep
<1>3. QED
  BY <1>1, <1>2, PTL DEF Spec

\* An unresolved receipt belongs to a claim whose slot holds it, wherever the
\* calls that wrote the three files were cut.
THEOREM UnresolvedHoldsSlot == Spec => []ActiveHoldsSlot
<1>1. PoolInv => ActiveHoldsSlot
  <2>1. SUFFICES ASSUME PoolInv, NEW r \in Requests, receipt[r].st \in Active
                 PROVE  /\ queue[r].st = "claimed"
                        /\ slots[receipt[r].slot].req = r
                        /\ slots[receipt[r].slot].phase # "idle"
    BY DEF ActiveHoldsSlot
  <2>2. /\ queue[r].st = "claimed"
        /\ queue[r].slot = receipt[r].slot
        /\ queue[r].slot \in Slots
    BY <2>1 DEF PoolInv, FilesInv, Coherent, Early, Active, PostArm
  <2>3. slots[queue[r].slot].req = r
    BY <2>1, <2>2 DEF PoolInv, SlotInv, ClaimHoldsSlot, Active, PostArm, Settled
  <2>4. slots[queue[r].slot].phase # "idle"
    BY <2>1, <2>2, <2>3, PoolAssumption DEF PoolInv, SlotInv, Shaped
  <2>5. QED
    BY <2>2, <2>3, <2>4
<1>2. QED
  BY <1>1, PoolInvariant, PTL

\* A claim and its receipt never disagree.
THEOREM ReceiptMatchesClaim == Spec => []ClaimMatchesReceipt
<1>1. PoolInv => ClaimMatchesReceipt
  BY DEF PoolInv, FilesInv, Coherent, ClaimMatchesReceipt
<1>2. QED
  BY <1>1, PoolInvariant, PTL

\* Slots, claims and receipts agree on who holds which worker.
THEOREM EachWorkerHeldOnce == Spec => []WorkersAreHeldOnce
<1>1. PoolInv => WorkersAreHeldOnce
  <2>1. SUFFICES ASSUME PoolInv PROVE ReservationsAreCurrent
    BY DEF PoolInv, SlotInv, WorkersAreHeldOnce
  <2>2. SUFFICES ASSUME NEW s \in Slots
                 PROVE  /\ slots[s].inv \in {0, generation}
                        /\ slots[s].inv # 0 => slots[s].phase \in {"reserved", "running"}
                        /\ slots[s].req # None =>
                             \A t \in Slots \ {s} : slots[t].req # slots[s].req
                        /\ (slots[s].phase = "idle") <=> (slots[s].req = None)
    BY DEF ReservationsAreCurrent
  <2>3. Shaped(s)
    BY <2>1 DEF PoolInv, SlotInv
  <2>4. slots[s].req \in Requests \cup {None}
    BY <2>1 DEF PoolInv, DeliveryInv, FenceInv, TypeOK, SlotType
  <2>5. ASSUME NEW r \in Requests, slots[s].req = r
        PROVE  \A t \in Slots \ {s} : slots[t].req # r
    BY <2>1, <2>5 DEF PoolInv, SlotInv, HeldWell
  <2>6. QED
    BY <2>3, <2>4, <2>5 DEF Shaped
<1>2. QED
  BY <1>1, PoolInvariant, PTL

\* What a takeover cancels was never sent, and no runner of any generation is
\* armed for it.
THEOREM CancelsOnlyUnsent == Spec => []CancelledIsUnsent
<1>1. PoolInv => CancelledIsUnsent
  <2>1. SUFFICES ASSUME PoolInv, NEW s \in Slots, slots[s].phase = "cancel_pending"
                 PROVE  /\ sends[slots[s].req] = 0
                        /\ ~receipt[slots[s].req].no_resend
                        /\ \A g \in Gens : run[g][slots[s].req] # "armed"
    BY DEF CancelledIsUnsent
  <2>2. TypeOK /\ SendIsFenced /\ Shaped(s)
    BY <2>1 DEF PoolInv, SlotInv, DeliveryInv, FenceInv
  <2>3. slots[s].req \in Requests
    BY <2>1, <2>2 DEF TypeOK, SlotType, Shaped
  <2>4. PICK r \in Requests : r = slots[s].req
    BY <2>3
  <2>5. ~receipt[r].no_resend
    BY <2>1, <2>4 DEF PoolInv, SlotInv, HeldWell
  <2>6. sends[r] = 0 /\ \A g \in Gens : run[g][r] # "armed"
    BY <2>2, <2>5 DEF SendIsFenced, TypeOK
  <2>7. QED
    BY <2>4, <2>5, <2>6
<1>2. QED
  BY <1>1, PoolInvariant, PTL

\* The slot of settled inherited work can be ended, unless some takeover
\* cancelled its request before.
THEOREM SettledWorkCanEnd == Spec => []SettledCanEnd
<1>1. PoolInv => SettledCanEnd
  <2>1. SUFFICES ASSUME PoolInv, NEW s \in Slots, slots[s].phase = "collect_only",
                        receipt[slots[s].req].st \in Settled,
                        \A i \in DOMAIN audits : slots[s].req \notin audits[i].cancel
                 PROVE  MayEndCollected(s, slots[s].req)
    BY DEF SettledCanEnd
  <2>2. TypeOK /\ FilesInv /\ AuditInv /\ Shaped(s)
    BY <2>1 DEF PoolInv, SlotInv, DeliveryInv, FenceInv
  <2>3. slots[s].req \in Requests
    BY <2>1, <2>2 DEF TypeOK, SlotType, Shaped
  <2>4. PICK r \in Requests : r = slots[s].req
    BY <2>3
  <2>5. HeldWell(s, r)
    BY <2>1 DEF PoolInv, SlotInv
  <2>6. queue[r].st \notin Early
    BY <2>1, <2>2, <2>4 DEF FilesInv, Coherent, Settled
  <2>7. queue[r].slot = s
    BY <2>4, <2>5, <2>6 DEF HeldWell
  <2>8. ASSUME NEW i \in DOMAIN audits, Bound(i, r)
        PROVE  /\ r \in audits[i].collect
               /\ audits[i].bind[r] = [parent |-> queue[r].parent, slot |-> s]
    BY <2>1, <2>2, <2>4, <2>7, <2>8 DEF AuditInv, EntryWell
  <2>9. CASE CurrentBind(r).slot # 0
    <3>1. /\ audits # <<>>
          /\ CurrentBind(r) = audits[Len(audits)].bind[r]
      BY <2>9 DEF CurrentBind, NoBinding
    <3>2. Len(audits) \in DOMAIN audits
      BY <2>2, <3>1 DEF TypeOK
    <3>3. Bound(Len(audits), r)
      BY <2>9, <3>1 DEF Bound
    <3>4. /\ r \in audits[Len(audits)].collect
          /\ CurrentBind(r) = [parent |-> queue[r].parent, slot |-> s]
      BY <2>8, <3>1, <3>2, <3>3
    <3>5. SettlementScope(s, r)
      BY <2>1, <2>4, <2>7, <3>1, <3>4 DEF SettlementScope, Inherited, CurrentCollect
    <3>6. QED
      BY <2>1, <2>4, <2>9, <3>5 DEF MayEndCollected
  <2>10. CASE CurrentBind(r).slot = 0
    <3>1. ASSUME queue[r].parent # parent
          PROVE  BindingValid(r) /\ Binding(r).parent = queue[r].parent
      <4>1. PICK i \in DOMAIN audits : Bound(i, r)
        BY <2>4, <2>5, <2>6, <3>1 DEF HeldWell
      <4>2. Binding(r).parent = queue[r].parent
        BY <2>2, <2>8, <4>1, BindingOfEntry
      <4>3. ~\E t \in Slots : slots[t].req = r /\ slots[t].phase = "cancel_pending"
        BY <2>1, <2>4, <2>5 DEF HeldWell
      <4>4. BindingValid(r)
        BY <2>2, <2>8, <4>3 DEF BindingValid, AuditInv, EntryWell
      <4>5. QED
        BY <4>2, <4>4
    <3>2. QED
      BY <2>1, <2>4, <2>7, <2>10, <3>1 DEF MayEndCollected
  <2>11. QED
    BY <2>4, <2>9, <2>10
<1>2. QED
  BY <1>1, PoolInvariant, PTL

\* No step makes inherited work sendable again.
THEOREM InheritedNeverSendable == Spec => InheritedStaysInherited
<1>1. ASSUME PoolInv, [Next]_vars, NEW s \in Slots, slots[s].phase \in Inherited
      PROVE  \/ slots'[s] = FreeSlot
             \/ /\ slots'[s].req = slots[s].req
                /\ slots'[s].phase = slots[s].phase
                /\ slots'[s].inv = 0
  <2>1. slots[s].inv = 0
    BY <1>1 DEF PoolInv, SlotInv, Shaped, Inherited
  <2>2. CASE SlotMoves(s)
    BY <1>1, <2>1, <2>2 DEF SlotMoves, SlotStays, SlotFreed, SlotKept
  <2>3. ASSUME NEW r \in Requests, Begin(r) PROVE slots'[s] = slots[s]
    BY <1>1, <2>3, BeginReserves
  <2>4. QED
    BY <1>1, <2>1, <2>2, <2>3, SlotStep
<1>2. PoolInv /\ [Next]_vars =>
        [\A s \in Slots : slots[s].phase \in Inherited =>
           \/ slots'[s] = FreeSlot
           \/ /\ slots'[s].req = slots[s].req
              /\ slots'[s].phase = slots[s].phase
              /\ slots'[s].inv = 0]_vars
  BY <1>1
<1>3. QED
  BY <1>2, PoolInvariant, PTL DEF Spec, InheritedStaysInherited

\* No step frees a slot of work that may still be in its worker chat.
THEOREM FreesOnlySettled == Spec => FreedOnlySettled
<1>1. ASSUME PoolInv, [Next]_vars, NEW s \in Slots, NEW r \in Requests,
             slots[s].req = r, slots'[s].req # r
      PROVE  \/ receipt'[r].st \in Settled
             \/ receipt'[r].st = "absent" /\ sends[r] = 0
  <2>1. TypeOK /\ SendIsFenced
    BY <1>1 DEF PoolInv, DeliveryInv, FenceInv
  <2>2. ~\E x \in Requests : Begin(x)
    <3>1. ASSUME NEW x \in Requests, Begin(x) PROVE slots'[s].req = r
      BY <1>1, <3>1, BeginReserves, PoolAssumption
    <3>2. QED
      BY <1>1, <3>1
  <2>3. SlotMoves(s)
    BY <1>1, <2>2, SlotStep
  <2>4. SlotFreed(s)
    BY <1>1, <2>3 DEF SlotMoves, SlotStays, SlotKept
  <2>5. CASE receipt'[r].st = "absent"
    <3>1. receipt[r].st = "absent"
      BY <1>1, <2>5, ForwardStep DEF PoolInv, Forward, MovesForward
    <3>2. sends[r] = 0
      <4>1. sends[r] \in Nat
        BY <1>1, <2>1 DEF TypeOK
      <4>2. ~receipt[r].no_resend
        BY <1>1, <2>1, <3>1 DEF SendIsFenced
      <4>3. ~(sends[r] > 0)
        BY <1>1, <2>1, <4>2 DEF SendIsFenced
      <4>4. QED
        BY <4>1, <4>3
    <3>3. QED
      BY <2>5, <3>2
  <2>6. QED
    BY <1>1, <2>4, <2>5 DEF SlotFreed
<1>2. PoolInv /\ [Next]_vars =>
        [\A s \in Slots : LET r == slots[s].req IN
           (r # None /\ slots'[s].req # r) =>
             \/ receipt'[r].st \in Settled
             \/ receipt'[r].st = "absent" /\ sends[r] = 0]_vars
  <2>1. PoolInv => \A s \in Slots : slots[s].req \in Requests \cup {None}
    BY DEF PoolInv, DeliveryInv, FenceInv, TypeOK, SlotType
  <2>2. QED
    BY <1>1, <2>1
<1>3. QED
  BY <1>2, PoolInvariant, PTL DEF Spec, FreedOnlySettled
=============================================================================
