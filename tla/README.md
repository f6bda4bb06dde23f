# codex-pro-dispatch: specifications, checks and proofs

codex-pro-dispatch lets a Codex task dispatch prompts to ordinary Codex chats
("workers") and read their answers back, with a promise that is hard to keep in
a world of crashes, lost acknowledgments and replaced tasks: **a request is sent
at most once, and its answer is never lost or invented**.  A Python helper keeps
canonical JSON files under one state lock; JavaScript evaluations inside the
Codex host (the "parked" and "resident" runners) call the helper and the native
chat tools.  This directory holds TLA+ models of that system, the TLC
configurations that check them, and theorems about them checked by TLAPS.

Paths below are relative to the repository; `core.py` etc. are under
`src/codex_pro_dispatch/`, the `.mjs` files under
`skills/codex-pro-dispatch/scripts/`.

## 1. Inventory

### 1.1 Components

| Component | Source | State it keeps | Operations |
|---|---|---|---|
| Dispatch receipts | `core.py` | one receipt per request: status `prepared, armed, submitted, pending, indeterminate, ambiguous, complete, abandoned`, `no_resend`, delivery verification, account cooldown | prepare, arm-for-send, report, mark_submitted, mark_complete, abandon, report 403, read-back correction |
| Request queue | `queue.py` | one record per request: `queued, claimed, published, acknowledged, cancelled, released`, claim (slot, generation, parent), staged answer, established mark | submit, cancel, ack, claim, observe, release |
| Resident owner | `resident.py` | generation, parent task, bound session, worker slots (request, invocation, phase), takeover audits, collector marker | start, bind, begin, end, recover-start, collector-open/close, takeover, settle, handoff, admit, stop |
| Serving runners | `parked-serving.mjs`, `parked-activation.mjs` | per evaluation: one runner per request, its helper process and native call | runParkedJob, recoverPoolRequests, servePool |
| Resident admission | `parked-activation.mjs`, `resident.py` | waiting-room directory: marker, ticket, command, observed, ready and stop artifacts | admit, residentNext, residentAdmission, publishResidentStop |
| Parked socket | `parked-socket.mjs`, `parked-client.mjs` | waiters, active, reserved and seen requests, leases, idle timers | receive, wake, finish, close; submit-wake-collect |
| Supervision | `resident-supervision.mjs` | challenge, observed, pending, terminal and other-turn artifacts | prepare, arm, expire, require, Stop decision |
| Direct routes and scalar receipts | `core.py`, `routes.py` | route registry with its bindings, legacy worker, pool file, receipts outside the pool | configure, reset, save and reset worker, activate pool, prepare, arm, mark, complete, abandon |
| Listener and send fence | `listener.py`, `resident.py` | plan with its snapshot, exposed workers and armed mark of the owner, joined markers | plan, commit, exclusion proof, every rotation of the owner |
| Canonical storage | `native_storage.py`, `core.py` | files, temporary files, state lock | lock, read, write, write once, remove |
| Result protocol | `core.py` | none (pure) | wrap prompt, parse result and continuation chunks |
| Command line and hooks | `cli.py`, `hook_preflight.py`, hooks | none of their own | argument parsing, read-only preflight |

### 1.2 How they interact

* A client *submits* a request to the queue and later *collects* and
  *acknowledges* it.  The client may *cancel* it while it is queued.  These
  calls take no owner credentials.
* A serving evaluation of the current owner generation *begins* a request (it
  reserves a slot), *claims* it (queue record and receipt), *arms* it (from here
  the receipt forbids a resend), makes the *native send*, *observes* the worker
  chat until the helper accepts an answer, and *ends* the slot.
* Every helper call runs under the state lock, so calls are serial; but a call
  makes several separately durable writes and may be cut between any two of
  them, and its answer may be lost.  The native send and the waiting are outside
  the lock.
* A task may also dispatch an assignment itself, to a *direct* worker or to the
  *legacy* one: it prepares, arms, sends, reads its message back and completes.
  The registry keeps those conversations apart from the pool's.
* The owner may be *recovered* by its own parent or *taken over* by another one
  at any time, and *handed off* when idle.  A runner of the replaced generation
  is not stopped: only the credential checks of the helper stop its calls.

### 1.3 What is hard, and what makes each part correct

* **Send once** across crashes, lost answers, stale runners and repeated
  takeovers.  The receipt's arm is the fence; it must be durable before the send
  and never be taken back.
* **Files that must agree**: record, receipt, slot and collector marker are
  written one by one; a cut anywhere must leave a state that some operation can
  continue from.
* **Inherited work**: what a recovery or takeover inherits may only be collected
  or cancelled; cancelling is safe only if nothing was or can be sent.
* **Worker exclusivity**: the next request must not go into a chat still
  answering the last one.
* **Liveness of a serve**: a held slot silently shrinks the pool.
* **Rendezvous**: claims of an admission marker race its retirement, and a Stop
  or a deadline races both.
* **Arbitration** of a Stop against the qualification deadline, from two
  processes with only link-once publication to decide.
* **Socket sessions**: leases, idle timers, retirement and closing while
  deliveries are running.
* **Routes over time**: conversations become direct, legacy or pool workers and
  retire, over receipts that are still unresolved and with calls cut short.
* **What an answer answers**: framed, chunked text that a reader may see early,
  cut off, or from another assignment in the same chat.
* **Earlier senders**: an evaluation of a replaced owner cannot be stopped; a
  worker may only be given away when it can no longer send to it.
* **Durability**: every step above assumes that a returned write is there for good.

## 2. Modules

Each module models one component; `MC*` modules only add the symmetry sets of
the instances, and `*Proofs` modules hold the theorems.

| Module | Models | Composed with |
|---|---|---|
| `SendOnce` | the abstract promise for one request: open, committed, sent at most once, complete, dropped, withdrawn | refined by `PoolDispatch` and `DirectAssignment` |
| `PoolDispatch` | the canonical files of pooled requests, the runners of every generation, the worker chats, the owner's life | stands alone; what surrounds it is its `Events` |
| `ParkedSocket` | the concurrent session of `parked-socket.mjs` | instanced by `Admission` |
| `Admission` | the waiting room, its clients, the native wait, the serving loop and the owner-loss detector | `Socket == INSTANCE ParkedSocket` |
| `Supervision` | the Stop hook, the qualification of an evaluation, and their artifacts | stands alone; owner replacement is two actions |
| `ResultFrames` | the framed answer: parser and forms asked for, as pure operators | extended by `DirectAssignment` |
| `DirectAssignment` | direct and legacy workers, their registry and receipts, the tasks that send | extends `ResultFrames`, refines `SendOnce` |
| `ListenerFence` | listener plans, rotations of the owner and the proof that earlier senders are excluded | stands alone; slots without their requests |
| `Storage` | one file operation under the state lock, its failures and loss of power | stands alone; what a write is to the other modules |

### 2.1 PoolDispatch

State: `queue` and `receipt` are the queue record and dispatch receipt of each
request; `generation, parent, session, slots, audits` are the owner file;
`marker` is the collector-only marker; `run[g][r]` is where the runner of
request `r` in generation `g` is (`runParkedJob`); `chat` and `sends` are what
the worker chat shows and how often the native send was made.  A slot and its
worker are one.

* Clients: `Submit`, `Cancel`, `Acknowledge` are `Queue.submit`, `cleanup`, `ack`.
* Runners: `Begin` (`resident begin`), `ClaimQueued`/`ClaimRetained`
  (`Queue.claim`), `Arm` (`core.arm_for_send`), `Send` (the native call, outside
  the lock), `Observe` (`Queue.observe`), `FailArmed` and `Fail` (the report and
  every exit of `runParkedJob`), `End` (`resident end`).
* Owner: `BindSession`, `RecoverStart`, collector open and close, `Takeover`,
  settlement, handoff and abandonment.

A helper call is one action, since it holds the state lock, but it makes
several durable writes.  `Outcomes` is the sequence of states after each write:
a faulty call leaves any of them and may or may not report back; a clean call
leaves the last one.  Runners are named by generation and request because an
invocation never outlives its generation.  Runners of replaced generations are
never stopped: only the credential checks keep them from harm.  The physical
quiescence evidence a recovery asks for is not relied on.

### 2.2 ParkedSocket

One turn of the event loop is one action.  `waiting` is the queue of receives,
`active` the accepted calls without a finish, `reserved` the requests that ended
pending, `call` what each client was told.  `finish` is two actions, `Finish`
and `FinishEnds`, because it awaits its client's hang-up.  `receive` is `Receive`,
then `ReadyWritten` or `ReadyFails`: it is in the queue, where a wake may take it,
before its ready file is written, and if the file fails after a wake took it the
accepted job stays active although no receive returns it (`Lost`; the others are
`Attended`).  An answered receive returns once its file is written.  Only the concurrent
session is modelled, not the single-worker one it superseded.  A wake after the
close is told "unavailable", which stands for the transport error; "published"
stands for acknowledged and not_submitted too, which the session treats alike
although not_submitted settles nothing.

### 2.3 Admission

Per ordinal, `room` holds the artifacts of the waiting room.  Clients
(`SeeReady`, `Admit`, `Publish`, `Submit`, `WakeUp`, `Observe`, `GiveUp`, `Die`)
are other processes: the admission is one locked helper call, everything else is
a file operation of its own.  The evaluation is three concurrent parts: the
native wait (`residentNext`: `WaitFinds`, `WaitGivesUp`, `WaitStops`,
`WaitElapses`, `WaitAborts`), the loop of `servePool` (`StartWait`, `TakeWait`,
`Begin`, `ObserveCommand`, `OpenReceive`, `TakeDelivery`, `Drain`, ...) with one
job per request, and the detector of `residentAdmission` (`Armed`, `Expire`,
`RecordLoss`).  `Lose` ends the evaluation at any point; native timers and the
native call that is under way survive it: a receive that returns then still turns
the detector off (`ReceiveReturns`).

A job rejects with the session open when its work was not submitted, its end
fails or the answer of its finish is lost (`EndJob`, `LoseFinish`); the loop
notices when it waits for a slot (`Halt`), or joins its jobs (`Drain`, which fails
with the first that rejected, siblings running or not).  `DeadlineRead` limits a
passing deadline to where somebody still reads it, `Brings` says which requests a
client may bring, and "readyfail" among the `Events` lets ready files fail.

The markers' freshness window is abstracted: a marker is attended
while its wait runs.  Owner replacement, credentials and cooldown are left to
PoolDispatch, and `begun` stands for its begin and end.

### 2.4 Supervision

`owner` is the owner file as far as a Stop depends on it; `probe` the challenge
and the observed slot of each turn; `terminal`, `joined`, `pending` and `asked`
the other artifacts; `cell` the evaluation of each turn, `hook` its Stop
process.  Every read of the hook is an action (`Inspect`, `ReadStatus`, `Judge`
reads the probe, then `Recheck`, `Link` and `Confirm`, or `JoinedProof` and
`OtherTurn`), so that evidence may be gathered from different moments.
`prepareSupervision` and `armSupervision` are one action: a Stop between them
is one after them, before the waiter's first look.  An evaluation that fails
takes no more steps.  The work of all slots is summarised by the liveliest of
them.  A turn may end at any time; its Stop process may then still write the
terminal record it was about to write (its other steps either commute with the
end of the turn or change nothing).

### 2.5 ResultFrames and DirectAssignment

In `ResultFrames` a response is a sequence of lines and a line is a tuple of
what the parser reads in it; a numeral is its digits, so that `01` and `17` are
inputs.  `Parse` is `_parse_result`, `Rendered` the form `wrap_prompt` spells out.

`DirectAssignment`: `registry` is `dispatch-routes.json` (`bindings` by number,
`current` the configured ones, `bridge` and `legacy` the witnesses), `workerFile`
and `pool` the other two worker files, `receipt` the assignments, `grant` the
permission of the task that armed, `sends` what it did with it.

* `Configure` is `set_direct` and `set_direct_pool`; the expected list a caller
  passes is the one that is there.  `SaveWorker` and `ActivatePool` take `n`, the
  number of writes after which the call is cut.
* `PrepareDirect`, `PrepareLegacy`, `Arm`, `MarkSubmitted` (an exact, a
  newline-altered or an otherwise altered read-back), `MarkPending`, `MarkDoubt`,
  `MarkUnusual403`, `Complete`, `Abandon` are the calls of `core.py` of those
  names.  Status indeterminate stands for ambiguous, which nothing tells apart.
* A reader may see its own message, and the answer or part of it, of every
  assignment sent to its conversation, any time after the send.  `LoseTask` is a
  task that was interrupted, or that never got the answer of its arm.
* Bridge receipts are PoolDispatch's; no resident owner is configured here, and
  a cooldown of the pool is not shared.  Assignment ids are not reused, so the
  purge of old receipts is left out, as is `reset_worker` with force.

### 2.6 ListenerFence

`owner` is the owner file as far as the fence reads it: version, generation,
worker set, phases, bound session, the armed mark, the exposed workers and the
packet that created it.  `evaluation[g]` is the evaluation serving generation
`g`, `may[g]` the workers it armed for and has not sent to yet: this is the
danger, and nothing in the files shows it.  `Rotate` is the branch of
`resident.write` for a next generation; `Commit`, `Recover`, `Start`, `Handoff`
and `Takeover` are its five callers, each with its own guard and slots.
`Exclusions` is `exclusion_proof`.  A packet is a plan, or the evidence file of
a recovery; it records the owner it was made for and may be used at any later
time and any number of times.  `Settle` frees a slot and says nothing of the
send that may be on its way.

Physical evidence is somebody's word.  `Plan` lets it be given only while no
evaluation is alive, and `Resumable` says that for an owner of the older schema
it is also an undertaking not to resume it, as the restart rule has it
(`resident.py:384`).  Without the latter TLC finds a packet that is planned
before an old session resumes and committed after it, with nothing in the owner
file to show that it ran.

Owner generation 1 stands for every generation of the older schema; "inherited"
for collect-only and cancel-pending; the recovery marker, the cooldown and claims
as blockers of a commit are folded into `Idle`.

### 2.7 Storage

One file operation at a time holds the lock (`Lock`, `Unlock`).  A write is
`BeginWrite`, `CreateTemp`, `WriteTemp`, `SyncTemp`, `Replace`, `SyncDirectory`;
a removal `Unlink`, `SyncDirectory`.  `Fail` ends a call anywhere, as an error or
a kill does.  `PowerLoss` keeps or loses each change of a name and each temporary
file that was not synced, and tears unsynced content.  `Read` takes no lock and
is no action: it is what a reader would get in this state.  `acked` and `tried`
observe which change of a file returned last and which were begun since.  A
reader may thus read a value that is not durable yet.  `RepeatWrite` is the write
of a ticket that is there with the same value: it returns, having synced nothing,
and `found` observes that it did.

## 3. Checks

| Run | Specification | What it shows | States |
|---|---|---|---|
| `pool_one` | one request, one slot, 2 parents, 4 generations, all events, faulty calls | type, send once, fence, claim and receipt agree, publication is backed, cancellation is safe, settled work can be ended, inherited work stays so, slots freed only when settled, receipts move forward, refinement of `SendOnce` | 1 772 236 |
| `pool_pair` | 2 requests, 2 slots, 2 generations, faulty, cancel and handoff | who holds which worker: `ActiveHoldsSlot`, `WorkersAreHeldOnce` | 558 168 |
| `pool_serve` | 2 requests, 1 slot, calls that return, fair | `BegunIsEnded` | 53 720 |
| `pool_cancel_leak` | as the first, without faults | finding 1 | stops at the violation |
| `socket_session` | 2 requests, 3 wakes, 3 receives, capacity 2, a leased session finished after 2 wakes | receives and jobs pair up, pending work is not run again, expiry spares jobs, every wait has an end unless its delivery was lost | 2 451 512 |
| `admission_room` | 2 requests, 3 clients, 3 ordinals, all events | readiness is attended, a claim is not passed over, a grant has its slot and nothing is admitted twice | 967 936 |
| `admission_ends` | 2 requests, 2 clients, 2 ordinals, stop, loss and failing ready files, fair | a stop ends the residence, a claim is answered, a loss retires readiness, a lost delivery closes the socket | 159 014 |
| `supervise_turns` | 2 turns, 2 generations | Stop and deadline agree, releases are fenced, a detached generation starts nothing, a joined marker is final | 2 858 945 |
| `supervise_detach` | 1 turn, 2 generations | finding 2 | stops at the violation |
| `direct_routes` | 3 assignments, one of them frail, 2 conversations, 2 bindings, one task; all responses of up to two interior lines | routes stay apart, receipts stay readable, continuations stay in place, completed work is answered, refinement of `SendOnce`; what is asked for is accepted, what is accepted answers one question | 412 335 |
| `listener_fence` | 2 workers, 2 packets, 3 generations | earlier senders are excluded, a packet makes one owner | 1 781 656 |
| `storage` | 2 processes, 2 values, a record and a ticket | reads are current and whole, tickets stay | 69 857 |

Bounds, each a constant of its module:

* `MaxGen`: four generations let one request be recovered, taken over, settled
  and recovered again.  With two requests, two generations suffice for the
  properties checked there: each relates two requests around one change of
  owner.  In Supervision two generations and an initial owner with or without
  inherited work give every kind of predecessor and successor.
* `MaxReceives`, `SeenLimit`: the code accepts 64 calls; a limit of two is reached
  with a sibling still running, which is where the limit bites, and the third
  receive and the third wake are left to meet it.
* `MaxOrdinal`: the code offers 64 ordinals, one client per ordinal; a third
  ordinal and a third client give a retired, a claimed and an open one at once.
* `Requests`: two requests are what exclusion between requests needs;
  properties of one request are checked with one.
* `Events` (`OptionalEvents` of a module) names happenings that an instance may
  leave out.  `admission_ends` leaves out late, leaving and dying clients, which
  `admission_room` has.
* `Brings`: in `admission_room` every client may bring either request.  In
  `admission_ends`, where symmetry may not be used, the first client's request is
  fixed: requests are alike, so this loses no behaviour.
* `Frail` (DirectAssignment): the assignments that may be the legacy worker's, or
  meet doubt, a 403 or an altered read-back.  One beside two direct ones is what a
  migration over unresolved work needs; the continuation of a legacy assignment
  needs two and is left to the proof.
* `MaxBindings`: two, so that a conversation can be relabelled, or retired and
  configured again, under a second number.  `Tasks` has one member, so the task
  conjunct of `ContinuationStays` bites only in the proof.
* ListenerFence: three generations are an older owner, the one that replaces it
  and the one that replaces that; two packets can be planned for the same owner.
* `MaxTurn`: two turns; the rules for a turn only ask whether it is the serving
  one.

The frames are checked over all responses of at most two interior lines, one
more than the longest header and its text need.

Symmetry is used only where safety is checked.  `CHECK_DEADLOCK FALSE` because
every instance may really stop: all work acknowledged, all generations, turns
or ordinals used, a session closed.

### 3.1 What the properties are for

The safety invariants of PoolDispatch relate files that are written one by one.
`SettledCanEnd` has one stated exception, the request that an earlier takeover
cancelled while queued and that was begun again: its retained audit entry makes
`resident end` refuse it.  `FreedOnlySettled` covers settlement, which creates a
receipt only while there is no cooldown.

`WorkersAreHeldOnce` joins three relations between slots, claims and receipts
(`ReservationsAreCurrent`, `OneClaimPerWorker`, `ClaimHoldsSlot`), and
`WaitHasAnEnd` and `AdmittedOnce` hold the retired session's closing and the
grant's slot as conjuncts.

`ReceiptsStaySound` is what every call that prepares, arms or configures checks
before anything else.  A receipt that fails it is not refused once: it blocks
every later dispatch, and its own abandonment.

`SenderIsExcluded` speaks of the native call that nothing can recall, not of any
file: an evaluation of an earlier generation that still may send to a worker of
the pool would put its message among the new owner's.

`ReadsAreCurrent` counts a change as acknowledged when its own write returned.
`TicketsStay` speaks of both returns of a ticket's write.  A ticket whose own write
returned is there for ever.  A repeated write promises less, because the code syncs
nothing then: its ticket is never changed by a write and never lost by a failing or
killed call, but a loss of power may take it while its directory entry has not been
synced (5.2).

`OneReceivePerJob` and `WaitHasAnEnd` hold with ready files that fail at any
moment.  `WaitHasAnEnd` has one exception: while a job is active whose receive threw
(`Lost`), the session itself has no timer that would end it, and nobody finishes it.
What ends it is the residence around it, and `LostDeliveryCloses` says that it does,
also when the serving evaluation is gone and only its detector is left.

`BegunIsEnded` counts every stop of a runner as an end, also a pending result, which
keeps its slot reserved by design (`parked-serving.mjs:694`).  What it catches is a
reservation nobody takes up, and the end of a finished runner being refused.
`AdmittedOnce` says nothing of a command that expires, or meets a stop, between its
selection and its use; 5.2 has what the code does there.

`FormsAgree` joins two facts of the parser and the prompt forms that depend on no
state (`Understood`, `Unmistakable`); as an invariant it is checked by TLC over all
short responses, and `DirectProofs` proves both facts for every set of assignments.

`ReleaseIsFenced` speaks of the step in which the hook lets a turn go.  A turn
may still be released a moment *before* its evaluation binds the owner; a later
turn is then told to recover (`OtherTurn`).

### 3.2 Fairness

* `ServeFairness` (PoolDispatch): with calls that return, `servePool` runs each
  runner it started, a runner does not stay in a call, and a chat replies to
  what reached it.  No fairness for clients, recoveries or faults.
* `ResidenceFairness` (Admission): the host runs the evaluation while it is
  there, native timers fire, jobs end and the socket's timers fire.  Clients are
  not fair; a client that never acts is answered by the wait's own bound.

ParkedSocket states no liveness: `WaitHasAnEnd` says that
a timer or a job stands behind every wait, which is all the session itself can
promise.  `StopEndsResidence` excuses a lost evaluation: with the detector off
between a delivery and the next wait, its socket stays open.  `LostDeliveryCloses`
excuses nothing: a receive that threw leaves the detector armed, or the evaluation
fails on the error and closes.

## 4. Proofs

`PoolDispatchProofs` proves for every set of requests and
parents, every number of slots and generations, faulty or not, with every set of
events, from `PoolAssumption` alone:

| Theorem | States |
|---|---|
| `TypeCorrect` | `TypeOK` |
| `FenceInvariant` | `TypeOK`, `SendIsFenced` and `AtMostOneSend` together are inductive |
| `NeverSentTwice`, `AlwaysFenced` | the two safety properties |
| `DeliveryInvariant` | the fence and `Delivered(r)` for each request |
| `PublishedWasAnswered` | `PublishedIsAnswered` |
| `ReceiptsNeverGoBack` | the action property `ReceiptsMoveForward` |
| `PoolImplementsSendOnce` | the refinement: each step is a step of `SendOnce` or a stutter |

The argument.  `AtMostOneSend` is not inductive: a runner that holds the
permission to send could send a second time unless the permission implies that
nothing was sent and that nobody else holds it.  `SendIsFenced` says just that,
and ties it to the durable `no_resend`: arming is possible only from a receipt
without it, the arm's last durable write sets it before the permission is given,
and no write takes it back.  A cut in the middle of arm leaves either no
permission or a fenced receipt.  `FenceInv` is preserved action by action
(`FenceClaim`, `FenceArm`, `FenceSend`, ...); the owner's operations touch
neither permission nor fence.

`PublishedIsAnswered` needs what lies between send and publication.
`Delivered(r)` follows it: a chat that shows something was sent to, a staged
answer was seen in the chat, a complete receipt was verified and answered and
its answer is staged or acknowledged, a published record has a complete receipt.
`DeliveryObserve` shows it for every prefix of the writes of an observation.
The refinement maps receipt and record to the ledger entry (`ledger`), and
`EntryStep` reduces each action to one change of one receipt or record.

`PoolSlotProofs` proves the rest of PoolDispatch's safety, what slots, claims,
receipts and takeover entries know of each other, from the same assumption:

| Theorem | States |
|---|---|
| `PoolInvariant` | `PoolInv`: `DeliveryInv`, `FilesInv`, `SlotInv` and `AuditInv` are inductive |
| `UnresolvedHoldsSlot`, `EachWorkerHeldOnce` | `ActiveHoldsSlot`, `WorkersAreHeldOnce` |
| `ReceiptMatchesClaim`, `CancelsOnlyUnsent` | `ClaimMatchesReceipt`, `CancelledIsUnsent` |
| `SettledWorkCanEnd` | `SettledCanEnd` |
| `InheritedNeverSendable`, `FreesOnlySettled` | the action properties `InheritedStaysInherited`, `FreedOnlySettled` |

The argument.  None of these is inductive alone.  A slot may be freed of a
settled claim, so `ActiveHoldsSlot` needs that no receipt is unresolved without
a claim; a settlement makes a receipt out of a claim, so `ClaimMatchesReceipt`
needs that the claim names a slot and a parent as long as there is no receipt.
`Coherent` is this for one record and its receipt, and every write of every call
but a claim, cut or not, is reduced to one formula (`Moves`).  `HeldWell`
adds what a slot knows of its request: no other slot has it, its claim names this
slot, it is still queued only if the slot is reserved or to be cancelled.  Every
action then does one of three things to a slot (`SlotMoves`): it leaves request
and phase to the generation that has it, or frees it, or hands it on to a new
generation; a begin alone fills one.

`SettledCanEnd` needs the history.  `resident end` accepts a collected slot when
the claim is the owner's, or when takeover entries bind it to the claim's parent
and slot.  `EntryWell` says what an entry keeps of a request: it is listed there,
what it collects was claimed and is bound where the claim stands, unless some
entry cancelled it, all entries that bind a request bind it alike, and the first
of them to the parent it took over from.  `NewEntryWell` shows it for the entry a
takeover adds; claims that stand do not change (`Moves`), so older entries stay
true.  `HeldWell` asks an entry for every held claim of another parent, which a
change of parent makes and nothing takes away.

`SupervisionProofs` proves every property of Supervision but the one that fails,
for every number of turns and generations, from `SupervisionAssumption`:

| Theorem | States |
|---|---|
| `SupervisionInvariant` | `SupInv`: `SupTypeOK`, `CellInv` and `HookInv` are inductive |
| `SupTypeCorrect`, `OneWinner`, `MarkersAreFinal` | `SupTypeOK`, `StopAndDeadlineAgree`, `JoinedIsOver` |
| `DetachedIsInert`, `ReleasesAreFenced` | the action properties `DetachedStartsNothing`, `ReleaseIsFenced` |

The argument.  `CellInv` says that a generation is bound once: whoever binds it
finds nobody serving it and no marker for it, which gives `JoinedIsOver`, and
only the turn that acquired it serves it unless it was rotated.  `HookInv` says
what a Stop process that is about to look a last time has gathered (`Evidence`).
Most releases compare that with the present owner.  One does not: a Stop that
saw another task's owner releases on that old reading alone, and the task may
have got the owner back.  `NothingQualified` is why this does no harm.  To serve
a generation that is newer than the reading, an evaluation needs a Stop of the
current turn as its qualification, and that Stop is the one that lags.

`DirectProofs` begins with two facts of ResultFrames for every set of
assignments, from no assumption:

| Theorem | States |
|---|---|
| `OneAnswer` | every assignment is `Unmistakable`: what it accepts answers nothing else |
| `AskedIsAccepted` | every assignment is `Understood`: what it asks for is accepted |

The argument.  The marker's line names the assignment and the header's the root
and the index; numerals are canonical, so equal values have equal digits
(`NumeralsDiffer`).  A response that was cut ends in a line that is not the
footer.

It then proves every property of DirectAssignment, for every set of
assignments, conversations and tasks, every bound on bindings and every `Frail`,
from `DirectAssumption`:

| Theorem | States |
|---|---|
| `DirectInvariant` | `DirectInv`: types, `FilesInv`, `NamesInv`, `SoundInv` and `FenceInv` are inductive |
| `DirectTypeCorrect`, `RoutesNeverMeet`, `ReceiptsAreReadable` | `DirectTypeOK`, `RoutesStayApart`, `ReceiptsStaySound` |
| `PromptAndParserAgree` | `FormsAgree`, from the two above |
| `CompletedWasAnswered`, `ContinuationsStay` | `CompletedIsAnswered`, `ContinuationStays` |
| `DirectImplementsSendOnce` | the refinement of `SendOnce` |

The argument.  `RoutesStayApart` is not inductive: the worker file may name a
conversation the registry does not, as long as there is no registry.  `FilesInv`
says what they know of each other, and every change of the workers is reduced to
one formula (`WorkersChange`): the registry only grows, whole or cut short.
`NamesInv` binds a direct receipt to its conversation for ever, which carries
`SoundInv` through configurations and `ContinuationStays` through everything.
`FenceOf` is the life of one receipt with its grant and its sends; each call is
reduced to one change of one receipt (`Advances`), from which follow fence,
completion and ledger.  That an accepted answer is the assignment's own is
`AcceptedReply`, the only use of the frames.

`FenceProofs` proves the two properties of ListenerFence for every set of workers
and packets and every number of generations, from `FenceAssumption`:

| Theorem | States |
|---|---|
| `FenceInvariant` | `FenceInv`: types, `VersionInv`, `EvaluationInv`, `ExposureInv`, `PacketInv`, `AcquiredInv` are inductive |
| `FenceTypeCorrect`, `EarlierSendersAreExcluded`, `PacketsMakeOneOwner` | `FenceTypeOK`, `SenderIsExcluded`, `OneOwnerPerPacket` |

The argument.  `SenderIsExcluded` forgets who is excluded *why*.  `ExposureInv`
says that what may still be sent by an earlier generation goes to exposed
workers, and exposed workers are not the pool's; by the owner's own generation,
to its own workers and only when it is armed.  A rotation without physical
evidence adds the unjoined workers to the exposed ones, and a joined evaluation
has nothing on its way (`EvaluationInv`).  A rotation with evidence clears them
all; `QuietSince` is why it may: as long as the owner is still the one the
evidence was given for, an evaluation that armed since would have changed it.

`StorageProofs` proves the two properties of Storage for all processes, values
and files, from `StorageAssumption`:

| Theorem | States |
|---|---|
| `StorageInvariant` | `StorageInv`: types, `CallInv`, `StageInv`, `NameInv`, `TicketInv` are inductive |
| `ReadsNeverStale`, `TicketsAreKept` | `ReadsAreCurrent`, `TicketsStay`: the latter for a ticket's own write and for a repeated one |

The argument.  `StageInv` follows the content from the temporary file to the
name; `NameInv` says that a name leads, and led at the last sync of the
directory, to whole content that was acknowledged or begun, so that a loss of
power may choose either; `TicketInv` that an acknowledged ticket is durable and
no call works on it.  For a repeated write `CallInv` is enough (`TicketStep`): while
a ticket has a value, no call is about to replace or remove it, so only a loss of
power can choose another content for its name, and only when the synced one differs.

`SocketProofs` proves every property of ParkedSocket, for all requests and wakes,
whatever the limits and timers, from `SocketAssumption`:

| Theorem | States |
|---|---|
| `SocketInvariant` | `SocketInv`: types, `RoomInv`, `QueueInv`, `JobInv`, `TimerInv` and `PendingInv` are inductive |
| `SocketTypeCorrect`, `JobsHaveTheirReceive`, `EveryWaitEnds` | `SocketTypeOK`, `OneReceivePerJob`, `WaitHasAnEnd` |
| `PendingIsSpared`, `ExpiryIsGentle` | the action properties `PendingIsNotRunAgain`, `ExpirySparesJobs` |

The argument.  `QueueInv` says that the queue holds the open receives, each once,
which is what splicing one out of its middle needs (`SplicedQueue`), and `JobInv`
that no two receives were ever handed the same call, whether they returned it or
threw.  `TimerInv` adds to `WaitHasAnEnd` that an idle timer never runs beside a job, which is why its
firing cuts nobody off.  `PendingInv` follows work that was told pending: its job
is still finishing, so the request is taken; or it is reserved, so only an
observe is let in; or another job published it; or a blocked job released it,
but then that job retired the session for good.

`AdmissionProofs` proves every safety property of Admission, for all requests and
clients, every number of ordinals and every set of events, from
`AdmissionAssumption`:

| Theorem | States |
|---|---|
| `AdmissionInvariant` | `AdmissionInv`: the session's `SocketInv`, `ResidenceTypeOK`, `LoopInv`, `TicketInv`, `ClientInv`, `RequestInv`, with `ReadinessIsAttended` and `ClaimIsNotPassedOver`, are inductive |
| `AdmissionTypeCorrect`, `ReadinessAttended` | `TypeOK`, `ReadinessIsAttended` |
| `ClaimsNotPassedOver`, `RequestsAdmittedOnce` | `ClaimIsNotPassedOver`, `AdmittedOnce` |
| `ResidenceIsSession` | the residence's socket is a session: each step is one of `Socket!SocketNext` or leaves the socket alone |

The argument.  `ResidenceIsSession` comes with the invariant: the socket's part
of every action is found among the session's actions (`ResidenceStep`), so what
`SocketProofs` shows of any session holds of this one (`Session`, an instance of
it).  `LoopInv` says what the serving loop may conclude from where it is: a wait
that was answered "pending" or "stopped" left no marker, one that was answered
"chosen" left a claimed one; so the loop moves on, or stops, only where nobody
claimed.  `TicketInv` makes a claimed marker the ticket of one client for good,
which is why a request can be spoken of as that of an ordinal (`Wanted`).

`AdmittedOnce` is not inductive.  A request may be admitted while an earlier
ordinal is served for it, unless that one's client has queued it by then:
`RequestInv` says so of every observed ordinal but the present one.  This in turn
needs that the loop goes to its next ordinal only with a delivery, a delivery
only comes of an accepted wake (`WokenIsQueued`, from the session's invariant),
and a client wakes only for what it has queued (`ClientInv`).  That a grant keeps
its slot until its client has submitted is the other half: a job that ends gives
back the slot of a request, and nobody else may be about to submit that request
(`EndJobKeeps`), because observed ordinals differ in theirs.

Model-checked only are the liveness properties (`BegunIsEnded`,
`StopEndsResidence`, `ClaimIsAnswered`, `LossRetiresReadiness`,
`LostDeliveryCloses`): the prover has no rule for fairness and ENABLED.  Every
invariant and every other action property that a passing run checks is a theorem.

## 5. Findings

### 5.1 Shown by a run

1. **A cancelled reservation is inherited for good** (`pool_cancel_leak`).  A
   client cancels a queued request whose slot `resident begin` reserved;
   `recover-start` classifies the slot as collect-only although no receipt
   exists, and no operation can ever free it (`resident.py:1175`).
2. **A detachment that races a bind cannot be recovered**
   (`supervise_detach`).  The terminal record is linked from a stale read of the
   owner; if `bind-session` came between, every resident command fails,
   `recover-start` included (`resident-supervision.mjs:126`).

Each is a counterexample of its run; the other runs hold with the behaviour in
place, so none of them makes a request be sent twice.

### 5.2 Seen in the models, without a run of their own

Each is a definition beside the properties of its module.  To see the
counterexample, name it under PROPERTY (INVARIANT where it is a state formula)
in the cfg given.

* **The detector fires on a residence that drains** (`DetectorSparesWork`,
  `AdmissionEnds.cfg`).  After a stop the loop joins jobs that still run while
  the detector armed by the last wait counts on (`parked-activation.mjs:2129`,
  `parked-serving.mjs:737`).
* **A claim that beat the stop is failed** (`ClaimOutlivesStop`,
  `AdmissionEnds.cfg`).  It is chosen, reserved and observed, and then refused
  because the stop file exists (`parked-activation.mjs:2110`).
* **An observe takes a sibling's receive** (`DeliveryIsAdmitted`,
  `AdmissionEnds.cfg` with "observe" among its `Events`).  The socket gives the
  oldest receive to any accepted wake, the loop opened it for the request just
  admitted, and the mismatch fails the residence (`parked-serving.mjs:726`).
* **A write that failed late leaves no trace** (`FailedWriteIsRefused`,
  `Storage.cfg`).  The comment at `native_storage.py:109` says that a failed
  write retains its temporary file; after `os.replace` there is none, and a
  failing sync of the directory leaves a new record that readers accept.
* **A repeated ticket is acknowledged without a sync** (`RetriesAreDurable`,
  `Storage.cfg`).  A write of a ticket is killed between rename and sync of the
  directory; its repetition finds the equal file and returns
  (`native_storage.py:212`), and a loss of power may still take it away.  What the
  repeated write does promise is a conjunct of `TicketsStay`.
* **A delivery lost with its ready file** (`WaitHasAnEnd` with its premise
  `Lost = {}` taken out, `SocketSession.cfg`).  The wake was accepted, its receive throws
  (`parked-socket.mjs:367`) and its job stays active, so the session arms no idle
  timer and a lease that runs out waits for that job.  A residence closes
  (`LostDeliveryCloses`).  A leased session's cell
  (`parked-activation.mjs:1463`) has no such detector; its client is answered only
  when its own time is over.

## 6. Not modelled

* In PoolDispatch: enrolment over retained claims, the queue's resume check, the
  `pending` and `ambiguous` receipt statuses a runner never sets, the chain
  check of takeover bindings, the version-4 send fence, and terminal detachment
  (which only forbids behaviour).
* In ParkedSocket: framing, tokens, duplicate call ids (they are fresh random
  values), and the single-worker session.
* In Admission: retry and resume rendezvous, the leased rendezvous, the loss of
  the native runtime itself (only of the evaluation), readers of status.
* In Supervision: the route registry, fingerprints of installed files, retained
  continuations, and the serve-existing claims that keep the original-cell rule;
  a slot that collects beside a slot that runs.
* In DirectAssignment and ResultFrames: the purge, forced resets, the record of
  the original safety observer, the wording of prompts and the byte guideline,
  the formats of native reads (their outcomes are enumerated).
* In ListenerFence: what is folded (2.6), `startup_blockers`, which only
  reports, and the registration of a plan's workers as bridge workers, which
  DirectAssignment has for the pool's activation.
* In Storage: ownership, modes and link counts; several files in one call, which
  is what `Outcomes` of PoolDispatch is about.
* Components without a module: see `PROJECT.json`.  The scalar worker is
  superseded by the pool; its receipts are the legacy ones of DirectAssignment; `parked-runner.js` is a copy of what is modelled from
  `parked-serving.mjs`; the command line keeps no state.

## 7. Plan

Every module of the first plan is there.  What is left, in this order:

1. Proofs: the safety properties the runs check are all proved.  What Admission
   inherits of the session (`OneReceivePerJob`, `WaitHasAnEnd` of its own socket)
   follows from `AdmissionInv` and could be stated for it.
2. Composition: the rotations of ListenerFence with the Stop arbitration of
   Supervision, so that the joined marker of one is that of the other; Storage
   under several files of one call, refining `Outcomes`.
3. The operations PoolDispatch and Admission leave out (section 6), the resume
   and retry rendezvous first.

Runs that ask related questions of one model share an instance, so the set of
runs stays small as modules are added.
