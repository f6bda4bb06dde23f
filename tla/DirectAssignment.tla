-------------------------- MODULE DirectAssignment --------------------------
(* Assignments that tasks dispatch themselves: the direct workers and the    *)
(* route registry (routes.py), the legacy single worker, and the receipts    *)
(* core.py keeps for both.  A helper call holds the state lock and is one    *)
(* action; a call of several file writes may stop after any prefix of them,  *)
(* and a task may be lost between arming and its native send.  No resident   *)
(* owner is configured: PoolDispatch has the pool's own receipts.            *)
EXTENDS ResultFrames, FiniteSets

CONSTANTS Chats,       \* native conversations
          Tasks,       \* parent tasks
          MaxBindings, \* bound on the bindings ever configured
          Frail,       \* assignments that may be the legacy worker's, or meet a
                       \* doubt, a 403 or a reader that alters the message
          None         \* no chat, no assignment

ASSUME DirectAssumption ==
  /\ MaxBindings \in Nat /\ Frail \subseteq Ids
  /\ Ids # {} /\ None \notin Ids /\ None \notin Chats

VARIABLES
  registry,    \* dispatch-routes.json
  workerFile,  \* the legacy worker's chat, or None
  pool,        \* the chats of worker-pool.json, {} when there is none
  receipt,     \* assignment -> its receipt
  grant,       \* assignment -> may a task still make its one native send?
  sends        \* assignment -> native send calls made for it (observed)

filesVars == <<registry, workerFile, pool>>
nativeVars == <<grant, sends>>
vars == <<filesVars, receipt, nativeVars>>

\* Indeterminate stands for the status ambiguous as well: nothing reads the
\* difference.
PostArm   == {"armed", "submitted", "pending", "indeterminate"}
ActiveSt  == PostArm \cup {"prepared"}
Statuses  == ActiveSt \cup {"absent", "complete", "abandoned"}
Bindings  == 1..MaxBindings

NoReceipt == [st |-> "absent", route |-> "none", chat |-> None, binding |-> 0,
              task |-> None, prior |-> None, count |-> 0, verified |-> "unset",
              correctable |-> FALSE, no_resend |-> FALSE, cooldown |-> "none",
              answer |-> None]

ReceiptType ==
  [st : Statuses, route : {"none", "direct", "legacy"}, chat : Chats \cup {None},
   binding : 0..MaxBindings, task : Tasks \cup {None}, prior : Ids \cup {None},
   count : 0..1, verified : {"unset", "false", "true"}, correctable : BOOLEAN,
   no_resend : BOOLEAN, cooldown : {"none", "active", "over"},
   answer : Ids \cup {None}]

\* A fresh installation, or one with a single worker of an earlier release.
Init ==
  /\ registry = [present |-> FALSE, current |-> <<>>, bindings |-> <<>>,
                 bridge |-> {}, legacy |-> {}]
  /\ workerFile \in Chats \cup {None}
  /\ pool = {}
  /\ receipt = [a \in Ids |-> NoReceipt]
  /\ grant = [a \in Ids |-> "none"]
  /\ sends = [a \in Ids |-> 0]

----------------------------------------------------------------------------
(* Helpers                                                                 *)

Active(a)    == receipt[a].st \in ActiveSt
Direct       == {a \in Ids : Active(a) /\ receipt[a].route = "direct"}
Legacy       == {a \in Ids : Active(a) /\ receipt[a].route = "legacy"}
\* Mutated: only current bindings occupy their conversation.
CurrentOnly  == {receipt[a].chat : a \in {d \in Direct :
                   \E i \in DOMAIN registry.current :
                     registry.current[i] = receipt[d].binding}}
Occupied     == {receipt[a].chat : a \in Direct}
Cooling      == \E a \in Ids : receipt[a].cooldown = "active"

BindingChats == {registry.bindings[i] : i \in DOMAIN registry.bindings}

\* routes.route does not refuse the receipt of an unresolved assignment.
RouteIsValid(a) ==
  IF receipt[a].route = "direct"
  THEN /\ registry.present
       /\ receipt[a].binding \in DOMAIN registry.bindings
       /\ registry.bindings[receipt[a].binding] = receipt[a].chat
       /\ receipt[a].chat \notin registry.bridge
  ELSE IF registry.present THEN receipt[a].chat \in registry.legacy
       ELSE receipt[a].chat = workerFile

\* core.active_assignments accepts all receipts there are; every call that
\* prepares, arms or configures refuses otherwise.
ReceiptsAreSound ==
  /\ \A a \in Ids : Active(a) => RouteIsValid(a)
  /\ Cardinality(Direct) <= 2
  /\ \A a, b \in Direct : receipt[a].chat = receipt[b].chat => a = b
  /\ IF pool = {} THEN Cardinality(Legacy) <= 1
     ELSE /\ \A a \in Legacy : receipt[a].chat \in pool
          /\ \A a, b \in Legacy : receipt[a].chat = receipt[b].chat => a = b

\* routes.initial: the registry a first configuration starts from.
LegacyWorkers == {workerFile} \ {None}
InitialRegistry ==
  [present |-> TRUE, current |-> <<>>, bindings |-> <<>>,
   legacy |-> IF pool = {} THEN LegacyWorkers ELSE {},
   bridge |-> LegacyWorkers \cup pool \cup {receipt[a].chat : a \in Legacy}]
Registry == IF registry.present THEN registry ELSE InitialRegistry
\* A receipt whose worker the witnesses do not name prevents the bootstrap.
MayBootstrap ==
  registry.present \/ \A a \in Legacy : receipt[a].chat \in InitialRegistry.legacy

\* validate: no direct conversation, current or retired, is a bridge's.
Disjoint(reg) ==
  {reg.bindings[i] : i \in DOMAIN reg.bindings} \cap (reg.bridge \cup reg.legacy) = {}

\* Mutated: the registry is written last.
LateWrites(reg, file, chats, n) ==
  /\ registry' = IF n < 2 THEN registry ELSE reg
  /\ workerFile' = IF n < 1 THEN workerFile ELSE file
  /\ pool' = IF n < 1 THEN pool ELSE chats
\* The registry knows a bridge worker before the file that makes it one; the
\* call may be cut after n of its two writes.
RegisterThenWrite(reg, file, chats, n) ==
  /\ registry' = IF n < 1 THEN registry ELSE reg
  /\ workerFile' = IF n < 2 THEN workerFile ELSE file
  /\ pool' = IF n < 2 THEN pool ELSE chats

SetReceipt(a, rec) == receipt' = [receipt EXCEPT ![a] = rec]
OnlyReceipt(a, rec) == SetReceipt(a, rec) /\ UNCHANGED <<filesVars, nativeVars>>

----------------------------------------------------------------------------
(* Configuration of workers                                                 *)

\* routes._configure_direct: one conversation, or an ordered pair.  A kept
\* conversation keeps its binding unless it is relabelled; bindings only grow.
Configure(chats, relabelled) ==
  LET reg     == Registry
      kept(c) == {reg.current[i] : i \in {j \in DOMAIN reg.current :
                     reg.bindings[reg.current[j]] = c /\ c \notin relabelled}}
      new(i)  == IF kept(chats[i]) = {} THEN <<chats[i]>> ELSE <<>>
      fresh   == new(1) \o (IF Len(chats) = 2 THEN new(2) ELSE <<>>)
      all     == reg.bindings \o fresh
      id(c)   == IF kept(c) # {} THEN CHOOSE i \in kept(c) : TRUE
                 ELSE CHOOSE i \in DOMAIN all : i > Len(reg.bindings) /\ all[i] = c
  IN /\ Direct = {}
     /\ Len(chats) = 1 => Len(reg.current) <= 1
     /\ Len(all) <= MaxBindings
     /\ Disjoint([reg EXCEPT !.bindings = all])
     /\ ReceiptsAreSound /\ MayBootstrap
     /\ registry' = [reg EXCEPT !.bindings = all,
                                !.current = [i \in DOMAIN chats |-> id(chats[i])]]
     /\ UNCHANGED <<workerFile, pool, receipt, nativeVars>>

ResetDirect ==
  /\ registry.present /\ registry.current # <<>>
  /\ Direct = {} /\ ReceiptsAreSound
  /\ registry' = [registry EXCEPT !.current = <<>>]
  /\ UNCHANGED <<workerFile, pool, receipt, nativeVars>>

\* core.save_worker: with a registry, the conversation is registered as a bridge
\* worker, then as a legacy one, then written to the worker file.
SaveWorker(c, n) ==
  /\ pool = {} /\ c # workerFile
  /\ ReceiptsAreSound /\ Legacy = {}
  /\ LET listed == [registry EXCEPT !.bridge = @ \cup {c}]
         reg    == [listed EXCEPT !.legacy = @ \cup {c}]
     IN IF registry.present
        THEN /\ Disjoint(reg)
             /\ IF n = 0 THEN RegisterThenWrite(listed, c, pool, 1)
                         ELSE RegisterThenWrite(reg, c, pool, n)
        ELSE n = 2 /\ RegisterThenWrite(registry, c, pool, n)
  /\ UNCHANGED <<receipt, nativeVars>>

\* core.reset_worker without force.
ResetWorker ==
  /\ pool = {} /\ workerFile # None
  /\ ReceiptsAreSound /\ Legacy = {}
  /\ workerFile' = None
  /\ UNCHANGED <<registry, pool, receipt, nativeVars>>

\* core.activate_worker_pool: unresolved legacy work keeps its worker.
ActivatePool(chats, n) ==
  /\ pool = {} /\ MayBootstrap
  /\ \A a \in Ids : Active(a) => RouteIsValid(a)
  /\ \A a \in Legacy : receipt[a].chat \in chats
  /\ LET reg == [Registry EXCEPT !.bridge = @ \cup chats]
     IN Disjoint(reg) /\ RegisterThenWrite(reg, workerFile, chats, n)
  /\ UNCHANGED <<receipt, nativeVars>>

----------------------------------------------------------------------------
(* Receipts                                                                 *)

Prepared(route, c, b, t, prior) ==
  [st |-> "prepared", route |-> route, chat |-> c, binding |-> b, task |-> t,
   prior |-> prior, count |-> 0, verified |-> "unset", correctable |-> FALSE,
   no_resend |-> FALSE, cooldown |-> "none", answer |-> None]

\* Mutated: a continuation goes to the first free current worker.
SelectedFree(prior, t) ==
  {b \in Bindings : \E i \in DOMAIN registry.current :
     registry.current[i] = b /\ registry.bindings[b] \notin Occupied}
\* The binding a direct preparation selects: a continuation's own, current or
\* retired, else the first current one that is free.
Selected(prior, t) ==
  IF prior # None
  THEN {b \in Bindings : /\ receipt[prior].route = "direct"
                         /\ receipt[prior].st = "complete"
                         /\ receipt[prior].task = t
                         /\ receipt[prior].binding = b
                         /\ receipt[prior].chat \notin Occupied}
  ELSE {b \in Bindings : \E i \in DOMAIN registry.current :
          /\ registry.current[i] = b
          /\ registry.bindings[b] \notin Occupied
          /\ \A j \in 1..(i - 1) :
               registry.bindings[registry.current[j]] \in Occupied}

PrepareDirect(a, t, prior) ==
  /\ receipt[a].st = "absent"
  /\ registry.present /\ ReceiptsAreSound
  /\ ~Cooling
  /\ Cardinality(Direct) < 2
  /\ \E b \in Selected(prior, t) :
       OnlyReceipt(a, Prepared("direct", registry.bindings[b], b, t, prior))

\* The single worker's preparation, as long as there is no registry.  It does
\* not ask which task the prior assignment belongs to.
PrepareLegacy(a, t, prior) ==
  /\ a \in Frail
  /\ receipt[a].st = "absent"
  /\ ~registry.present /\ pool = {} /\ workerFile # None
  /\ ReceiptsAreSound /\ Legacy = {}
  /\ ~Cooling
  /\ prior # None => /\ receipt[prior].st = "complete"
                     /\ receipt[prior].chat = workerFile
  /\ OnlyReceipt(a, Prepared("legacy", workerFile, 0, t, prior))

\* routes.guard: an unresolved receipt may be changed; migrated work that was
\* only prepared may just be abandoned.
Guarded(a) ==
  /\ RouteIsValid(a)
  /\ (receipt[a].route = "legacy" /\ registry.present) => receipt[a].st # "prepared"

\* Mutated: an armed receipt may be armed again.
ArmAgain(a) ==
  /\ receipt[a].st \in {"prepared", "armed"}
  /\ Guarded(a) /\ ReceiptsAreSound /\ ~Cooling
  /\ SetReceipt(a, [receipt[a] EXCEPT !.st = "armed", !.no_resend = TRUE])
  /\ grant' = [grant EXCEPT ![a] = "may"]
  /\ UNCHANGED <<filesVars, sends>>
\* core.arm_assignment, immediately before the one native send.
Arm(a) ==
  /\ receipt[a].st = "prepared"
  /\ Guarded(a) /\ ReceiptsAreSound /\ ~Cooling
  /\ SetReceipt(a, [receipt[a] EXCEPT !.st = "armed", !.no_resend = TRUE])
  /\ grant' = [grant EXCEPT ![a] = "may"]
  /\ UNCHANGED <<filesVars, sends>>

\* The send is not verified yet: its outbound read-back may be recorded once,
\* or once more to correct a reader's trailing newline.
Unverified(rec) ==
  \/ rec.st = "armed"
  \/ rec.st = "indeterminate" /\ rec.count = 0 /\ rec.no_resend
Correctable(rec) ==
  /\ rec.st = "indeterminate" /\ rec.count = 1
  /\ rec.no_resend /\ rec.verified = "false" /\ rec.correctable

Marked(rec, st, verified, correctable) ==
  [rec EXCEPT !.st = st, !.count = 1, !.verified = verified,
              !.correctable = correctable, !.no_resend = TRUE]

\* core.mark_submitted with the message of a as the history shows it.  Another
\* assignment's message is refused and changes nothing.
MarkSubmitted(a, seen) ==
  /\ sends[a] > 0 /\ (a \in Frail \/ seen = "exact")
  /\ Guarded(a)
  /\ \/ Unverified(receipt[a])
     \/ Correctable(receipt[a]) /\ seen = "exact"
  /\ OnlyReceipt(a, IF seen = "exact"
                    THEN Marked(receipt[a], "submitted", "true", FALSE)
                    ELSE Marked(receipt[a], "indeterminate", "false", seen = "newline"))

MarkPending(a) ==
  /\ receipt[a].st = "submitted"
  /\ Guarded(a)
  /\ OnlyReceipt(a, [receipt[a] EXCEPT !.st = "pending"])

\* core.mark_indeterminate and core.mark_ambiguous
MarkDoubt(a) ==
  /\ a \in Frail
  /\ receipt[a].st \in PostArm
  /\ Guarded(a)
  /\ OnlyReceipt(a, [receipt[a] EXCEPT !.st = "indeterminate", !.no_resend = TRUE])

\* core.mark_unusual_activity_403: one cooldown for a receipt.
MarkUnusual403(a) ==
  /\ a \in Frail
  /\ receipt[a].st \in PostArm
  /\ receipt[a].cooldown = "none"
  /\ Guarded(a)
  /\ OnlyReceipt(a, [receipt[a] EXCEPT !.st = "indeterminate",
                       !.no_resend = TRUE, !.cooldown = "active"])

CooldownEnds(a) ==
  /\ receipt[a].cooldown = "active"
  /\ OnlyReceipt(a, [receipt[a] EXCEPT !.cooldown = "over"])

Abandon(a) ==
  /\ Active(a) /\ RouteIsValid(a)
  /\ OnlyReceipt(a, [receipt[a] EXCEPT !.st = "abandoned"])

\* What a reader may take from the conversation as the answer to b: all of it,
\* or what there is so far.
Reply(b, whole) == IF whole THEN <<Marker(b), Text, Footer(b)>>
                   ELSE <<Marker(b), Text>>

\* Mutated: a framed answer will do, for a verified submission or not.
CompleteUnverified(a, b, whole) ==
  /\ receipt[a].st \in PostArm
  /\ Guarded(a)
  /\ receipt[b].chat = receipt[a].chat /\ sends[b] > 0
  /\ Accepted(Reply(b, whole), a, NoChunk)
  /\ OnlyReceipt(a, [receipt[a] EXCEPT !.st = "complete", !.no_resend = TRUE,
                       !.answer = IF whole THEN b ELSE None])
\* core.complete_assignment with a reply found in the conversation, which may
\* be unfinished or answer another assignment.
Complete(a, b, whole) ==
  /\ Active(a)
  /\ receipt[a].count = 1 /\ receipt[a].verified = "true"
  /\ receipt[b].chat = receipt[a].chat /\ sends[b] > 0
  /\ Guarded(a)
  /\ Accepted(Reply(b, whole), a, NoChunk)
  /\ OnlyReceipt(a, [receipt[a] EXCEPT !.st = "complete", !.no_resend = TRUE,
                       !.answer = IF whole THEN b ELSE None])

----------------------------------------------------------------------------
(* The task that armed                                                     *)

\* The native send: its message may arrive late or never, and its answer later.
Send(a) ==
  /\ grant[a] = "may"
  /\ grant' = [grant EXCEPT ![a] = "none"]
  /\ sends' = [sends EXCEPT ![a] = @ + 1]
  /\ UNCHANGED <<filesVars, receipt>>

\* The task is interrupted before its send, or never got the answer of its arm;
\* nobody takes the send over.
LoseTask(a) ==
  /\ grant[a] = "may"
  /\ grant' = [grant EXCEPT ![a] = "none"]
  /\ UNCHANGED <<filesVars, receipt, sends>>

----------------------------------------------------------------------------
WorkerLists == {<<c>> : c \in Chats} \cup
               {l \in Chats \X Chats : l[1] # l[2]}
Pools == {s \in SUBSET Chats : Cardinality(s) \in 1..2}

Setup ==
  \/ \E chats \in WorkerLists, relabelled \in {{}} \cup {{c} : c \in Chats} :
       Configure(chats, relabelled)
  \/ ResetDirect \/ ResetWorker
  \/ \E c \in Chats, n \in 0..2 : SaveWorker(c, n)
  \/ \E chats \in Pools, n \in 1..2 : ActivatePool(chats, n)

Dispatch(a) ==
  \/ \E t \in Tasks, prior \in (Ids \ {a}) \cup {None} :
       PrepareDirect(a, t, prior) \/ PrepareLegacy(a, t, prior)
  \/ \E seen \in {"exact", "newline", "altered"} : MarkSubmitted(a, seen)
  \/ Arm(a) \/ MarkPending(a) \/ MarkDoubt(a) \/ MarkUnusual403(a) \/ CooldownEnds(a) \/ Abandon(a)
  \/ \E b \in Ids, whole \in BOOLEAN : Complete(a, b, whole)
  \/ Send(a) \/ LoseTask(a)

Next == Setup \/ \E a \in Ids : Dispatch(a)

Spec == Init /\ [][Next]_vars

----------------------------------------------------------------------------
(* Properties                                                               *)

DirectTypeOK ==
  /\ registry \in [present : BOOLEAN, current : Seq(Bindings), bindings : Seq(Chats),
                   bridge : SUBSET Chats, legacy : SUBSET Chats]
  /\ Len(registry.bindings) <= MaxBindings
  /\ \A i \in DOMAIN registry.current : registry.current[i] \in DOMAIN registry.bindings
  /\ workerFile \in Chats \cup {None}
  /\ pool \subseteq Chats
  /\ receipt \in [Ids -> ReceiptType]
  /\ grant \in [Ids -> {"none", "may"}]
  /\ sends \in [Ids -> Nat]

\* No conversation serves two routes: one that was ever a direct worker is not
\* the legacy worker, a pool worker or registered as either, now or after any
\* configuration, reset or configuration that was cut short.
RoutesStayApart ==
  /\ BindingChats \cap (registry.bridge \cup registry.legacy \cup pool
                          \cup {workerFile}) = {}
  /\ \A a \in Ids : receipt[a].route = "direct" => receipt[a].chat \in BindingChats
  /\ pool # {} => registry.present /\ pool \subseteq registry.bridge

\* No change of the workers makes an unresolved receipt unreadable, and the
\* bounds hold that every call checks first: a receipt the checks refuse would
\* block every later dispatch, also its own abandonment.
ReceiptsStaySound == ReceiptsAreSound

\* A completed assignment was sent once, its delivery was verified, and the
\* answer recorded for it is the whole answer its own message got.
CompletedIsAnswered ==
  \A a \in Ids : receipt[a].st = "complete" =>
    /\ sends[a] = 1
    /\ receipt[a].verified = "true"
    /\ receipt[a].answer = a

\* A continuation goes on in the conversation, and for direct work under the
\* binding and for the task, of a completed assignment; never on the other
\* route, whatever was configured or migrated in between.
ContinuationStays ==
  \A a \in Ids : (receipt[a].st # "absent" /\ receipt[a].prior # None) =>
    LET p == receipt[receipt[a].prior] IN
      /\ p.st = "complete"
      /\ p.route = receipt[a].route /\ p.chat = receipt[a].chat
      /\ p.route = "direct" => p.binding = receipt[a].binding /\ p.task = receipt[a].task

\* What an unresolved assignment asks its worker for, at each of the sixteen
\* chunks, is what the parser takes (wrap_prompt and _parse_result); and what it
\* takes answers no other assignment or chunk, and is not the beginning of such
\* an answer.  A fact of the two forms alone, whatever the state.
FormsAgree == \A a \in Ids : Active(a) => a \in Understood \cap Unmistakable

Entry(rec) ==
  CASE rec.st = "complete"                    -> "complete"
    [] rec.st = "abandoned" /\ rec.no_resend  -> "withdrawn"
    [] rec.st = "abandoned" /\ ~rec.no_resend -> "dropped"
    [] rec.st \in PostArm                     -> "committed"
    [] OTHER                                  -> "open"
ledger == [a \in Ids |-> Entry(receipt[a])]

Abstract == INSTANCE SendOnce WITH Requests <- Ids

\* Assignments implement the same at-most-once ledger as the pool's requests:
\* also when a task dies after arming, when its answer is lost, and when the
\* work is abandoned while its send is on the way.
ImplementsSendOnce == Abstract!Spec
=============================================================================
