---------------------------- MODULE ListenerFence ----------------------------
(* The send fence of the listener (listener.py, resident.write and            *)
(* exclusion_proof).  A new owner generation may be given only workers that   *)
(* no evaluation of an earlier generation can still send to.  The proof of it *)
(* is the join its evaluation left, destinations it never had, or somebody's  *)
(* word that nothing runs any more.  A plan is made under the lock and        *)
(* committed under it later, when everything may have changed.                *)
(* PoolDispatch has the requests; here a slot is just free or not.            *)
EXTENDS Naturals, FiniteSets

CONSTANTS Workers,  \* worker conversations
          Packets,  \* plans and recovery evidences; a caller may retry one
          MaxGen,   \* bound on owner generations
          None      \* no packet

ASSUME FenceAssumption == MaxGen \in Nat \ {0} /\ None \notin Packets

Gens  == 1..MaxGen
Pools == {s \in SUBSET Workers : Cardinality(s) \in 1..2}

VARIABLES
  owner,       \* resident-owner.json
  evaluation,  \* generation -> the evaluation that serves its session
  may,         \* generation -> workers it armed for and has not sent to
  packet,      \* packet -> what it was planned from, and for
  acquired,    \* packet -> generations it created (observed)
  rebooted     \* did the machine boot after the last write of the owner?

vars == <<owner, evaluation, may, packet, acquired, rebooted>>

Phases      == {"idle", "reserved", "running", "inherited"}
Evaluations == {"none", "serving", "draining", "joined", "gone"}
Alive       == {"serving", "draining"}
AllIdle     == [w \in Workers |-> "idle"]
NoStartup   == [by |-> None, gen |-> 0]
NoOwner     == [version |-> 0, gen |-> 0, workers |-> {}, phase |-> AllIdle,
                session |-> FALSE, armed |-> FALSE, exposed |-> {},
                startup |-> NoStartup]
OldOwner(s, b) == [NoOwner EXCEPT !.version = 3, !.gen = 1, !.workers = s, !.session = b]
OwnerType   == [version : {0, 3, 4}, gen : 0..MaxGen, workers : SUBSET Workers,
                phase : [Workers -> Phases], session : BOOLEAN, armed : BOOLEAN,
                exposed : SUBSET Workers,
                startup : [by : Packets \cup {None}, gen : 0..MaxGen]]
NoPacket    == [planned |-> FALSE, expected |-> NoOwner, workers |-> {},
                physical |-> FALSE]
PacketType  == [planned : BOOLEAN, expected : OwnerType, workers : SUBSET Workers,
                physical : BOOLEAN]

\* A fresh installation, or an owner of the schema before the fence.
Init ==
  /\ \/ owner = NoOwner
     \/ \E s \in Pools, b \in BOOLEAN : owner = OldOwner(s, b)
  /\ evaluation = [g \in Gens |-> "none"]
  /\ may = [g \in Gens |-> {}]
  /\ packet = [p \in Packets |-> NoPacket]
  /\ acquired = [p \in Packets |-> {}]
  /\ rebooted = FALSE

----------------------------------------------------------------------------
(* The fence                                                                *)

\* resident.original_join: the evaluation left its completion barrier.
Joined == owner.session /\ evaluation[owner.gen] = "joined"

\* Mutated: settled work counts as joined.
UnjoinedIfBusy ==
  IF owner.armed /\ \E w \in owner.workers : owner.phase[w] # "idle"
  THEN owner.workers ELSE {}
\* The workers this generation adds to the exposed ones.
Unjoined == IF owner.armed /\ ~Joined THEN owner.workers ELSE {}

\* resident.exclusion_proof: the exposed workers of the next generation, one
\* for each way to prove the exclusion.  physical is bound to this very owner.
Exclusions(physical, targets) ==
  IF physical
  THEN IF owner.session /\ evaluation[owner.gen] = "serving" THEN {} ELSE {{}}
  ELSE IF owner.version = 4
  THEN {e \in {owner.exposed \cup Unjoined} : e \cap targets = {}}
  \* observed_reboot: the sessions of an older schema are over, not excluded
  ELSE {e \in {owner.workers} : /\ owner.version = 3 /\ owner.session /\ rebooted
                                /\ e \cap targets = {}}

Put(rec) == owner' = rec /\ rebooted' = FALSE

\* resident.write of a next generation: the fence starts anew.
Rotate(physical, targets, phase, startup) ==
  /\ owner.gen < MaxGen
  /\ \E exposed \in Exclusions(physical, targets) :
       Put([version |-> 4, gen |-> owner.gen + 1, workers |-> targets,
            phase |-> phase, session |-> FALSE, armed |-> FALSE,
            exposed |-> exposed, startup |-> startup])
  /\ UNCHANGED <<evaluation, may, packet>>

----------------------------------------------------------------------------
(* Rotations                                                                *)

Idle == owner.phase = AllIdle

\* listener.plan, or the evidence file of a recovery.  Who confirms physical
\* quiescence tells the truth of this moment.
Plan(p, targets, physical) ==
  /\ ~packet[p].planned
  /\ physical => \A g \in Gens : evaluation[g] \notin Alive
  /\ packet' = [packet EXCEPT ![p] = [planned |-> TRUE, expected |-> owner,
                                      workers |-> targets, physical |-> physical]]
  /\ UNCHANGED <<owner, evaluation, may, acquired, rebooted>>

\* Mutated: nothing is compared.
AnyState(p) == TRUE
\* The snapshot of the plan, by the hashes of the files.
Unchanged(p) == packet[p].expected = owner

AlreadyCommitted(p) ==
  owner.startup = [by |-> p, gen |-> owner.gen] /\ owner.gen > 0

\* listener.commit.  A retry that finds its own owner changes nothing.
Commit(p) ==
  /\ packet[p].planned
  /\ ~AlreadyCommitted(p)
  /\ Unchanged(p)
  /\ Idle
  /\ Rotate(packet[p].physical, packet[p].workers, AllIdle,
            [by |-> p, gen |-> owner.gen + 1])
  /\ acquired' = [acquired EXCEPT ![p] = @ \cup {owner.gen + 1}]

\* resident.recovery_start: what ran is inherited, what was reserved is kept.
Recover(p) ==
  /\ packet[p].planned /\ packet[p].physical
  /\ owner.version = 4
  /\ Unchanged(p)
  /\ Rotate(TRUE, owner.workers,
            [w \in Workers |-> IF owner.phase[w] = "running" THEN "inherited"
                               ELSE owner.phase[w]], owner.startup)
  /\ UNCHANGED acquired

\* control("start") by the owner's own task
Start ==
  /\ owner.version = 4 /\ ~owner.session
  /\ \A w \in Workers : owner.phase[w] # "running"
  /\ Rotate(FALSE, owner.workers, owner.phase, owner.startup)
  /\ UNCHANGED acquired

\* _commit_handoff by the owner's task to another one
Handoff ==
  /\ owner.version = 4 /\ Idle /\ Joined
  /\ Rotate(FALSE, owner.workers, AllIdle, owner.startup)
  /\ UNCHANGED acquired

\* _takeover_from_native by a task that found the owner's idle or deleted
Takeover ==
  /\ owner.version = 4
  /\ Rotate(FALSE, owner.workers,
            [w \in Workers |-> IF owner.phase[w] = "idle" THEN "idle"
                               ELSE "inherited"], owner.startup)
  /\ UNCHANGED acquired

----------------------------------------------------------------------------
(* Serving                                                                  *)

\* bind-session
Bind ==
  /\ owner.gen > 0 /\ ~owner.session
  /\ evaluation[owner.gen] = "none"
  /\ Put([owner EXCEPT !.session = TRUE])
  /\ UNCHANGED <<evaluation, may, packet, acquired>>

\* replace-unused-serving: an armed session is not detached.
Detach ==
  /\ owner.session /\ Idle /\ ~owner.armed
  /\ evaluation[owner.gen] = "none"
  /\ Put([owner EXCEPT !.session = FALSE])
  /\ UNCHANGED <<evaluation, may, packet, acquired>>

Evaluate(g, state) ==
  /\ evaluation' = [evaluation EXCEPT ![g] = state]
  /\ UNCHANGED <<owner, packet, acquired, rebooted>>

\* Who confirms quiescence for an owner of the older schema undertakes not to
\* resume it; a fenced owner needs no such promise.
Resumable == owner.version = 3 => \A p \in Packets : ~packet[p].physical

\* A session is served once.
Serve ==
  /\ owner.gen > 0 /\ owner.session /\ evaluation[owner.gen] = "none"
  /\ Resumable
  /\ Evaluate(owner.gen, "serving") /\ UNCHANGED may

\* The socket closes; the runners of the evaluation go on.
Drain(g) ==
  evaluation[g] = "serving" /\ Evaluate(g, "draining") /\ UNCHANGED may

\* The serving call returned: every runner was awaited.
Join(g) ==
  /\ evaluation[g] = "draining" /\ may[g] = {}
  /\ Evaluate(g, "joined") /\ UNCHANGED may

Lose(g) ==
  /\ evaluation[g] \in Alive
  /\ Evaluate(g, "gone") /\ may' = [may EXCEPT ![g] = {}]

\* The machine restarts.
Reboot ==
  /\ evaluation' = [g \in Gens |-> IF evaluation[g] \in Alive THEN "gone"
                                   ELSE evaluation[g]]
  /\ may' = [g \in Gens |-> {}]
  /\ rebooted' = TRUE
  /\ UNCHANGED <<owner, packet, acquired>>

Reserve(w) ==
  /\ owner.gen > 0 /\ w \in owner.workers
  /\ evaluation[owner.gen] = "serving"
  /\ owner.phase[w] = "idle"
  /\ Put([owner EXCEPT !.phase[w] = "reserved"])
  /\ UNCHANGED <<evaluation, may, packet, acquired>>

Running(w) == [owner EXCEPT !.phase[w] = "running", !.armed = (owner.version = 4)]

\* resident.mark_running, with the receipt armed: the evaluation may send now.
Arm(w) ==
  /\ owner.gen > 0 /\ w \in owner.workers
  /\ evaluation[owner.gen] \in Alive
  /\ owner.phase[w] = "reserved"
  /\ Put(Running(w))
  /\ may' = [may EXCEPT ![owner.gen] = @ \cup {w}]
  /\ UNCHANGED <<evaluation, packet, acquired>>

\* The native send asks nobody.
Send(g, w) ==
  /\ w \in may[g]
  /\ may' = [may EXCEPT ![g] = @ \ {w}]
  /\ UNCHANGED <<owner, evaluation, packet, acquired, rebooted>>

\* end, settle: the receipt is settled.  It says nothing of the execution: work
\* may be given up while its send is on the way.
Settle(w) ==
  /\ owner.phase[w] # "idle"
  /\ Put([owner EXCEPT !.phase[w] = "idle"])
  /\ UNCHANGED <<evaluation, may, packet, acquired>>

----------------------------------------------------------------------------
Rotation ==
  \/ \E p \in Packets, s \in Pools, b \in BOOLEAN : Plan(p, s, b)
  \/ \E p \in Packets : Commit(p) \/ Recover(p)
  \/ Start \/ Handoff \/ Takeover

Service ==
  \/ Bind \/ Detach \/ Serve \/ Reboot
  \/ \E g \in Gens : Drain(g) \/ Join(g) \/ Lose(g) \/ \E w \in Workers : Send(g, w)
  \/ \E w \in Workers : Reserve(w) \/ Arm(w) \/ Settle(w)

Next == Rotation \/ Service

Spec == Init /\ [][Next]_vars

----------------------------------------------------------------------------
(* Properties                                                               *)

\* Types; only an owner of the fence's schema is armed, with its session.
FenceTypeOK ==
  /\ owner \in OwnerType
  /\ owner.armed => owner.version = 4 /\ owner.session
  /\ \A w \in Workers \ owner.workers : owner.phase[w] = "idle"
  /\ evaluation \in [Gens -> Evaluations]
  /\ may \in [Gens -> SUBSET Workers]
  /\ packet \in [Packets -> PacketType]
  /\ acquired \in [Packets -> SUBSET Gens]
  /\ rebooted \in BOOLEAN

\* A worker of the current pool gets no message from an evaluation of an
\* earlier generation any more, however that generation came to its end and
\* whatever was settled, confirmed or planned in between.
SenderIsExcluded ==
  owner.version = 4 =>
    \A g \in Gens : g < owner.gen => may[g] \cap owner.workers = {}

\* A start packet creates one generation, however often and late it is retried
\* and whoever rotated the owner in between.
OneOwnerPerPacket ==
  \A p \in Packets : \A g, h \in acquired[p] : g = h
=============================================================================
