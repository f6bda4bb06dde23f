---------------------------- MODULE Supervision ----------------------------
(* The Stop hook of resident-supervision.mjs and what it races.  A turn of   *)
(* the listener task may finish only when the hook releases it; the hook is  *)
(* a process of its own that reads the owner, the status and the artifacts   *)
(* of earlier Stops one after the other, without the state lock, while the   *)
(* turn's evaluation (its cell) acquires the owner, qualifies, opens, binds  *)
(* and serves, and while the owner may be recovered or taken over.  One file *)
(* operation or one locked helper command is one action.                     *)
EXTENDS Naturals, FiniteSets

CONSTANTS MaxTurn,  \* bound on the turns of the task
          MaxGen,   \* bound on owner generations
          None

ASSUME SupervisionAssumption == {MaxTurn, MaxGen} \subseteq Nat \ {0}

Turns == 1..MaxTurn
Gens  == 1..MaxGen

VARIABLES
  owner,     \* resident-owner.json, as far as a Stop depends on it
  terminal,  \* generation -> was the owner bound in its terminal record?
  joined,    \* generations whose serving evaluation recorded its end
  turn,      \* the turn the task runs
  again,     \* did the hook block this turn before (stop_hook_active)?
  cell,      \* turn -> its evaluation
  probe,     \* turn -> challenge and observed slot of its qualification
  pending,   \* <<turn, generation>> -> what the first Stop of it saw
  asked,     \* <<turn, generation>> told to recover by an other-turn marker
  hook       \* turn -> its Stop process
vars == <<owner, terminal, joined, turn, again, cell, probe, pending, asked,
          hook>>
fileVars == <<terminal, joined, pending, asked>>

----------------------------------------------------------------------------
(* The owner: the turn is the one whose startup acquired this generation, 0  *)
(* for any other acquisition.  The work is the liveliest of its slots:       *)
(* running has an invocation, retained is one inherited request with its     *)
(* receipt, and inherited is inherited work of any other shape (prepared or  *)
(* cancelled requests, or two receipts), which the idle proof refuses.       *)
Work  == {"none", "retained", "inherited", "running"}
Owner == [gen : Gens, mine : BOOLEAN, turn : {0} \cup Turns,
          bound : BOOLEAN, work : Work]
Active(w) == w # "none"
AfterFencing(w) == IF w = "running" THEN {"retained", "inherited"} ELSE {w}

Record     == {"none", "unbound", "bound"}
RecordOf(o) == IF o.bound THEN "bound" ELSE "unbound"
\* Every resident command first compares the terminal record with the owner.
Readable == terminal[owner.gen] \in {"none", RecordOf(owner)}
Detached == terminal[owner.gen] # "none"
\* Mutated: control no longer refuses a detached owner.
CommandsWhenRead == Readable
Commands == Readable /\ ~Detached

CellPCs == {"idle", "acquired", "armed", "qualified", "held", "serving",
            "ended", "timedout"}
NoCell  == [pc |-> "idle", gen |-> 0, startup |-> FALSE]
Probes  == {"absent", "open", "stop", "timeout"}
HookPCs == {"none", "status", "probe", "recheck", "link", "confirm", "joined",
            "other", "released"}
Seen    == [owner : Owner \cup {None}, active : BOOLEAN]
Nothing == [owner |-> None, active |-> FALSE]
NoHook  == [pc |-> "none", again |-> FALSE, seen |-> Nothing]
Now     == [owner |-> owner, active |-> Active(owner.work)]

Init ==
  /\ \E w \in {"none", "retained", "inherited"} :
       owner = [gen |-> 1, mine |-> TRUE, turn |-> 0, bound |-> FALSE,
                work |-> w]
  /\ terminal = [g \in Gens |-> "none"]
  /\ joined = {}
  /\ turn = 1
  /\ again = FALSE
  /\ cell = [t \in Turns |-> NoCell]
  /\ probe = [t \in Turns |-> "absent"]
  /\ pending = [k \in Turns \X Gens |-> Nothing]
  /\ asked = {}
  /\ hook = [t \in Turns |-> NoHook]

----------------------------------------------------------------------------
(* The evaluation of a turn.                                                 *)

CellAt(t, pc) == t <= turn /\ cell[t].pc = pc
Goes(t, pc)   == cell' = [cell EXCEPT ![t].pc = pc]
Owned(t)      == owner.mine /\ owner.gen = cell[t].gen

\* listener commit: only an idle pool, but whatever the terminal record says.
Commit(t) ==
  /\ CellAt(t, "idle") /\ probe[t] = "absent"
  /\ owner.work = "none" /\ owner.gen < MaxGen
  /\ owner' = [gen |-> owner.gen + 1, mine |-> TRUE, turn |-> t,
               bound |-> FALSE, work |-> "none"]
  /\ cell' = [cell EXCEPT ![t] = [pc |-> "acquired", gen |-> owner.gen + 1,
                                  startup |-> TRUE]]
  /\ UNCHANGED <<fileVars, turn, again, probe, hook>>

\* prepareResidentSupervision: the challenge, then the waiter and deadline.  A
\* resident packet made from the owner as it is needs no acquisition first.
Prepare(t) ==
  /\ Readable /\ owner.work # "running"
  /\ \/ CellAt(t, "acquired") /\ Goes(t, "armed")
     \/ CellAt(t, "idle") /\ owner.mine
        /\ cell' = [cell EXCEPT ![t] = [pc |-> "armed", gen |-> owner.gen,
                                        startup |-> FALSE]]
  /\ probe' = [probe EXCEPT ![t] = "open"]
  /\ UNCHANGED <<owner, fileVars, turn, again, hook>>

\* Mutated: the record is renamed into place, so the last writer wins.
LinkedOver(t, what) == what
\* The link into the observed slot, which one of Stop and deadline wins.
Linked(t, what) == IF probe[t] = "open" THEN what ELSE probe[t]

Expire(t) ==
  /\ CellAt(t, "armed") /\ probe[t] = "open"
  /\ probe' = [probe EXCEPT ![t] = Linked(t, "timeout")]
  /\ UNCHANGED <<owner, fileVars, turn, again, cell, hook>>

Decide(t) ==
  /\ CellAt(t, "armed") /\ probe[t] \in {"stop", "timeout"}
  /\ Goes(t, IF probe[t] = "stop" THEN "qualified" ELSE "timedout")
  /\ UNCHANGED <<owner, fileVars, turn, again, probe, hook>>

\* Mutated: bind-session accepts an owner that has a session.
OpenableAgain(t) == Commands /\ Owned(t) /\ owner.work # "running"
Openable(t) == Commands /\ Owned(t) /\ ~owner.bound /\ owner.work # "running"

\* openResident.  A startup opens the generation it acquired; any other start
\* rotates the owner first, unless every slot is inherited and it collects.
Start(t) ==
  /\ CellAt(t, "qualified") /\ ~cell[t].startup /\ probe[t] = "stop"
  /\ Openable(t) /\ owner.gen < MaxGen
  /\ owner' = [owner EXCEPT !.gen = @ + 1, !.turn = 0]
  /\ cell' = [cell EXCEPT ![t].pc = "held", ![t].gen = owner.gen + 1]
  /\ UNCHANGED <<fileVars, turn, again, probe, hook>>

Bind(t) ==
  /\ \/ CellAt(t, "held")
     \/ CellAt(t, "qualified") /\ probe[t] = "stop"
        /\ (cell[t].startup \/ owner.work # "none")
  /\ Openable(t)
  /\ owner' = [owner EXCEPT !.bound = TRUE]
  /\ Goes(t, "serving")
  /\ UNCHANGED <<fileVars, turn, again, probe, hook>>

\* begin of a request; end of it, or of an inherited one that is collected.
DoWork(t) ==
  /\ CellAt(t, "serving") /\ Owned(t) /\ Commands
  /\ \/ /\ owner.work \in {"none", "inherited"}
        /\ owner' = [owner EXCEPT !.work = "running"]
     \/ /\ owner.work # "none"
        /\ owner' = [owner EXCEPT !.work = "none"]
  /\ UNCHANGED <<fileVars, turn, again, cell, probe, hook>>

\* recordResidentJoined looks at its own session only, not at the owner.
Join(t) ==
  /\ CellAt(t, "serving")
  /\ cell' = [cell EXCEPT ![t] = [NoCell EXCEPT !.pc = "ended"]]
  /\ joined' = joined \cup {cell[t].gen}
  /\ UNCHANGED <<owner, terminal, pending, asked, turn, again, probe, hook>>

\* An evaluation that fails or is lost takes no more steps.
CellStep(t) ==
  \/ Commit(t) \/ Prepare(t) \/ Expire(t) \/ Decide(t)
  \/ Start(t) \/ Bind(t) \/ DoWork(t) \/ Join(t)

----------------------------------------------------------------------------
(* Replacement of the owner by others.                                       *)

Fenced(mine, w) == [gen |-> owner.gen + 1, mine |-> mine, turn |-> 0,
                    bound |-> FALSE, work |-> w]

RecoverStart ==
  /\ Readable /\ owner.gen < MaxGen
  /\ \E w \in AfterFencing(owner.work) : owner' = Fenced(owner.mine, w)
  /\ UNCHANGED <<fileVars, turn, again, cell, probe, hook>>

\* A native takeover or handoff to another task, or back from it.
Takeover ==
  /\ owner.gen < MaxGen
  /\ \E w \in AfterFencing(owner.work) : owner' = Fenced(~owner.mine, w)
  /\ UNCHANGED <<fileVars, turn, again, cell, probe, hook>>

----------------------------------------------------------------------------
(* The Stop hook of turn t.                                                  *)

HookAt(t, pc) == hook[t].pc = pc
HookGoes(t, pc) == hook' = [hook EXCEPT ![t].pc = pc]
Release(t) ==
  /\ hook' = [hook EXCEPT ![t] = [NoHook EXCEPT !.pc = "released"]]
  /\ UNCHANGED again
\* The host continues a blocked turn, and its next Stop knows it.
Block(t) ==
  /\ hook' = [hook EXCEPT ![t] = NoHook]
  /\ again' = IF t = turn THEN TRUE ELSE again
Quiet == UNCHANGED <<owner, joined, turn, cell>>

\* One Stop at a time in a turn.  Its first read that matters is the owner.
Inspect(t) ==
  /\ t = turn /\ HookAt(t, "none")
  /\ \/ Readable /\ UNCHANGED again
        /\ hook' = [hook EXCEPT ![t] =
             [pc |-> "status", again |-> again,
              seen |-> [owner |-> owner, active |-> FALSE]]]
     \/ ~Readable /\ Block(t)
  /\ Quiet /\ UNCHANGED <<terminal, pending, asked, probe>>

ReadStatus(t) ==
  /\ HookAt(t, "status")
  /\ hook' = [hook EXCEPT ![t].pc = "probe",
                          ![t].seen.active = Active(owner.work)]
  /\ Quiet /\ UNCHANGED <<terminal, pending, asked, again, probe>>

\* Which evidence a Stop needs, from what the hook has seen: nothing if the
\* owner is another's, the timed-out acquisition or an owner nobody serves as
\* they were, the end of a busy generation, or its joined marker.
ThisAcquisition(t) == LET o == hook[t].seen.owner IN
  /\ cell[t].startup /\ o.gen = cell[t].gen /\ o.turn = t
  /\ ~o.bound /\ o.work = "none" /\ ~hook[t].seen.active
Unserved(o)   == ~o.bound /\ o.work \in {"none", "retained"}
Provenance(s) == s.active => s.owner.work = "retained"
Busy(s)       == s.owner.work # "none" \/ s.active
Needs(t) == LET s == hook[t].seen IN
  CASE ~s.owner.mine          -> "released"
    [] probe[t] = "timeout"   -> IF ThisAcquisition(t) THEN "recheck"
                                 ELSE "block"
    [] Unserved(s.owner)      -> IF Provenance(s) THEN "recheck" ELSE "block"
    [] Busy(s)                -> "link"
    [] OTHER                  -> "joined"

\* The first Stop of a challenged turn is the observation it waits for, and
\* blocks; any other is judged by what it has seen.
Judge(t) ==
  /\ HookAt(t, "probe")
  /\ probe' = [probe EXCEPT ![t] = Linked(t, "stop")]
  /\ IF probe[t] = "open" \/ Needs(t) = "block" THEN Block(t)
     ELSE IF Needs(t) = "released" THEN Release(t)
     ELSE HookGoes(t, Needs(t)) /\ UNCHANGED again
  /\ Quiet /\ UNCHANGED <<terminal, pending, asked>>

\* Mutated: the evidence of the first look is enough.
SeenOnce(t)  == Readable
\* A proof releases the turn only if what it was made from still stands.
StillSeen(t) == Readable /\ hook[t].seen = Now
SameOwner(t) == Readable /\ hook[t].seen.owner = owner

Recheck(t) ==
  /\ HookAt(t, "recheck")
  /\ IF StillSeen(t) THEN Release(t) ELSE Block(t)
  /\ Quiet /\ UNCHANGED <<terminal, pending, asked, probe>>

\* terminalStop: the first Stop leaves what it saw, a continuation that sees
\* the same detaches the generation, and then looks at the owner again.
Repeated(t) ==
  /\ pending[<<t, hook[t].seen.owner.gen>>] = hook[t].seen
  /\ hook[t].again

Link(t) == LET o == hook[t].seen.owner
               k == <<t, o.gen>> IN
  /\ HookAt(t, "link")
  /\ pending' = [pending EXCEPT ![k] =
                   IF @ = Nothing THEN hook[t].seen ELSE @]
  /\ \/ /\ Repeated(t) /\ terminal[o.gen] \in {"none", RecordOf(o)}
        /\ terminal' = [terminal EXCEPT ![o.gen] = RecordOf(o)]
        /\ HookGoes(t, "confirm") /\ UNCHANGED again
     \/ /\ ~(Repeated(t) /\ terminal[o.gen] \in {"none", RecordOf(o)})
        /\ Block(t) /\ UNCHANGED terminal
  /\ Quiet /\ UNCHANGED <<asked, probe>>

Confirm(t) ==
  /\ HookAt(t, "confirm")
  /\ IF StillSeen(t) THEN Release(t) ELSE Block(t)
  /\ Quiet /\ UNCHANGED <<terminal, pending, asked, probe>>

\* joinedProof, or the rule for a turn other than the serving one.
ServedElsewhere(t) == hook[t].seen.owner.turn \notin {0, t}

JoinedProof(t) ==
  /\ HookAt(t, "joined")
  /\ \/ /\ hook[t].seen.owner.gen \in joined /\ SameOwner(t)
        /\ Release(t)
     \/ /\ ~(hook[t].seen.owner.gen \in joined /\ SameOwner(t))
        /\ IF ServedElsewhere(t)
           THEN HookGoes(t, "other") /\ UNCHANGED again
           ELSE Block(t)
  /\ Quiet /\ UNCHANGED <<terminal, pending, asked, probe>>

OtherTurn(t) == LET k == <<t, hook[t].seen.owner.gen>> IN
  /\ HookAt(t, "other")
  /\ asked' = IF SameOwner(t) THEN asked \cup {k} ELSE asked
  /\ IF SameOwner(t) /\ k \in asked /\ hook[t].again
     THEN Release(t) ELSE Block(t)
  /\ Quiet /\ UNCHANGED <<terminal, pending, probe>>

HookStep(t) ==
  \/ Inspect(t) \/ ReadStatus(t) \/ Judge(t) \/ Recheck(t) \/ Link(t)
  \/ Confirm(t) \/ JoinedProof(t) \/ OtherTurn(t)

\* A released turn is over; the user or a restart may end any turn, and its
\* Stop process, if one runs, may still write what it was about to write.
EndTurn ==
  /\ turn < MaxTurn
  /\ hook[turn].pc \in {"none", "link", "released"}
  /\ turn' = turn + 1
  /\ again' = FALSE
  /\ hook' = [hook EXCEPT ![turn] = IF HookAt(turn, "released") THEN NoHook
                                    ELSE @]
  /\ UNCHANGED <<owner, fileVars, cell, probe>>

Next ==
  \/ \E t \in Turns : CellStep(t) \/ HookStep(t)
  \/ RecoverStart \/ Takeover
  \/ EndTurn

Spec == Init /\ [][Next]_vars

----------------------------------------------------------------------------
(* Properties.                                                               *)

SupTypeOK ==
  /\ owner \in Owner
  /\ terminal \in [Gens -> Record]
  /\ joined \subseteq Gens
  /\ turn \in Turns /\ again \in BOOLEAN
  /\ cell \in [Turns -> [pc : CellPCs, gen : {0} \cup Gens,
                         startup : BOOLEAN]]
  /\ probe \in [Turns -> Probes]
  /\ pending \in [Turns \X Gens -> Seen]
  /\ asked \subseteq Turns \X Gens
  /\ hook \in [Turns -> [pc : HookPCs, again : BOOLEAN, seen : Seen]]

\* However the Stop and the deadline race, one record decides for both: an
\* evaluation goes on exactly when the Stop won, and nothing written later
\* turns a timeout into a qualification or takes a qualification back.
StopAndDeadlineAgree == \A t \in Turns :
  /\ cell[t].pc \in {"qualified", "held", "serving", "ended"}
       => probe[t] = "stop"
  /\ cell[t].pc = "timedout" => probe[t] = "timeout"

Serves(t)   == cell[t].pc = "serving" /\ Owned(t)
Released(t) == hook[t].pc # "released" /\ hook'[t].pc = "released"
\* A turn is not let go while its own evaluation serves the owner, nor while
\* the task's owner has live work, unless that generation was detached before,
\* although the hook read its evidence piece by piece and without a lock.
ReleaseIsFenced ==
  [][\A t \in Turns :
       Released(t) /\ (Serves(t) \/ (owner.mine /\ owner.work = "running"))
         => Detached]_vars

\* A detached generation never starts anything again: it binds no session and
\* begins no request, also when the detaching hook and the evaluation raced.
DetachedStartsNothing ==
  [][Detached /\ owner'.gen = owner.gen
       => /\ owner'.bound = owner.bound
          /\ owner'.work = "running" => owner.work = "running"]_vars

\* The joined marker that lets a turn go speaks of an evaluation that is over:
\* no other evaluation, of this or a later turn, serves that generation.
JoinedIsOver == \A t \in Turns :
  cell[t].pc = "serving" => cell[t].gen \notin joined

\* What control's message and its exception for recover-start say: a detached
\* owner can be recovered explicitly, so its record can always be read.
DetachedIsRecoverable == Detached => Readable
============================================================================
