------------------------- MODULE SupervisionProofs -------------------------
(* Proofs about the Stop hook, for every number of turns and generations.    *)
EXTENDS Supervision, TLAPS

----------------------------------------------------------------------------
(* The strengthening.                                                        *)

\* Every generation an evaluation has is one the owner has had.
CellsFollowOwner == \A t \in Turns :
  /\ cell[t].gen <= owner.gen
  /\ cell[t].pc \notin {"idle", "ended"} => cell[t].gen # 0

\* A generation is served only once it is bound, by one evaluation, and after
\* its joined marker by none; it is never bound a second time.
ServedWhenBound == \A t \in Turns :
  cell[t].pc = "serving" /\ cell[t].gen = owner.gen => owner.bound
JoinedWhenBound ==
  \A g \in joined : g <= owner.gen /\ (g = owner.gen => owner.bound)
ServedOnce == \A t, u \in Turns :
  /\ cell[t].pc = "serving" /\ cell[u].pc = "serving"
  /\ cell[t].gen = cell[u].gen
  => t = u

\* Only the turn that acquired a generation serves it, unless it was rotated.
StartupIsOwners == \A t \in Turns :
  cell[t].startup /\ cell[t].gen = owner.gen => owner.turn = t
HeldIsRotated == \A t \in Turns :
  cell[t].pc = "held" /\ cell[t].gen = owner.gen => owner.turn = 0
AcquiredIsIdle == owner.turn # 0 /\ ~owner.bound => owner.work = "none"
ServedByItsTurn == \A t \in Turns :
  cell[t].pc = "serving" /\ cell[t].gen = owner.gen => owner.turn \in {0, t}

\* What a Stop process has gathered when it comes to its last look.
Looking  == {"status", "probe"}
Evidence == \A t \in Turns : LET s == hook[t].seen
                                 o == hook[t].seen.owner IN
  /\ hook[t].pc \notin {"none", "released"} => o \in Owner
  /\ hook[t].pc = "recheck" => ~o.bound /\ o.work # "running"
  /\ hook[t].pc = "confirm" => terminal[o.gen] # "none"
  /\ hook[t].pc \in {"joined", "other"} => o.work # "running"
  /\ hook[t].pc = "other" => o.turn \notin {0, t}

\* A Stop that saw another's owner may find the task's own by the time it lets
\* the turn go, but nothing can qualify in between: qualifying takes a Stop of
\* the current turn, and that is this one.
Lags(t) == hook[t].pc \in Looking /\ ~hook[t].seen.owner.mine
NotYet(u) == \/ cell[u].pc \in {"acquired", "timedout"}
             \/ cell[u].pc = "armed" /\ probe[u] \in {"open", "timeout"}
NothingQualified == \A t \in Turns : Lags(t) =>
  LET g == hook[t].seen.owner.gen IN
  /\ g <= owner.gen
  /\ owner.gen = g => ~owner.mine
  /\ owner.gen > g => owner.work # "running"
  /\ \A u \in Turns : cell[u].gen > g => NotYet(u)
OneStop == \A t \in Turns : hook[t].pc \in Looking => t = turn

CellInv ==
  /\ StopAndDeadlineAgree
  /\ CellsFollowOwner
  /\ ServedWhenBound /\ JoinedWhenBound /\ ServedOnce /\ JoinedIsOver
  /\ StartupIsOwners /\ HeldIsRotated /\ AcquiredIsIdle /\ ServedByItsTurn
HookInv == Evidence /\ OneStop /\ NothingQualified
SupInv  == SupTypeOK /\ CellInv /\ HookInv

----------------------------------------------------------------------------
(* Types                                                                     *)

HookType == [pc : HookPCs, again : BOOLEAN, seen : Seen]
CellType == [pc : CellPCs, gen : {0} \cup Gens, startup : BOOLEAN]

\* Owners that follow an owner are owners.
LEMMA NextGeneration ==
  ASSUME SupTypeOK, owner.gen < MaxGen
  PROVE  owner.gen + 1 \in Gens
BY SupervisionAssumption DEF SupTypeOK, Owner, Gens

\* A fenced owner is an owner, whatever of its work is retained.
LEMMA FencedIsOwner ==
  ASSUME SupTypeOK, owner.gen < MaxGen,
         NEW mine \in BOOLEAN, NEW w \in AfterFencing(owner.work)
  PROVE  Fenced(mine, w) \in Owner
<1>1. w \in Work
  BY DEF SupTypeOK, Owner, AfterFencing, Work
<1>2. QED
  BY <1>1, NextGeneration DEF Owner, Fenced

\* An evaluation that moves keeps its generation, and only it moves.
LEMMA CellMoves ==
  ASSUME SupTypeOK, NEW t \in Turns, NEW pc \in CellPCs, Goes(t, pc)
  PROVE  /\ cell' \in [Turns -> CellType]
         /\ cell'[t].pc = pc
         /\ cell'[t].gen = cell[t].gen /\ cell'[t].startup = cell[t].startup
         /\ \A u \in Turns : u # t => cell'[u] = cell[u]
BY DEF SupTypeOK, Goes, CellType

\* A Stop process that moves is still one, and only it moves.
LEMMA HookMoves ==
  ASSUME SupTypeOK, NEW t \in Turns, NEW pc \in HookPCs, HookGoes(t, pc)
  PROVE  /\ hook' \in [Turns -> HookType]
         /\ hook'[t].pc = pc /\ hook'[t].seen = hook[t].seen
         /\ \A u \in Turns : u # t => hook'[u] = hook[u]
BY DEF SupTypeOK, HookGoes, HookType

\* A Stop process that releases or blocks is over; no other moves.
LEMMA HookRests ==
  ASSUME SupTypeOK, NEW t \in Turns, Release(t) \/ Block(t)
  PROVE  /\ hook' \in [Turns -> HookType] /\ again' \in BOOLEAN
         /\ hook'[t].pc = IF Release(t) THEN "released" ELSE "none"
         /\ \A u \in Turns : u # t => hook'[u] = hook[u]
<1>1. NoHook \in HookType
  BY DEF NoHook, Nothing, HookType, HookPCs, Seen
<1>2. [NoHook EXCEPT !.pc = "released"] \in HookType
  BY <1>1 DEF HookType, HookPCs
<1>3. CASE Release(t)
  BY <1>2, <1>3 DEF SupTypeOK, Release, HookType, NoHook
<1>4. CASE Block(t)
  <2>1. hook'[t] = NoHook
    BY <1>4 DEF SupTypeOK, Block
  <2>2. Release(t) => hook'[t] = [NoHook EXCEPT !.pc = "released"]
    BY DEF SupTypeOK, Release
  <2>3. ~Release(t)
    BY <2>1, <2>2 DEF NoHook
  <2>4. QED
    BY <1>1, <1>4, <2>1, <2>3 DEF SupTypeOK, Block, HookType, NoHook
<1>5. QED
  BY <1>3, <1>4

\* Blocking leaves no process and releases nothing.
LEMMA BlockedIsNotReleased ==
  ASSUME SupTypeOK, NEW t \in Turns, Block(t)
  PROVE  hook'[t].pc = "none"
BY DEF SupTypeOK, Block, NoHook

\* Types hold at the start, and every step keeps them.
LEMMA TypeInit == Init => SupTypeOK
<1>1. NoHook \in HookType
  BY DEF NoHook, Nothing, HookType, HookPCs, Seen
<1>2. NoCell \in CellType
  BY DEF NoCell, CellType, CellPCs
<1>3. 1 \in Turns /\ 1 \in Gens
  BY SupervisionAssumption DEF Turns, Gens
<1>4. SUFFICES ASSUME Init PROVE SupTypeOK
  OBVIOUS
<1>5. owner \in Owner
  BY <1>3, <1>4 DEF Init, Owner, Work
<1>6. terminal \in [Gens -> Record] /\ joined \subseteq Gens
  BY <1>4 DEF Init, Record
<1>7. pending \in [Turns \X Gens -> Seen] /\ asked \subseteq Turns \X Gens
  BY <1>4 DEF Init, Nothing, Seen
<1>8. cell \in [Turns -> CellType] /\ hook \in [Turns -> HookType]
  BY <1>1, <1>2, <1>4 DEF Init
<1>9. turn \in Turns /\ again \in BOOLEAN /\ probe \in [Turns -> Probes]
  BY <1>3, <1>4 DEF Init, Probes
<1>10. QED
  BY <1>5, <1>6, <1>7, <1>8, <1>9 DEF SupTypeOK, CellType, HookType

\* Evaluations keep types, since one at work has a generation.
LEMMA TypeCell ==
  ASSUME SupTypeOK, CellsFollowOwner, NEW t \in Turns, CellStep(t)
  PROVE  SupTypeOK'
<1>1. CASE Commit(t)
  <2>1. owner' \in Owner /\ cell' \in [Turns -> CellType]
    BY <1>1, NextGeneration DEF SupTypeOK, Commit, CellAt, Owner, Work,
                                CellType, CellPCs
  <2>2. QED
    BY <1>1, <2>1 DEF SupTypeOK, Commit, fileVars, CellType
<1>2. CASE Prepare(t)
  <2>1. cell' \in [Turns -> CellType]
    <3>1. "armed" \in CellPCs
      BY DEF CellPCs
    <3>2. CASE Goes(t, "armed")
      BY <3>1, <3>2, CellMoves
    <3>3. CASE ~Goes(t, "armed")
      <4>1. [pc |-> "armed", gen |-> owner.gen, startup |-> FALSE] \in CellType
        BY <3>1 DEF SupTypeOK, Owner, CellType
      <4>2. QED
        BY <1>2, <3>3, <4>1 DEF SupTypeOK, Prepare, CellType
    <3>4. QED
      BY <3>2, <3>3
  <2>2. probe' \in [Turns -> Probes]
    BY <1>2 DEF SupTypeOK, Prepare, Probes
  <2>3. QED
    BY <1>2, <2>1, <2>2 DEF SupTypeOK, Prepare, fileVars, CellType
<1>3. CASE Expire(t)
  BY <1>3 DEF SupTypeOK, Expire, Linked, Probes, fileVars
<1>4. CASE Decide(t)
  <2>1. {"qualified", "timedout"} \subseteq CellPCs
    BY DEF CellPCs
  <2>2. cell' \in [Turns -> CellType]
    BY <1>4, <2>1, CellMoves DEF Decide
  <2>3. QED
    BY <1>4, <2>2 DEF SupTypeOK, Decide, fileVars, CellType
<1>5. CASE Start(t)
  <2>1. owner' \in Owner
    BY <1>5, NextGeneration DEF SupTypeOK, Start, Owner
  <2>2. "held" \in CellPCs
    BY DEF CellPCs
  <2>3. cell' \in [Turns -> CellType]
    BY <1>5, <2>2, NextGeneration DEF SupTypeOK, Start, CellType
  <2>4. QED
    BY <1>5, <2>1, <2>3 DEF SupTypeOK, Start, fileVars, CellType
<1>6. CASE Bind(t)
  <2>1. "serving" \in CellPCs
    BY DEF CellPCs
  <2>2. cell' \in [Turns -> CellType]
    BY <1>6, <2>1, CellMoves DEF Bind
  <2>3. owner' \in Owner
    BY <1>6 DEF SupTypeOK, Bind, Owner
  <2>4. QED
    BY <1>6, <2>2, <2>3 DEF SupTypeOK, Bind, fileVars, CellType
<1>7. CASE DoWork(t)
  BY <1>7 DEF SupTypeOK, DoWork, fileVars, Owner, Work
<1>8. CASE Join(t)
  <2>1. cell' \in [Turns -> CellType]
    BY <1>8 DEF SupTypeOK, Join, NoCell, CellType, CellPCs
  <2>2. joined' \subseteq Gens
    BY <1>8 DEF SupTypeOK, CellsFollowOwner, Join, CellAt
  <2>3. QED
    BY <1>8, <2>1, <2>2 DEF SupTypeOK, Join, CellType
<1>9. QED
  BY <1>1, <1>2, <1>3, <1>4, <1>5, <1>6, <1>7, <1>8 DEF CellStep

\* Stop processes keep types, since what they have seen is an owner.
LEMMA TypeHook ==
  ASSUME SupTypeOK, Evidence, NEW t \in Turns, HookStep(t)
  PROVE  SupTypeOK'
<1>1. CASE Inspect(t)
  <2>1. hook' \in [Turns -> HookType] /\ again' \in BOOLEAN
    <3>1. CASE Block(t)
      BY <3>1, HookRests
    <3>2. CASE ~Block(t)
      <4>1. [pc |-> "status", again |-> again,
             seen |-> [owner |-> owner, active |-> FALSE]] \in HookType
        BY DEF SupTypeOK, HookType, HookPCs, Seen
      <4>2. QED
        BY <1>1, <3>2, <4>1 DEF SupTypeOK, Inspect, HookType
    <3>3. QED
      BY <3>1, <3>2
  <2>2. QED
    BY <1>1, <2>1 DEF SupTypeOK, Inspect, Quiet, HookType
<1>2. CASE ReadStatus(t)
  <2>1. "probe" \in HookPCs /\ Active(owner.work) \in BOOLEAN
    BY DEF HookPCs, Active
  <2>2. hook' \in [Turns -> HookType]
    <3>1. hook[t] \in HookType
      BY DEF SupTypeOK, HookType
    <3>2. [hook[t].seen EXCEPT !.active = Active(owner.work)] \in Seen
      BY <2>1, <3>1 DEF HookType, Seen
    <3>3. [hook[t] EXCEPT !.pc = "probe",
             !.seen = [hook[t].seen EXCEPT !.active = Active(owner.work)]]
            \in HookType
      BY <2>1, <3>1, <3>2 DEF HookType
    <3>4. QED
      BY <1>2, <3>1, <3>3 DEF SupTypeOK, ReadStatus, HookType
  <2>3. QED
    BY <1>2, <2>2 DEF SupTypeOK, ReadStatus, Quiet, HookType
<1>3. CASE Judge(t)
  <2>1. probe' \in [Turns -> Probes]
    BY <1>3 DEF SupTypeOK, Judge, Linked, Probes
  <2>2. Needs(t) \in HookPCs \cup {"block"}
    BY DEF Needs, HookPCs
  <2>3. \/ Release(t) \/ Block(t)
        \/ Needs(t) \in HookPCs /\ HookGoes(t, Needs(t)) /\ UNCHANGED again
    BY <1>3, <2>2 DEF Judge
  <2>4. hook' \in [Turns -> HookType] /\ again' \in BOOLEAN
    BY <2>3, HookRests, HookMoves DEF SupTypeOK
  <2>5. QED
    BY <1>3, <2>1, <2>4 DEF SupTypeOK, Judge, Quiet, HookType
<1>4. CASE Recheck(t) \/ Confirm(t)
  BY <1>4, HookRests DEF SupTypeOK, Recheck, Confirm, Quiet, HookType
<1>5. CASE Link(t)
  <2>1. "confirm" \in HookPCs
    BY DEF HookPCs
  <2>2. hook' \in [Turns -> HookType] /\ again' \in BOOLEAN
    BY <1>5, <2>1, HookRests, HookMoves DEF SupTypeOK, Link
  <2>3. hook[t].seen \in Seen /\ hook[t].seen.owner.gen \in Gens
    BY <1>5 DEF SupTypeOK, Evidence, Link, HookAt, Owner
  <2>4. pending' \in [Turns \X Gens -> Seen]
    BY <1>5, <2>3 DEF SupTypeOK, Link
  <2>5. terminal' \in [Gens -> Record]
    BY <1>5 DEF SupTypeOK, Link, RecordOf, Record
  <2>6. QED
    BY <1>5, <2>2, <2>4, <2>5 DEF SupTypeOK, Link, Quiet, HookType
<1>6. CASE JoinedProof(t)
  <2>1. "other" \in HookPCs
    BY DEF HookPCs
  <2>2. hook' \in [Turns -> HookType] /\ again' \in BOOLEAN
    BY <1>6, <2>1, HookRests, HookMoves DEF SupTypeOK, JoinedProof
  <2>3. QED
    BY <1>6, <2>2 DEF SupTypeOK, JoinedProof, Quiet, HookType
<1>7. CASE OtherTurn(t)
  <2>1. hook' \in [Turns -> HookType] /\ again' \in BOOLEAN
    BY <1>7, HookRests DEF OtherTurn
  <2>2. <<t, hook[t].seen.owner.gen>> \in Turns \X Gens
    BY <1>7 DEF SupTypeOK, Evidence, OtherTurn, HookAt, Owner
  <2>3. asked' \subseteq Turns \X Gens
    BY <1>7, <2>2 DEF SupTypeOK, OtherTurn
  <2>4. QED
    BY <1>7, <2>1, <2>3 DEF SupTypeOK, OtherTurn, Quiet, HookType
<1>8. QED
  BY <1>1, <1>2, <1>3, <1>4, <1>5, <1>6, <1>7 DEF HookStep

\* Recovery, takeover and the end of a turn keep types.
LEMMA TypeOthers ==
  ASSUME SupTypeOK, RecoverStart \/ Takeover \/ EndTurn
  PROVE  SupTypeOK'
<1>1. CASE RecoverStart \/ Takeover
  <2>1. owner.mine \in BOOLEAN
    BY DEF SupTypeOK, Owner
  <2>2. owner' \in Owner
    BY <1>1, <2>1, FencedIsOwner DEF RecoverStart, Takeover
  <2>3. QED
    BY <1>1, <2>2 DEF SupTypeOK, RecoverStart, Takeover, fileVars
<1>2. CASE EndTurn
  <2>1. NoHook \in HookType
    BY DEF NoHook, Nothing, HookType, HookPCs, Seen
  <2>2. hook' \in [Turns -> HookType]
    BY <1>2, <2>1 DEF SupTypeOK, EndTurn, HookType
  <2>3. turn' \in Turns
    BY <1>2, SupervisionAssumption DEF SupTypeOK, EndTurn, Turns
  <2>4. QED
    BY <1>2, <2>2, <2>3 DEF SupTypeOK, EndTurn, fileVars, HookType
<1>3. QED
  BY <1>1, <1>2

----------------------------------------------------------------------------
(* Evaluations                                                               *)

\* Numbers are compared throughout.
LEMMA NumberFacts ==
  ASSUME SupTypeOK
  PROVE  /\ owner.gen \in Nat \ {0} /\ MaxGen \in Nat
         /\ \A t \in Turns : t \in Nat \ {0} /\ cell[t].gen \in Nat
         /\ joined \subseteq Nat
<1>1. Gens \subseteq Nat \ {0} /\ Turns \subseteq Nat \ {0}
  BY SupervisionAssumption DEF Gens, Turns
<1>2. owner.gen \in Gens /\ \A t \in Turns : cell[t].gen \in {0} \cup Gens
  BY DEF SupTypeOK, Owner
<1>3. MaxGen \in Nat
  BY SupervisionAssumption
<1>4. joined \subseteq Nat
  BY <1>1 DEF SupTypeOK
<1>5. ASSUME NEW t \in Turns PROVE cell[t].gen \in Nat
  <2>1. {0} \cup Gens \subseteq Nat
    BY <1>1
  <2>2. cell[t].gen \in {0} \cup Gens
    BY <1>2
  <2>3. QED
    BY <2>1, <2>2, Zenon
<1>6. QED
  BY <1>1, <1>2, <1>3, <1>4, <1>5

\* At the start there is no evaluation.
LEMMA CellInit == Init => CellInv
<1>1. SUFFICES ASSUME Init PROVE CellInv
  OBVIOUS
<1>2. \A t \in Turns : cell[t] = NoCell
  BY <1>1 DEF Init
<1>3. owner.gen = 1 /\ owner.turn = 0 /\ joined = {}
  BY <1>1 DEF Init
<1>4. QED
  BY <1>2, <1>3
     DEF NoCell, CellInv, StopAndDeadlineAgree, CellsFollowOwner,
         ServedWhenBound, JoinedWhenBound, ServedOnce, JoinedIsOver,
         StartupIsOwners, HeldIsRotated, AcquiredIsIdle, ServedByItsTurn

\* What other evaluations have is kept when one takes a new generation.
LEMMA CellAcquires ==
  ASSUME SupTypeOK, CellInv, NEW t \in Turns, Commit(t) \/ Start(t)
  PROVE  CellInv'
<1>. USE NumberFacts
<1>1. /\ \A u \in Turns : u # t => cell'[u] = cell[u]
      /\ cell'[t].gen = owner.gen + 1
      /\ owner'.gen = owner.gen + 1 /\ ~owner'.bound
      /\ joined' = joined /\ probe' = probe
  <2>1. CASE Commit(t)
    BY <2>1 DEF SupTypeOK, Commit, Owner, fileVars
  <2>2. CASE Start(t)
    BY <2>2 DEF SupTypeOK, Start, Openable, Owner, fileVars
  <2>3. QED
    BY <2>1, <2>2
<1>2. \/ /\ cell'[t].pc = "acquired" /\ cell'[t].startup
         /\ owner'.turn = t /\ owner'.work = "none"
      \/ /\ cell'[t].pc = "held" /\ ~cell'[t].startup
         /\ owner'.turn = 0 /\ probe[t] = "stop"
  <2>1. CASE Commit(t)
    BY <2>1 DEF SupTypeOK, Commit
  <2>2. CASE Start(t)
    <3>1. cell'[t] = [cell[t] EXCEPT !.pc = "held", !.gen = owner.gen + 1]
      BY <2>2 DEF SupTypeOK, Start
    <3>2. cell[t] \in CellType
      BY DEF SupTypeOK, CellType
    <3>3. cell'[t].pc = "held" /\ ~cell'[t].startup
      BY <2>2, <3>1, <3>2 DEF Start, CellType
    <3>4. owner'.turn = 0 /\ probe[t] = "stop"
      BY <2>2 DEF SupTypeOK, Start, Owner
    <3>5. QED
      BY <3>3, <3>4
  <2>3. QED
    BY <2>1, <2>2
<1>3. \A u \in Turns : u # t => cell'[u].gen < owner'.gen
  BY <1>1 DEF CellInv, CellsFollowOwner
<1>4. StopAndDeadlineAgree' /\ CellsFollowOwner'
  BY <1>1, <1>2, <1>3
     DEF CellInv, StopAndDeadlineAgree, CellsFollowOwner
<1>5. ServedWhenBound' /\ ServedByItsTurn' /\ HeldIsRotated' /\ StartupIsOwners'
  BY <1>1, <1>2, <1>3
     DEF ServedWhenBound, ServedByItsTurn, HeldIsRotated, StartupIsOwners
<1>6. JoinedWhenBound' /\ AcquiredIsIdle'
  BY <1>1, <1>2 DEF CellInv, JoinedWhenBound, AcquiredIsIdle
<1>7. ServedOnce' /\ JoinedIsOver'
  BY <1>1, <1>2 DEF CellInv, ServedOnce, JoinedIsOver
<1>8. QED
  BY <1>4, <1>5, <1>6, <1>7 DEF CellInv

\* Qualifying leaves the owner alone, and the race has one winner.
LEMMA CellQualifies ==
  ASSUME SupTypeOK, CellInv, NEW t \in Turns,
         Prepare(t) \/ Expire(t) \/ Decide(t)
  PROVE  CellInv'
<1>. USE NumberFacts
<1>1. owner' = owner /\ joined' = joined
  BY DEF Prepare, Expire, Decide, fileVars
<1>2. /\ \A u \in Turns : u # t => cell'[u] = cell[u] /\ probe'[u] = probe[u]
      /\ cell'[t].gen \in {cell[t].gen, owner.gen} /\ cell'[t].gen # 0
      /\ cell'[t].startup => cell[t].startup /\ cell'[t].gen = cell[t].gen
      /\ cell'[t].pc \in {"armed", "qualified", "timedout"}
      /\ cell'[t].pc = "qualified" => probe'[t] = "stop"
      /\ cell'[t].pc = "timedout" => probe'[t] = "timeout"
  <2>1. {"armed", "qualified", "timedout"} \subseteq CellPCs
    BY DEF CellPCs
  <2>2. CASE Prepare(t)
    <3>1. CASE CellAt(t, "acquired") /\ Goes(t, "armed")
      <4>1. /\ cell'[t].pc = "armed" /\ cell'[t].gen = cell[t].gen
            /\ cell'[t].startup = cell[t].startup
            /\ \A u \in Turns : u # t => cell'[u] = cell[u]
        BY <2>1, <3>1, CellMoves
      <4>2. \A u \in Turns : u # t => probe'[u] = probe[u]
        BY <2>2 DEF SupTypeOK, Prepare
      <4>3. cell[t].gen # 0
        BY <3>1 DEF CellAt, CellInv, CellsFollowOwner
      <4>4. QED
        BY <4>1, <4>2, <4>3
    <3>2. CASE cell' = [cell EXCEPT ![t] = [pc |-> "armed", gen |-> owner.gen,
                                            startup |-> FALSE]]
      BY <2>2, <3>2 DEF SupTypeOK, Prepare
    <3>3. QED
      BY <2>2, <3>1, <3>2 DEF Prepare
  <2>3. CASE Expire(t)
    BY <2>3 DEF SupTypeOK, Expire, CellAt, CellInv, CellsFollowOwner
  <2>4. CASE Decide(t)
    BY <2>1, <2>4, CellMoves
       DEF SupTypeOK, Decide, CellAt, CellInv, CellsFollowOwner
  <2>5. QED
    BY <2>2, <2>3, <2>4
<1>3. StopAndDeadlineAgree' /\ CellsFollowOwner'
  BY <1>1, <1>2 DEF CellInv, StopAndDeadlineAgree, CellsFollowOwner
<1>4. ServedWhenBound' /\ ServedByItsTurn' /\ HeldIsRotated' /\ StartupIsOwners'
  BY <1>1, <1>2 DEF CellInv, ServedWhenBound, ServedByItsTurn,
                    HeldIsRotated, StartupIsOwners
<1>5. JoinedWhenBound' /\ AcquiredIsIdle' /\ ServedOnce' /\ JoinedIsOver'
  BY <1>1, <1>2 DEF CellInv, JoinedWhenBound, AcquiredIsIdle, ServedOnce,
                    JoinedIsOver
<1>6. QED
  BY <1>3, <1>4, <1>5 DEF CellInv

\* A session is bound once in a generation, so whoever binds it is alone.
LEMMA CellBinds ==
  ASSUME SupTypeOK, CellInv, NEW t \in Turns, Bind(t)
  PROVE  CellInv'
<1>. USE NumberFacts
<1>1. /\ \A u \in Turns : u # t => cell'[u] = cell[u]
      /\ cell'[t].pc = "serving" /\ cell'[t].gen = cell[t].gen
      /\ cell'[t].startup = cell[t].startup
  <2>1. "serving" \in CellPCs
    BY DEF CellPCs
  <2>2. QED
    BY <2>1, CellMoves DEF Bind
<1>2. /\ owner'.gen = owner.gen /\ owner'.bound
      /\ owner'.turn = owner.turn /\ owner'.work = owner.work
      /\ joined' = joined /\ probe' = probe
  BY DEF SupTypeOK, Bind, Owner, fileVars
<1>3. cell[t].gen = owner.gen /\ ~owner.bound
  BY DEF Bind, Openable, Owned
<1>4. probe[t] = "stop" /\ cell[t].pc \in {"held", "qualified"}
  BY DEF Bind, CellAt, CellInv, StopAndDeadlineAgree
<1>5. \A u \in Turns : cell[u].pc = "serving" => cell[u].gen # cell[t].gen
  BY <1>3 DEF CellInv, ServedWhenBound
<1>6. owner.gen \notin joined
  BY <1>3 DEF CellInv, JoinedWhenBound
<1>7. owner.turn \in {0, t}
  <2>1. CASE CellAt(t, "held")
    BY <1>3, <2>1 DEF CellAt, CellInv, HeldIsRotated
  <2>2. CASE cell[t].startup
    BY <1>3, <2>2 DEF CellInv, StartupIsOwners
  <2>3. CASE owner.work # "none"
    BY <1>3, <2>3 DEF CellInv, AcquiredIsIdle
  <2>4. QED
    BY <2>1, <2>2, <2>3 DEF Bind
<1>8. StopAndDeadlineAgree' /\ CellsFollowOwner'
  BY <1>1, <1>2, <1>3, <1>4
     DEF CellInv, StopAndDeadlineAgree, CellsFollowOwner
<1>9. ServedWhenBound' /\ ServedByItsTurn' /\ HeldIsRotated' /\ StartupIsOwners'
  BY <1>1, <1>2, <1>7 DEF CellInv, ServedWhenBound, ServedByItsTurn,
                          HeldIsRotated, StartupIsOwners
<1>10. JoinedWhenBound' /\ AcquiredIsIdle'
  BY <1>1, <1>2 DEF CellInv, JoinedWhenBound, AcquiredIsIdle
<1>11. ServedOnce' /\ JoinedIsOver'
  BY <1>1, <1>2, <1>3, <1>5, <1>6 DEF CellInv, ServedOnce, JoinedIsOver
<1>12. QED
  BY <1>8, <1>9, <1>10, <1>11 DEF CellInv

\* Work comes and goes under a bound owner.
LEMMA CellWorks ==
  ASSUME SupTypeOK, CellInv, NEW t \in Turns, DoWork(t)
  PROVE  CellInv'
<1>1. cell' = cell /\ joined' = joined /\ probe' = probe
  BY DEF DoWork, fileVars
<1>2. owner'.gen = owner.gen /\ owner'.bound = owner.bound
      /\ owner'.turn = owner.turn /\ owner.bound
  BY DEF SupTypeOK, DoWork, CellAt, Owned, Owner, CellInv, ServedWhenBound
<1>3. QED
  BY <1>1, <1>2
     DEF CellInv, StopAndDeadlineAgree, CellsFollowOwner, ServedWhenBound,
         JoinedWhenBound, ServedOnce, JoinedIsOver, StartupIsOwners,
         HeldIsRotated, AcquiredIsIdle, ServedByItsTurn

\* The one evaluation that served the generation is over when it says so.
LEMMA CellJoins ==
  ASSUME SupTypeOK, CellInv, NEW t \in Turns, Join(t)
  PROVE  CellInv'
<1>. USE NumberFacts
<1>1. owner' = owner /\ probe' = probe /\ joined' = joined \cup {cell[t].gen}
  BY DEF Join
<1>2. /\ \A u \in Turns : u # t => cell'[u] = cell[u]
      /\ cell'[t].pc = "ended" /\ cell'[t].gen = 0 /\ ~cell'[t].startup
  BY DEF SupTypeOK, Join, NoCell
<1>3. cell[t].pc = "serving"
  BY DEF Join, CellAt
<1>4. StopAndDeadlineAgree' /\ CellsFollowOwner'
  BY <1>1, <1>2, <1>3 DEF CellInv, StopAndDeadlineAgree, CellsFollowOwner
<1>5. ServedWhenBound' /\ ServedByItsTurn' /\ HeldIsRotated' /\ StartupIsOwners'
  BY <1>1, <1>2 DEF CellInv, ServedWhenBound, ServedByItsTurn,
                    HeldIsRotated, StartupIsOwners
<1>6. JoinedWhenBound' /\ AcquiredIsIdle'
  BY <1>1, <1>3 DEF CellInv, JoinedWhenBound, AcquiredIsIdle,
                    ServedWhenBound, CellsFollowOwner
<1>7. ServedOnce' /\ JoinedIsOver'
  BY <1>1, <1>2, <1>3 DEF CellInv, ServedOnce, JoinedIsOver
<1>8. QED
  BY <1>4, <1>5, <1>6, <1>7 DEF CellInv

\* A replaced generation has no more to do.
LEMMA CellReplaced ==
  ASSUME SupTypeOK, CellInv, RecoverStart \/ Takeover
  PROVE  CellInv'
<1>. USE NumberFacts
<1>1. cell' = cell /\ joined' = joined /\ probe' = probe
  BY DEF RecoverStart, Takeover, fileVars
<1>2. owner'.gen = owner.gen + 1 /\ owner'.turn = 0
  BY DEF RecoverStart, Takeover, Fenced
<1>3. QED
  BY <1>1, <1>2
     DEF CellInv, StopAndDeadlineAgree, CellsFollowOwner, ServedWhenBound,
         JoinedWhenBound, ServedOnce, JoinedIsOver, StartupIsOwners,
         HeldIsRotated, AcquiredIsIdle, ServedByItsTurn

\* A Stop process gives a challenged turn its answer, and no more.
LEMMA CellObserved ==
  ASSUME SupTypeOK, CellInv, NEW t \in Turns, HookStep(t)
  PROVE  CellInv'
<1>1. owner' = owner /\ cell' = cell /\ joined' = joined
  BY DEF HookStep, Inspect, ReadStatus, Judge, Recheck, Link, Confirm,
         JoinedProof, OtherTurn, Quiet
<1>2. \A u \in Turns : probe[u] # "open" => probe'[u] = probe[u]
  <2>1. CASE Judge(t)
    BY <2>1 DEF SupTypeOK, Judge, Linked
  <2>2. CASE ~Judge(t)
    BY <2>2 DEF HookStep, Inspect, ReadStatus, Recheck, Link, Confirm,
                JoinedProof, OtherTurn
  <2>3. QED
    BY <2>1, <2>2
<1>3. QED
  BY <1>1, <1>2
     DEF CellInv, StopAndDeadlineAgree, CellsFollowOwner, ServedWhenBound,
         JoinedWhenBound, ServedOnce, JoinedIsOver, StartupIsOwners,
         HeldIsRotated, AcquiredIsIdle, ServedByItsTurn

----------------------------------------------------------------------------
(* Stop processes                                                            *)

\* At the start there is no Stop process.
LEMMA HookInit == Init => HookInv
<1>1. SUFFICES ASSUME Init PROVE HookInv
  OBVIOUS
<1>2. \A t \in Turns : hook[t].pc = "none"
  BY <1>1 DEF Init, NoHook
<1>3. QED
  BY <1>2 DEF HookInv, Evidence, OneStop, NothingQualified, Lags, Looking

\* What a Stop goes to after its judgement is what it has seen the grounds for.
LEMMA JudgedByEvidence ==
  ASSUME NEW t \in Turns
  PROVE  LET o == hook[t].seen.owner IN
         /\ Needs(t) \in {"released", "block", "recheck", "link", "joined"}
         /\ Needs(t) = "released" => ~o.mine
         /\ Needs(t) = "recheck" => ~o.bound /\ o.work # "running"
         /\ Needs(t) = "joined" => o.work # "running"
BY DEF Needs, ThisAcquisition, Unserved, Busy

\* A step of a Stop process, by where it leaves the process.
LEMMA HookStepCases ==
  ASSUME SupTypeOK, NEW t \in Turns, HookStep(t)
  PROVE  /\ owner' = owner /\ cell' = cell /\ turn' = turn
         /\ \A u \in Turns : u # t => hook'[u] = hook[u]
         /\ \/ /\ hook'[t].pc = "status" /\ hook'[t].seen.owner = owner
               /\ t = turn /\ UNCHANGED <<terminal, probe>>
            \/ /\ hook[t].pc = "status" /\ hook'[t].pc = "probe"
               /\ hook'[t].seen.owner = hook[t].seen.owner
               /\ UNCHANGED <<terminal, probe>>
            \/ /\ hook[t].pc = "probe" /\ hook'[t].pc = Needs(t)
               /\ hook'[t].pc # "released"
               /\ hook'[t].seen = hook[t].seen /\ terminal' = terminal
            \/ /\ hook[t].pc = "link" /\ hook'[t].pc = "confirm"
               /\ hook'[t].seen = hook[t].seen
               /\ terminal' = [terminal EXCEPT ![hook[t].seen.owner.gen] =
                                 RecordOf(hook[t].seen.owner)]
               /\ probe' = probe
            \/ /\ hook[t].pc = "joined" /\ hook'[t].pc = "other"
               /\ hook'[t].seen = hook[t].seen /\ ServedElsewhere(t)
               /\ UNCHANGED <<terminal, probe>>
            \/ /\ hook'[t].pc = "none" /\ terminal' = terminal
               /\ hook[t].pc = "probe" \/ probe' = probe
            \/ /\ hook'[t].pc = "released" /\ terminal' = terminal
               /\ hook[t].pc = "probe" \/ probe' = probe
<1>1. CASE Inspect(t)
  <2>1. CASE Block(t)
    <3>1. hook'[t].pc = "none"
      BY <2>1, BlockedIsNotReleased
    <3>2. QED
      BY <1>1, <2>1, <3>1, HookRests DEF Inspect, Quiet
  <2>2. CASE ~Block(t)
    BY <1>1, <2>2 DEF SupTypeOK, Inspect, Quiet
  <2>3. QED
    BY <2>1, <2>2
<1>2. CASE ReadStatus(t)
  <2>1. hook'[t] = [hook[t] EXCEPT !.pc = "probe",
                                   !.seen.active = Active(owner.work)]
        /\ \A u \in Turns : u # t => hook'[u] = hook[u]
    BY <1>2 DEF SupTypeOK, ReadStatus
  <2>2. hook[t] \in HookType /\ hook[t].seen \in Seen
    BY DEF SupTypeOK, HookType
  <2>3. hook'[t].pc = "probe" /\ hook'[t].seen.owner = hook[t].seen.owner
    BY <2>1, <2>2 DEF HookType, Seen
  <2>4. QED
    BY <1>2, <2>1, <2>3 DEF ReadStatus, HookAt, Quiet
<1>3. CASE Judge(t)
  <2>1. CASE Release(t) \/ Block(t)
    BY <1>3, <2>1, HookRests DEF Judge, HookAt, Quiet
  <2>2. CASE ~(Release(t) \/ Block(t))
    <3>1. HookGoes(t, Needs(t)) /\ Needs(t) \notin {"released", "block"}
      BY <1>3, <2>2 DEF Judge
    <3>2. Needs(t) \in HookPCs
      BY <3>1, JudgedByEvidence DEF HookPCs
    <3>3. QED
      BY <1>3, <3>1, <3>2, HookMoves DEF Judge, HookAt, Quiet
  <2>3. QED
    BY <2>1, <2>2
<1>4. CASE Recheck(t) \/ Confirm(t) \/ OtherTurn(t)
  BY <1>4, HookRests DEF Recheck, Confirm, OtherTurn, Quiet
<1>5. CASE Link(t)
  <2>1. CASE Block(t)
    <3>1. hook'[t].pc = "none"
      BY <2>1, BlockedIsNotReleased
    <3>2. "confirm" \in HookPCs /\ "confirm" # "none"
      BY DEF HookPCs
    <3>3. ~HookGoes(t, "confirm")
      BY <3>1, <3>2, HookMoves
    <3>4. QED
      BY <1>5, <2>1, <3>1, <3>3, HookRests DEF Link, Quiet
  <2>2. CASE ~Block(t)
    <3>1. "confirm" \in HookPCs
      BY DEF HookPCs
    <3>2. QED
      BY <1>5, <2>2, <3>1, HookMoves DEF Link, HookAt, Quiet
  <2>3. QED
    BY <2>1, <2>2
<1>6. CASE JoinedProof(t)
  <2>1. CASE Release(t) \/ Block(t)
    BY <1>6, <2>1, HookRests DEF JoinedProof, Quiet
  <2>2. CASE ~(Release(t) \/ Block(t))
    <3>1. "other" \in HookPCs
      BY DEF HookPCs
    <3>2. QED
      BY <1>6, <2>2, <3>1, HookMoves DEF JoinedProof, HookAt, Quiet
  <2>3. QED
    BY <2>1, <2>2
<1>7. QED
  BY <1>1, <1>2, <1>3, <1>4, <1>5, <1>6 DEF HookStep

\* Stop processes keep their own evidence true: what one has gathered stays
\* what it was gathered for, and one that starts anew lags behind nobody.
LEMMA HookPreserves ==
  ASSUME SupTypeOK, CellInv, HookInv, NEW t \in Turns, HookStep(t)
  PROVE  HookInv'
<1>. USE NumberFacts
<1>1. \A u \in Turns : u # t => hook'[u] = hook[u]
  BY HookStepCases
<1>2. owner' = owner /\ cell' = cell /\ turn' = turn
  BY HookStepCases
<1>3. \A g : terminal[g] # "none" /\ g \in Gens => terminal'[g] # "none"
  BY HookStepCases DEF SupTypeOK, RecordOf
<1>4. Evidence'
  <2>1. ASSUME NEW u \in Turns, u # t
        PROVE  hook[u].pc = "confirm"
                 => terminal'[hook[u].seen.owner.gen] # "none"
    BY <1>3 DEF HookInv, Evidence, Owner
  <2>2. hook'[t].pc \notin {"none", "released"} => hook'[t].seen.owner \in Owner
    BY HookStepCases, JudgedByEvidence DEF SupTypeOK, HookInv, Evidence
  <2>3. hook'[t].pc = "recheck" => ~hook'[t].seen.owner.bound
                                   /\ hook'[t].seen.owner.work # "running"
    BY HookStepCases, JudgedByEvidence
  <2>4. hook'[t].pc = "confirm" => terminal'[hook'[t].seen.owner.gen] # "none"
    <3>1. CASE hook[t].pc = "link" /\ hook'[t].pc = "confirm"
      <4>1. hook[t].seen.owner.gen \in Gens
        BY <3>1 DEF HookInv, Evidence, Owner
      <4>2. QED
        BY <3>1, <4>1, HookStepCases, JudgedByEvidence DEF SupTypeOK, RecordOf
    <3>2. QED
      BY <3>1, HookStepCases, JudgedByEvidence
  <2>5. hook'[t].pc \in {"joined", "other"}
          => hook'[t].seen.owner.work # "running"
    BY HookStepCases, JudgedByEvidence DEF HookInv, Evidence
  <2>6. hook'[t].pc = "other" => hook'[t].seen.owner.turn \notin {0, t}
    BY HookStepCases, JudgedByEvidence DEF ServedElsewhere
  <2>7. QED
    BY <1>1, <2>1, <2>2, <2>3, <2>4, <2>5, <2>6 DEF HookInv, Evidence
<1>5. OneStop'
  BY <1>1, <1>2, HookStepCases, JudgedByEvidence DEF HookInv, OneStop, Looking
<1>6. NothingQualified'
  <2>1. SUFFICES ASSUME NEW u \in Turns, Lags(u)'
                 PROVE  LET g == hook'[u].seen.owner.gen IN
                        /\ g <= owner'.gen
                        /\ owner'.gen = g => ~owner'.mine
                        /\ owner'.gen > g => owner'.work # "running"
                        /\ \A v \in Turns : cell'[v].gen > g => NotYet(v)'
    BY DEF NothingQualified
  <2>2. CASE u = t /\ hook'[t].seen.owner = owner
    BY <1>2, <2>1, <2>2 DEF CellInv, CellsFollowOwner, Lags
  <2>3. CASE u = t /\ hook[t].pc = "status" /\ hook'[t].pc = "probe"
    <3>1. Lags(t) /\ probe' = probe
          /\ hook'[t].seen.owner = hook[t].seen.owner
      BY <2>1, <2>3, HookStepCases, JudgedByEvidence DEF Lags, Looking
    <3>2. QED
      BY <1>2, <2>3, <3>1 DEF HookInv, NothingQualified, NotYet
  <2>4. CASE u # t
    <3>1. Lags(u) /\ hook'[u] = hook[u]
      BY <1>1, <2>1, <2>4 DEF Lags
    <3>2. hook[t].pc # "probe"
      BY <2>4, <3>1 DEF HookInv, OneStop, Lags, Looking
    <3>3. probe' = probe
      BY <3>2, HookStepCases
    <3>4. QED
      BY <1>2, <3>1, <3>3 DEF HookInv, NothingQualified, NotYet
  <2>5. QED
    BY <2>1, <2>2, <2>3, <2>4, HookStepCases, JudgedByEvidence
       DEF Lags, Looking
<1>7. QED
  BY <1>4, <1>5, <1>6 DEF HookInv

\* While a Stop lags behind, no evaluation gets as far as starting anything.
LEMMA NothingStarts ==
  ASSUME SupTypeOK, CellInv, HookInv, NEW t \in Turns, NEW u \in Turns,
         Lags(t), Owned(u), cell[u].pc \in {"qualified", "held", "serving"}
  PROVE  FALSE
<1>. USE NumberFacts
<1>1. cell[u].gen = owner.gen /\ owner.mine /\ ~NotYet(u)
  BY DEF Owned, NotYet
<1>2. hook[t].seen.owner.gen \in Nat
  BY DEF Lags, Looking, HookInv, Evidence, Owner, Gens
<1>3. QED
  BY <1>1, <1>2 DEF HookInv, NothingQualified

\* No step of an evaluation gets ahead of a Stop that lags behind.
LEMMA LaggingCell ==
  ASSUME SupTypeOK, CellInv, HookInv, NEW u \in Turns, CellStep(u)
  PROVE  HookInv'
<1>. USE NumberFacts
<1>1. hook' = hook /\ turn' = turn /\ terminal' = terminal
  BY DEF CellStep, Commit, Prepare, Expire, Decide, Start, Bind, DoWork, Join,
         fileVars
<1>2. Evidence' /\ OneStop'
  BY <1>1 DEF HookInv, Evidence, OneStop
<1>3. SUFFICES ASSUME NEW t \in Turns, Lags(t)
               PROVE  LET g == hook[t].seen.owner.gen IN
                      /\ g <= owner'.gen
                      /\ owner'.gen = g => ~owner'.mine
                      /\ owner'.gen > g => owner'.work # "running"
                      /\ \A v \in Turns : cell'[v].gen > g => NotYet(v)'
  BY <1>1, <1>2 DEF HookInv, NothingQualified, Lags
<1> DEFINE g == hook[t].seen.owner.gen
<1>4. /\ g \in Nat \ {0} /\ g <= owner.gen
      /\ owner.gen = g => ~owner.mine
      /\ owner.gen > g => owner.work # "running"
      /\ \A v \in Turns : cell[v].gen > g => NotYet(v)
  BY <1>3 DEF HookInv, NothingQualified, Lags, Looking, Evidence, Owner, Gens
<1>5. CASE Commit(u)
  <2>1. /\ owner'.gen = owner.gen + 1 /\ owner'.work = "none"
        /\ cell'[u].pc = "acquired" /\ probe' = probe
        /\ \A v \in Turns : v # u => cell'[v] = cell[v]
    BY <1>5 DEF SupTypeOK, Commit
  <2>2. QED
    BY <1>4, <2>1 DEF NotYet
<1>6. CASE Prepare(u)
  <2>1. "armed" \in CellPCs
    BY DEF CellPCs
  <2>2. cell'[u].pc = "armed" /\ \A v \in Turns : v # u => cell'[v] = cell[v]
    <3>1. CASE Goes(u, "armed")
      BY <2>1, <3>1, CellMoves
    <3>2. CASE ~Goes(u, "armed")
      BY <1>6, <3>2 DEF SupTypeOK, Prepare
    <3>3. QED
      BY <3>1, <3>2
  <2>3. /\ owner' = owner /\ probe'[u] = "open"
        /\ \A v \in Turns : v # u => probe'[v] = probe[v]
    BY <1>6 DEF SupTypeOK, Prepare
  <2>4. QED
    BY <1>4, <2>2, <2>3 DEF NotYet
<1>7. CASE Expire(u)
  <2>1. /\ owner' = owner /\ cell' = cell /\ probe'[u] = "timeout"
        /\ \A v \in Turns : v # u => probe'[v] = probe[v]
    BY <1>7 DEF SupTypeOK, Expire, Linked
  <2>2. QED
    BY <1>4, <2>1 DEF NotYet
<1>8. CASE Decide(u)
  <2>1. {"qualified", "timedout"} \subseteq CellPCs
    BY DEF CellPCs
  <2>2. /\ \A v \in Turns : v # u => cell'[v] = cell[v]
        /\ cell'[u].gen = cell[u].gen
        /\ cell'[u].pc = IF probe[u] = "stop" THEN "qualified" ELSE "timedout"
    BY <1>8, <2>1, CellMoves DEF Decide
  <2>3. owner' = owner /\ probe' = probe /\ cell[u].pc = "armed"
        /\ probe[u] \in {"stop", "timeout"}
    BY <1>8 DEF Decide, CellAt
  <2>4. QED
    BY <1>4, <2>2, <2>3 DEF NotYet
<1>9. CASE Start(u)
  BY <1>3, <1>9, NothingStarts DEF Start, Openable, CellAt
<1>10. CASE Bind(u)
  BY <1>3, <1>10, NothingStarts DEF Bind, Openable, CellAt
<1>11. CASE DoWork(u)
  BY <1>3, <1>11, NothingStarts DEF DoWork, CellAt
<1>12. CASE Join(u)
  <2>1. /\ owner' = owner /\ probe' = probe /\ cell'[u].gen = 0
        /\ \A v \in Turns : v # u => cell'[v] = cell[v]
    BY <1>12 DEF SupTypeOK, Join, NoCell
  <2>2. QED
    BY <1>4, <2>1 DEF NotYet
<1>13. QED
  BY <1>5, <1>6, <1>7, <1>8, <1>9, <1>10, <1>11, <1>12 DEF CellStep

\* Replaced owners have no running work, and turns end between Stops.
LEMMA LaggingOthers ==
  ASSUME SupTypeOK, CellInv, HookInv, RecoverStart \/ Takeover \/ EndTurn
  PROVE  HookInv'
<1>. USE NumberFacts
<1>1. CASE RecoverStart \/ Takeover
  <2>1. /\ hook' = hook /\ turn' = turn /\ terminal' = terminal
        /\ cell' = cell /\ probe' = probe
    BY <1>1 DEF RecoverStart, Takeover, fileVars
  <2>2. owner'.gen = owner.gen + 1 /\ owner'.work # "running"
    BY <1>1 DEF RecoverStart, Takeover, Fenced, AfterFencing
  <2>3. Evidence' /\ OneStop'
    BY <2>1 DEF HookInv, Evidence, OneStop
  <2>4. \A t \in Turns : Lags(t) => hook[t].seen.owner.gen \in Nat
    BY DEF HookInv, Lags, Looking, Evidence, Owner, Gens
  <2>5. NothingQualified'
    BY <2>1, <2>2, <2>4 DEF HookInv, NothingQualified, Lags, NotYet
  <2>6. QED
    BY <2>3, <2>5 DEF HookInv
<1>2. CASE EndTurn
  <2>1. /\ owner' = owner /\ terminal' = terminal
        /\ cell' = cell /\ probe' = probe
    BY <1>2 DEF EndTurn, fileVars
  <2>2. \A t \in Turns : hook'[t] = hook[t] \/ hook'[t].pc = "none"
    BY <1>2 DEF SupTypeOK, EndTurn, NoHook
  <2>3. \A t \in Turns : hook[t].pc \notin Looking
    BY <1>2 DEF EndTurn, HookInv, OneStop, Looking
  <2>4. \A t \in Turns : hook'[t].pc \notin Looking
    BY <2>2, <2>3 DEF Looking
  <2>5. Evidence'
    BY <2>1, <2>2 DEF HookInv, Evidence
  <2>6. QED
    BY <2>4, <2>5 DEF HookInv, OneStop, NothingQualified, Lags
<1>3. QED
  BY <1>1, <1>2

----------------------------------------------------------------------------
(* The theorems                                                              *)

\* Every step keeps the strengthening.
LEMMA SupInvStep == SupInv /\ [Next]_vars => SupInv'
<1>1. SUFFICES ASSUME SupInv, [Next]_vars PROVE SupInv'
  OBVIOUS
<1>2. SupTypeOK /\ CellInv /\ HookInv /\ CellsFollowOwner /\ Evidence
  BY <1>1 DEF SupInv, CellInv, HookInv
<1>3. CASE UNCHANGED vars
  <2>1. SupTypeOK'
    BY <1>2, <1>3 DEF SupTypeOK, vars
  <2>2. CellInv'
    BY <1>2, <1>3
       DEF CellInv, StopAndDeadlineAgree, CellsFollowOwner, ServedWhenBound,
           JoinedWhenBound, ServedOnce, JoinedIsOver, StartupIsOwners,
           HeldIsRotated, AcquiredIsIdle, ServedByItsTurn, vars
  <2>3. HookInv'
    BY <1>2, <1>3 DEF HookInv, Evidence, OneStop, NothingQualified, Lags,
                      NotYet, vars
  <2>4. QED
    BY <2>1, <2>2, <2>3 DEF SupInv
<1>4. ASSUME NEW t \in Turns, CellStep(t) PROVE SupInv'
  <2>1. CellInv'
    BY <1>2, <1>4, CellAcquires, CellQualifies, CellBinds, CellWorks, CellJoins
       DEF CellStep
  <2>2. QED
    BY <1>2, <1>4, <2>1, TypeCell, LaggingCell DEF SupInv
<1>5. ASSUME NEW t \in Turns, HookStep(t) PROVE SupInv'
  BY <1>2, <1>5, TypeHook, CellObserved, HookPreserves DEF SupInv
<1>6. CASE RecoverStart \/ Takeover
  BY <1>2, <1>6, TypeOthers, CellReplaced, LaggingOthers DEF SupInv
<1>7. CASE EndTurn
  <2>1. CellInv'
    BY <1>2, <1>7
       DEF CellInv, StopAndDeadlineAgree, CellsFollowOwner, ServedWhenBound,
           JoinedWhenBound, ServedOnce, JoinedIsOver, StartupIsOwners,
           HeldIsRotated, AcquiredIsIdle, ServedByItsTurn, EndTurn, fileVars
  <2>2. QED
    BY <1>2, <1>7, <2>1, TypeOthers, LaggingOthers DEF SupInv
<1>8. QED
  BY <1>1, <1>3, <1>4, <1>5, <1>6, <1>7 DEF Next

\* The strengthening holds of every state: the evaluations of all turns, the
\* owner and what Stop processes have gathered fit together.
THEOREM SupervisionInvariant == Spec => []SupInv
<1>1. Init => SupInv
  BY TypeInit, CellInit, HookInit DEF SupInv
<1>2. QED
  BY <1>1, SupInvStep, PTL DEF Spec

\* What files, evaluations and Stop processes hold is always well formed.
THEOREM SupTypeCorrect == Spec => []SupTypeOK
<1>1. SupInv => SupTypeOK
  BY DEF SupInv
<1>2. QED
  BY <1>1, SupervisionInvariant, PTL

\* Stop and deadline race for one record, and no evaluation disagrees with it.
THEOREM OneWinner == Spec => []StopAndDeadlineAgree
<1>1. SupInv => StopAndDeadlineAgree
  BY DEF SupInv, CellInv
<1>2. QED
  BY <1>1, SupervisionInvariant, PTL

\* A joined marker speaks of a generation that nobody serves any more.
THEOREM MarkersAreFinal == Spec => []JoinedIsOver
<1>1. SupInv => JoinedIsOver
  BY DEF SupInv, CellInv
<1>2. QED
  BY <1>1, SupervisionInvariant, PTL

\* What a generation was detached from is never started again in it, although
\* hook and evaluation do not exclude each other.
THEOREM DetachedIsInert == Spec => DetachedStartsNothing
<1>1. SupInv /\ [Next]_vars
        => [Detached /\ owner'.gen = owner.gen
            => /\ owner'.bound = owner.bound
               /\ owner'.work = "running" => owner.work = "running"]_vars
  <2>1. SUFFICES ASSUME SupInv, Next, Detached, owner'.gen = owner.gen
                 PROVE  /\ owner'.bound = owner.bound
                        /\ owner'.work = "running" => owner.work = "running"
    OBVIOUS
  <2>2. SupTypeOK /\ owner.gen \in Nat
    BY <2>1, NumberFacts DEF SupInv
  <2>3. ASSUME NEW t \in Turns, CellStep(t) PROVE owner' = owner
    <3>1. ~Commit(t) /\ ~Start(t)
      <4>1. Commit(t) => owner'.gen = owner.gen + 1
        BY DEF Commit
      <4>2. Start(t) => owner'.gen = owner.gen + 1
        BY <2>2 DEF SupTypeOK, Start, Owner
      <4>3. QED
        BY <2>1, <2>2, <4>1, <4>2
    <3>2. ~Bind(t) /\ ~DoWork(t)
      BY <2>1 DEF Bind, Openable, DoWork, Commands
    <3>3. QED
      BY <2>3, <3>1, <3>2 DEF CellStep, Prepare, Expire, Decide, Join
  <2>4. ASSUME NEW t \in Turns, HookStep(t) PROVE owner' = owner
    BY <2>2, <2>4, HookStepCases
  <2>5. ~RecoverStart /\ ~Takeover
    BY <2>1, <2>2 DEF RecoverStart, Takeover, Fenced
  <2>6. QED
    BY <2>1, <2>3, <2>4, <2>5 DEF Next, EndTurn
<1>2. QED
  BY <1>1, SupervisionInvariant, PTL DEF Spec, DetachedStartsNothing

\* No turn is let go over work that is still live and not detached, although
\* the hook reads owner, status, probe and markers at different moments.
THEOREM ReleasesAreFenced == Spec => ReleaseIsFenced
<1>1. SupInv /\ [Next]_vars
        => [\A t \in Turns :
              Released(t) /\ (Serves(t) \/ (owner.mine /\ owner.work = "running"))
                => Detached]_vars
  <2>1. SUFFICES ASSUME SupInv, Next, NEW t \in Turns, Released(t),
                        Serves(t) \/ (owner.mine /\ owner.work = "running")
                 PROVE  Detached
    OBVIOUS
  <2>. USE NumberFacts
  <2>2. SupTypeOK /\ CellInv /\ HookInv
    BY <2>1 DEF SupInv
  <2>3. HookStep(t)
    <3>1. ~RecoverStart /\ ~Takeover /\ ~EndTurn
      BY <2>1, <2>2 DEF Released, RecoverStart, Takeover, EndTurn, NoHook,
                        SupTypeOK
    <3>2. \A u \in Turns : ~CellStep(u)
      BY <2>1 DEF Released, CellStep, Commit, Prepare, Expire, Decide, Start,
                  Bind, DoWork, Join
    <3>3. \A u \in Turns : HookStep(u) => u = t
      BY <2>1, <2>2, HookStepCases DEF Released
    <3>4. QED
      BY <2>1, <3>1, <3>2, <3>3 DEF Next
  <2>4. Serves(t) => owner.bound /\ owner.mine /\ owner.turn \in {0, t}
                     /\ owner.gen \notin joined
    BY <2>2 DEF Serves, Owned, CellInv, ServedWhenBound, ServedByItsTurn,
                JoinedIsOver
  <2>5. ~Block(t)
    BY <2>1, <2>2, BlockedIsNotReleased DEF Released
  <2>6. ASSUME NEW pc \in HookPCs, HookGoes(t, pc) PROVE pc = "released"
    BY <2>1, <2>2, <2>6, HookMoves DEF Released
  <2>7. CASE Judge(t)
    <3>1. Needs(t) = "released"
      <4>1. Needs(t) = "released" \/ HookGoes(t, Needs(t))
        BY <2>7, <2>5 DEF Judge
      <4>2. Needs(t) \in HookPCs \/ Needs(t) = "block"
        BY JudgedByEvidence DEF HookPCs
      <4>3. Needs(t) # "block"
        BY <2>7, <2>5 DEF Judge
      <4>4. QED
        BY <2>6, <4>1, <4>2, <4>3
    <3>2. Lags(t)
      BY <2>7, <3>1, JudgedByEvidence DEF Judge, HookAt, Lags, Looking
    <3>3. ~Serves(t)
      BY <2>2, <3>2, NothingStarts DEF Serves
    <3>4. owner.mine => owner.work # "running"
      BY <2>2, <3>2 DEF HookInv, NothingQualified, Evidence, Lags, Looking,
                        Owner, Gens
    <3>5. QED
      BY <2>1, <3>3, <3>4
  <2>8. CASE Recheck(t)
    <3>1. StillSeen(t)
      BY <2>8, <2>5 DEF Recheck
    <3>2. ~owner.bound /\ owner.work # "running"
      BY <2>2, <2>8, <3>1 DEF HookInv, Evidence, Recheck, HookAt, StillSeen, Now
    <3>3. QED
      BY <2>1, <2>4, <3>2
  <2>9. CASE Confirm(t)
    <3>1. StillSeen(t)
      BY <2>9, <2>5 DEF Confirm
    <3>2. QED
      BY <2>2, <2>9, <3>1 DEF HookInv, Evidence, Confirm, HookAt, StillSeen,
                              Now, Detached
  <2>10. CASE JoinedProof(t)
    <3>1. "other" \in HookPCs /\ "other" # "released"
      BY DEF HookPCs
    <3>2. hook[t].seen.owner.gen \in joined /\ SameOwner(t)
      BY <2>10, <2>5, <2>6, <3>1 DEF JoinedProof
    <3>3. owner.gen \in joined /\ owner.work # "running"
      BY <2>2, <2>10, <3>2 DEF HookInv, Evidence, JoinedProof, HookAt, SameOwner
    <3>4. QED
      BY <2>1, <2>4, <3>3
  <2>11. CASE OtherTurn(t)
    <3>1. SameOwner(t)
      BY <2>11, <2>5 DEF OtherTurn
    <3>2. owner.turn \notin {0, t} /\ owner.work # "running"
      BY <2>2, <2>11, <3>1 DEF HookInv, Evidence, OtherTurn, HookAt, SameOwner
    <3>3. QED
      BY <2>1, <2>4, <3>2
  <2>12. CASE Inspect(t) \/ ReadStatus(t) \/ Link(t)
    <3>1. hook'[t].pc # "released"
      BY <2>2, <2>12, <2>5
         DEF SupTypeOK, Inspect, ReadStatus, Link, HookGoes
    <3>2. QED
      BY <2>1, <3>1 DEF Released
  <2>13. QED
    BY <2>3, <2>7, <2>8, <2>9, <2>10, <2>11, <2>12 DEF HookStep
<1>2. QED
  BY <1>1, SupervisionInvariant, PTL DEF Spec, ReleaseIsFenced
============================================================================
