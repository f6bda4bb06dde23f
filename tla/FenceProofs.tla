----------------------------- MODULE FenceProofs -----------------------------
(* The send fence excludes every earlier sender, for all workers, packets and *)
(* generations.                                                               *)
EXTENDS ListenerFence, Integers, TLAPS

\* Which packet created the owner.
StartupType == [by : Packets \cup {None}, gen : 0..MaxGen]

\* The version tells the first generations: 0 has none, the older schema one.
VersionInv ==
  /\ owner.version = 0 => owner.gen = 0
  /\ owner.version = 3 => owner.gen = 1
  /\ owner.version = 4 => owner.gen > 0

\* An evaluation serves a generation that was bound and has begun.
EvaluationInv ==
  /\ \A g \in Gens : may[g] # {} => evaluation[g] \in Alive
  /\ \A g \in Gens : g > owner.gen => evaluation[g] = "none"
  /\ owner.gen > 0 => /\ evaluation[owner.gen] # "none" => owner.session
                      /\ owner.armed => evaluation[owner.gen] # "none"

\* What is on its way goes to workers of its generation, which is armed then,
\* or to workers the owner holds for exposed; those are not the pool's.
ExposureInv ==
  /\ owner.gen > 0 => may[owner.gen] \subseteq owner.workers
  /\ owner.version = 4 =>
       /\ may[owner.gen] # {} => owner.armed
       /\ owner.exposed \cap owner.workers = {}
       /\ \A g \in Gens : g < owner.gen => may[g] \subseteq owner.exposed

\* What the confirmation of quiescence is worth later: while the owner is the
\* one it was given for, an evaluation that armed since would show.
QuietSince(p) ==
  /\ \A g \in Gens : g < packet[p].expected.gen => evaluation[g] \notin Alive
  /\ packet[p].expected.armed =>
       evaluation[packet[p].expected.gen] \in {"joined", "gone"}
  /\ packet[p].expected.version = 3 => evaluation[1] \notin Alive

\* What a packet expects was once the owner, and may still be true of it.
PacketInv ==
  \A p \in Packets :
    /\ packet[p].planned =>
         /\ packet[p].expected.gen <= owner.gen
         /\ packet[p].expected.gen = owner.gen =>
              packet[p].expected.version = owner.version
         /\ packet[p].physical => QuietSince(p)
    /\ packet[p].physical => packet[p].planned
    /\ packet[p].expected.version = 3 => packet[p].expected.gen = 1
    /\ packet[p].expected.version = 4 => packet[p].expected.gen > 0
    /\ packet[p].expected.armed => packet[p].expected.version = 4

\* A packet creates only the generation after the one it expects.
AcquiredInv ==
  \A p \in Packets : \A g \in acquired[p] :
    packet[p].planned /\ g = packet[p].expected.gen + 1

\* The inductive invariant.
FenceInv ==
  /\ FenceTypeOK /\ VersionInv /\ EvaluationInv /\ ExposureInv
  /\ PacketInv /\ AcquiredInv

----------------------------------------------------------------------------
\* The fresh owner and every owner of the older schema satisfy the invariant.
LEMMA InitFence == Init => FenceInv
<1> SUFFICES ASSUME Init PROVE FenceInv
  OBVIOUS
<1> USE FenceAssumption
<1>0. AllIdle \in [Workers -> Phases] /\ \A w \in Workers : AllIdle[w] = "idle"
  BY DEF AllIdle, Phases
<1>1. NoOwner \in OwnerType
  BY <1>0 DEF NoOwner, OwnerType, NoStartup
<1>2. /\ owner \in OwnerType /\ owner.phase = AllIdle /\ ~owner.armed
      /\ \/ owner.version = 0 /\ owner.gen = 0
         \/ owner.version = 3 /\ owner.gen = 1
  <2>1. CASE owner = NoOwner
    BY <2>1, <1>1 DEF NoOwner
  <2>2. ASSUME NEW s \in Pools, NEW b \in BOOLEAN, owner = OldOwner(s, b)
        PROVE  /\ owner \in OwnerType /\ owner.phase = AllIdle /\ ~owner.armed
               /\ owner.version = 3 /\ owner.gen = 1
    <3>1. s \in SUBSET Workers
      BY DEF Pools
    <3>2. owner = [version |-> 3, gen |-> 1, workers |-> s, phase |-> AllIdle,
                   session |-> b, armed |-> FALSE, exposed |-> {},
                   startup |-> NoStartup]
      BY <2>2 DEF NoOwner, OldOwner
    <3>3. NoStartup \in StartupType
      BY DEF NoStartup, StartupType
    <3> QED BY <1>0, <3>1, <3>2, <3>3 DEF OwnerType, StartupType
  <2> QED BY <2>1, <2>2 DEF Init
<1>4. FenceTypeOK
  <2>1. packet \in [Packets -> PacketType]
    BY <1>1 DEF Init, NoPacket, PacketType
  <2> QED BY <1>0, <1>2, <2>1 DEF FenceTypeOK, Init, Evaluations
<1>5. VersionInv
  BY <1>2 DEF VersionInv
<1>6. EvaluationInv
  BY <1>2 DEF EvaluationInv, Init, Gens
<1>7. ExposureInv
  BY <1>2 DEF ExposureInv, Init, Gens
<1>8. PacketInv
  BY DEF PacketInv, Init, NoPacket, NoOwner
<1>9. AcquiredInv
  BY DEF AcquiredInv, Init
<1> QED BY <1>4, <1>5, <1>6, <1>7, <1>8, <1>9 DEF FenceInv

----------------------------------------------------------------------------
\* Nothing of this or an earlier generation is on its way.
Quiet == \A g \in Gens : g <= owner.gen => may[g] = {}

\* The facts about the owner's types that the other proofs use.
LEMMA OwnerTypes ==
  ASSUME FenceTypeOK
  PROVE  /\ owner.version \in {0, 3, 4} /\ owner.gen \in 0..MaxGen /\ owner.gen \in Int
         /\ owner.workers \subseteq Workers /\ owner.exposed \subseteq Workers
         /\ owner.phase \in [Workers -> Phases] /\ owner.session \in BOOLEAN
         /\ owner.armed \in BOOLEAN /\ owner.startup \in StartupType
         /\ owner.gen > 0 => owner.gen \in Gens
  BY FenceAssumption DEF FenceTypeOK, OwnerType, StartupType, Gens

\* The facts about a packet's types that the other proofs use.
LEMMA PacketTypes ==
  ASSUME FenceTypeOK, NEW p \in Packets
  PROVE  /\ packet[p].planned \in BOOLEAN /\ packet[p].physical \in BOOLEAN
         /\ packet[p].expected \in OwnerType /\ packet[p].workers \subseteq Workers
         /\ packet[p].expected.version \in {0, 3, 4}
         /\ packet[p].expected.gen \in 0..MaxGen /\ packet[p].expected.gen \in Int
  <1>1. packet[p] \in PacketType
    BY DEF FenceTypeOK
  <1>2. packet[p].expected \in OwnerType
    BY <1>1 DEF PacketType
  <1> QED BY <1>1, <1>2, FenceAssumption DEF PacketType, OwnerType

\* While the owner is the one the confirmation was given for, all is quiet.
LEMMA ConfirmedIsQuiet ==
  ASSUME FenceInv, NEW p \in Packets, packet[p].physical, packet[p].expected = owner
  PROVE  Quiet
<1>1. packet[p].planned /\ QuietSince(p)
  BY DEF FenceInv, PacketInv
<1>2. FenceTypeOK /\ VersionInv /\ EvaluationInv /\ ExposureInv
  BY DEF FenceInv
<1>3. ASSUME NEW g \in Gens, g <= owner.gen PROVE may[g] = {}
  <2>1. CASE g < owner.gen
    <3>1. evaluation[g] \notin Alive
      BY <1>1, <2>1 DEF QuietSince
    <3> QED BY <3>1, <1>2 DEF EvaluationInv
  <2>2. CASE g = owner.gen
    <3>1. CASE owner.version = 4
      <4>1. CASE owner.armed
        <5>1. evaluation[g] \in {"joined", "gone"}
          BY <1>1, <2>2, <4>1 DEF QuietSince
        <5>2. evaluation[g] \notin Alive
          BY <5>1 DEF Alive
        <5> QED BY <5>2, <1>2 DEF EvaluationInv
      <4>2. CASE ~owner.armed
        BY <1>2, <2>2, <3>1, <4>2 DEF ExposureInv
      <4> QED BY <4>1, <4>2
    <3>2. CASE owner.version = 3
      <4>1. g = 1
        BY <1>2, <2>2, <3>2 DEF VersionInv
      <4>2. evaluation[g] \notin Alive
        BY <1>1, <3>2, <4>1 DEF QuietSince
      <4> QED BY <4>2, <1>2 DEF EvaluationInv
    <3>3. CASE owner.version = 0
      BY <1>2, <2>2, <3>3, FenceAssumption DEF VersionInv, Gens
    <3> QED BY <1>2, <3>1, <3>2, <3>3, OwnerTypes
  <2> QED BY <1>2, <1>3, <2>1, <2>2, OwnerTypes DEF Gens
<1> QED BY <1>3 DEF Quiet

\* The packets' part survives a step that only moves the owner and evaluations
\* forward and starts none that a confirmation rules out.
LEMMA PacketsKept ==
  ASSUME FenceInv, packet' = packet,
         owner'.gen \in Int, owner'.gen >= owner.gen,
         owner'.gen = owner.gen => owner'.version = owner.version,
         \A g \in Gens : g < owner.gen /\ evaluation[g] \notin Alive
                           => evaluation'[g] \notin Alive,
         \A g \in Gens : evaluation[g] \in {"joined", "gone"}
                           => evaluation'[g] \in {"joined", "gone"},
         \A p \in Packets :
           (packet[p].physical /\ packet[p].expected.version = 3
             /\ evaluation[1] \notin Alive) => evaluation'[1] \notin Alive
  PROVE  PacketInv'
<1>0. FenceTypeOK
  BY DEF FenceInv
<1> SUFFICES ASSUME NEW p \in Packets, packet[p].planned
             PROVE  /\ packet[p].expected.gen <= owner'.gen
                    /\ packet[p].expected.gen = owner'.gen =>
                         packet[p].expected.version = owner'.version
                    /\ packet[p].physical => QuietSince(p)'
  <2>1. PacketInv
    BY DEF FenceInv
  <2> QED BY <2>1 DEF PacketInv
<1>1. /\ packet[p].expected.gen <= owner.gen
      /\ packet[p].expected.gen = owner.gen => packet[p].expected.version = owner.version
      /\ packet[p].physical => QuietSince(p)
      /\ packet[p].expected.armed => packet[p].expected.version = 4
      /\ packet[p].expected.version = 4 => packet[p].expected.gen > 0
  BY DEF FenceInv, PacketInv
<1>2. owner.gen \in Int /\ packet[p].expected.gen \in 0..MaxGen
      /\ packet[p].expected.gen \in Int
  BY <1>0, OwnerTypes, PacketTypes
<1>3. ASSUME packet[p].physical PROVE QuietSince(p)'
  <2>1. \A g \in Gens : g < packet[p].expected.gen => evaluation'[g] \notin Alive
    <3> TAKE g \in Gens
    <3> HAVE g < packet[p].expected.gen
    <3>1. g < owner.gen
      BY <1>1, <1>2, FenceAssumption DEF Gens
    <3>2. evaluation[g] \notin Alive
      BY <1>1, <1>3 DEF QuietSince
    <3> QED BY <3>1, <3>2
  <2>2. packet[p].expected.armed => evaluation'[packet[p].expected.gen] \in {"joined", "gone"}
    <3> HAVE packet[p].expected.armed
    <3>1. packet[p].expected.gen \in Gens
      BY <1>1, <1>2, FenceAssumption DEF Gens
    <3> QED BY <3>1, <1>1, <1>3 DEF QuietSince
  <2>3. packet[p].expected.version = 3 => evaluation'[1] \notin Alive
    BY <1>1, <1>3 DEF QuietSince
  <2> QED BY <2>1, <2>2, <2>3 DEF QuietSince
<1> QED BY <1>1, <1>2, <1>3

\* The next generation begins with nothing on its way to its workers: whatever
\* the proof of the exclusion, all that is left is exposed.
LEMMA RotationKeeps ==
  ASSUME FenceInv, NEW physical \in BOOLEAN, NEW targets \in SUBSET Workers,
         NEW phase \in [Workers -> Phases], NEW startup \in StartupType,
         \A w \in Workers \ targets : phase[w] = "idle",
         physical => Quiet,
         acquired' \in [Packets -> SUBSET Gens],
         Rotate(physical, targets, phase, startup)
  PROVE  /\ FenceTypeOK' /\ VersionInv' /\ EvaluationInv' /\ ExposureInv' /\ PacketInv'
<1>0. FenceTypeOK /\ VersionInv /\ EvaluationInv /\ ExposureInv
  BY DEF FenceInv
<1>1. PICK exposed \in Exclusions(physical, targets) :
        owner' = [version |-> 4, gen |-> owner.gen + 1, workers |-> targets,
                  phase |-> phase, session |-> FALSE, armed |-> FALSE,
                  exposed |-> exposed, startup |-> startup] /\ rebooted' = FALSE
  BY DEF Rotate, Put
<1>2. UNCHANGED <<evaluation, may, packet>> /\ owner.gen < MaxGen
  BY DEF Rotate
<1>3. owner.gen \in Int /\ owner.gen \in 0..MaxGen /\ owner.gen + 1 \in Gens
      /\ owner.version \in {0, 3, 4}
      /\ owner.workers \subseteq Workers /\ owner.exposed \subseteq Workers
  BY <1>0, <1>2, OwnerTypes, FenceAssumption DEF Gens
<1>4. /\ exposed \subseteq Workers
      /\ exposed \cap targets = {}
      /\ \A g \in Gens : g <= owner.gen => may[g] \subseteq exposed
  <2>1. CASE physical
    <3>1. exposed = {}
      BY <2>1, <1>1 DEF Exclusions
    <3> QED BY <2>1, <3>1 DEF Quiet
  <2>2. CASE ~physical /\ owner.version = 4
    <3>1. exposed = owner.exposed \cup Unjoined /\ exposed \cap targets = {}
      BY <2>2, <1>1 DEF Exclusions
    <3>2. Unjoined \subseteq Workers
      BY <1>3 DEF Unjoined
    <3>3. ASSUME NEW g \in Gens, g < owner.gen PROVE may[g] \subseteq exposed
      BY <3>1, <3>3, <2>2, <1>0 DEF ExposureInv
    <3>4. ASSUME owner.gen \in Gens PROVE may[owner.gen] \subseteq exposed
      <4>1. CASE ~owner.armed
        BY <4>1, <2>2, <1>0 DEF ExposureInv
      <4>2. CASE owner.armed /\ Joined
        <5>1. evaluation[owner.gen] \notin Alive
          BY <4>2 DEF Joined, Alive
        <5> QED BY <3>4, <5>1, <1>0 DEF EvaluationInv
      <4>3. CASE owner.armed /\ ~Joined
        <5>1. Unjoined = owner.workers
          BY <4>3 DEF Unjoined
        <5>2. may[owner.gen] \subseteq owner.workers
          BY <3>4, <1>0, FenceAssumption DEF ExposureInv, Gens
        <5> QED BY <5>1, <5>2, <3>1
      <4> QED BY <4>1, <4>2, <4>3
    <3>5. ASSUME NEW g \in Gens, g <= owner.gen PROVE g < owner.gen \/ g = owner.gen
      BY <3>5, <1>3 DEF Gens
    <3> QED BY <3>1, <3>2, <3>3, <3>4, <3>5, <1>3
  <2>3. CASE ~physical /\ owner.version # 4
    <3>1. exposed = owner.workers /\ exposed \cap targets = {} /\ owner.version = 3
      BY <2>3, <1>1 DEF Exclusions
    <3>2. owner.gen = 1
      BY <3>1, <1>0 DEF VersionInv
    <3>3. ASSUME NEW g \in Gens, g <= owner.gen PROVE g = owner.gen
      BY <3>2, <3>3 DEF Gens
    <3>4. may[owner.gen] \subseteq owner.workers
      BY <3>2, <1>0 DEF ExposureInv
    <3> QED BY <3>1, <3>3, <3>4, <1>3
  <2> QED BY <2>1, <2>2, <2>3
<1>5. FenceTypeOK'
  <2>1. owner' \in OwnerType
    BY <1>1, <1>3, <1>4 DEF OwnerType, StartupType, Gens
  <2>2. owner'.armed = FALSE /\ owner'.workers = targets /\ owner'.phase = phase
    BY <1>1
  <2>3. rebooted' \in BOOLEAN
    BY <1>1
  <2> QED BY <1>0, <1>2, <2>1, <2>2, <2>3 DEF FenceTypeOK
<1>6. VersionInv'
  BY <1>1, <1>3 DEF VersionInv
<1>7. \A g \in Gens : g > owner.gen => evaluation[g] = "none" /\ may[g] = {}
  BY <1>0 DEF EvaluationInv, Alive
<1>8. EvaluationInv'
  <2>1. evaluation'[owner'.gen] = "none" /\ owner'.gen = owner.gen + 1
        /\ owner'.armed = FALSE
    BY <1>1, <1>2, <1>3, <1>7
  <2>2. \A g \in Gens : g > owner'.gen => g > owner.gen
    BY <2>1, <1>3 DEF Gens
  <2>3. \A g \in Gens : g > owner'.gen => evaluation'[g] = "none"
    BY <2>2, <1>2, <1>7
  <2>4. \A g \in Gens : may'[g] # {} => evaluation'[g] \in Alive
    BY <1>0, <1>2 DEF EvaluationInv
  <2> QED BY <2>1, <2>3, <2>4 DEF EvaluationInv
<1>9. ExposureInv'
  <2>1. owner'.gen = owner.gen + 1 /\ may'[owner'.gen] = {}
        /\ owner'.exposed = exposed /\ owner'.workers = targets
    BY <1>1, <1>2, <1>3, <1>7
  <2>2. \A g \in Gens : g < owner'.gen => may'[g] \subseteq owner'.exposed
    <3> TAKE g \in Gens
    <3> HAVE g < owner'.gen
    <3>1. g <= owner.gen
      BY <2>1, <1>3 DEF Gens
    <3> QED BY <3>1, <2>1, <1>2, <1>4
  <2> QED BY <2>1, <2>2, <1>4 DEF ExposureInv
<1>10. PacketInv'
  BY PacketsKept, <1>1, <1>2, <1>3
<1> QED BY <1>5, <1>6, <1>8, <1>9, <1>10

----------------------------------------------------------------------------
\* A plan, and a confirmation that is true when it is given.
LEMMA PlanKeeps ==
  ASSUME FenceInv, NEW p \in Packets, NEW s \in Pools, NEW b \in BOOLEAN, Plan(p, s, b)
  PROVE  FenceInv'
<1>0. /\ FenceTypeOK /\ VersionInv /\ EvaluationInv /\ ExposureInv /\ PacketInv /\ AcquiredInv
  BY DEF FenceInv
<1> DEFINE new == [planned |-> TRUE, expected |-> owner, workers |-> s, physical |-> b]
<1>1. /\ UNCHANGED <<owner, evaluation, may, acquired, rebooted>>
      /\ packet' = [packet EXCEPT ![p] = new] /\ ~packet[p].planned
      /\ b => \A g \in Gens : evaluation[g] \notin Alive
  BY DEF Plan
<1>2. packet' \in [Packets -> PacketType] /\ packet'[p] = new
      /\ \A q \in Packets \ {p} : packet'[q] = packet[q]
  <2>1. new \in PacketType
    BY <1>0 DEF PacketType, Pools, FenceTypeOK
  <2> QED BY <1>0, <1>1, <2>1 DEF FenceTypeOK
<1>3. FenceTypeOK'
  BY <1>0, <1>1, <1>2 DEF FenceTypeOK
<1>4. VersionInv' /\ EvaluationInv' /\ ExposureInv'
  BY <1>0, <1>1 DEF VersionInv, EvaluationInv, ExposureInv
<1>5. AcquiredInv'
  BY <1>0, <1>1, <1>2 DEF AcquiredInv
<1>6. ASSUME b PROVE QuietSince(p)'
  <2>1. packet'[p].expected = owner
    BY <1>2
  <2>2. \A g \in Gens : evaluation'[g] \notin Alive
    BY <1>1, <1>6
  <2>3. ASSUME owner.armed PROVE evaluation[owner.gen] \in {"joined", "gone"}
    <3>1. owner.gen \in Gens
      BY <1>0, <2>3, OwnerTypes DEF VersionInv, FenceTypeOK
    <3>2. evaluation[owner.gen] \in Evaluations /\ evaluation[owner.gen] # "none"
      BY <1>0, <2>3, <3>1, FenceAssumption DEF FenceTypeOK, EvaluationInv, Gens
    <3>3. evaluation[owner.gen] \notin Alive
      BY <1>1, <2>2, <3>1
    <3> QED BY <3>2, <3>3 DEF Evaluations, Alive
  <2>4. 1 \in Gens
    BY FenceAssumption DEF Gens
  <2> QED BY <1>1, <2>1, <2>2, <2>3, <2>4 DEF QuietSince
<1>7. PacketInv'
  <2> SUFFICES ASSUME NEW q \in Packets
               PROVE  /\ packet'[q].planned =>
                           /\ packet'[q].expected.gen <= owner'.gen
                           /\ packet'[q].expected.gen = owner'.gen =>
                                packet'[q].expected.version = owner'.version
                           /\ packet'[q].physical => QuietSince(q)'
                      /\ packet'[q].physical => packet'[q].planned
                      /\ packet'[q].expected.version = 3 => packet'[q].expected.gen = 1
                      /\ packet'[q].expected.version = 4 => packet'[q].expected.gen > 0
                      /\ packet'[q].expected.armed => packet'[q].expected.version = 4
    BY DEF PacketInv
  <2>1. CASE q = p
    <3>1. packet'[p].expected = owner /\ packet'[p].planned /\ packet'[p].physical = b
      BY <1>2
    <3>2. owner.gen <= owner'.gen
      BY <1>0, <1>1, OwnerTypes
    <3> QED BY <2>1, <3>1, <3>2, <1>0, <1>1, <1>6 DEF VersionInv, FenceTypeOK
  <2>2. CASE q # p
    <3>1. QuietSince(q) => QuietSince(q)'
      BY <1>1, <1>2, <2>2 DEF QuietSince
    <3> QED BY <2>2, <3>1, <1>0, <1>1, <1>2 DEF PacketInv
  <2> QED BY <2>1, <2>2
<1> QED BY <1>3, <1>4, <1>5, <1>7 DEF FenceInv

\* A commit of the very state that was planned makes the packet's one generation.
LEMMA CommitKeeps ==
  ASSUME FenceInv, NEW p \in Packets, Commit(p)
  PROVE  FenceInv'
<1>0. FenceTypeOK /\ PacketInv /\ AcquiredInv
  BY DEF FenceInv
<1> DEFINE startup == [by |-> p, gen |-> owner.gen + 1]
<1>1. /\ packet[p].planned /\ packet[p].expected = owner
      /\ Rotate(packet[p].physical, packet[p].workers, AllIdle, startup)
      /\ acquired' = [acquired EXCEPT ![p] = @ \cup {owner.gen + 1}]
  BY DEF Commit, Unchanged
<1>2. packet[p].physical \in BOOLEAN /\ packet[p].workers \in SUBSET Workers
  BY <1>0, PacketTypes
<1>3. AllIdle \in [Workers -> Phases] /\ \A w \in Workers : AllIdle[w] = "idle"
  BY DEF AllIdle, Phases
<1>4. owner.gen + 1 \in Gens /\ owner.gen + 1 \in 0..MaxGen /\ packet' = packet
  BY <1>0, <1>1, OwnerTypes, FenceAssumption DEF Rotate, Gens
<1>5. startup \in StartupType
  BY <1>4 DEF StartupType
<1>6. packet[p].physical => Quiet
  BY <1>1, ConfirmedIsQuiet
<1>7. acquired' \in [Packets -> SUBSET Gens]
  BY <1>0, <1>1, <1>4 DEF FenceTypeOK
<1>8. FenceTypeOK' /\ VersionInv' /\ EvaluationInv' /\ ExposureInv' /\ PacketInv'
  BY <1>1, <1>2, <1>3, <1>5, <1>6, <1>7, RotationKeeps
<1>9. AcquiredInv'
  <2> SUFFICES ASSUME NEW q \in Packets, NEW g \in acquired'[q]
               PROVE  packet[q].planned /\ g = packet[q].expected.gen + 1
    BY <1>4 DEF AcquiredInv
  <2>1. CASE q = p /\ g = owner.gen + 1
    BY <2>1, <1>1
  <2>2. CASE g \in acquired[q]
    BY <2>2, <1>0 DEF AcquiredInv
  <2> QED BY <2>1, <2>2, <1>0, <1>1 DEF FenceTypeOK
<1> QED BY <1>8, <1>9 DEF FenceInv

\* A rotation by another operation than commit.
LEMMA OtherRotationKeeps ==
  ASSUME FenceInv, NEW physical \in BOOLEAN, NEW phase \in [Workers -> Phases],
         \A w \in Workers \ owner.workers : phase[w] = "idle",
         physical => Quiet, UNCHANGED acquired,
         Rotate(physical, owner.workers, phase, owner.startup)
  PROVE  FenceInv'
<1>0. FenceTypeOK /\ AcquiredInv
  BY DEF FenceInv
<1>1. owner.workers \in SUBSET Workers /\ owner.startup \in StartupType
  BY <1>0, OwnerTypes
<1>2. acquired' \in [Packets -> SUBSET Gens] /\ packet' = packet
  BY <1>0 DEF FenceTypeOK, Rotate
<1>3. FenceTypeOK' /\ VersionInv' /\ EvaluationInv' /\ ExposureInv' /\ PacketInv'
  BY <1>1, <1>2, RotationKeeps
<1>4. AcquiredInv'
  BY <1>0, <1>2 DEF AcquiredInv
<1> QED BY <1>3, <1>4 DEF FenceInv

\* Every rotation keeps the invariant.
LEMMA RotationsKeep ==
  ASSUME FenceInv, Rotation
  PROVE  FenceInv'
<1>0. FenceTypeOK /\ owner.phase \in [Workers -> Phases]
      /\ \A w \in Workers \ owner.workers : owner.phase[w] = "idle"
  BY OwnerTypes DEF FenceInv, FenceTypeOK
<1>1. ASSUME NEW p \in Packets, Recover(p) PROVE FenceInv'
  <2> DEFINE phase == [w \in Workers |-> IF owner.phase[w] = "running"
                                          THEN "inherited" ELSE owner.phase[w]]
  <2>1. /\ packet[p].physical /\ packet[p].expected = owner /\ UNCHANGED acquired
        /\ Rotate(TRUE, owner.workers, phase, owner.startup)
    BY <1>1 DEF Recover, Unchanged
  <2>2. phase \in [Workers -> Phases]
        /\ \A w \in Workers \ owner.workers : phase[w] = "idle"
    BY <1>0 DEF Phases
  <2>3. Quiet
    BY <2>1, ConfirmedIsQuiet
  <2> QED BY <2>1, <2>2, <2>3, OtherRotationKeeps
<1>2. ASSUME Start PROVE FenceInv'
  BY <1>0, <1>2, OtherRotationKeeps DEF Start
<1>3. ASSUME Handoff PROVE FenceInv'
  <2>1. AllIdle \in [Workers -> Phases] /\ \A w \in Workers : AllIdle[w] = "idle"
    BY DEF AllIdle, Phases
  <2> QED BY <1>3, <2>1, OtherRotationKeeps DEF Handoff
<1>4. ASSUME Takeover PROVE FenceInv'
  <2> DEFINE phase == [w \in Workers |-> IF owner.phase[w] = "idle" THEN "idle"
                                          ELSE "inherited"]
  <2>1. phase \in [Workers -> Phases]
        /\ \A w \in Workers \ owner.workers : phase[w] = "idle"
    BY <1>0 DEF Phases
  <2>2. UNCHANGED acquired /\ Rotate(FALSE, owner.workers, phase, owner.startup)
    BY <1>4 DEF Takeover
  <2> QED BY <2>1, <2>2, OtherRotationKeeps
<1> QED BY <1>1, <1>2, <1>3, <1>4, PlanKeeps, CommitKeeps DEF Rotation

----------------------------------------------------------------------------
\* A write within a generation that arms nothing.
LEMMA WriteKeeps ==
  ASSUME FenceInv, UNCHANGED <<evaluation, may, packet, acquired>>, rebooted' \in BOOLEAN,
         owner' \in OwnerType,
         owner'.gen = owner.gen, owner'.version = owner.version,
         owner'.workers = owner.workers, owner'.exposed = owner.exposed,
         owner'.armed = owner.armed,
         owner.session => owner'.session \/ (~owner.armed /\ evaluation[owner.gen] = "none"),
         \A w \in Workers \ owner.workers : owner'.phase[w] = "idle"
  PROVE  FenceInv'
<1>0. /\ FenceTypeOK /\ VersionInv /\ EvaluationInv /\ ExposureInv /\ AcquiredInv
  BY DEF FenceInv
<1>1. owner.gen \in Int /\ owner.session \in BOOLEAN
  BY <1>0, OwnerTypes
<1>2. FenceTypeOK'
  BY <1>0 DEF FenceTypeOK
<1>3. VersionInv' /\ EvaluationInv' /\ ExposureInv'
  BY <1>0 DEF VersionInv, EvaluationInv, ExposureInv
<1>4. PacketInv'
  BY <1>1, PacketsKept
<1>5. AcquiredInv'
  BY <1>0 DEF AcquiredInv
<1> QED BY <1>2, <1>3, <1>4, <1>5 DEF FenceInv

\* Binding, detaching, reserving and settling.
LEMMA WritesKeep ==
  ASSUME FenceInv, Bind \/ Detach \/ \E w \in Workers : Reserve(w) \/ Settle(w)
  PROVE  FenceInv'
<1>0. /\ FenceTypeOK /\ owner \in OwnerType /\ owner.phase \in [Workers -> Phases]
      /\ \A w \in Workers \ owner.workers : owner.phase[w] = "idle"
  BY OwnerTypes DEF FenceInv, FenceTypeOK
<1>1. ASSUME NEW b \in BOOLEAN, owner' = [owner EXCEPT !.session = b],
             b \/ (~owner.armed /\ evaluation[owner.gen] = "none"),
             UNCHANGED <<evaluation, may, packet, acquired>>, rebooted' = FALSE
      PROVE  FenceInv'
  <2>1. owner' \in OwnerType
    BY <1>0, <1>1 DEF OwnerType
  <2>2. /\ owner'.gen = owner.gen /\ owner'.version = owner.version
        /\ owner'.workers = owner.workers /\ owner'.exposed = owner.exposed
        /\ owner'.armed = owner.armed /\ owner'.session = b /\ owner'.phase = owner.phase
    BY <1>0, <1>1 DEF OwnerType
  <2> QED BY <1>0, <1>1, <2>1, <2>2, WriteKeeps
<1>2. ASSUME NEW w \in Workers, NEW s \in {"idle", "reserved"},
             owner' = [owner EXCEPT !.phase[w] = s],
             s = "reserved" => w \in owner.workers,
             UNCHANGED <<evaluation, may, packet, acquired>>, rebooted' = FALSE
      PROVE  FenceInv'
  <2> DEFINE phase == [owner.phase EXCEPT ![w] = s]
  <2>1. phase \in [Workers -> Phases]
        /\ \A x \in Workers \ owner.workers : phase[x] = "idle"
    BY <1>0, <1>2 DEF Phases
  <2>2. owner' = [owner EXCEPT !.phase = phase]
    BY <1>0, <1>2
  <2> HIDE DEF phase
  <2>3. owner' \in OwnerType
    BY <1>0, <2>1, <2>2 DEF OwnerType
  <2>4. /\ owner'.gen = owner.gen /\ owner'.version = owner.version
        /\ owner'.workers = owner.workers /\ owner'.exposed = owner.exposed
        /\ owner'.armed = owner.armed /\ owner'.session = owner.session
        /\ owner'.phase = phase
    BY <1>0, <2>2 DEF OwnerType
  <2> QED BY <1>2, <2>1, <2>3, <2>4, WriteKeeps
<1>3. CASE Bind
  BY <1>1, <1>3 DEF Bind, Put
<1>4. CASE Detach
  BY <1>1, <1>4 DEF Detach, Put
<1>5. ASSUME NEW w \in Workers, Reserve(w) PROVE FenceInv'
  BY <1>2, <1>5 DEF Reserve, Put
<1>6. ASSUME NEW w \in Workers, Settle(w) PROVE FenceInv'
  BY <1>2, <1>6 DEF Settle, Put
<1> QED BY <1>3, <1>4, <1>5, <1>6

\* Arming sets the fence before anything is on its way.
LEMMA ArmKeeps ==
  ASSUME FenceInv, NEW w \in Workers, Arm(w)
  PROVE  FenceInv'
<1>0. /\ FenceTypeOK /\ VersionInv /\ EvaluationInv /\ ExposureInv /\ AcquiredInv
      /\ owner \in OwnerType /\ owner.phase \in [Workers -> Phases]
      /\ \A x \in Workers \ owner.workers : owner.phase[x] = "idle"
  BY OwnerTypes DEF FenceInv, FenceTypeOK
<1>1. /\ owner.gen > 0 /\ w \in owner.workers /\ evaluation[owner.gen] \in Alive
      /\ owner' = Running(w) /\ rebooted' = FALSE
      /\ may' = [may EXCEPT ![owner.gen] = @ \cup {w}]
      /\ UNCHANGED <<evaluation, packet, acquired>>
  BY DEF Arm, Put
<1> DEFINE phase == [owner.phase EXCEPT ![w] = "running"]
<1>2. phase \in [Workers -> Phases] /\ \A x \in Workers \ owner.workers : phase[x] = "idle"
  BY <1>0, <1>1 DEF Phases
<1>3. owner' = [[owner EXCEPT !.phase = phase] EXCEPT !.armed = (owner.version = 4)]
  BY <1>0, <1>1 DEF Running
<1> HIDE DEF phase
<1>4. /\ owner'.gen = owner.gen /\ owner'.version = owner.version
      /\ owner'.workers = owner.workers /\ owner'.exposed = owner.exposed
      /\ owner'.armed = (owner.version = 4) /\ owner'.session = owner.session
      /\ owner'.phase = phase
  BY <1>0, <1>3 DEF OwnerType
<1>5. owner' \in OwnerType
  BY <1>0, <1>2, <1>3 DEF OwnerType
<1>6. owner.gen \in Gens /\ owner.gen \in Int
  BY <1>0, <1>1, OwnerTypes
<1>7. /\ may'[owner.gen] = may[owner.gen] \cup {w}
      /\ \A g \in Gens : g # owner.gen => may'[g] = may[g]
      /\ may' \in [Gens -> SUBSET Workers]
  BY <1>0, <1>1, <1>6 DEF FenceTypeOK
<1>8. evaluation[owner.gen] # "none" /\ owner.session
  BY <1>0, <1>1 DEF EvaluationInv, Alive
<1>9. FenceTypeOK'
  BY <1>0, <1>1, <1>2, <1>4, <1>5, <1>7, <1>8 DEF FenceTypeOK
<1>10. VersionInv'
  BY <1>0, <1>4 DEF VersionInv
<1>11. EvaluationInv'
  <2>1. \A g \in Gens : may'[g] # {} => evaluation'[g] \in Alive
    BY <1>0, <1>1, <1>7 DEF EvaluationInv
  <2> QED BY <2>1, <1>0, <1>1, <1>4, <1>8 DEF EvaluationInv
<1>12. ExposureInv'
  <2>1. may'[owner.gen] \subseteq owner.workers
    BY <1>0, <1>1, <1>7 DEF ExposureInv
  <2>2. \A g \in Gens : g < owner.gen => may'[g] = may[g]
    BY <1>6, <1>7 DEF Gens
  <2> QED BY <2>1, <2>2, <1>0, <1>4 DEF ExposureInv
<1>13. PacketInv'
  BY <1>1, <1>4, <1>6, PacketsKept
<1>14. AcquiredInv'
  BY <1>0, <1>1 DEF AcquiredInv
<1> QED BY <1>9, <1>10, <1>11, <1>12, <1>13, <1>14 DEF FenceInv

\* Steps of the evaluations and the host: they send what they may and end; a
\* new one begins only for the bound session of the owner.
LEMMA HostKeeps ==
  ASSUME FenceInv, UNCHANGED <<owner, packet, acquired>>, rebooted' \in BOOLEAN,
         evaluation' \in [Gens -> Evaluations], may' \in [Gens -> SUBSET Workers],
         \A g \in Gens : /\ may'[g] \subseteq may[g]
                         /\ evaluation'[g] \notin Alive => may'[g] = {}
                         /\ evaluation[g] \in {"joined", "gone"} =>
                              evaluation'[g] \in {"joined", "gone"}
                         /\ evaluation[g] # "none" => evaluation'[g] # "none"
                         /\ evaluation'[g] # evaluation[g] /\ evaluation[g] = "none" =>
                              /\ g = owner.gen /\ owner.session /\ Resumable
  PROVE  FenceInv'
<1>0. /\ FenceTypeOK /\ VersionInv /\ EvaluationInv /\ ExposureInv /\ PacketInv /\ AcquiredInv
  BY DEF FenceInv
<1>1. owner.gen \in Int /\ (owner.gen > 0 => owner.gen \in Gens) /\ 1 \in Gens
  BY <1>0, OwnerTypes, FenceAssumption DEF Gens
<1>2. FenceTypeOK' /\ VersionInv' /\ AcquiredInv'
  BY <1>0 DEF FenceTypeOK, VersionInv, AcquiredInv
<1>3. EvaluationInv'
  <2>1. \A g \in Gens : g > owner.gen => g # owner.gen
    BY <1>1 DEF Gens
  <2>2. \A g \in Gens : g > owner.gen => evaluation'[g] = "none"
    BY <2>1, <1>0 DEF EvaluationInv
  <2> QED BY <2>2, <1>0, <1>1 DEF EvaluationInv
<1>4. ExposureInv'
  <2>1. owner.gen > 0 => may'[owner.gen] \subseteq may[owner.gen]
    BY <1>1
  <2>2. owner.gen > 0 => may'[owner.gen] \subseteq owner.workers
    BY <2>1, <1>0 DEF ExposureInv
  <2>3. ASSUME owner.version = 4
        PROVE  /\ may'[owner.gen] # {} => owner.armed
               /\ owner.exposed \cap owner.workers = {}
               /\ \A g \in Gens : g < owner.gen => may'[g] \subseteq owner.exposed
    <3>1. may'[owner.gen] \subseteq may[owner.gen]
      BY <2>1, <2>3, <1>0 DEF VersionInv
    <3> QED BY <2>3, <3>1, <1>0 DEF ExposureInv
  <2> QED BY <2>2, <2>3 DEF ExposureInv
<1>5. \A g \in Gens : evaluation[g] \notin Alive => evaluation[g] \in {"none", "joined", "gone"}
  BY <1>0 DEF FenceTypeOK, Evaluations, Alive
<1>6. ASSUME NEW g \in Gens, g < owner.gen, evaluation[g] \notin Alive
      PROVE  evaluation'[g] \notin Alive
  <2>1. g # owner.gen
    BY <1>6, <1>1 DEF Gens
  <2> QED BY <2>1, <1>5, <1>6 DEF Alive
<1>7. ASSUME NEW p \in Packets, packet[p].physical, packet[p].expected.version = 3,
             evaluation[1] \notin Alive
      PROVE  evaluation'[1] \notin Alive
  <2>1. packet[p].expected.gen = 1 /\ packet[p].planned
    BY <1>0, <1>7 DEF PacketInv
  <2>2. owner.gen = 1 => owner.version = 3
    BY <1>0, <1>7, <2>1 DEF PacketInv
  <2>3. Resumable => owner.gen # 1
    BY <2>2, <1>7 DEF Resumable
  <2> QED BY <2>3, <1>1, <1>5, <1>7 DEF Alive
<1>8. PacketInv'
  BY <1>1, <1>6, <1>7, PacketsKept
<1> QED BY <1>2, <1>3, <1>4, <1>8 DEF FenceInv

\* Every step of serving keeps the invariant.
LEMMA ServicesKeep ==
  ASSUME FenceInv, Service
  PROVE  FenceInv'
<1>0. /\ FenceTypeOK /\ VersionInv /\ EvaluationInv
      /\ evaluation \in [Gens -> Evaluations] /\ may \in [Gens -> SUBSET Workers]
      /\ rebooted \in BOOLEAN
      /\ \A g \in Gens : evaluation[g] \notin Alive => may[g] = {}
  BY DEF FenceInv, FenceTypeOK, EvaluationInv
<1>1. ASSUME NEW g \in Gens, NEW s \in Evaluations, Evaluate(g, s), UNCHANGED may,
             s \notin Alive => may[g] = {},
             \/ evaluation[g] \in Alive /\ s # "none"
             \/ evaluation[g] = "none" /\ s = "serving"
                 /\ g = owner.gen /\ owner.session /\ Resumable
      PROVE  FenceInv'
  <2>1. /\ evaluation' \in [Gens -> Evaluations] /\ evaluation'[g] = s
        /\ \A h \in Gens \ {g} : evaluation'[h] = evaluation[h]
        /\ UNCHANGED <<owner, packet, acquired, rebooted>>
    BY <1>0, <1>1 DEF Evaluate
  <2> QED BY <1>0, <1>1, <2>1, HostKeeps DEF Alive
<1>2. CASE Serve
  <2>1. owner.gen \in Gens
    BY <1>0, <1>2, OwnerTypes DEF Serve
  <2> QED BY <1>1, <1>2, <2>1 DEF Serve, Evaluations, Alive
<1>3. ASSUME NEW g \in Gens, Drain(g) PROVE FenceInv'
  BY <1>1, <1>3 DEF Drain, Evaluations, Alive
<1>4. ASSUME NEW g \in Gens, Join(g) PROVE FenceInv'
  BY <1>1, <1>4 DEF Join, Evaluations, Alive
<1>5. ASSUME NEW g \in Gens, Lose(g) PROVE FenceInv'
  <2>1. /\ evaluation' \in [Gens -> Evaluations] /\ evaluation'[g] = "gone"
        /\ \A h \in Gens \ {g} : evaluation'[h] = evaluation[h] /\ may'[h] = may[h]
        /\ may' \in [Gens -> SUBSET Workers] /\ may'[g] = {}
        /\ UNCHANGED <<owner, packet, acquired, rebooted>> /\ evaluation[g] \in Alive
    BY <1>0, <1>5 DEF Lose, Evaluate, Evaluations
  <2> QED BY <1>0, <2>1, HostKeeps DEF Alive
<1>6. CASE Reboot
  <2>1. /\ \A g \in Gens : /\ may'[g] = {}
                          /\ evaluation'[g] = IF evaluation[g] \in Alive THEN "gone"
                                              ELSE evaluation[g]
        /\ may' \in [Gens -> SUBSET Workers] /\ rebooted' \in BOOLEAN
        /\ UNCHANGED <<owner, packet, acquired>>
    BY <1>6 DEF Reboot
  <2>2. evaluation' \in [Gens -> Evaluations]
    BY <1>0, <1>6 DEF Reboot, Evaluations
  <2> QED BY <1>0, <2>1, <2>2, HostKeeps DEF Alive
<1>7. ASSUME NEW g \in Gens, NEW w \in Workers, Send(g, w) PROVE FenceInv'
  <2>1. /\ may' \in [Gens -> SUBSET Workers] /\ may'[g] = may[g] \ {w}
        /\ \A h \in Gens \ {g} : may'[h] = may[h]
        /\ UNCHANGED <<owner, evaluation, packet, acquired, rebooted>>
    BY <1>0, <1>7 DEF Send
  <2> QED BY <1>0, <2>1, HostKeeps
<1> QED BY <1>2, <1>3, <1>4, <1>5, <1>6, <1>7, WritesKeep, ArmKeeps DEF Service

----------------------------------------------------------------------------
\* The invariant is inductive.
THEOREM FenceInvariant == Spec => []FenceInv
<1>1. Init => FenceInv
  BY InitFence
<1>2. FenceInv /\ [Next]_vars => FenceInv'
  <2> SUFFICES ASSUME FenceInv, [Next]_vars PROVE FenceInv'
    OBVIOUS
  <2>1. CASE Next
    BY <2>1, RotationsKeep, ServicesKeep DEF Next
  <2>2. CASE UNCHANGED vars
    BY <2>2 DEF vars, FenceInv, FenceTypeOK, VersionInv, EvaluationInv, ExposureInv,
                PacketInv, QuietSince, AcquiredInv
  <2> QED BY <2>1, <2>2
<1> QED BY <1>1, <1>2, PTL DEF Spec

\* Every reachable state of the fence is well typed.
THEOREM FenceTypeCorrect == Spec => []FenceTypeOK
<1>1. FenceInv => FenceTypeOK
  BY DEF FenceInv
<1> QED BY <1>1, FenceInvariant, PTL

\* No evaluation of an earlier generation can send to a worker of the pool:
\* what it may still send goes to exposed workers, and the pool has none.
THEOREM EarlierSendersAreExcluded == Spec => []SenderIsExcluded
<1>1. FenceInv => SenderIsExcluded
  BY DEF FenceInv, ExposureInv, SenderIsExcluded
<1> QED BY <1>1, FenceInvariant, PTL

\* A packet makes at most one generation, the one after the state it was
\* planned from.
THEOREM PacketsMakeOneOwner == Spec => []OneOwnerPerPacket
<1>1. FenceInv => OneOwnerPerPacket
  BY DEF FenceInv, AcquiredInv, OneOwnerPerPacket
<1> QED BY <1>1, FenceInvariant, PTL
=============================================================================
