---------------------------- MODULE DirectProofs ----------------------------
(* What direct and legacy assignments promise, for all assignments, workers,  *)
(* tasks and numbers of bindings, wherever a configuration is cut short.      *)
EXTENDS DirectAssignment, Integers, FiniteSetTheorems, TLAPS

----------------------------------------------------------------------------
(* What an accepted response can be the answer to, for all assignments.     *)

\* A numeral spells one index.
LEMMA NumeralsDiffer ==
  ASSUME NEW n \in 1..MaxChunks, NEW m \in 1..MaxChunks,
         Value(Numeral(n)) = Value(Numeral(m))
  PROVE  n = m
<1>1. ASSUME NEW k \in 1..MaxChunks PROVE Value(Numeral(k)) = k
  <2>1. CASE k < 10
    <3>1. Numeral(k) = <<k>>
      BY <2>1 DEF Numeral
    <3> QED BY <3>1 DEF Value
  <2>2. CASE ~(k < 10)
    <3>1. Numeral(k) = <<1, k - 10>>
      BY <2>2 DEF Numeral
    <3>2. Len(Numeral(k)) = 2 /\ Numeral(k)[1] = 1 /\ Numeral(k)[2] = k - 10
      BY <3>1
    <3> QED BY <3>2, <2>2 DEF Value, MaxChunks
  <2> QED BY <2>1, <2>2
<1> QED BY <1>1

\* A short answer does not begin like a chunk.
LEMMA ShortIsNoChunk ==
  ASSUME NEW a, NEW body, ParseShort(a, body) # Refused
  PROVE  ~IsHeader(body[1])
<1>1. CASE IsControl(body[1])
  BY <1>1 DEF IsControl, IsHeader
<1>2. CASE ~IsControl(body[1])
  BY <1>2 DEF ParseShort
<1> QED BY <1>1, <1>2

\* A chunk is one of a root and an index.
LEMMA ChunkNamesItsPlace ==
  ASSUME NEW e, NEW body, ParseChunk(e, body) # Refused
  PROVE  /\ IsHeader(body[1])
         /\ body[1][2] = e.root /\ Value(body[1][3]) = Value(e.digits)
BY DEF ParseChunk

\* A response, of whatever lines, is accepted for one assignment, root and index.
LEMMA OneQuestion ==
  ASSUME NEW s, NEW a \in Ids, NEW b \in Ids, NEW e \in Readings, NEW f \in Readings,
         Accepted(s, a, e), Accepted(s, b, f)
  PROVE  a = b /\ e = f
<1>1. Framed(s, a) /\ Framed(s, b)
  BY DEF Accepted, Parse
<1>2. a = b
  <2>1. Marker(a) = Marker(b)
    BY <1>1 DEF Framed
  <2> QED BY <2>1 DEF Marker
<1> DEFINE body == Interior(s)
<1>3. ASSUME NEW c \in Ids, Accepted(s, c, NoChunk) PROVE ~IsHeader(body[1])
  <2>1. ParseShort(c, body) # Refused
    BY <1>3 DEF Accepted, Parse
  <2> QED BY <2>1, ShortIsNoChunk
<1>4. ASSUME NEW c \in Ids, NEW g \in Expectations, Accepted(s, c, g)
      PROVE  g # NoChunk => /\ IsHeader(body[1])
                            /\ body[1][2] = g.root /\ Value(body[1][3]) = Value(g.digits)
  <2>1. g # NoChunk => ParseChunk(g, body) # Refused
    BY <1>4 DEF Accepted, Parse
  <2> QED BY <2>1, ChunkNamesItsPlace
<1>5. ASSUME NEW g \in Expectations, NEW h \in Expectations,
             g.root = h.root, Value(g.digits) = Value(h.digits)
      PROVE  g = h
  <2>1. PICK n \in 1..MaxChunks : g.digits = Numeral(n)
    BY DEF Expectations
  <2>2. PICK m \in 1..MaxChunks : h.digits = Numeral(m)
    BY DEF Expectations
  <2>3. n = m
    BY <1>5, <2>1, <2>2, NumeralsDiffer
  <2> QED BY <1>5, <2>1, <2>2, <2>3 DEF Expectations
<1>6. e = f
  BY <1>3, <1>4, <1>5 DEF Readings
<1> QED BY <1>2, <1>6

\* What is left of a response whose end marker was cut off is not accepted.
LEMMA CutIsRefused ==
  ASSUME NEW S, NEW s \in Seq(S), NEW a, NEW e, NEW n \in 1..Len(s), s[n] # Footer(a)
  PROVE  ~Accepted(SubSeq(s, 1, n), a, e)
<1> DEFINE c == SubSeq(s, 1, n)
<1>1. Len(c) = n /\ c[n] = s[n]
  OBVIOUS
<1>2. ~Framed(c, a)
  BY <1>1 DEF Framed
<1> QED BY <1>2 DEF Accepted, Parse

\* The responses the run enumerates are sequences of lines.
LEMMA ResponsesAreLines ==
  ASSUME NEW c \in Ids, NEW d \in Ids, NEW body \in Interiors
  PROVE  \E S : Response(c, d, body) \in Seq(S)
<1> DEFINE S == BodyLines \cup {Marker(a) : a \in Ids} \cup {Footer(a) : a \in Ids}
<1>1. Marker(c) \in S /\ Footer(d) \in S /\ BodyLines \subseteq S
  OBVIOUS
<1> HIDE DEF S
<1>2. PICK n \in 0..2 : body \in [1..n -> BodyLines]
  BY DEF Interiors
<1>3. body \in Seq(S)
  BY <1>1, <1>2
<1>4. Response(c, d, body) \in Seq(S)
  BY <1>1, <1>3 DEF Response
<1> QED BY <1>4

\* An accepted response answers one question, for every set of assignments.
THEOREM OneAnswer == Unmistakable = Ids
<1> SUFFICES ASSUME NEW a \in Ids, NEW c \in Ids, NEW d \in Ids,
                    NEW body \in Interiors, NEW e \in Readings,
                    Accepted(Response(c, d, body), a, e)
             PROVE  LET s == Response(c, d, body) IN
                    /\ \A b \in Ids, f \in Readings : Accepted(s, b, f) => a = b /\ e = f
                    /\ \A n \in 1..(Len(s) - 1) :
                         s[n] # Footer(a) => ~Accepted(SubSeq(s, 1, n), a, e)
  BY DEF Unmistakable
<1> DEFINE s == Response(c, d, body)
<1>1. PICK S : s \in Seq(S)
  BY ResponsesAreLines
<1> HIDE DEF s
<1>2. \A n \in 1..(Len(s) - 1) : n \in 1..Len(s)
  BY <1>1
<1>3. \A b \in Ids, f \in Readings : Accepted(s, b, f) => a = b /\ e = f
  BY OneQuestion DEF s
<1>4. \A n \in 1..(Len(s) - 1) : s[n] # Footer(a) => ~Accepted(SubSeq(s, 1, n), a, e)
  BY <1>1, <1>2, CutIsRefused
<1> QED BY <1>3, <1>4 DEF s

\* The interior of a framed body is the body.
LEMMA InteriorOf ==
  ASSUME NEW S, NEW body \in Seq(S), body # <<>>, NEW a \in Ids
  PROVE  LET s == <<Marker(a)>> \o body \o <<Footer(a)>> IN
         Interior(s) = body /\ Len(s) >= 2 /\ s[1] = Marker(a) /\ s[Len(s)] = Footer(a)
<1> DEFINE s == <<Marker(a)>> \o body \o <<Footer(a)>>
<1>1. /\ Len(s) = Len(body) + 2 /\ Len(body) \in Nat /\ Len(body) > 0
      /\ s[1] = Marker(a) /\ s[Len(s)] = Footer(a)
      /\ \A i \in 1..Len(body) : s[i + 1] = body[i]
  OBVIOUS
<1>2. Interior(s) = SubSeq(s, 2, Len(s) - 1)
  BY <1>1 DEF Interior
<1>3. SubSeq(s, 2, Len(s) - 1) = body
  BY <1>1
<1>4. Len(s) >= 2 /\ s[1] = Marker(a) /\ s[Len(s)] = Footer(a)
  BY <1>1
<1>5. Interior(s) = body
  BY <1>2, <1>3, Zenon
<1> QED BY <1>4, <1>5, Zenon

\* A body without broken lines is parsed as it was framed.
LEMMA FramedIsParsed ==
  ASSUME NEW S, NEW body \in Seq(S), body # <<>>, Broken \notin S, NEW a \in Ids,
         NEW e \in Readings, e # NoChunk => CanonicalIndex(e.digits)
  PROVE  Parse(<<Marker(a)>> \o body \o <<Footer(a)>>, a, e) =
           IF e = NoChunk THEN ParseShort(a, body) ELSE ParseChunk(e, body)
<1> DEFINE s == <<Marker(a)>> \o body \o <<Footer(a)>>
<1>1. Interior(s) = body /\ Len(s) >= 2 /\ s[1] = Marker(a) /\ s[Len(s)] = Footer(a)
  BY InteriorOf, Zenon
<1>2. /\ Len(s) = Len(body) + 2 /\ Len(body) \in Nat
      /\ \A i \in 1..Len(body) : s[i + 1] = body[i] /\ body[i] \in S
  OBVIOUS
<1>3. Marker(a) # Broken /\ Footer(a) # Broken
  <2>1. Marker(a)[1] = "result" /\ Footer(a)[1] = "end" /\ Broken[1] = "broken"
    BY DEF Marker, Footer, Broken
  <2> QED BY <2>1
<1> HIDE DEF s
<1>4. ASSUME NEW i \in 1..Len(s) PROVE s[i] # Broken
  <2>1. CASE i = 1 \/ i = Len(s)
    BY <1>1, <1>3, <2>1
  <2>2. CASE i # 1 /\ i # Len(s)
    <3>1. i - 1 \in 1..Len(body) /\ i = (i - 1) + 1
      BY <1>2, <2>2
    <3> QED BY <1>2, <3>1
  <2> QED BY <2>1, <2>2
<1>5. Framed(s, a)
  BY <1>1, <1>4 DEF Framed
<1>6. Parse(s, a, e) = IF e = NoChunk THEN ParseShort(a, body) ELSE ParseChunk(e, body)
  BY <1>1, <1>5 DEF Parse
<1> QED BY <1>6 DEF s

\* Each of the sixteen indices has a canonical numeral, and one spells 1.
LEMMA NumeralsAreCanonical ==
  ASSUME NEW e \in Expectations
  PROVE  /\ CanonicalIndex(e.digits) /\ e # NoChunk /\ e.root \in Ids
         /\ Value(e.digits) = 1 <=> e.digits = <<1>>
<1>1. PICK n \in 1..MaxChunks : e.digits = Numeral(n)
  BY DEF Expectations
<1>2. CASE n < 10
  <2>1. e.digits = <<n>>
    BY <1>1, <1>2 DEF Numeral
  <2>2. CanonicalIndex(e.digits) /\ Value(e.digits) = n /\ e.digits # <<>>
    BY <2>1, <1>2, n \in 1..9 DEF CanonicalIndex, Value
  <2>3. n = 1 <=> e.digits = <<1>>
    BY <2>1
  <2> QED BY <2>2, <2>3 DEF NoChunk, Expectations
<1>3. CASE ~(n < 10)
  <2>1. e.digits = <<1, n - 10>>
    BY <1>1, <1>3 DEF Numeral
  <2>2. Len(e.digits) = 2 /\ e.digits[1] = 1 /\ e.digits[2] = n - 10 /\ n - 10 \in 0..6
    BY <2>1, <1>3 DEF MaxChunks
  <2>3. CanonicalIndex(e.digits) /\ Value(e.digits) = n /\ e.digits # <<>> /\ e.digits # <<1>>
    BY <2>2 DEF CanonicalIndex, Value
  <2> QED BY <2>3, <1>3 DEF NoChunk, Expectations
<1> QED BY <1>2, <1>3

\* A body that is the control line alone asks for a continuation.
LEMMA ControlIsParsed ==
  ASSUME NEW a, NEW body, body = <<Control(a)>>, IsControl(body[1])
  PROVE  ParseShort(a, body) = [kind |-> "continue"]
<1>1. ParseShort(a, body) =
        IF body = <<Control(a)>> THEN [kind |-> "continue"] ELSE Refused
  <2> DEFINE x == IF body = <<Control(a)>> THEN [kind |-> "continue"] ELSE Refused
             y == [kind |-> "short", body |-> body]
  <2>1. ParseShort(a, body) = CASE IsControl(body[1]) -> x
          [] IsHeader(body[1]) \/ body = <<Blank>> -> Refused [] OTHER -> y
    BY DEF ParseShort
  <2>2. ~IsHeader(body[1]) /\ body # <<Blank>>
    BY DEF IsHeader, IsControl, Blank, Control
  <2> HIDE DEF x, y
  <2>3. ParseShort(a, body) = x
    BY <2>1, <2>2
  <2> QED BY <2>3 DEF x
<1> QED BY <1>1

\* What a prompt asks for is accepted and read back, for every set of assignments.
THEOREM AskedIsAccepted == Understood = Ids
<1> SUFFICES ASSUME NEW a \in Ids, NEW e \in Expectations, NEW final \in {0, 1},
                    NEW body \in {<<Text>>, <<Blank>>}
             PROVE  /\ Parse(Rendered(a, NoChunk, 0, <<Text>>), a, NoChunk).kind = "short"
                    /\ Parse(<<Marker(a), Control(a), Footer(a)>>, a, NoChunk).kind = "continue"
                    /\ Parse(Rendered(a, e, final, body), a, e) =
                         IF body = <<Blank>> /\ (final = 0 \/ e.digits = <<1>>) THEN Refused
                         ELSE [kind |-> "chunk", index |-> Value(e.digits),
                               final |-> final, body |-> body]
  BY DEF Understood
<1> DEFINE H == Header(e.root, e.digits, final)
           S == {Text, Blank, Control(a), H}
<1>1. Text[1] = "text" /\ Blank[1] = "blank" /\ Control(a)[1] = "control" /\ H[1] = "chunk"
      /\ Broken[1] = "broken"
  BY DEF Text, Blank, Control, Header, Broken
<1>2. Broken \notin S
  BY <1>1
<1>3. NoChunk \in Readings /\ e \in Readings
  BY DEF Readings
<1>4. /\ <<Text>> \in Seq(S) /\ <<Control(a)>> \in Seq(S) /\ body \in Seq(S)
      /\ <<Text>> # <<>> /\ <<Control(a)>> # <<>> /\ body # <<>>
  <2>1. Text \in S /\ Blank \in S /\ Control(a) \in S
    OBVIOUS
  <2> HIDE DEF S
  <2>2. \A x \in S : <<x>> \in Seq(S) /\ Len(<<x>>) = 1 /\ Len(<<>>) = 0
    OBVIOUS
  <2>3. \A x \in S : <<x>> \in Seq(S) /\ <<x>> # <<>>
    BY <2>2
  <2>4. body \in Seq(S) /\ body # <<>>
    BY <2>1, <2>3
  <2> QED BY <2>1, <2>3, <2>4
<1>5. Parse(Rendered(a, NoChunk, 0, <<Text>>), a, NoChunk).kind = "short"
  <2>1. Rendered(a, NoChunk, 0, <<Text>>) = <<Marker(a)>> \o <<Text>> \o <<Footer(a)>>
    BY DEF Rendered
  <2>2. Parse(Rendered(a, NoChunk, 0, <<Text>>), a, NoChunk) = ParseShort(a, <<Text>>)
    BY <1>2, <1>3, <1>4, <2>1, FramedIsParsed
  <2>3. ~IsControl(<<Text>>[1]) /\ ~IsHeader(<<Text>>[1]) /\ <<Text>> # <<Blank>>
    BY <1>1 DEF IsControl, IsHeader
  <2> QED BY <2>2, <2>3 DEF ParseShort
<1>6. Parse(<<Marker(a), Control(a), Footer(a)>>, a, NoChunk).kind = "continue"
  <2>1. <<Marker(a), Control(a), Footer(a)>> = <<Marker(a)>> \o <<Control(a)>> \o <<Footer(a)>>
    OBVIOUS
  <2>2. Parse(<<Marker(a), Control(a), Footer(a)>>, a, NoChunk) = ParseShort(a, <<Control(a)>>)
    BY <1>2, <1>3, <1>4, <2>1, FramedIsParsed
  <2>3. <<Control(a)>>[1] = Control(a) /\ IsControl(Control(a))
    BY <1>1 DEF IsControl
  <2>4. ParseShort(a, <<Control(a)>>) = [kind |-> "continue"]
    BY <2>3, ControlIsParsed
  <2> QED BY <2>1, <2>2, <2>4
<1>7. Parse(Rendered(a, e, final, body), a, e) =
        IF body = <<Blank>> /\ (final = 0 \/ e.digits = <<1>>) THEN Refused
        ELSE [kind |-> "chunk", index |-> Value(e.digits), final |-> final, body |-> body]
  <2> DEFINE whole == <<H>> \o body
  <2>1. whole \in Seq(S) /\ whole # <<>> /\ whole[1] = H /\ Tail(whole) = body
    <3>1. H \in S
      OBVIOUS
    <3> HIDE DEF S, H
    <3> QED BY <1>4, <3>1
  <2>2. CanonicalIndex(e.digits) /\ e # NoChunk /\ (Value(e.digits) = 1 <=> e.digits = <<1>>)
    BY NumeralsAreCanonical
  <2>3. Rendered(a, e, final, body) = <<Marker(a)>> \o whole \o <<Footer(a)>>
    <3>1. Rendered(a, e, final, body) = <<Marker(a), H>> \o body \o <<Footer(a)>>
      BY <2>2 DEF Rendered
    <3>2. <<Marker(a), H>> \o body = <<Marker(a)>> \o whole
      OBVIOUS
    <3> QED BY <3>1, <3>2
  <2>4. Parse(Rendered(a, e, final, body), a, e) = ParseChunk(e, whole)
    BY <1>2, <1>3, <2>1, <2>2, <2>3, FramedIsParsed
  <2>5. /\ IsHeader(H) /\ Len(H) = 4 /\ H[2] = e.root /\ H[3] = e.digits /\ H[4] = final
    BY DEF Header, IsHeader
  <2> HIDE DEF H, whole
  <2>6. ParseChunk(e, whole) =
          IF body = <<Blank>> => final = 1 /\ Value(e.digits) # 1
          THEN [kind |-> "chunk", index |-> Value(e.digits), final |-> final, body |-> body]
          ELSE Refused
    BY <1>4, <2>1, <2>2, <2>5 DEF ParseChunk
  <2> QED BY <2>2, <2>4, <2>6
<1> QED BY <1>5, <1>6, <1>7

----------------------------------------------------------------------------
(* What a step does to a receipt                                            *)

\* The names a receipt was prepared with.
SameNames(old, new) ==
  /\ new.route = old.route /\ new.chat = old.chat /\ new.binding = old.binding
  /\ new.task = old.task /\ new.prior = old.prior

\* A preparation, or a change that leaves the names and every end alone.
ReceiptMoves(old, new) ==
  \/ old.st = "absent" /\ new.st = "prepared"
  \/ /\ old.st # "absent" /\ new.st # "absent" /\ SameNames(old, new)
     /\ old.st \in {"complete", "abandoned"} => new.st = old.st
     /\ new.st = "prepared" => old.st = "prepared"

\* Writing one receipt writes that receipt.
LEMMA SetsOne ==
  ASSUME DirectTypeOK, NEW a \in Ids, NEW rec \in ReceiptType, SetReceipt(a, rec)
  PROVE  /\ receipt' \in [Ids -> ReceiptType] /\ receipt'[a] = rec
         /\ \A x \in Ids : x # a => receipt'[x] = receipt[x]
BY DEF DirectTypeOK, SetReceipt

\* A set of at most one element has one at most.
LEMMA AtMostOne ==
  ASSUME NEW S, IsFiniteSet(S), Cardinality(S) <= 1, NEW a \in S, NEW b \in S
  PROVE  a = b
<1>1. SUFFICES ASSUME a # b PROVE FALSE
  OBVIOUS
<1>2. IsFiniteSet({a}) /\ Cardinality({a}) = 1
  BY FS_Singleton
<1>3. {a} \in SUBSET S /\ Cardinality(S) \in Nat
  BY FS_CardinalityType
<1>4. Cardinality(S) = 1
  BY <1>2, <1>3, FS_Subset
<1>5. PICK x : S = {x}
  BY <1>4, FS_Singleton
<1> QED BY <1>1, <1>5

\* A prepared receipt is a receipt with the names given.
LEMMA PreparedFacts ==
  ASSUME DirectTypeOK, NEW rt \in {"direct", "legacy"}, NEW c \in Chats,
         NEW b \in 0..MaxBindings, NEW t \in Tasks, NEW p \in Ids \cup {None}
  PROVE  LET rec == Prepared(rt, c, b, t, p) IN
         /\ rec \in ReceiptType /\ rec.st = "prepared"
         /\ rec.route = rt /\ rec.chat = c /\ rec.binding = b /\ rec.task = t
         /\ rec.prior = p /\ rec.count = 0 /\ rec.verified = "unset"
         /\ ~rec.no_resend /\ rec.cooldown = "none"
<1> DEFINE rec == Prepared(rt, c, b, t, p)
<1>1. rec = [st |-> "prepared", route |-> rt, chat |-> c, binding |-> b, task |-> t,
             prior |-> p, count |-> 0, verified |-> "unset", correctable |-> FALSE,
             no_resend |-> FALSE, cooldown |-> "none", answer |-> None]
  BY DEF Prepared
<1>2. "prepared" \in Statuses
  BY DEF Statuses, ActiveSt
<1>3. 0 \in 0..1
  OBVIOUS
<1>4. rec \in ReceiptType
  BY <1>1, <1>2, <1>3 DEF ReceiptType
<1>5. /\ rec.st = "prepared"
      /\ rec.route = rt /\ rec.chat = c /\ rec.binding = b /\ rec.task = t
      /\ rec.prior = p /\ rec.count = 0 /\ rec.verified = "unset"
      /\ rec.no_resend = FALSE /\ rec.cooldown = "none"
  BY <1>1
<1> QED BY <1>4, <1>5

\* An answer that is accepted is all of the answer to the assignment itself.
LEMMA AcceptedReply ==
  ASSUME NEW a \in Ids, NEW b \in Ids, NEW whole \in BOOLEAN,
         Accepted(Reply(b, whole), a, NoChunk)
  PROVE  a = b /\ whole
<1>1. Framed(Reply(b, whole), a)
  BY DEF Accepted, Parse
<1>2. CASE whole
  <2>1. Reply(b, whole)[1] = Marker(b)
    BY <1>2 DEF Reply
  <2>2. Marker(b) = Marker(a)
    BY <1>1, <2>1 DEF Framed
  <2> QED BY <1>2, <2>2 DEF Marker
<1>3. CASE ~whole
  <2>1. Reply(b, whole) = <<Marker(b), Text>>
    BY <1>3 DEF Reply
  <2>2. Len(Reply(b, whole)) = 2 /\ Reply(b, whole)[2] = Text
    BY <2>1
  <2>3. Text = Footer(a)
    BY <1>1, <2>2 DEF Framed
  <2>4. Text[1] = "text" /\ Footer(a)[1] = "end"
    BY DEF Text, Footer
  <2> QED BY <2>3, <2>4
<1> QED BY <1>2, <1>3

\* A preparation finds a binding of the registry.
LEMMA SelectedIsBinding ==
  ASSUME DirectTypeOK, NEW t, NEW p \in Ids \cup {None}, NEW b \in Selected(p, t), p = None
  PROVE  /\ b \in DOMAIN registry.bindings /\ b \in 0..MaxBindings
         /\ registry.bindings[b] \in Chats /\ registry.bindings[b] \notin Occupied
<1>1. PICK i \in DOMAIN registry.current :
        registry.current[i] = b /\ registry.bindings[b] \notin Occupied
  BY DEF Selected
<1>2. b \in DOMAIN registry.bindings /\ b \in Bindings
  BY <1>1 DEF DirectTypeOK, Selected
<1>3. registry.bindings \in Seq(Chats)
  BY DEF DirectTypeOK
<1> QED BY <1>1, <1>2, <1>3, DirectAssumption DEF Bindings

----------------------------------------------------------------------------
(* The registry                                                             *)

\* The registry's type.
RegistryType == [present : BOOLEAN, current : Seq(Bindings), bindings : Seq(Chats),
                 bridge : SUBSET Chats, legacy : SUBSET Chats]

\* A typed registry; each current worker has its binding.
RegistryOK(reg) ==
  /\ reg \in RegistryType
  /\ Len(reg.bindings) <= MaxBindings
  /\ \A i \in DOMAIN reg.current : reg.current[i] \in DOMAIN reg.bindings

\* A registry is never left, and nothing in it is ever taken back.
Grown(old, new) ==
  /\ old.present => new.present
  /\ \A i \in DOMAIN old.bindings :
       i \in DOMAIN new.bindings /\ new.bindings[i] = old.bindings[i]
  /\ old.bridge \subseteq new.bridge /\ old.legacy \subseteq new.legacy

\* What the registry and the files know of each other.
FilesInv ==
  /\ ~registry.present => /\ registry.bindings = <<>> /\ registry.current = <<>>
                          /\ registry.bridge = {} /\ registry.legacy = {}
  /\ Disjoint(registry)
  /\ registry.present => workerFile \in registry.bridge \cup {None}
  /\ pool # {} => registry.present /\ pool \subseteq registry.bridge

\* A receipt names the conversation it was prepared for; that of a direct
\* receipt stays bound in the registry.
NamesInv ==
  \A a \in Ids :
    /\ receipt[a].st = "absent" => receipt[a] = NoReceipt
    /\ receipt[a].st # "absent" =>
         receipt[a].route \in {"direct", "legacy"} /\ receipt[a].chat \in Chats
    /\ receipt[a].route = "direct" =>
         /\ registry.present /\ receipt[a].binding \in DOMAIN registry.bindings
         /\ registry.bindings[receipt[a].binding] = receipt[a].chat

\* What every call checks before it prepares, arms or configures.
SoundInv == IsFiniteSet(Direct) /\ IsFiniteSet(Legacy) /\ ReceiptsAreSound

\* What configuration and preparation rest on.
RoutesInv == DirectTypeOK /\ FilesInv /\ NamesInv /\ SoundInv

\* The type invariant says of the registry that it is one.
LEMMA RegistryTyped == DirectTypeOK => RegistryOK(registry)
BY DEF DirectTypeOK, RegistryOK, RegistryType

\* The registry a configuration works on, the first one or the present one, has
\* what the present one has, and knows the workers of the files.
LEMMA RegistryToChange ==
  ASSUME RoutesInv, MayBootstrap
  PROVE  /\ RegistryOK(Registry) /\ Registry.present = TRUE /\ Grown(registry, Registry)
         /\ Registry.bindings = registry.bindings /\ Registry.current = registry.current
         /\ workerFile \in Registry.bridge \cup {None} /\ pool \subseteq Registry.bridge
         /\ \A a \in Legacy : receipt[a].chat \in Registry.legacy
<1>1. RegistryOK(registry) /\ registry \in RegistryType
  BY RegistryTyped DEF RoutesInv, RegistryOK
<1>2. \A a \in Legacy : RouteIsValid(a) /\ receipt[a].route = "legacy"
  BY DEF RoutesInv, SoundInv, ReceiptsAreSound, Legacy
<1>3. CASE registry.present
  <2>1. Registry = registry
    BY <1>3 DEF Registry
  <2>2. \A a \in Legacy : receipt[a].chat \in registry.legacy
    BY <1>2, <1>3 DEF RouteIsValid
  <2>3. registry.present = TRUE
    BY <1>1, <1>3 DEF RegistryType
  <2> QED BY <1>1, <1>3, <2>1, <2>2, <2>3 DEF RoutesInv, FilesInv, Grown
<1>4. CASE ~registry.present
  <2> DEFINE named == {receipt[a].chat : a \in Legacy}
             lg    == IF pool = {} THEN LegacyWorkers ELSE {}
             br    == LegacyWorkers \cup pool \cup named
  <2>1. Registry = [present |-> TRUE, current |-> <<>>, bindings |-> <<>>,
                    legacy |-> lg, bridge |-> br]
    BY <1>4 DEF Registry, InitialRegistry
  <2>2. LegacyWorkers \subseteq Chats /\ workerFile \in LegacyWorkers \cup {None}
    BY DEF LegacyWorkers, RoutesInv, DirectTypeOK
  <2>3. named \subseteq Chats
    BY DEF RoutesInv, NamesInv, Legacy, Active, ActiveSt, PostArm
  <2>4. lg \subseteq Chats /\ br \subseteq Chats
    BY <2>2, <2>3 DEF RoutesInv, DirectTypeOK
  <2>5. \A a \in Legacy : receipt[a].chat \in Registry.legacy
    BY <1>4 DEF MayBootstrap, Registry
  <2> HIDE DEF lg, named
  <2>6. Registry \in RegistryType
    <3>1. <<>> \in Seq(Bindings) /\ <<>> \in Seq(Chats)
      OBVIOUS
    <3> HIDE DEF br
    <3> QED BY <2>1, <2>4, <3>1 DEF RegistryType
  <2>7. /\ registry.bindings = <<>> /\ registry.current = <<>>
        /\ registry.bridge = {} /\ registry.legacy = {}
    BY <1>4 DEF RoutesInv, FilesInv
  <2>8. Registry.bindings = <<>> /\ Registry.current = <<>> /\ Registry.present = TRUE
    BY <2>1
  <2>9. RegistryOK(Registry)
    BY <2>6, <2>8, DirectAssumption DEF RegistryOK
  <2>10. workerFile \in Registry.bridge \cup {None} /\ pool \subseteq Registry.bridge
    BY <2>1, <2>2
  <2>11. Grown(registry, Registry)
    BY <1>4, <2>7, <2>8 DEF Grown
  <2> QED BY <2>5, <2>7, <2>8, <2>9, <2>10, <2>11
<1> QED BY <1>3, <1>4

\* What every change of the workers achieves, whole or cut short.
WorkersChange ==
  /\ UNCHANGED <<receipt, nativeVars>>
  /\ RegistryOK(registry') /\ workerFile' \in Chats \cup {None} /\ pool' \subseteq Chats
  /\ Grown(registry, registry')
  /\ ~registry'.present => registry' = registry
  /\ Disjoint(registry')
  /\ registry'.present => workerFile' \in registry'.bridge \cup {None}
  /\ pool' # {} => registry'.present /\ pool' \subseteq registry'.bridge
  /\ \A a \in Legacy : IF registry'.present THEN receipt[a].chat \in registry'.legacy
                       ELSE receipt[a].chat = workerFile'
  /\ \/ pool' = pool
     \/ pool = {} /\ \A a \in Legacy : receipt[a].chat \in pool'

\* A list of workers is a sequence of one or two conversations.
LEMMA ListsAreShort ==
  ASSUME NEW chats \in WorkerLists
  PROVE  /\ chats \in Seq(Chats) /\ Len(chats) \in {1, 2}
         /\ \A i \in DOMAIN chats : chats[i] \in Chats
<1>1. CASE chats \in {<<c>> : c \in Chats}
  <2>1. PICK c \in Chats : chats = <<c>>
    BY <1>1
  <2> QED BY <2>1
<1>2. CASE chats \in Chats \X Chats
  <2>1. PICK c \in Chats, d \in Chats : chats = <<c, d>>
    BY <1>2
  <2> QED BY <2>1
<1> QED BY <1>1, <1>2 DEF WorkerLists

\* A first configuration, a replacement and a relabelling change the workers so.
LEMMA ConfigureChanges ==
  ASSUME RoutesInv, NEW chats \in WorkerLists, NEW relabelled, Configure(chats, relabelled)
  PROVE  WorkersChange
<1> DEFINE reg     == Registry
           kept(c) == {reg.current[i] : i \in {j \in DOMAIN reg.current :
                         reg.bindings[reg.current[j]] = c /\ c \notin relabelled}}
           new(i)  == IF kept(chats[i]) = {} THEN <<chats[i]>> ELSE <<>>
           fresh   == new(1) \o (IF Len(chats) = 2 THEN new(2) ELSE <<>>)
           all     == reg.bindings \o fresh
           id(c)   == IF kept(c) # {} THEN CHOOSE i \in kept(c) : TRUE
                      ELSE CHOOSE i \in DOMAIN all : i > Len(reg.bindings) /\ all[i] = c
           cur     == [i \in DOMAIN chats |-> id(chats[i])]
<1>1. /\ MayBootstrap /\ Len(all) <= MaxBindings
      /\ Disjoint([reg EXCEPT !.bindings = all])
      /\ registry' = [reg EXCEPT !.bindings = all, !.current = cur]
      /\ UNCHANGED <<workerFile, pool, receipt, nativeVars>>
  BY DEF Configure
<1>2. /\ RegistryOK(reg) /\ reg \in RegistryType /\ reg.present = TRUE /\ Grown(registry, reg)
      /\ reg.bindings = registry.bindings
      /\ workerFile \in reg.bridge \cup {None} /\ pool \subseteq reg.bridge
      /\ \A a \in Legacy : receipt[a].chat \in reg.legacy
  BY <1>1, RegistryToChange DEF RegistryOK
<1>3. /\ chats \in Seq(Chats) /\ Len(chats) \in {1, 2}
      /\ \A i \in DOMAIN chats : chats[i] \in Chats
  BY ListsAreShort
<1> HIDE DEF kept, reg
<1>4. /\ new(1) \in Seq(Chats) /\ (kept(chats[1]) = {} => new(1) = <<chats[1]>>)
      /\ Len(chats) = 2 => /\ new(2) \in Seq(Chats)
                           /\ kept(chats[2]) = {} => new(2) = <<chats[2]>>
  <2>1. <<>> \in Seq(Chats)
    OBVIOUS
  <2>2. <<chats[1]>> \in Seq(Chats)
    BY <1>3
  <2>3. Len(chats) = 2 => <<chats[2]>> \in Seq(Chats)
    BY <1>3
  <2> QED BY <2>1, <2>2, <2>3
<1>5. reg.bindings \in Seq(Chats)
  BY <1>2 DEF RegistryType
<1>6. /\ fresh \in Seq(Chats)
      /\ kept(chats[1]) = {} => \E i \in 1..Len(fresh) : fresh[i] = chats[1]
      /\ (Len(chats) = 2 /\ kept(chats[2]) = {}) =>
           \E i \in 1..Len(fresh) : fresh[i] = chats[2]
  <2> HIDE DEF new
  <2>1. CASE Len(chats) = 1
    <3>1. fresh = new(1)
      BY <1>4, <2>1
    <3>2. kept(chats[1]) = {} => fresh[1] = chats[1] /\ 1 \in 1..Len(fresh)
      BY <1>4, <3>1
    <3> QED BY <1>4, <2>1, <3>1, <3>2
  <2>2. CASE Len(chats) = 2
    <3>1. fresh = new(1) \o new(2)
      BY <2>2
    <3>2. fresh \in Seq(Chats) /\ Len(fresh) = Len(new(1)) + Len(new(2))
      BY <1>4, <2>2, <3>1
    <3>3. kept(chats[1]) = {} => fresh[1] = chats[1] /\ 1 \in 1..Len(fresh)
      BY <1>4, <2>2, <3>1
    <3>4. kept(chats[2]) = {} =>
            fresh[Len(new(1)) + 1] = chats[2] /\ Len(new(1)) + 1 \in 1..Len(fresh)
      BY <1>4, <2>2, <3>1
    <3> QED BY <2>2, <3>2, <3>3, <3>4
  <2> QED BY <1>3, <2>1, <2>2
<1> HIDE DEF fresh, new
<1>7. /\ all \in Seq(Chats) /\ Len(all) = Len(reg.bindings) + Len(fresh)
      /\ \A i \in DOMAIN reg.bindings : i \in DOMAIN all /\ all[i] = reg.bindings[i]
      /\ \A i \in 1..Len(fresh) : /\ Len(reg.bindings) + i \in DOMAIN all
                                  /\ Len(reg.bindings) + i > Len(reg.bindings)
                                  /\ all[Len(reg.bindings) + i] = fresh[i]
  BY <1>5, <1>6
<1> HIDE DEF all
<1>8. ASSUME NEW i \in DOMAIN chats PROVE id(chats[i]) \in DOMAIN all
  <2>1. CASE kept(chats[i]) # {}
    <3>1. id(chats[i]) \in kept(chats[i])
      BY <2>1
    <3>2. \A x \in kept(chats[i]) : x \in DOMAIN reg.bindings
      BY <1>2 DEF kept, RegistryOK
    <3> QED BY <1>7, <3>1, <3>2
  <2>2. CASE kept(chats[i]) = {}
    <3>1. i = 1 \/ (Len(chats) = 2 /\ i = 2)
      BY <1>3
    <3>2. \E j \in DOMAIN all : j > Len(reg.bindings) /\ all[j] = chats[i]
      BY <1>6, <1>7, <2>2, <3>1
    <3> QED BY <2>2, <3>2
  <2> QED BY <2>1, <2>2
<1> HIDE DEF id
<1>9. cur \in Seq(Bindings) /\ \A i \in DOMAIN cur : cur[i] \in DOMAIN all
  <2>1. \A i \in DOMAIN chats : id(chats[i]) \in Bindings
    BY <1>1, <1>7, <1>8, DirectAssumption DEF Bindings
  <2>2. DOMAIN chats = 1..Len(chats) /\ Len(chats) \in Nat
    BY <1>3
  <2> QED BY <1>8, <2>1, <2>2
<1> HIDE DEF cur
<1>10. /\ registry' \in RegistryType /\ registry'.present = TRUE
       /\ registry'.bindings = all /\ registry'.current = cur
       /\ registry'.bridge = reg.bridge /\ registry'.legacy = reg.legacy
  <2>1. reg \in [present : BOOLEAN, current : Seq(Bindings), bindings : Seq(Chats),
                 bridge : SUBSET Chats, legacy : SUBSET Chats]
    BY <1>2 DEF RegistryType
  <2>2. registry' = [present |-> reg.present, current |-> cur, bindings |-> all,
                     bridge |-> reg.bridge, legacy |-> reg.legacy]
    BY <1>1, <2>1
  <2> QED BY <1>2, <1>7, <1>9, <2>1, <2>2 DEF RegistryType
<1>11. RegistryOK(registry')
  BY <1>1, <1>9, <1>10 DEF RegistryOK
<1>12. Grown(registry, registry')
  BY <1>2, <1>7, <1>10 DEF Grown
<1>13. Disjoint(registry')
  <2> DEFINE r2 == [reg EXCEPT !.bindings = all]
  <2>1. r2.bindings = all /\ r2.bridge = reg.bridge /\ r2.legacy = reg.legacy
    BY <1>2 DEF RegistryType
  <2> HIDE DEF r2
  <2>2. Disjoint(r2)
    BY <1>1 DEF r2
  <2> QED BY <1>10, <2>1, <2>2 DEF Disjoint
<1>14. UNCHANGED <<workerFile, pool>> /\ UNCHANGED <<receipt, nativeVars>>
  BY <1>1
<1>15. workerFile \in Chats \cup {None} /\ pool \subseteq Chats
  BY DEF RoutesInv, DirectTypeOK
<1> QED BY <1>2, <1>10, <1>11, <1>12, <1>13, <1>14, <1>15 DEF WorkersChange

\* Forgetting the current workers forgets none of their bindings.
LEMMA ResetDirectChanges ==
  ASSUME RoutesInv, ResetDirect
  PROVE  WorkersChange
<1>1. /\ registry.present /\ registry' = [registry EXCEPT !.current = <<>>]
      /\ UNCHANGED <<workerFile, pool, receipt, nativeVars>>
  BY DEF ResetDirect
<1>2. RegistryOK(registry)
  BY RegistryTyped DEF RoutesInv
<1>3. registry \in [present : BOOLEAN, current : Seq(Bindings), bindings : Seq(Chats),
                    bridge : SUBSET Chats, legacy : SUBSET Chats]
  BY <1>2 DEF RegistryOK, RegistryType
<1>4. registry' = [present |-> registry.present, current |-> <<>>,
                   bindings |-> registry.bindings, bridge |-> registry.bridge,
                   legacy |-> registry.legacy]
  BY <1>1, <1>3
<1>5. RegistryOK(registry')
  <2>1. <<>> \in Seq(Bindings)
    OBVIOUS
  <2>2. registry' \in RegistryType
    BY <1>3, <1>4, <2>1 DEF RegistryType
  <2> QED BY <1>2, <1>4, <2>2 DEF RegistryOK
<1>6. Grown(registry, registry') /\ Disjoint(registry')
  BY <1>4 DEF Grown, RoutesInv, FilesInv, Disjoint
<1>7. \A a \in Legacy : receipt[a].chat \in registry.legacy
  BY <1>1 DEF RoutesInv, SoundInv, ReceiptsAreSound, RouteIsValid, Legacy
<1> QED BY <1>1, <1>4, <1>5, <1>6, <1>7
        DEF WorkersChange, RoutesInv, FilesInv, DirectTypeOK

\* The legacy worker is known to the registry before the file names it.
LEMMA SaveWorkerChanges ==
  ASSUME RoutesInv, NEW c \in Chats, NEW n \in 0..2, SaveWorker(c, n)
  PROVE  WorkersChange
<1> DEFINE listed == [registry EXCEPT !.bridge = @ \cup {c}]
           reg    == [listed EXCEPT !.legacy = @ \cup {c}]
<1>1. pool = {} /\ Legacy = {} /\ UNCHANGED <<receipt, nativeVars>>
  BY DEF SaveWorker
<1>2. RegistryOK(registry) /\ workerFile \in Chats \cup {None} /\ pool \subseteq Chats
  BY RegistryTyped DEF RoutesInv, DirectTypeOK
<1>3. CASE registry.present
  <2>1. /\ Disjoint(reg)
        /\ IF n = 0 THEN RegisterThenWrite(listed, c, pool, 1)
                    ELSE RegisterThenWrite(reg, c, pool, n)
    BY <1>3 DEF SaveWorker
  <2>2. registry \in [present : BOOLEAN, current : Seq(Bindings), bindings : Seq(Chats),
                      bridge : SUBSET Chats, legacy : SUBSET Chats]
    BY <1>2 DEF RegistryOK, RegistryType
  <2> DEFINE br == registry.bridge \cup {c}
             lg == listed.legacy \cup {c}
  <2>13. listed = [registry EXCEPT !.bridge = br] /\ reg = [listed EXCEPT !.legacy = lg]
    OBVIOUS
  <2> HIDE DEF listed, reg, br, lg
  <2>3. listed = [present |-> registry.present, current |-> registry.current,
                  bindings |-> registry.bindings, bridge |-> br,
                  legacy |-> registry.legacy]
    BY <2>2, <2>13
  <2>4. reg = [present |-> registry.present, current |-> registry.current,
               bindings |-> registry.bindings, bridge |-> br, legacy |-> lg]
    BY <2>3, <2>13
  <2>14. br = registry.bridge \cup {c} /\ lg = registry.legacy \cup {c}
    BY <2>3 DEF br, lg
  <2>5. listed \in RegistryType /\ reg \in RegistryType
    <3>1. br \in SUBSET Chats /\ lg \in SUBSET Chats
      BY <2>2, <2>14
    <3> QED BY <2>2, <2>3, <2>4, <3>1 DEF RegistryType
  <2>6. RegistryOK(listed) /\ RegistryOK(reg)
    BY <1>2, <2>3, <2>4, <2>5 DEF RegistryOK
  <2>7. Grown(registry, listed) /\ Grown(registry, reg) /\ Disjoint(listed)
    BY <2>1, <2>14, <2>3, <2>4 DEF Grown, Disjoint
  <2>8. listed.present /\ reg.present /\ c \in reg.bridge /\ registry.bridge \subseteq reg.bridge
    BY <1>3, <2>14, <2>3, <2>4
  <2>9. /\ registry' \in {listed, reg} /\ pool' = pool
        /\ workerFile' = workerFile \/ (workerFile' = c /\ registry' = reg)
    BY <2>1 DEF RegisterThenWrite
  <2>10. RegistryOK(registry') /\ Grown(registry, registry') /\ Disjoint(registry')
    BY <2>1, <2>6, <2>7, <2>9
  <2>11. workerFile \in registry.bridge \cup {None}
    BY <1>3 DEF RoutesInv, FilesInv
  <2>12. registry'.present /\ workerFile' \in registry'.bridge \cup {None}
    BY <2>7, <2>8, <2>9, <2>11 DEF Grown
  <2> QED BY <1>1, <1>2, <2>9, <2>10, <2>12 DEF WorkersChange
<1>4. CASE ~registry.present
  <2>1. registry' = registry /\ pool' = pool /\ workerFile' = c
    BY <1>4 DEF SaveWorker, RegisterThenWrite
  <2>2. Grown(registry, registry') /\ Disjoint(registry')
    BY <2>1 DEF Grown, RoutesInv, FilesInv
  <2> QED BY <1>1, <1>2, <1>4, <2>1, <2>2 DEF WorkersChange
<1> QED BY <1>3, <1>4

\* Forgetting the legacy worker.
LEMMA ResetWorkerChanges ==
  ASSUME RoutesInv, ResetWorker
  PROVE  WorkersChange
<1>1. /\ pool = {} /\ Legacy = {} /\ workerFile' = None
      /\ UNCHANGED <<registry, pool, receipt, nativeVars>>
  BY DEF ResetWorker
<1>2. RegistryOK(registry)
  BY RegistryTyped DEF RoutesInv
<1>3. Grown(registry, registry') /\ Disjoint(registry')
  BY <1>1 DEF Grown, RoutesInv, FilesInv
<1> QED BY <1>1, <1>2, <1>3 DEF WorkersChange

\* The registry lists the pool's workers before the pool file does.
LEMMA ActivatePoolChanges ==
  ASSUME RoutesInv, NEW chats \in SUBSET Chats, chats # {}, NEW n \in 1..2,
         ActivatePool(chats, n)
  PROVE  WorkersChange
<1> DEFINE old == Registry
           reg == [old EXCEPT !.bridge = @ \cup chats]
<1>1. /\ pool = {} /\ MayBootstrap /\ \A a \in Legacy : receipt[a].chat \in chats
      /\ Disjoint(reg) /\ RegisterThenWrite(reg, workerFile, chats, n)
      /\ UNCHANGED <<receipt, nativeVars>>
  BY DEF ActivatePool
<1>2. /\ RegistryOK(old) /\ old.present = TRUE /\ Grown(registry, old)
      /\ old.bindings = registry.bindings
      /\ workerFile \in old.bridge \cup {None}
      /\ \A a \in Legacy : receipt[a].chat \in old.legacy
  BY <1>1, RegistryToChange
<1> HIDE DEF old
<1>3. old \in [present : BOOLEAN, current : Seq(Bindings), bindings : Seq(Chats),
               bridge : SUBSET Chats, legacy : SUBSET Chats]
  BY <1>2 DEF RegistryOK, RegistryType
<1> DEFINE br == old.bridge \cup chats
<1>10. reg = [old EXCEPT !.bridge = br]
  OBVIOUS
<1> HIDE DEF reg, br
<1>4. reg = [present |-> old.present, current |-> old.current, bindings |-> old.bindings,
             bridge |-> br, legacy |-> old.legacy]
  BY <1>3, <1>10
<1>5. reg \in RegistryType
  <2>1. br \in SUBSET Chats
    BY <1>3 DEF br
  <2> QED BY <1>3, <1>4, <2>1 DEF RegistryType
<1>6. RegistryOK(reg) /\ Grown(registry, reg) /\ reg.present
  BY <1>2, <1>4, <1>5 DEF RegistryOK, Grown, br
<1>7. /\ workerFile \in reg.bridge \cup {None} /\ chats \subseteq reg.bridge
      /\ \A a \in Legacy : receipt[a].chat \in reg.legacy
  BY <1>2, <1>4 DEF br
<1>8. registry' = reg /\ workerFile' = workerFile /\ pool' \in {{}, chats}
  BY <1>1 DEF RegisterThenWrite
<1>9. workerFile \in Chats \cup {None}
  BY DEF RoutesInv, DirectTypeOK
<1> QED BY <1>1, <1>6, <1>7, <1>8, <1>9 DEF WorkersChange

\* All changes of the workers.
LEMMA SetupChanges ==
  ASSUME RoutesInv, Setup
  PROVE  WorkersChange
<1>1. \A chats \in Pools : chats \in SUBSET Chats /\ chats # {}
  <2>1. Cardinality({}) = 0
    BY FS_EmptySet
  <2> QED BY <2>1 DEF Pools
<1> QED BY <1>1, ConfigureChanges, ResetDirectChanges, ResetWorkerChanges,
           SaveWorkerChanges, ActivatePoolChanges DEF Setup

\* What a change of the workers achieves is what the registry's part of the
\* invariant asks for: every unresolved receipt still names a valid route.
LEMMA RoutesSetup ==
  ASSUME RoutesInv, Setup
  PROVE  RoutesInv'
<1>1. WorkersChange
  BY SetupChanges
<1>2. UNCHANGED <<receipt, grant, sends>>
  BY <1>1 DEF WorkersChange, nativeVars
<1>3. DirectTypeOK'
  BY <1>1, <1>2 DEF WorkersChange, RegistryOK, RegistryType, DirectTypeOK, RoutesInv
<1>4. FilesInv'
  <2>1. CASE registry'.present
    BY <1>1, <2>1 DEF WorkersChange, FilesInv, Disjoint
  <2>2. CASE ~registry'.present
    <3>1. registry' = registry
      BY <1>1, <2>2 DEF WorkersChange
    <3>2. pool' = {}
      BY <1>1, <2>2 DEF WorkersChange
    <3> QED BY <2>2, <3>1, <3>2 DEF RoutesInv, FilesInv, Disjoint
  <2> QED BY <2>1, <2>2
<1>5. NamesInv'
  BY <1>1, <1>2 DEF WorkersChange, Grown, RoutesInv, NamesInv
<1>6. Direct' = Direct /\ Legacy' = Legacy /\ \A a \in Ids : Active(a)' = Active(a)
  BY <1>2 DEF Direct, Legacy, Active
<1>7. ASSUME NEW a \in Direct PROVE RouteIsValid(a)'
  <2>1. receipt'[a].route = "direct" /\ a \in Ids
    BY <1>2 DEF Direct
  <2>2. /\ registry'.present /\ receipt'[a].binding \in DOMAIN registry'.bindings
        /\ registry'.bindings[receipt'[a].binding] = receipt'[a].chat
    BY <1>5, <2>1 DEF NamesInv
  <2>3. receipt'[a].chat \notin registry'.bridge
    BY <1>1, <2>2 DEF WorkersChange, Disjoint
  <2> QED BY <2>1, <2>2, <2>3 DEF RouteIsValid
<1>8. ASSUME NEW a \in Legacy PROVE RouteIsValid(a)'
  <2>1. receipt'[a].route = "legacy" /\ receipt'[a].chat = receipt[a].chat
    BY <1>2 DEF Legacy
  <2> QED BY <1>1, <2>1 DEF WorkersChange, RouteIsValid
<1>9. \A a \in Ids : Active(a) => a \in Direct \/ a \in Legacy
  BY DEF RoutesInv, NamesInv, Active, Direct, Legacy, ActiveSt, PostArm
<1>10. IF pool' = {} THEN Cardinality(Legacy) <= 1
       ELSE /\ \A a \in Legacy : receipt[a].chat \in pool'
            /\ \A a, b \in Legacy : receipt[a].chat = receipt[b].chat => a = b
  <2>1. CASE pool' = pool
    BY <2>1 DEF RoutesInv, SoundInv, ReceiptsAreSound
  <2>2. CASE pool = {} /\ \A a \in Legacy : receipt[a].chat \in pool'
    <3>1. IsFiniteSet(Legacy) /\ Cardinality(Legacy) <= 1
      BY <2>2 DEF RoutesInv, SoundInv, ReceiptsAreSound
    <3>2. \A a, b \in Legacy : a = b
      BY <3>1, AtMostOne
    <3> QED BY <2>2, <3>1, <3>2
  <2> QED BY <1>1, <2>1, <2>2 DEF WorkersChange
<1>11. SoundInv'
  BY <1>2, <1>6, <1>7, <1>8, <1>9, <1>10 DEF RoutesInv, SoundInv, ReceiptsAreSound
<1> QED BY <1>3, <1>4, <1>5, <1>11 DEF RoutesInv

----------------------------------------------------------------------------
(* The life of one assignment                                               *)

\* What the receipt of an assignment, its grant and its sends say of each other.
FenceOf(a, rc, g, n) ==
  /\ rc.st \in {"absent", "prepared"} =>
       /\ n = 0 /\ g = "none" /\ ~rc.no_resend /\ rc.count = 0 /\ rc.verified = "unset"
  /\ rc.st \in PostArm \cup {"complete"} => rc.no_resend
  /\ g = "may" => n = 0 /\ rc.no_resend
  /\ n \in {0, 1} /\ (n = 1 => rc.no_resend)
  /\ rc.count = 1 => n = 1
  /\ rc.verified = "true" => rc.count = 1
  /\ rc.st = "complete" => n = 1 /\ rc.verified = "true" /\ rc.answer = a

\* The fence of every receipt.
FenceInv == \A a \in Ids : FenceOf(a, receipt[a], grant[a], sends[a])

\* What a receipt may become in the at-most-once ledger.
EntryMoves(old, new, n) ==
  \/ old.st \in {"absent", "prepared"} /\ new.st \in {"prepared", "armed"}
  \/ old.st \in PostArm /\ new.st \in PostArm
  \/ old.st = "prepared" /\ new.st = "abandoned" /\ ~new.no_resend
  \/ old.st \in PostArm /\ new.st = "abandoned" /\ new.no_resend
  \/ old.st \in PostArm /\ new.st = "complete" /\ n = 1
  \/ new.st = old.st /\ new.no_resend = old.no_resend

\* What a call for one assignment achieves.
OneMoves(a, rec) ==
  /\ UNCHANGED filesVars
  /\ receipt' \in [Ids -> ReceiptType] /\ receipt'[a] = rec
  /\ \A x \in Ids : x # a => receipt'[x] = receipt[x]
  /\ ReceiptMoves(receipt[a], rec)

\* What every call of a dispatch other than a send does.
Advances(a) ==
  /\ OneMoves(a, receipt'[a])
  /\ EntryMoves(receipt[a], receipt'[a], sends[a])
  /\ FenceOf(a, receipt'[a], grant'[a], sends[a])
  /\ UNCHANGED sends /\ grant' \in [Ids -> {"none", "may"}]
  /\ \A x \in Ids : x # a => grant'[x] = grant[x]

\* A call that writes one receipt does this if the receipt it writes may follow.
LEMMA OnlyAdvances ==
  ASSUME DirectTypeOK, NEW a \in Ids, NEW rec \in ReceiptType, OnlyReceipt(a, rec),
         ReceiptMoves(receipt[a], rec), EntryMoves(receipt[a], rec, sends[a]),
         FenceOf(a, rec, grant[a], sends[a])
  PROVE  Advances(a)
<1>1. UNCHANGED filesVars /\ UNCHANGED grant /\ UNCHANGED sends /\ SetReceipt(a, rec)
  BY DEF OnlyReceipt, nativeVars
<1>2. /\ receipt' \in [Ids -> ReceiptType] /\ receipt'[a] = rec
      /\ \A x \in Ids : x # a => receipt'[x] = receipt[x]
  BY <1>1, SetsOne
<1>3. grant' \in [Ids -> {"none", "may"}]
  BY <1>1 DEF DirectTypeOK
<1> QED BY <1>1, <1>2, <1>3 DEF Advances, OneMoves

\* A preparation starts an assignment.
LEMMA PrepareAdvances ==
  ASSUME DirectTypeOK, FenceInv, NEW a \in Ids, receipt[a].st = "absent",
         NEW rt \in {"direct", "legacy"}, NEW c \in Chats, NEW b \in 0..MaxBindings,
         NEW t \in Tasks, NEW p \in Ids \cup {None},
         OnlyReceipt(a, Prepared(rt, c, b, t, p))
  PROVE  Advances(a)
<1> DEFINE rec == Prepared(rt, c, b, t, p)
<1>1. /\ rec \in ReceiptType /\ rec.st = "prepared" /\ rec.count = 0
      /\ rec.verified = "unset" /\ ~rec.no_resend
  BY PreparedFacts
<1> HIDE DEF rec
<1>2. FenceOf(a, receipt[a], grant[a], sends[a])
  BY DEF FenceInv
<1>3. FenceOf(a, rec, grant[a], sends[a])
  BY <1>1, <1>2 DEF FenceOf, PostArm
<1>4. ReceiptMoves(receipt[a], rec) /\ EntryMoves(receipt[a], rec, sends[a])
  BY <1>1 DEF ReceiptMoves, EntryMoves
<1>5. OnlyReceipt(a, rec)
  BY DEF rec
<1> QED BY <1>1, <1>3, <1>4, <1>5, OnlyAdvances

\* Arming fences the receipt before the task may send.
LEMMA ArmAdvances ==
  ASSUME DirectTypeOK, FenceInv, NEW a \in Ids, Arm(a)
  PROVE  Advances(a)
<1> DEFINE rec == [receipt[a] EXCEPT !.st = "armed", !.no_resend = TRUE]
<1>1. /\ receipt[a].st = "prepared" /\ SetReceipt(a, rec)
      /\ grant' = [grant EXCEPT ![a] = "may"] /\ UNCHANGED <<filesVars, sends>>
  BY DEF Arm
<1>2. receipt[a] \in ReceiptType /\ FenceOf(a, receipt[a], grant[a], sends[a])
  BY DEF DirectTypeOK, FenceInv
<1>3. /\ rec \in ReceiptType /\ rec.st = "armed" /\ rec.no_resend
      /\ rec.count = receipt[a].count /\ rec.verified = receipt[a].verified
      /\ SameNames(receipt[a], rec)
  BY <1>2 DEF ReceiptType, Statuses, ActiveSt, PostArm, SameNames
<1> HIDE DEF rec
<1>4. ReceiptMoves(receipt[a], rec) /\ EntryMoves(receipt[a], rec, sends[a])
  BY <1>1, <1>3 DEF ReceiptMoves, EntryMoves
<1>5. FenceOf(a, rec, "may", sends[a])
  BY <1>1, <1>2, <1>3 DEF FenceOf, PostArm
<1>6. /\ grant' \in [Ids -> {"none", "may"}] /\ grant'[a] = "may"
      /\ \A x \in Ids : x # a => grant'[x] = grant[x]
  BY <1>1 DEF DirectTypeOK
<1>7. /\ receipt' \in [Ids -> ReceiptType] /\ receipt'[a] = rec
      /\ \A x \in Ids : x # a => receipt'[x] = receipt[x]
  BY <1>1, <1>3, SetsOne
<1> QED BY <1>1, <1>4, <1>5, <1>6, <1>7 DEF Advances, OneMoves

\* What an outbound read-back records.
IsMarked(rc, rec, st, v) ==
  /\ rec \in ReceiptType /\ rec.st = st /\ rec.count = 1
  /\ rec.verified = v /\ rec.no_resend = TRUE /\ SameNames(rc, rec)

\* It is recorded in a receipt of the same names.
LEMMA MarkedFacts ==
  ASSUME NEW rc \in ReceiptType, NEW st \in Statuses, NEW v \in {"unset", "false", "true"},
         NEW c \in BOOLEAN
  PROVE  IsMarked(rc, Marked(rc, st, v, c), st, v)
<1> DEFINE rec == Marked(rc, st, v, c)
           r1  == [rc EXCEPT !.st = st, !.count = 1]
           r2  == [r1 EXCEPT !.verified = v, !.correctable = c]
           r3  == [r2 EXCEPT !.no_resend = TRUE]
<1>1. rec = r3
  BY Zenon DEF Marked
<1> HIDE DEF rec
<1>2. 1 \in 0..1
  OBVIOUS
<1>3. r1 \in ReceiptType /\ r1.st = st /\ r1.count = 1 /\ SameNames(rc, r1)
  <2>1. r1 \in ReceiptType
    BY <1>2 DEF ReceiptType
  <2>2. r1.st = st /\ r1.count = 1
    BY DEF ReceiptType
  <2>3. SameNames(rc, r1)
    BY DEF ReceiptType, SameNames
  <2> QED BY <2>1, <2>2, <2>3
<1> HIDE DEF r1
<1>4. /\ r2 \in ReceiptType /\ r2.st = st /\ r2.count = 1 /\ SameNames(r1, r2)
      /\ r2.verified = v
  BY <1>3 DEF ReceiptType, SameNames
<1> HIDE DEF r2
<1>5. /\ r3 \in ReceiptType /\ r3.st = st /\ r3.count = 1 /\ SameNames(r2, r3)
      /\ r3.verified = v /\ r3.no_resend = TRUE
  BY <1>4 DEF ReceiptType, SameNames
<1> HIDE DEF r3
<1> QED BY <1>1, <1>3, <1>4, <1>5 DEF SameNames, rec, IsMarked

\* The outbound read-back, the marks, the end of a cooldown and the abandonment.
LEMMA MarkAdvances ==
  ASSUME DirectTypeOK, FenceInv, NEW a \in Ids, receipt[a].st # "absent",
         \/ \E seen \in {"exact", "newline", "altered"} : MarkSubmitted(a, seen)
         \/ MarkPending(a) \/ MarkDoubt(a) \/ MarkUnusual403(a) \/ CooldownEnds(a)
         \/ Abandon(a)
  PROVE  Advances(a)
<1> DEFINE rc == receipt[a]
<1>1. rc \in ReceiptType /\ FenceOf(a, rc, grant[a], sends[a])
  BY DEF DirectTypeOK, FenceInv
<1>2. ASSUME NEW seen \in {"exact", "newline", "altered"}, MarkSubmitted(a, seen)
      PROVE  Advances(a)
  <2> DEFINE yes == Marked(rc, "submitted", "true", FALSE)
             no  == Marked(rc, "indeterminate", "false", seen = "newline")
             rec == IF seen = "exact" THEN yes ELSE no
  <2>1. /\ sends[a] > 0 /\ OnlyReceipt(a, rec)
        /\ rc.st \in {"armed", "indeterminate"}
    BY <1>2 DEF MarkSubmitted, Unverified, Correctable
  <2>2. sends[a] = 1
    BY <1>1, <2>1 DEF FenceOf
  <2>3. "submitted" \in Statuses /\ "indeterminate" \in Statuses
    BY DEF Statuses, ActiveSt, PostArm
  <2>4. IsMarked(rc, yes, "submitted", "true") /\ IsMarked(rc, no, "indeterminate", "false")
    <3>1. IsMarked(rc, yes, "submitted", "true")
      BY <1>1, <2>3, MarkedFacts
    <3>2. (seen = "newline") = TRUE \/ (seen = "newline") = FALSE
      OBVIOUS
    <3>3. CASE (seen = "newline") = TRUE
      <4>1. no = Marked(rc, "indeterminate", "false", TRUE)
        BY <3>3, Zenon
      <4> QED BY <1>1, <2>3, <4>1, MarkedFacts
    <3>4. CASE (seen = "newline") = FALSE
      <4>1. no = Marked(rc, "indeterminate", "false", FALSE)
        BY <3>4, Zenon
      <4> QED BY <1>1, <2>3, <4>1, MarkedFacts
    <3> QED BY <3>1, <3>2, <3>3, <3>4
  <2> HIDE DEF yes, no
  <2>5. /\ rec \in ReceiptType /\ rec.st \in {"submitted", "indeterminate"}
        /\ rec.count = 1 /\ rec.no_resend /\ SameNames(rc, rec)
    BY <2>4 DEF IsMarked
  <2> HIDE DEF rec
  <2>6. ReceiptMoves(rc, rec) /\ EntryMoves(rc, rec, sends[a])
    BY <2>1, <2>5 DEF ReceiptMoves, EntryMoves, PostArm
  <2>7. FenceOf(a, rec, grant[a], sends[a])
    BY <1>1, <2>1, <2>2, <2>5 DEF FenceOf, PostArm
  <2> QED BY <2>1, <2>5, <2>6, <2>7, OnlyAdvances
<1>3. CASE MarkPending(a)
  <2> DEFINE rec == [rc EXCEPT !.st = "pending"]
  <2>1. rc.st = "submitted" /\ OnlyReceipt(a, rec)
    BY <1>3 DEF MarkPending
  <2>2. /\ rec \in ReceiptType /\ rec.st = "pending" /\ rec.no_resend = rc.no_resend
        /\ rec.count = rc.count /\ rec.verified = rc.verified /\ SameNames(rc, rec)
    BY <1>1 DEF ReceiptType, Statuses, ActiveSt, PostArm, SameNames
  <2> HIDE DEF rec
  <2>3. ReceiptMoves(rc, rec) /\ EntryMoves(rc, rec, sends[a])
    BY <2>1, <2>2 DEF ReceiptMoves, EntryMoves, PostArm
  <2>4. FenceOf(a, rec, grant[a], sends[a])
    BY <1>1, <2>1, <2>2 DEF FenceOf, PostArm
  <2> QED BY <2>1, <2>2, <2>3, <2>4, OnlyAdvances
<1>4. CASE MarkDoubt(a) \/ MarkUnusual403(a)
  <2>1. PICK cool \in {rc.cooldown, "active"} :
          /\ rc.st \in PostArm
          /\ OnlyReceipt(a, [rc EXCEPT !.st = "indeterminate", !.no_resend = TRUE,
                                       !.cooldown = cool])
    <3>1. CASE MarkDoubt(a)
      <4>1. [rc EXCEPT !.st = "indeterminate", !.no_resend = TRUE, !.cooldown = rc.cooldown]
            = [rc EXCEPT !.st = "indeterminate", !.no_resend = TRUE]
        BY <1>1 DEF ReceiptType
      <4> QED BY <3>1, <4>1 DEF MarkDoubt
    <3>2. CASE MarkUnusual403(a)
      BY <3>2 DEF MarkUnusual403
    <3> QED BY <1>4, <3>1, <3>2
  <2> DEFINE rec == [rc EXCEPT !.st = "indeterminate", !.no_resend = TRUE, !.cooldown = cool]
  <2>2. /\ rec \in ReceiptType /\ rec.st = "indeterminate" /\ rec.no_resend
        /\ rec.count = rc.count /\ rec.verified = rc.verified /\ SameNames(rc, rec)
    BY <1>1, <2>1 DEF ReceiptType, Statuses, ActiveSt, PostArm, SameNames
  <2>3. OnlyReceipt(a, rec)
    BY <2>1
  <2> HIDE DEF rec
  <2>4. ReceiptMoves(rc, rec) /\ EntryMoves(rc, rec, sends[a])
    BY <2>1, <2>2 DEF ReceiptMoves, EntryMoves, PostArm
  <2>5. FenceOf(a, rec, grant[a], sends[a])
    BY <1>1, <2>1, <2>2 DEF FenceOf, PostArm
  <2> QED BY <2>2, <2>3, <2>4, <2>5, OnlyAdvances
<1>5. CASE CooldownEnds(a)
  <2> DEFINE rec == [rc EXCEPT !.cooldown = "over"]
  <2>1. OnlyReceipt(a, rec)
    BY <1>5 DEF CooldownEnds
  <2>2. /\ rec \in ReceiptType /\ rec.st = rc.st /\ rec.no_resend = rc.no_resend
        /\ rec.count = rc.count /\ rec.verified = rc.verified /\ SameNames(rc, rec)
        /\ rec.answer = rc.answer
    BY <1>1 DEF ReceiptType, SameNames
  <2> HIDE DEF rec
  <2>3. ReceiptMoves(rc, rec) /\ EntryMoves(rc, rec, sends[a])
    BY <2>2 DEF ReceiptMoves, EntryMoves
  <2>4. FenceOf(a, rec, grant[a], sends[a])
    BY <1>1, <2>2 DEF FenceOf
  <2> QED BY <2>1, <2>2, <2>3, <2>4, OnlyAdvances
<1>6. CASE Abandon(a)
  <2> DEFINE rec == [rc EXCEPT !.st = "abandoned"]
  <2>1. rc.st \in ActiveSt /\ OnlyReceipt(a, rec)
    BY <1>6 DEF Abandon, Active
  <2>2. /\ rec \in ReceiptType /\ rec.st = "abandoned" /\ rec.no_resend = rc.no_resend
        /\ rec.count = rc.count /\ rec.verified = rc.verified /\ SameNames(rc, rec)
    BY <1>1 DEF ReceiptType, Statuses, SameNames
  <2> HIDE DEF rec
  <2>3. ReceiptMoves(rc, rec) /\ EntryMoves(rc, rec, sends[a])
    BY <1>1, <2>1, <2>2 DEF ReceiptMoves, EntryMoves, FenceOf, ActiveSt, PostArm
  <2>4. FenceOf(a, rec, grant[a], sends[a])
    BY <1>1, <2>1, <2>2 DEF FenceOf, PostArm
  <2> QED BY <2>1, <2>2, <2>3, <2>4, OnlyAdvances
<1> QED BY <1>2, <1>3, <1>4, <1>5, <1>6

\* A completed receipt has the whole answer to its own one message.
LEMMA CompleteAdvances ==
  ASSUME DirectTypeOK, FenceInv, NEW a \in Ids, NEW b \in Ids, NEW whole \in BOOLEAN,
         Complete(a, b, whole)
  PROVE  Advances(a)
<1> DEFINE rc  == receipt[a]
           rec == [rc EXCEPT !.st = "complete", !.no_resend = TRUE, !.answer = a]
<1>1. rc \in ReceiptType /\ FenceOf(a, rc, grant[a], sends[a])
  BY DEF DirectTypeOK, FenceInv
<1>2. Accepted(Reply(b, whole), a, NoChunk)
  BY DEF Complete
<1>3. a = b /\ whole = TRUE
  BY <1>2, AcceptedReply
<1>4. /\ rc.st \in ActiveSt /\ rc.count = 1 /\ rc.verified = "true"
      /\ OnlyReceipt(a, rec)
  BY <1>3 DEF Complete, Active
<1>5. /\ rec \in ReceiptType /\ rec.st = "complete" /\ rec.no_resend
      /\ rec.count = rc.count /\ rec.verified = rc.verified /\ SameNames(rc, rec)
      /\ rec.answer = a
  BY <1>1 DEF ReceiptType, Statuses, SameNames
<1> HIDE DEF rec
<1>6. rc.st \in PostArm /\ sends[a] = 1
  BY <1>1, <1>4 DEF FenceOf, ActiveSt
<1>7. ReceiptMoves(rc, rec) /\ EntryMoves(rc, rec, sends[a])
  BY <1>5, <1>6 DEF ReceiptMoves, EntryMoves, PostArm
<1>8. FenceOf(a, rec, grant[a], sends[a])
  BY <1>1, <1>4, <1>5, <1>6 DEF FenceOf, PostArm
<1> QED BY <1>4, <1>5, <1>7, <1>8, OnlyAdvances

----------------------------------------------------------------------------
(* All calls                                                                *)

\* The inductive invariant.
DirectInv == RoutesInv /\ FenceInv

\* What a preparation finds: a free binding of the registry, and for a
\* continuation the completed assignment it continues.
LEMMA SelectedFacts ==
  ASSUME DirectInv, NEW t \in Tasks, NEW p \in Ids \cup {None}, NEW b \in Selected(p, t)
  PROVE  /\ b \in DOMAIN registry.bindings /\ b \in 0..MaxBindings
         /\ registry.bindings[b] \in Chats /\ registry.bindings[b] \notin Occupied
         /\ p # None => /\ receipt[p].st = "complete" /\ receipt[p].route = "direct"
                        /\ receipt[p].chat = registry.bindings[b]
                        /\ receipt[p].binding = b /\ receipt[p].task = t
<1>1. CASE p = None
  BY <1>1, SelectedIsBinding DEF DirectInv, RoutesInv
<1>2. CASE p # None
  <2>1. /\ p \in Ids /\ b \in Bindings
        /\ receipt[p].route = "direct" /\ receipt[p].st = "complete"
        /\ receipt[p].task = t /\ receipt[p].binding = b /\ receipt[p].chat \notin Occupied
    BY <1>2 DEF Selected
  <2>2. b \in DOMAIN registry.bindings /\ registry.bindings[b] = receipt[p].chat
    BY <2>1 DEF DirectInv, RoutesInv, NamesInv
  <2>3. receipt[p].chat \in Chats
    BY <2>1 DEF DirectInv, RoutesInv, NamesInv
  <2> QED BY <2>1, <2>2, <2>3, DirectAssumption DEF Bindings
<1> QED BY <1>1, <1>2

\* What a preparation writes.
LEMMA PrepareWrites ==
  ASSUME DirectInv, NEW a \in Ids, NEW t \in Tasks, NEW p \in (Ids \ {a}) \cup {None},
         PrepareDirect(a, t, p) \/ PrepareLegacy(a, t, p)
  PROVE  /\ Advances(a) /\ receipt[a].st = "absent" /\ receipt'[a].st = "prepared"
         /\ receipt'[a].prior = p /\ receipt'[a].task = t
         /\ \/ /\ receipt'[a].route = "direct" /\ registry.present
               /\ ReceiptsAreSound /\ Cardinality(Direct) < 2
               /\ receipt'[a].binding \in DOMAIN registry.bindings
               /\ registry.bindings[receipt'[a].binding] = receipt'[a].chat
               /\ receipt'[a].chat \in Chats /\ receipt'[a].chat \notin Occupied
               /\ p # None => /\ receipt[p].st = "complete" /\ receipt[p].route = "direct"
                              /\ receipt[p].chat = receipt'[a].chat
                              /\ receipt[p].binding = receipt'[a].binding
                              /\ receipt[p].task = t
            \/ /\ receipt'[a].route = "legacy" /\ ~registry.present
               /\ pool = {} /\ Legacy = {}
               /\ receipt'[a].chat = workerFile /\ receipt'[a].chat \in Chats
               /\ p # None => receipt[p].st = "complete" /\ receipt[p].chat = workerFile
<1>1. DirectTypeOK /\ FenceInv
  BY DEF DirectInv, RoutesInv
<1>2. CASE PrepareDirect(a, t, p)
  <2>1. PICK b \in Selected(p, t) :
          OnlyReceipt(a, Prepared("direct", registry.bindings[b], b, t, p))
    BY <1>2 DEF PrepareDirect
  <2> DEFINE c   == registry.bindings[b]
             rec == Prepared("direct", c, b, t, p)
  <2>2. /\ b \in DOMAIN registry.bindings /\ b \in 0..MaxBindings
        /\ c \in Chats /\ c \notin Occupied
        /\ p # None => /\ receipt[p].st = "complete" /\ receipt[p].route = "direct"
                       /\ receipt[p].chat = c
                       /\ receipt[p].binding = b /\ receipt[p].task = t
    BY SelectedFacts
  <2>3. /\ registry.present /\ ReceiptsAreSound /\ Cardinality(Direct) < 2
        /\ receipt[a].st = "absent"
    BY <1>2 DEF PrepareDirect
  <2>4. OnlyReceipt(a, rec) /\ p \in Ids \cup {None} /\ "direct" \in {"direct", "legacy"}
    BY <2>1
  <2> HIDE DEF c
  <2>5. Advances(a)
    BY <1>1, <2>2, <2>3, <2>4, PrepareAdvances
  <2>6. /\ rec \in ReceiptType /\ rec.st = "prepared" /\ rec.route = "direct"
        /\ rec.chat = c /\ rec.binding = b /\ rec.task = t /\ rec.prior = p
    BY <1>1, <2>2, <2>4, PreparedFacts
  <2> HIDE DEF rec
  <2>7. receipt'[a] = rec
    BY <1>1, <2>4, <2>6, SetsOne DEF OnlyReceipt
  <2>8. c = registry.bindings[b]
    BY DEF c
  <2> QED BY <2>2, <2>3, <2>5, <2>6, <2>7, <2>8
<1>3. CASE PrepareLegacy(a, t, p)
  <2> DEFINE rec == Prepared("legacy", workerFile, 0, t, p)
  <2>1. /\ ~registry.present /\ pool = {} /\ Legacy = {} /\ receipt[a].st = "absent"
        /\ workerFile # None /\ OnlyReceipt(a, rec)
        /\ p # None => receipt[p].st = "complete" /\ receipt[p].chat = workerFile
    BY <1>3 DEF PrepareLegacy
  <2>2. /\ workerFile \in Chats /\ 0 \in 0..MaxBindings /\ p \in Ids \cup {None}
        /\ "legacy" \in {"direct", "legacy"}
    BY <1>1, <2>1, DirectAssumption DEF DirectTypeOK
  <2>3. Advances(a)
    BY <1>1, <2>1, <2>2, PrepareAdvances
  <2>4. /\ rec \in ReceiptType /\ rec.st = "prepared" /\ rec.route = "legacy"
        /\ rec.chat = workerFile /\ rec.task = t /\ rec.prior = p
    BY <1>1, <2>2, PreparedFacts
  <2> HIDE DEF rec
  <2>5. receipt'[a] = rec
    BY <1>1, <2>1, <2>4, SetsOne DEF OnlyReceipt
  <2> QED BY <2>1, <2>2, <2>3, <2>4, <2>5
<1> QED BY <1>2, <1>3

\* A preparation of either route.
Prepares(a) ==
  \E t \in Tasks, p \in (Ids \ {a}) \cup {None} :
    PrepareDirect(a, t, p) \/ PrepareLegacy(a, t, p)

\* A call for an assignment that is not its preparation changes its receipt
\* under the same names, or makes or loses the one native send.
LEMMA DispatchSplits ==
  ASSUME DirectInv, NEW a \in Ids, Dispatch(a)
  PROVE  \/ Prepares(a)
         \/ receipt[a].st # "absent" /\ Advances(a)
         \/ Send(a) \/ LoseTask(a)
<1>1. DirectTypeOK /\ FenceInv
  BY DEF DirectInv, RoutesInv
<1>2. CASE Prepares(a)
  BY <1>2
<1>3. CASE Arm(a)
  BY <1>1, <1>3, ArmAdvances DEF Arm
<1>4. CASE \/ \E seen \in {"exact", "newline", "altered"} : MarkSubmitted(a, seen)
           \/ MarkPending(a) \/ MarkDoubt(a) \/ MarkUnusual403(a) \/ CooldownEnds(a)
           \/ Abandon(a)
  <2>1. receipt[a].st = "absent" => receipt[a].cooldown = "none"
    BY DEF DirectInv, RoutesInv, NamesInv, NoReceipt
  <2>2. receipt[a].st # "absent"
    BY <1>4, <2>1 DEF MarkSubmitted, Unverified, Correctable, MarkPending, MarkDoubt,
                      MarkUnusual403, CooldownEnds, Abandon, Active, ActiveSt, PostArm
  <2> QED BY <1>1, <1>4, <2>2, MarkAdvances
<1>5. CASE \E b \in Ids, whole \in BOOLEAN : Complete(a, b, whole)
  <2>1. receipt[a].st # "absent"
    BY <1>5 DEF Complete, Active, ActiveSt, PostArm
  <2> QED BY <1>1, <1>5, <2>1, CompleteAdvances
<1>6. CASE Send(a) \/ LoseTask(a)
  BY <1>6
<1> QED BY <1>2, <1>3, <1>4, <1>5, <1>6 DEF Dispatch, Prepares

\* A send is made once: nobody armed twice, and who may send has not sent.
LEMMA SendEffect ==
  ASSUME DirectInv, NEW a \in Ids, Send(a) \/ LoseTask(a)
  PROVE  /\ UNCHANGED <<filesVars, receipt>> /\ receipt[a].no_resend
         /\ grant' \in [Ids -> {"none", "may"}] /\ sends' \in [Ids -> Nat]
         /\ grant'[a] = "none" /\ sends[a] = 0
         /\ sends' = [sends EXCEPT ![a] = 1] \/ UNCHANGED sends
         /\ \A x \in Ids : x # a => grant'[x] = grant[x]
<1>1. /\ grant[a] = "may" /\ grant' = [grant EXCEPT ![a] = "none"]
      /\ UNCHANGED <<filesVars, receipt>>
  BY DEF Send, LoseTask
<1>2. grant \in [Ids -> {"none", "may"}] /\ sends \in [Ids -> Nat]
  BY DEF DirectInv, RoutesInv, DirectTypeOK
<1>3. sends[a] = 0 /\ receipt[a].no_resend
  BY <1>1 DEF DirectInv, FenceInv, FenceOf
<1>4. sends' = [sends EXCEPT ![a] = 1] \/ UNCHANGED sends
  BY <1>2, <1>3 DEF Send, LoseTask
<1>5. sends' \in [Ids -> Nat]
  BY <1>2, <1>4
<1> QED BY <1>1, <1>2, <1>3, <1>4, <1>5

\* The fence holds over every call.
LEMMA FenceDispatch ==
  ASSUME DirectInv, NEW a \in Ids, Dispatch(a)
  PROVE  FenceInv'
<1>1. CASE Advances(a)
  <2>1. \A x \in Ids : x # a => /\ receipt'[x] = receipt[x] /\ grant'[x] = grant[x]
                                /\ sends'[x] = sends[x]
    BY <1>1 DEF Advances, OneMoves
  <2>2. FenceOf(a, receipt'[a], grant'[a], sends'[a])
    BY <1>1 DEF Advances
  <2> QED BY <2>1, <2>2 DEF DirectInv, FenceInv
<1>2. CASE Send(a) \/ LoseTask(a)
  <2>1. /\ UNCHANGED receipt /\ receipt[a].no_resend /\ grant'[a] = "none" /\ sends[a] = 0
        /\ sends' = [sends EXCEPT ![a] = 1] \/ UNCHANGED sends
        /\ \A x \in Ids : x # a => grant'[x] = grant[x]
    BY <1>2, SendEffect
  <2>2. sends \in [Ids -> Nat]
    BY DEF DirectInv, RoutesInv, DirectTypeOK
  <2>3. /\ sends'[a] \in {0, 1}
        /\ \A x \in Ids : x # a => sends'[x] = sends[x]
    BY <2>1, <2>2
  <2>4. FenceOf(a, receipt[a], "none", sends'[a])
    BY <2>1, <2>3 DEF DirectInv, FenceInv, FenceOf
  <2> QED BY <2>1, <2>3, <2>4 DEF DirectInv, FenceInv
<1>3. Prepares(a) => Advances(a)
  BY PrepareWrites DEF Prepares
<1> QED BY <1>1, <1>2, <1>3, DispatchSplits

\* The types hold over every call.
LEMMA TypeDispatch ==
  ASSUME DirectInv, NEW a \in Ids, Dispatch(a)
  PROVE  DirectTypeOK' /\ FilesInv'
<1>1. UNCHANGED filesVars
  BY DispatchSplits, PrepareWrites, SendEffect DEF Prepares, Advances, OneMoves
<1>2. /\ receipt' \in [Ids -> ReceiptType] /\ grant' \in [Ids -> {"none", "may"}]
      /\ sends' \in [Ids -> Nat]
  <2>1. CASE Advances(a)
    BY <2>1 DEF Advances, OneMoves, DirectInv, RoutesInv, DirectTypeOK
  <2>2. CASE Send(a) \/ LoseTask(a)
    BY <2>2, SendEffect DEF DirectInv, RoutesInv, DirectTypeOK
  <2> QED BY <2>1, <2>2, DispatchSplits, PrepareWrites DEF Prepares
<1>3. DirectTypeOK'
  BY <1>1, <1>2 DEF DirectInv, RoutesInv, DirectTypeOK, filesVars
<1>4. FilesInv'
  BY <1>1 DEF DirectInv, RoutesInv, FilesInv, filesVars, Disjoint
<1> QED BY <1>3, <1>4

\* A call that prepares nothing leaves the names and makes nothing active.
LEMMA OthersKeepNames ==
  ASSUME DirectInv, NEW a \in Ids, Dispatch(a), ~Prepares(a)
  PROVE  /\ UNCHANGED filesVars
         /\ \A x \in Ids : /\ SameNames(receipt[x], receipt'[x])
                           /\ receipt[x].st = "absent" => receipt'[x] = receipt[x]
                           /\ receipt'[x].st = "absent" => receipt[x].st = "absent"
                           /\ Active(x)' => Active(x)
                           /\ receipt[x].st = "complete" => receipt'[x].st = "complete"
                           /\ receipt'[x].st = "prepared" => receipt[x].st = "prepared"
<1>1. CASE receipt[a].st # "absent" /\ Advances(a)
  <2>1. /\ UNCHANGED filesVars /\ ReceiptMoves(receipt[a], receipt'[a])
        /\ \A x \in Ids : x # a => receipt'[x] = receipt[x]
    BY <1>1 DEF Advances, OneMoves
  <2>2. /\ SameNames(receipt[a], receipt'[a]) /\ receipt'[a].st # "absent"
        /\ receipt[a].st \in {"complete", "abandoned"} => receipt'[a].st = receipt[a].st
        /\ receipt'[a].st = "prepared" => receipt[a].st = "prepared"
    BY <1>1, <2>1 DEF ReceiptMoves
  <2>3. receipt[a].st \in Statuses
    BY DEF DirectInv, RoutesInv, DirectTypeOK, ReceiptType
  <2>4. Active(a)' => Active(a)
    BY <1>1, <2>2, <2>3 DEF Active, Statuses, ActiveSt, PostArm
  <2>5. ASSUME NEW x \in Ids, x # a
        PROVE  /\ SameNames(receipt[x], receipt'[x]) /\ (Active(x)' => Active(x))
               /\ receipt'[x] = receipt[x]
    BY <2>1, <2>5 DEF SameNames, Active
  <2> QED BY <1>1, <2>1, <2>2, <2>4, <2>5
<1>2. CASE Send(a) \/ LoseTask(a)
  <2>1. UNCHANGED <<filesVars, receipt>>
    BY <1>2, SendEffect
  <2> QED BY <2>1 DEF SameNames, Active
<1> QED BY <1>1, <1>2, DispatchSplits

\* Fewer unresolved receipts with the same names are sound.
LEMMA FewerAreSound ==
  ASSUME RoutesInv, UNCHANGED filesVars,
         \A x \in Ids : SameNames(receipt[x], receipt'[x]) /\ (Active(x)' => Active(x))
  PROVE  SoundInv'
<1>1. /\ Direct' \subseteq Direct /\ Legacy' \subseteq Legacy
      /\ \A x \in Ids : receipt'[x].chat = receipt[x].chat
  BY DEF Direct, Legacy, SameNames
<1>2. IsFiniteSet(Direct) /\ IsFiniteSet(Legacy) /\ ReceiptsAreSound
  BY DEF RoutesInv, SoundInv
<1>3. /\ IsFiniteSet(Direct') /\ Cardinality(Direct') <= Cardinality(Direct)
      /\ IsFiniteSet(Legacy') /\ Cardinality(Legacy') <= Cardinality(Legacy)
  BY <1>1, <1>2, FS_Subset
<1>4. /\ Cardinality(Direct') \in Nat /\ Cardinality(Direct) \in Nat
      /\ Cardinality(Legacy') \in Nat /\ Cardinality(Legacy) \in Nat
  BY <1>2, <1>3, FS_CardinalityType
<1>5. \A x \in Ids : Active(x)' => RouteIsValid(x)'
  <2>1. ASSUME NEW x \in Ids, RouteIsValid(x) PROVE RouteIsValid(x)'
    BY <2>1 DEF RouteIsValid, SameNames, filesVars
  <2> QED BY <1>2, <2>1 DEF ReceiptsAreSound
<1>6. Cardinality(Direct') <= 2
  BY <1>2, <1>3, <1>4 DEF ReceiptsAreSound
<1>7. \A x, y \in Direct' : receipt'[x].chat = receipt'[y].chat => x = y
  BY <1>1, <1>2 DEF ReceiptsAreSound, Direct
<1>8. IF pool' = {} THEN Cardinality(Legacy') <= 1
      ELSE /\ \A x \in Legacy' : receipt'[x].chat \in pool'
           /\ \A x, y \in Legacy' : receipt'[x].chat = receipt'[y].chat => x = y
  <2>1. pool' = pool
    BY DEF filesVars
  <2> QED BY <1>1, <1>2, <1>3, <1>4, <2>1 DEF ReceiptsAreSound, Legacy
<1> QED BY <1>3, <1>5, <1>6, <1>7, <1>8 DEF SoundInv, ReceiptsAreSound

\* A preparation keeps the receipts within the bounds and on their own routes.
LEMMA PreparedIsSound ==
  ASSUME DirectInv, NEW a \in Ids, Prepares(a)
  PROVE  SoundInv' /\ NamesInv'
<1>1. PICK t \in Tasks, p \in (Ids \ {a}) \cup {None} :
        PrepareDirect(a, t, p) \/ PrepareLegacy(a, t, p)
  BY DEF Prepares
<1>2. /\ UNCHANGED filesVars /\ receipt[a].st = "absent" /\ receipt'[a].st = "prepared"
      /\ \A x \in Ids : x # a => receipt'[x] = receipt[x]
  BY <1>1, PrepareWrites DEF Advances, OneMoves
<1>3. IsFiniteSet(Direct) /\ IsFiniteSet(Legacy) /\ ReceiptsAreSound /\ NamesInv
  BY DEF DirectInv, RoutesInv, SoundInv
<1>4. /\ a \notin Direct /\ a \notin Legacy /\ Active(a)'
      /\ \A x \in Ids : x # a => (Active(x)' <=> Active(x))
      /\ \A x \in Ids : (x # a /\ RouteIsValid(x)) => RouteIsValid(x)'
  BY <1>2 DEF Direct, Legacy, Active, ActiveSt, PostArm, RouteIsValid, filesVars
<1>5. CASE /\ receipt'[a].route = "direct" /\ registry.present
           /\ Cardinality(Direct) < 2
           /\ receipt'[a].binding \in DOMAIN registry.bindings
           /\ registry.bindings[receipt'[a].binding] = receipt'[a].chat
           /\ receipt'[a].chat \in Chats /\ receipt'[a].chat \notin Occupied
  <2>1. Direct' = Direct \cup {a} /\ Legacy' = Legacy
    BY <1>2, <1>4, <1>5 DEF Direct, Legacy
  <2>2. IsFiniteSet(Direct') /\ Cardinality(Direct') = Cardinality(Direct) + 1
    BY <1>3, <1>4, <2>1, FS_AddElement
  <2>3. Cardinality(Direct) \in Nat
    BY <1>3, FS_CardinalityType
  <2>4. Cardinality(Direct') <= 2
    BY <1>5, <2>2, <2>3
  <2>5. RouteIsValid(a)'
    <3>1. registry.bindings[receipt'[a].binding] \notin registry.bridge
      BY <1>5 DEF DirectInv, RoutesInv, FilesInv, Disjoint
    <3> QED BY <1>2, <1>5, <3>1 DEF RouteIsValid, filesVars
  <2>6. \A x \in Direct : receipt[x].chat # receipt'[a].chat
    BY <1>5 DEF Occupied
  <2>7. \A x, y \in Direct' : receipt'[x].chat = receipt'[y].chat => x = y
    <3>1. \A x \in Direct : x \in Ids /\ receipt'[x].chat = receipt[x].chat
      BY <1>2, <1>4 DEF Direct
    <3> QED BY <1>3, <2>1, <2>6, <3>1 DEF ReceiptsAreSound
  <2>8. \A x \in Legacy : receipt'[x] = receipt[x]
    BY <1>2, <1>4 DEF Legacy
  <2>9. IF pool' = {} THEN Cardinality(Legacy') <= 1
        ELSE /\ \A x \in Legacy' : receipt'[x].chat \in pool'
             /\ \A x, y \in Legacy' : receipt'[x].chat = receipt'[y].chat => x = y
    BY <1>2, <1>3, <2>1, <2>8 DEF ReceiptsAreSound, filesVars
  <2>10. \A x \in Ids : Active(x)' => RouteIsValid(x)'
    BY <1>3, <1>4, <2>5 DEF ReceiptsAreSound
  <2>11. SoundInv'
    BY <1>3, <2>1, <2>2, <2>4, <2>7, <2>9, <2>10 DEF SoundInv, ReceiptsAreSound
  <2>12. NamesInv'
    BY <1>2, <1>3, <1>5 DEF NamesInv, filesVars
  <2> QED BY <2>11, <2>12
<1>6. CASE /\ receipt'[a].route = "legacy" /\ ~registry.present
           /\ pool = {} /\ Legacy = {}
           /\ receipt'[a].chat = workerFile /\ receipt'[a].chat \in Chats
  <2>1. Direct' = Direct /\ Legacy' = {a}
    BY <1>2, <1>4, <1>6 DEF Direct, Legacy
  <2>2. IsFiniteSet(Legacy') /\ Cardinality(Legacy') <= 1
    <3>1. IsFiniteSet({a}) /\ Cardinality({a}) = 1
      BY FS_Singleton
    <3> QED BY <2>1, <3>1
  <2>3. RouteIsValid(a)'
    BY <1>2, <1>6 DEF RouteIsValid, filesVars
  <2>4. \A x \in Ids : Active(x)' => RouteIsValid(x)'
    BY <1>3, <1>4, <2>3 DEF ReceiptsAreSound
  <2>5. \A x \in Direct : receipt'[x] = receipt[x]
    BY <1>2, <1>4 DEF Direct
  <2>6. pool' = {}
    BY <1>2, <1>6 DEF filesVars
  <2>7. SoundInv'
    BY <1>3, <2>1, <2>2, <2>4, <2>5, <2>6 DEF SoundInv, ReceiptsAreSound
  <2>8. NamesInv'
    BY <1>2, <1>3, <1>6 DEF NamesInv, filesVars
  <2> QED BY <2>7, <2>8
<1> QED BY <1>1, <1>5, <1>6, PrepareWrites

\* The invariant holds over every call for an assignment.
LEMMA InvDispatch ==
  ASSUME DirectInv, NEW a \in Ids, Dispatch(a)
  PROVE  DirectInv'
<1>1. SoundInv' /\ NamesInv'
  <2>1. CASE Prepares(a)
    BY <2>1, PreparedIsSound
  <2>2. CASE ~Prepares(a)
    <3>1. /\ UNCHANGED filesVars
          /\ \A x \in Ids : /\ SameNames(receipt[x], receipt'[x])
                            /\ receipt[x].st = "absent" => receipt'[x] = receipt[x]
                            /\ receipt'[x].st = "absent" => receipt[x].st = "absent"
                            /\ Active(x)' => Active(x)
      BY <2>2, OthersKeepNames
    <3>2. SoundInv'
      BY <3>1, FewerAreSound DEF DirectInv
    <3>3. NamesInv'
      BY <3>1 DEF DirectInv, RoutesInv, NamesInv, SameNames, filesVars
    <3> QED BY <3>2, <3>3
  <2> QED BY <2>1, <2>2
<1> QED BY <1>1, TypeDispatch, FenceDispatch DEF DirectInv, RoutesInv

\* At first there is no receipt.
LEMMA NothingPrepared == Init => \A a \in Ids : receipt[a].st = "absent"
<1> SUFFICES ASSUME Init PROVE \A a \in Ids : receipt[a].st = "absent"
  OBVIOUS
<1>1. NoReceipt.st = "absent"
  BY DEF NoReceipt
<1> HIDE DEF NoReceipt
<1>2. \A a \in Ids : receipt[a] = NoReceipt
  BY DEF Init
<1> QED BY <1>1, <1>2

\* Every initial state satisfies the invariant.
LEMMA InvInit == Init => DirectInv
<1> SUFFICES ASSUME Init PROVE DirectInv
  OBVIOUS
<1>1. /\ registry = [present |-> FALSE, current |-> <<>>, bindings |-> <<>>,
                     bridge |-> {}, legacy |-> {}]
      /\ workerFile \in Chats \cup {None} /\ pool = {}
      /\ receipt = [a \in Ids |-> NoReceipt]
      /\ grant = [a \in Ids |-> "none"] /\ sends = [a \in Ids |-> 0]
  BY DEF Init
<1>2. NoReceipt \in ReceiptType
  <2>1. "absent" \in Statuses /\ 0 \in 0..1 /\ 0 \in 0..MaxBindings
    BY DirectAssumption DEF Statuses
  <2> QED BY <2>1 DEF NoReceipt, ReceiptType
<1>3. \A a \in Ids : receipt[a] = NoReceipt
  BY <1>1
<1>4. \A a \in Ids : /\ receipt[a].st = "absent" /\ receipt[a].route = "none"
                     /\ receipt[a].no_resend = FALSE /\ receipt[a].count = 0
                     /\ receipt[a].verified = "unset"
  <2>1. /\ NoReceipt.st = "absent" /\ NoReceipt.route = "none"
        /\ NoReceipt.no_resend = FALSE /\ NoReceipt.count = 0
        /\ NoReceipt.verified = "unset"
    BY DEF NoReceipt
  <2> HIDE DEF NoReceipt
  <2> QED BY <1>3, <2>1
<1>5. DirectTypeOK
  <2>1. <<>> \in Seq(Bindings) /\ <<>> \in Seq(Chats)
    OBVIOUS
  <2> HIDE DEF NoReceipt
  <2> QED BY <1>1, <1>2, <2>1, DirectAssumption DEF DirectTypeOK
<1>6. FilesInv
  BY <1>1 DEF FilesInv, Disjoint
<1>7. NamesInv
  BY <1>3, <1>4 DEF NamesInv
<1>8. FenceInv
  <2> SUFFICES ASSUME NEW a \in Ids PROVE FenceOf(a, receipt[a], grant[a], sends[a])
    BY DEF FenceInv
  <2>1. grant[a] = "none" /\ sends[a] = 0
    BY <1>1
  <2> QED BY <1>4, <2>1 DEF FenceOf, PostArm
<1>9. SoundInv
  <2>1. Direct = {} /\ Legacy = {} /\ \A a \in Ids : ~Active(a)
    BY <1>4 DEF Direct, Legacy, Active, ActiveSt, PostArm
  <2> QED BY <1>1, <2>1, FS_EmptySet DEF SoundInv, ReceiptsAreSound
<1> QED BY <1>5, <1>6, <1>7, <1>8, <1>9 DEF DirectInv, RoutesInv

\* Every step preserves the invariant.
LEMMA InvStep == DirectInv /\ [Next]_vars => DirectInv'
<1> SUFFICES ASSUME DirectInv, [Next]_vars PROVE DirectInv'
  OBVIOUS
<1>1. CASE Setup
  <2>1. RoutesInv'
    BY <1>1, RoutesSetup DEF DirectInv
  <2>2. UNCHANGED <<receipt, grant, sends>>
    BY <1>1, SetupChanges DEF DirectInv, WorkersChange, nativeVars
  <2> QED BY <2>1, <2>2 DEF DirectInv, FenceInv
<1>2. CASE \E a \in Ids : Dispatch(a)
  BY <1>2, InvDispatch
<1>3. CASE UNCHANGED vars
  BY <1>3 DEF vars, filesVars, nativeVars, DirectInv, RoutesInv, DirectTypeOK, FilesInv,
              NamesInv, SoundInv, FenceInv, ReceiptsAreSound, RouteIsValid, Direct, Legacy,
              Active, Disjoint
<1> QED BY <1>1, <1>2, <1>3 DEF Next

\* The invariant holds of every behaviour.
THEOREM DirectInvariant == Spec => []DirectInv
<1>1. Init => DirectInv
  BY InvInit
<1>2. DirectInv /\ [Next]_vars => DirectInv'
  BY InvStep
<1> QED BY <1>1, <1>2, PTL DEF Spec

\* The types of the registry, the files and the receipts.
THEOREM DirectTypeCorrect == Spec => []DirectTypeOK
<1>1. DirectInv => DirectTypeOK
  BY DEF DirectInv, RoutesInv
<1> QED BY <1>1, DirectInvariant, PTL

\* A completed assignment has the answer to its one verified message.
THEOREM CompletedWasAnswered == Spec => []CompletedIsAnswered
<1>1. DirectInv => CompletedIsAnswered
  BY DEF DirectInv, FenceInv, FenceOf, CompletedIsAnswered
<1> QED BY <1>1, DirectInvariant, PTL

\* No configuration, reset or interrupted change mixes the two routes.
THEOREM RoutesNeverMeet == Spec => []RoutesStayApart
<1>1. DirectInv => RoutesStayApart
  <2> SUFFICES ASSUME DirectInv PROVE RoutesStayApart
    OBVIOUS
  <2>1. DirectTypeOK /\ FilesInv /\ NamesInv
    BY DEF DirectInv, RoutesInv
  <2>2. BindingChats \cap (registry.bridge \cup registry.legacy) = {}
    BY <2>1 DEF FilesInv, Disjoint, BindingChats
  <2>3. BindingChats \subseteq Chats
    <3>1. registry.bindings \in Seq(Chats)
      BY <2>1 DEF DirectTypeOK
    <3> QED BY <3>1 DEF BindingChats
  <2>4. BindingChats \cap (pool \cup {workerFile}) = {}
    <3>1. CASE registry.present
      <4>1. pool \subseteq registry.bridge /\ workerFile \in registry.bridge \cup {None}
        BY <2>1, <3>1 DEF FilesInv
      <4> QED BY <2>2, <2>3, <4>1, DirectAssumption
    <3>2. CASE ~registry.present
      <4>1. registry.bindings = <<>>
        BY <2>1, <3>2 DEF FilesInv
      <4>2. BindingChats = {}
        BY <4>1 DEF BindingChats
      <4> QED BY <4>2
    <3> QED BY <3>1, <3>2
  <2>5. \A a \in Ids : receipt[a].route = "direct" => receipt[a].chat \in BindingChats
    BY <2>1 DEF NamesInv, BindingChats
  <2>6. pool # {} => registry.present /\ pool \subseteq registry.bridge
    BY <2>1 DEF FilesInv
  <2> QED BY <2>2, <2>4, <2>5, <2>6 DEF RoutesStayApart
<1> QED BY <1>1, DirectInvariant, PTL

\* No change of the workers makes the receipts unreadable.
THEOREM ReceiptsAreReadable == Spec => []ReceiptsStaySound
<1>1. DirectInv => ReceiptsStaySound
  BY DEF DirectInv, RoutesInv, SoundInv, ReceiptsStaySound
<1> QED BY <1>1, DirectInvariant, PTL

\* A step keeps every continuation where it was, and a preparation starts it there.
LEMMA ContinuationStep ==
  ASSUME DirectInv, ContinuationStays, [Next]_vars
  PROVE  ContinuationStays'
<1>1. CASE UNCHANGED receipt
  BY <1>1 DEF ContinuationStays
<1>2. ASSUME NEW a \in Ids, Dispatch(a), ~Prepares(a) PROVE ContinuationStays'
  <2>1. \A x \in Ids : /\ SameNames(receipt[x], receipt'[x])
                       /\ receipt'[x].st # "absent" => receipt[x].st # "absent"
                       /\ receipt[x].st = "complete" => receipt'[x].st = "complete"
    <3>1. \A x \in Ids : receipt[x].st = "absent" => receipt'[x] = receipt[x]
      BY <1>2, OthersKeepNames
    <3>2. \A x \in Ids : receipt'[x].st # "absent" => receipt[x].st # "absent"
      BY <3>1
    <3> QED BY <1>2, <3>2, OthersKeepNames
  <2>2. \A x \in Ids : receipt[x].prior \in Ids \cup {None}
    BY DEF DirectInv, RoutesInv, DirectTypeOK, ReceiptType
  <2> SUFFICES ASSUME NEW x \in Ids, receipt'[x].st # "absent", receipt'[x].prior # None
               PROVE  LET p == receipt'[receipt'[x].prior] IN
                      /\ p.st = "complete"
                      /\ p.route = receipt'[x].route /\ p.chat = receipt'[x].chat
                      /\ p.route = "direct" =>
                           p.binding = receipt'[x].binding /\ p.task = receipt'[x].task
    BY DEF ContinuationStays
  <2>3. /\ receipt[x].st # "absent" /\ receipt[x].prior # None
        /\ receipt'[x].prior = receipt[x].prior /\ receipt[x].prior \in Ids
    BY <2>1, <2>2 DEF SameNames
  <2> DEFINE q == receipt[x].prior
  <2>4. /\ receipt[q].st = "complete"
        /\ receipt[q].route = receipt[x].route /\ receipt[q].chat = receipt[x].chat
        /\ receipt[q].route = "direct" => /\ receipt[q].binding = receipt[x].binding
                                          /\ receipt[q].task = receipt[x].task
    BY <2>3 DEF ContinuationStays
  <2> HIDE DEF q
  <2>5. q \in Ids /\ receipt'[x].prior = q
    BY <2>3 DEF q
  <2>6. SameNames(receipt[q], receipt'[q]) /\ receipt'[q].st = "complete"
    BY <2>1, <2>4, <2>5
  <2> QED BY <2>1, <2>4, <2>5, <2>6 DEF SameNames
<1>3. ASSUME NEW a \in Ids, Prepares(a) PROVE ContinuationStays'
  <2>1. PICK t \in Tasks, p \in (Ids \ {a}) \cup {None} :
          PrepareDirect(a, t, p) \/ PrepareLegacy(a, t, p)
    BY <1>3 DEF Prepares
  <2>2. /\ receipt[a].st = "absent" /\ receipt'[a].prior = p /\ receipt'[a].task = t
        /\ \A x \in Ids : x # a => receipt'[x] = receipt[x]
    BY <2>1, PrepareWrites DEF Advances, OneMoves
  <2>3. p # None => /\ p \in Ids /\ p # a /\ receipt[p].st = "complete"
                    /\ receipt[p].route = receipt'[a].route
                    /\ receipt[p].chat = receipt'[a].chat
                    /\ receipt[p].route = "direct" => /\ receipt[p].binding = receipt'[a].binding
                                                      /\ receipt[p].task = t
    <3>1. CASE p = None
      BY <3>1
    <3>2. CASE /\ p # None /\ receipt[p].st = "complete" /\ receipt[p].route = "direct"
               /\ receipt'[a].route = "direct"
               /\ receipt[p].chat = receipt'[a].chat
               /\ receipt[p].binding = receipt'[a].binding /\ receipt[p].task = t
      BY <3>2
    <3>3. CASE /\ p # None /\ receipt'[a].route = "legacy" /\ ~registry.present
               /\ receipt[p].st = "complete" /\ receipt[p].chat = workerFile
               /\ receipt'[a].chat = workerFile
      <4>1. p \in Ids /\ receipt[p].route = "legacy"
        BY <3>3 DEF DirectInv, RoutesInv, NamesInv
      <4> QED BY <3>3, <4>1
    <3> QED BY <2>1, <3>1, <3>2, <3>3, PrepareWrites
  <2>4. \A x \in Ids : (receipt[x].st # "absent" /\ receipt[x].prior # None) =>
          receipt[x].prior \in Ids /\ receipt[x].prior # a
    <3>1. \A x \in Ids : receipt[x].prior \in Ids \cup {None}
      BY DEF DirectInv, RoutesInv, DirectTypeOK, ReceiptType
    <3> QED BY <2>2, <3>1 DEF ContinuationStays
  <2> SUFFICES ASSUME NEW x \in Ids, receipt'[x].st # "absent", receipt'[x].prior # None
               PROVE  LET q == receipt'[receipt'[x].prior] IN
                      /\ q.st = "complete"
                      /\ q.route = receipt'[x].route /\ q.chat = receipt'[x].chat
                      /\ q.route = "direct" =>
                           q.binding = receipt'[x].binding /\ q.task = receipt'[x].task
    BY DEF ContinuationStays
  <2>5. CASE x = a
    BY <2>2, <2>3, <2>5
  <2>6. CASE x # a
    BY <2>2, <2>4, <2>6 DEF ContinuationStays
  <2> QED BY <2>5, <2>6
<1>4. CASE Setup
  BY <1>1, <1>4, SetupChanges DEF DirectInv, WorkersChange
<1>5. CASE UNCHANGED vars
  BY <1>1, <1>5 DEF vars
<1> QED BY <1>2, <1>3, <1>4, <1>5 DEF Next

\* A continuation stays in the conversation it continues.
THEOREM ContinuationsStay == Spec => []ContinuationStays
<1>1. Init => ContinuationStays
  BY NothingPrepared DEF ContinuationStays
<1>2. DirectInv /\ ContinuationStays /\ [Next]_vars => ContinuationStays'
  BY ContinuationStep
<1> QED BY <1>1, <1>2, DirectInvariant, PTL DEF Spec

----------------------------------------------------------------------------
(* Assignments implement the ledger                                         *)

\* The entry of one assignment, from its receipt.
LEMMA EntryIs ==
  ASSUME NEW rc
  PROVE  /\ rc.st = "complete" => Entry(rc) = "complete"
         /\ (rc.st = "abandoned" /\ rc.no_resend) => Entry(rc) = "withdrawn"
         /\ (rc.st = "abandoned" /\ ~rc.no_resend) => Entry(rc) = "dropped"
         /\ rc.st \in PostArm => Entry(rc) = "committed"
         /\ rc.st \in {"absent", "prepared"} => Entry(rc) = "open"
<1>1. rc.st = "complete" => Entry(rc) = "complete"
  BY DEF Entry, PostArm
<1>2. (rc.st = "abandoned" /\ rc.no_resend) => Entry(rc) = "withdrawn"
  BY DEF Entry, PostArm
<1>3. (rc.st = "abandoned" /\ ~rc.no_resend) => Entry(rc) = "dropped"
  BY DEF Entry, PostArm
<1>4. rc.st \in PostArm => Entry(rc) = "committed"
  BY DEF Entry, PostArm
<1>5. rc.st \in {"absent", "prepared"} => Entry(rc) = "open"
  BY DEF Entry, PostArm
<1> QED BY <1>1, <1>2, <1>3, <1>4, <1>5

\* The entries before and after a step are those of the receipts.
LEMMA LedgerOf ==
  ASSUME NEW a \in Ids
  PROVE  ledger[a] = Entry(receipt[a]) /\ ledger'[a] = Entry(receipt'[a])
BY DEF ledger

\* An entry depends on nothing else.
LEMMA LedgerKept ==
  ASSUME NEW a \in Ids, receipt'[a].st = receipt[a].st,
         receipt'[a].no_resend = receipt[a].no_resend
  PROVE  ledger'[a] = ledger[a]
BY LedgerOf DEF Entry

\* What a receipt may become is what an entry may become.
LEMMA EntryAdvances ==
  ASSUME DirectInv, NEW a \in Ids, Advances(a)
  PROVE  [Abstract!Next]_(Abstract!vars)
<1>1. /\ EntryMoves(receipt[a], receipt'[a], sends[a]) /\ UNCHANGED sends
      /\ \A x \in Ids : x # a => receipt'[x] = receipt[x]
  BY DEF Advances, OneMoves
<1>2. \A x \in Ids : x # a => ledger'[x] = ledger[x]
  BY <1>1, LedgerKept
<1>3. /\ ledger  = [x \in Ids |-> ledger[x]]
      /\ ledger' = [x \in Ids |-> ledger'[x]]
  BY DEF ledger
<1>4. ledger' = [ledger EXCEPT ![a] = ledger'[a]]
  BY <1>2, <1>3
<1>5. \/ ledger'[a] = ledger[a]
      \/ ledger[a] = "open" /\ ledger'[a] \in {"committed", "dropped"}
      \/ ledger[a] = "committed" /\ ledger'[a] = "withdrawn"
      \/ ledger[a] = "committed" /\ ledger'[a] = "complete" /\ sends[a] = 1
  <2>1. CASE receipt'[a].st = receipt[a].st /\ receipt'[a].no_resend = receipt[a].no_resend
    BY <2>1, LedgerKept
  <2>2. CASE receipt[a].st \in {"absent", "prepared"} /\ receipt'[a].st \in {"prepared", "armed"}
    BY <2>2, LedgerOf, EntryIs DEF PostArm
  <2>3. CASE receipt[a].st \in PostArm /\ receipt'[a].st \in PostArm
    BY <2>3, LedgerOf, EntryIs
  <2>4. CASE \/ /\ receipt[a].st = "prepared" /\ receipt'[a].st = "abandoned"
                /\ ~receipt'[a].no_resend
             \/ /\ receipt[a].st \in PostArm /\ receipt'[a].st = "abandoned"
                /\ receipt'[a].no_resend
    BY <2>4, LedgerOf, EntryIs
  <2>5. CASE receipt[a].st \in PostArm /\ receipt'[a].st = "complete" /\ sends[a] = 1
    BY <2>5, LedgerOf, EntryIs
  <2> QED BY <1>1, <2>1, <2>2, <2>3, <2>4, <2>5 DEF EntryMoves
<1>6. CASE ledger'[a] = ledger[a]
  <2>1. ledger' = ledger
    BY <1>3, <1>4, <1>6
  <2> QED BY <1>1, <2>1 DEF Abstract!vars
<1>7. CASE ledger[a] = "open" /\ ledger'[a] = "committed"
  <2>1. Abstract!Commit(a)
    BY <1>1, <1>4, <1>7 DEF Abstract!Commit
  <2> QED BY <2>1 DEF Abstract!Next
<1>8. CASE \/ ledger[a] = "open" /\ ledger'[a] = "dropped"
           \/ ledger[a] = "committed" /\ ledger'[a] = "withdrawn"
  <2>1. Abstract!GiveUp(a)
    BY <1>1, <1>4, <1>8 DEF Abstract!GiveUp
  <2> QED BY <2>1 DEF Abstract!Next
<1>9. CASE ledger[a] = "committed" /\ ledger'[a] = "complete" /\ sends[a] = 1
  <2>1. Abstract!Complete(a)
    BY <1>1, <1>4, <1>9 DEF Abstract!Complete
  <2> QED BY <2>1 DEF Abstract!Next
<1> QED BY <1>5, <1>6, <1>7, <1>8, <1>9

\* A step that writes no receipt and sends nothing is not the ledger's.
LEMMA EntriesKept ==
  ASSUME UNCHANGED <<receipt, sends>>
  PROVE  [Abstract!Next]_(Abstract!vars)
<1>1. ledger' = ledger
  BY DEF ledger
<1> QED BY <1>1 DEF Abstract!vars

\* The native send is the ledger's Emit: its request is committed, or was
\* withdrawn since, and has not been sent.
LEMMA EntrySent ==
  ASSUME DirectInv, NEW a \in Ids, Send(a) \/ LoseTask(a)
  PROVE  [Abstract!Next]_(Abstract!vars)
<1>1. /\ UNCHANGED receipt /\ receipt[a].no_resend /\ sends[a] = 0
      /\ sends' = [sends EXCEPT ![a] = 1] \/ UNCHANGED sends
  BY SendEffect
<1>2. CASE UNCHANGED sends
  BY <1>1, <1>2, EntriesKept
<1>3. CASE sends' = [sends EXCEPT ![a] = 1]
  <2>1. receipt[a].st \in Statuses /\ FenceOf(a, receipt[a], grant[a], sends[a])
    BY DEF DirectInv, FenceInv, RoutesInv, DirectTypeOK, ReceiptType
  <2>2. receipt[a].st \in PostArm \/ receipt[a].st = "abandoned"
    BY <1>1, <2>1 DEF FenceOf, Statuses, ActiveSt
  <2>3. ledger[a] \in {"committed", "withdrawn"}
    BY <1>1, <2>2, LedgerOf, EntryIs
  <2>4. ledger' = ledger
    BY <1>1 DEF ledger
  <2>5. Abstract!Emit(a)
    BY <1>1, <1>3, <2>3, <2>4 DEF Abstract!Emit
  <2> QED BY <2>5 DEF Abstract!Next
<1> QED BY <1>1, <1>2, <1>3

\* The initial states map to the initial states of the ledger.
LEMMA LedgerInit == Init => Abstract!Init
<1> SUFFICES ASSUME Init PROVE Abstract!Init
  OBVIOUS
<1>1. \A a \in Ids : receipt[a].st = "absent"
  BY NothingPrepared
<1>2. \A a \in Ids : ledger[a] = "open"
  BY <1>1, LedgerOf, EntryIs
<1>3. ledger = [a \in Ids |-> ledger[a]]
  BY DEF ledger
<1> QED BY <1>2, <1>3 DEF Init, Abstract!Init

\* Every step is a step of the ledger or leaves it as it is.
LEMMA LedgerStep ==
  ASSUME DirectInv, [Next]_vars
  PROVE  [Abstract!Next]_(Abstract!vars)
<1>1. CASE Setup
  <2>1. UNCHANGED <<receipt, sends>>
    BY <1>1, SetupChanges DEF DirectInv, WorkersChange, nativeVars
  <2> QED BY <2>1, EntriesKept
<1>2. ASSUME NEW a \in Ids, Dispatch(a) PROVE [Abstract!Next]_(Abstract!vars)
  <2>1. Prepares(a) => Advances(a)
    BY PrepareWrites DEF Prepares
  <2> QED BY <1>2, <2>1, DispatchSplits, EntryAdvances, EntrySent
<1>3. CASE UNCHANGED vars
  BY <1>3, EntriesKept DEF vars, nativeVars
<1> QED BY <1>1, <1>2, <1>3 DEF Next

\* Assignments are sent at most once, also when their task dies between arming
\* and its send, and their workers are changed around them.
THEOREM DirectImplementsSendOnce == Spec => ImplementsSendOnce
<1>1. Init => Abstract!Init
  BY LedgerInit
<1>2. DirectInv /\ [Next]_vars => [Abstract!Next]_(Abstract!vars)
  BY LedgerStep
<1> QED BY <1>1, <1>2, DirectInvariant, PTL DEF Spec, ImplementsSendOnce, Abstract!Spec

\* The forms a prompt asks for are accepted, and an accepted response answers
\* one question, whatever assignments there are.
THEOREM PromptAndParserAgree == Spec => []FormsAgree
<1>1. FormsAgree
  BY AskedIsAccepted, OneAnswer DEF FormsAgree
<1> QED BY <1>1, PTL
=============================================================================
