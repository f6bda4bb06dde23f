---------------------------- MODULE ResultFrames ----------------------------
(* The framed answer of a worker chat (core._parse_result) and the forms a   *)
(* prompt asks for (core.wrap_prompt).  A response is a sequence of lines;   *)
(* a line is a tuple: its kind, then what the parser reads in it.  A numeral *)
(* is its sequence of digits: the parser accepts only the canonical ones.    *)
EXTENDS Naturals, Sequences

CONSTANT Ids   \* assignments

\* MAX_CHUNKS
MaxChunks == 16

Marker(a)       == <<"result", a>>
Footer(a)       == <<"end", a>>
Control(root)   == <<"control", root>>
Header(root, digits, final) == <<"chunk", root, digits, final>>
Text            == <<"text">>
Blank           == <<"blank">>       \* a line of no bytes
Broken          == <<"broken">>      \* holds a CR or is not UTF-8
BadControl      == <<"control">>     \* the prefix of a control line, no more
BadHeader       == <<"chunk">>       \* the prefix of a chunk header, no more

IsControl(line) == line[1] = "control"
IsHeader(line)  == line[1] = "chunk"

\* What the reader expects: no chunk, or a chunk of a root at an index.
NoChunk   == [root |-> "none", digits |-> <<>>]
Refused   == [kind |-> "refused"]

\* Mutated: the last index is left out.
ShortIndex(digits) ==
  \/ Len(digits) = 1 /\ digits[1] \in 1..9
  \/ Len(digits) = 2 /\ digits[1] = 1 /\ digits[2] \in 0..5
\* CHUNK_INDEX_PATTERN: [1-9] or 1[0-6].
CanonicalIndex(digits) ==
  \/ Len(digits) = 1 /\ digits[1] \in 1..9
  \/ Len(digits) = 2 /\ digits[1] = 1 /\ digits[2] \in 0..6
Value(digits) == IF Len(digits) = 1 THEN digits[1] ELSE 10 * digits[1] + digits[2]

\* The interior is what lies between the marker's newline and the footer's:
\* nothing when these are one newline.
Interior(lines) ==
  IF Len(lines) = 2 THEN <<Blank>> ELSE SubSeq(lines, 2, Len(lines) - 1)

ParseShort(a, body) ==
  CASE IsControl(body[1]) ->
         IF body = <<Control(a)>> THEN [kind |-> "continue"] ELSE Refused
    [] IsHeader(body[1]) \/ body = <<Blank>> -> Refused
    [] OTHER -> [kind |-> "short", body |-> body]

\* An empty body needs a newline of its own, the final flag and an earlier chunk.
ParseChunk(expected, body) ==
  LET header == body[1]
      rest   == Tail(body)
      index  == Value(expected.digits)
  IN IF /\ IsHeader(header) /\ Len(header) = 4
        /\ header[2] = expected.root
        /\ CanonicalIndex(header[3]) /\ Value(header[3]) = index
        /\ header[4] \in {0, 1}
        /\ rest # <<>>
        /\ rest = <<Blank>> => header[4] = 1 /\ index # 1
     THEN [kind |-> "chunk", index |-> index, final |-> header[4], body |-> rest]
     ELSE Refused

\* Mutated: the end marker is not looked for.
FramedAtStart(lines, a) ==
  /\ Len(lines) >= 2
  /\ lines[1] = Marker(a)
  /\ \A i \in 1..Len(lines) : lines[i] # Broken
\* The marker at byte zero, the end marker at the last one, no CR, all UTF-8.
Framed(lines, a) ==
  /\ Len(lines) >= 2
  /\ lines[1] = Marker(a)
  /\ lines[Len(lines)] = Footer(a)
  /\ \A i \in 1..Len(lines) : lines[i] # Broken
Parse(lines, a, expected) ==
  IF ~Framed(lines, a) THEN Refused
  ELSE IF expected = NoChunk THEN ParseShort(a, Interior(lines))
  ELSE IF CanonicalIndex(expected.digits) THEN ParseChunk(expected, Interior(lines))
  ELSE Refused

Accepted(lines, a, expected) == Parse(lines, a, expected) # Refused

\* The response forms wrap_prompt spells out for a prompt with this expectation.
Rendered(a, expected, final, body) ==
  IF expected = NoChunk THEN <<Marker(a)>> \o body \o <<Footer(a)>>
  ELSE <<Marker(a), Header(expected.root, expected.digits, final)>>
       \o body \o <<Footer(a)>>

----------------------------------------------------------------------------
(* Reference definitions, over all responses of at most two interior lines  *)

Numeral(n)   == IF n < 10 THEN <<n>> ELSE <<1, n - 10>>
Expectations == [root : Ids, digits : {Numeral(n) : n \in 1..MaxChunks}]
Headers      == {Header(r, d, f) : r \in Ids, f \in 0..2,
                   d \in {<<0>>, <<1>>, <<2>>, <<0, 1>>, <<1, 6>>, <<1, 7>>}}
BodyLines    == {Text, Blank, Broken, BadControl, BadHeader} \cup Headers
                \cup {Control(a) : a \in Ids} \cup {Footer(a) : a \in Ids}
Interiors    == UNION {[1..n -> BodyLines] : n \in 0..2}
Response(a, b, body) == <<Marker(a)>> \o body \o <<Footer(b)>>
Readings     == {NoChunk} \cup Expectations

\* The assignments whose forms the parser takes, at each of the sixteen indices
\* and with either final flag, and reads back unchanged: also the empty last
\* chunk, which only an earlier chunk may precede.
Understood ==
  {a \in Ids : \A e \in Expectations, final \in {0, 1}, body \in {<<Text>>, <<Blank>>} :
    /\ Parse(Rendered(a, NoChunk, 0, <<Text>>), a, NoChunk).kind = "short"
    /\ Parse(<<Marker(a), Control(a), Footer(a)>>, a, NoChunk).kind = "continue"
    /\ Parse(Rendered(a, e, final, body), a, e) =
         IF body = <<Blank>> /\ (final = 0 \/ e.digits = <<1>>) THEN Refused
         ELSE [kind |-> "chunk", index |-> Value(e.digits), final |-> final,
               body |-> body]}

\* The assignments whose answers answer nothing else: no other assignment, root
\* or index accepts them, and what is left of one when its end was cut off is
\* refused, unless the answer itself spells the end marker.
Unmistakable ==
  {a \in Ids : \A c, d \in Ids, body \in Interiors, e \in Readings :
    LET s == Response(c, d, body) IN Accepted(s, a, e) =>
      /\ \A b \in Ids, f \in Readings : Accepted(s, b, f) => a = b /\ e = f
      /\ \A n \in 1..(Len(s) - 1) :
           s[n] # Footer(a) => ~Accepted(SubSeq(s, 1, n), a, e)}
=============================================================================
