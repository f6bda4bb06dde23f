----------------------------- MODULE MCAdmission -----------------------------
(* Instances of Admission for TLC.                                           *)
EXTENDS Admission, TLC

\* Any client brings any request.
AnyBrings == [c \in Clients |-> Requests]

\* The same up to a renaming of the requests, where symmetry may not be used:
\* one client brings a given request, the others any.
FirstBrings ==
  [c \in Clients |-> IF c = CHOOSE d \in Clients : TRUE
                     THEN {CHOOSE r \in Requests : TRUE} ELSE Requests]

Symmetry == Permutations(Requests) \cup Permutations(Clients)
=============================================================================
