----------------------------- MODULE MCServices -----------------------------
(***************************************************************************)
(* The instance of Services for TLC.                                       *)
(***************************************************************************)
EXTENDS Services, TLC

\* A rule for a link, and one for a code.
RuleFinds == [r \in Rules |-> [e \in Messages |-> IF r = 1 THEN "a" ELSE "b"]]
RuleTypes == [r \in Rules |-> IF r = 1 THEN "URL" ELSE "OTP"]
RuleConfidence == [r \in Rules |-> IF r = 1 THEN 85 ELSE 99]

\* A plus address, and a batch with every kind of line.
BaseAddress == [a \in Addresses |-> "u"]
Line(email, filled) == [email |-> email, filled |-> filled]
BatchLines ==
  [b \in Batches |-> <<Line("u", TRUE), Line("EMPTY", FALSE), Line("u", TRUE), Line("u+t", TRUE)>>]

\* The sessions of every component are the same two, which no CHOOSE tells apart.
Sessions == Permutations(Parsers)
=============================================================================
