---------------------------- MODULE MCDocuments -----------------------------
(***************************************************************************)
(* Documents for TLC: contract templates that are whole or lost a clause,  *)
(* and report templates with or without the note.                          *)
(***************************************************************************)
EXTENDS Documents

Clause(rule) == [kind |-> "clause", complete |-> TRUE, billingRule |-> rule]
Title == [kind |-> "title", complete |-> TRUE, billingRule |-> Null]

Whole == [issuer |-> TRUE, blocks |-> {Title} \cup {Clause(r) : r \in REQUIRED_BILLING_RULES}]
NoExcess == [Whole EXCEPT !.blocks = @ \ {Clause("excess")}]

Noted == [issuer |-> TRUE, billingNote |-> TRUE, signatures |-> TRUE]

SomeContents == [CONTRACT |-> {Whole, NoExcess}, REPORT |-> {Noted}]

\* One change of the contract's template; of the reports', the first of all.
FewVersions == [CONTRACT |-> 2, REPORT |-> 1]
=============================================================================
