------------------------------ MODULE MCTrial ------------------------------
(***************************************************************************)
(* Trial on small instances: the receipts an agent may leave, in full for  *)
(* a single-phase task and as a sample for a sequential one.               *)
(***************************************************************************)
EXTENDS Trial

\* Every receipt whose claim on a gate that does not apply is "absent" or "passed" and
\* that goes wrong in at most one way besides its claims and its task; the content of one
\* that is not parsed does not matter.
AllReceipts ==
    LET Claims == {c \in [Gates -> ClaimStates] :
                      \A g \in Gates \ Applicable : c[g] \in {"absent", "passed"}}
        OneWrong(r) == Cardinality({w \in {"exact", "commands", "uncertainty"} :
                                       r[w] # (w # "uncertainty")}) <= 1
        Parsed == {r \in [file: {"present"}, bound: BOOLEAN, exact: BOOLEAN,
                          commands: BOOLEAN, uncertainty: BOOLEAN, claims: Claims] :
                      OneWrong(r)}
        Sound == [file: {"symlink"}, bound: BOOLEAN, exact: {TRUE},
                  commands: {TRUE}, uncertainty: {FALSE}, claims: Claims]
    IN  Parsed \union Sound
          \union {[NoReceipt EXCEPT !.file = f] : f \in {"absent", "malformed", "undecodable"}}

Report(claims) ==
    [file |-> "present", bound |-> TRUE, exact |-> TRUE, commands |-> TRUE,
     uncertainty |-> FALSE, claims |-> claims]

Claiming(states) ==
    Report([g \in Gates |-> IF g \in Applicable THEN states[g] ELSE "absent"])

\* Every combination of passed and failed claims, and one receipt for each way a
\* receipt goes wrong.
SomeReceipts ==
    LET proud == Claiming([g \in Gates |-> "passed"])
    IN  {Claiming(states) : states \in [Gates -> {"passed", "failed"}]}
          \union {[proud EXCEPT !.bound = FALSE], [proud EXCEPT !.file = "symlink"],
                  [NoReceipt EXCEPT !.file = "undecodable"], NoReceipt}

\* One receipt of each kind the runner tells apart.
FewReceipts ==
    {Claiming([g \in Gates |-> "passed"]), Claiming([g \in Gates |-> "failed"]),
     [NoReceipt EXCEPT !.file = "undecodable"], NoReceipt}
=============================================================================
