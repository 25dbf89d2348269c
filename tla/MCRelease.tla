----------------------------- MODULE MCRelease -----------------------------
(***************************************************************************)
(* Three tasks of three categories, one of them sequential, so that every  *)
(* gate can pass.  One has been edited since it was reviewed, or is edited  *)
(* now.  Of two configurations the first may have to be signed again, or  *)
(* for the first time.  The manifests lack a few steps to be complete.     *)
(***************************************************************************)
EXTENDS Release

About(owner, category, sequential, approved) ==
    [owner |-> owner, category |-> category, patch |-> TRUE, sequential |-> sequential,
     admitted |-> TRUE, approved |-> approved, mit |-> TRUE, attacks |-> {}]

MCEntries == <<"t1", "t2", "t3">>

MCContractsOf == [t1 |-> {"first", "edited", "traced"}, t2 |-> {"second"}, t3 |-> {"third"}]

MCContract ==
    [first |-> About("ann", "state", FALSE, TRUE),
     edited |-> About("carol", "state", FALSE, TRUE),
     traced |-> About("ann", "tracer", FALSE, TRUE),
     second |-> About("ann", "feature", FALSE, TRUE),
     third |-> About("bob", "review", TRUE, TRUE)]

MCHarnessOf == [c1 |-> "cursor-cli", c2 |-> "codex"]

Review(t, digest, reviewer, decision) ==
    [task |-> t, digest |-> digest, reviewer |-> reviewer, decision |-> decision]

Expert(t, digest, decision) ==
    [expert |-> "eve", task |-> t, digest |-> digest, decision |-> decision]

Audit(kind, status, independent) ==
    [kind |-> kind, status |-> status, independent |-> independent]

Bobs == Review("t1", "first", "bob", "accepted")
Anns == Review("t3", "third", "ann", "accepted")
Seconds == Review("t2", "second", "bob", "accepted")
Eves(k) == {Expert("t1", k["t1"], "accepted"), Expert("t2", "second", "accepted"),
            Expert("t3", "third", "accepted")}

MCReviews ==
    {Review("t1", "edited", "ann", "accepted"), Seconds,
     Review("t2", "second", "carol", "accepted"), Review("t2", "second", "carol", "changes_requested")}

MCExperts == {Expert("t2", "second", "changes_requested")}

HeldOutAudit == Audit("held_out_execution", "passed", TRUE)

MCAuditors ==
    {Audit("privacy_leakage", "failed", TRUE), HeldOutAudit,
     Audit("held_out_execution", "passed", FALSE)}

Comparable == [edition |-> 0, evaluation |-> 0, worth |-> "comparable"]

Statements(k) ==
    [evaluation |-> [edition |-> 0, tasks |-> k, schedule |-> "s1"], result |-> Comparable]

Signed(k) ==
    LET attestation == [statement |-> Statements(k), signer |-> "p1"]
    IN  [evaluation |-> Statements(k).evaluation, result |-> Comparable,
         attestation |-> attestation, verification |-> Verification(attestation)]

Unsigned(k) == [Signed(k) EXCEPT !.attestation = None, !.verification = None]

MCInitialFiles(k) == {[c1 |-> f, c2 |-> Signed(k)] : f \in {Signed(k), Unsigned(k)}}

\* What is still missing: the review of the second task, or the private task set; and with
\* files to sign, a comparison.  A stable release is tried when one step is left.
MCInitialEvidence(k, fs) ==
    {[stage |-> IF try = 3 THEN "stable" ELSE "provisional", tasks |-> k,
      reviews |-> {Bobs, Anns} \union (IF try > 1 THEN {Seconds} ELSE {}),
      experts |-> Eves(k),
      audits |-> {Audit("privacy_leakage", "passed", TRUE)}
                 \union (IF try > 1 THEN {HeldOutAudit} ELSE {}),
      materials |-> {"LICENSE"},
      heldOut |-> [status |-> IF try > 1 THEN "not_available" ELSE "active_private",
                   disclosed |-> try = 1],
      comparisons |-> [c \in {d \in Configurations : Complete(fs[d])} |->
                          [files |-> fs[c], signers |-> Signers]]] :
        try \in IF k["t1"] = "traced" THEN {} ELSE IF Complete(fs["c1"]) THEN 1..3 ELSE 1..2}
=============================================================================
