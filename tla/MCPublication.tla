--------------------------- MODULE MCPublication ---------------------------
(***************************************************************************)
(* Two task ids and two digests of each, so that a task can be replaced    *)
(* under its own id, under the other's, or both at once; one campaign of   *)
(* every kind a command tells apart.                                       *)
(***************************************************************************)
EXTENDS Publication

MCCategoryOf == [t \in Ids \X Digests |-> IF t = <<"c", 2>> THEN "feature" ELSE "state"]
MCSourceOf == [t \in Ids \X Digests |-> IF t[2] = 1 THEN "MIT" ELSE "vendored"]

Held(tasks) == [visibility |-> "held_out_active", tasks |-> tasks]

MCFirstSets == {Held([a |-> 1, b |-> 1])}

\* Both ids with another digest, and one id replaced by another, in its category or not.
MCNextSets ==
    {Held([a |-> 2, b |-> 2]), Held([a |-> 1, c |-> 1]), Held([a |-> 1, c |-> 2])}

Constantly(x) == [id \in Ids |-> x]
Five(first, second, rest) == [i \in 1..5 |-> IF i = 1 THEN first ELSE IF i = 2 THEN second ELSE rest]

\* One task of the first campaign has an excluded trial, so it is comparable on some sets
\* only; the second one fails, and with other pins.
Campaign(pins, a, b, c) ==
    [purpose |-> "comparison", terms |-> "t1", origin |-> "maintainer",
     pins |-> Constantly(pins), trials |-> [a |-> a, b |-> b, c |-> c]]

MCCampaigns ==
    {Campaign("p1", Five("pass", "pass", "pass"), Five("pass", "pass", "pass"),
              Five("excluded", "pass", "pass")),
     Campaign("p2", Five("failure", "failure", "pass"), Five("pass", "failure", "pass"),
              Five("failure", "failure", "pass"))}

MCRecords ==
    {[retired |-> r, digest |-> 1, reason |-> reason, replacement |-> q,
      replacementDigest |-> d, source |-> source] :
         <<r, q, d, reason, source>> \in
             {<<"a", "b", 2, "leakage", "MIT">>, <<"b", "a", 2, "leakage", "MIT">>,
              <<"a", "a", 2, "major_task_set_release", "MIT">>,
              <<"b", "c", 1, "dependency_rot", "MIT">>,
              <<"b", "c", 1, "dependency_rot", "vendored">>,
              <<"b", "c", 2, "dependency_rot", "MIT">>}}
=============================================================================
