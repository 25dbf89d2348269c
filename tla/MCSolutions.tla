---------------------------- MODULE MCSolutions ----------------------------
(***************************************************************************)
(* Retries up to the bound and a connection after it; events of one        *)
(* instant, of two kinds; two owners and leases of two lengths.            *)
(***************************************************************************)
EXTENDS Solutions

AnEvent(id, created_at, kind) == [id |-> id, created_at |-> created_at, kind |-> kind]

MCAllEvents ==
    {AnEvent(1, 1, "a"), AnEvent(2, 1, "a"), AnEvent(3, 1, "b"), AnEvent(4, 2, "a"),
     AnEvent(5, 3, "b")}
=============================================================================
