------------------------------- MODULE Pages -------------------------------
(***************************************************************************)
(* The task feature/event-pagination: paginate_events of src/events.py as  *)
(* the reference solutions of its first two steps give it, and a client    *)
(* that reads one page after the other while events come and go.           *)
(*                                                                         *)
(* Each of the four solutions encodes a position in a format of its own,   *)
(* and takes no other: two steps of the task, an oracle and an alternate   *)
(* each.  Arguments are well-formed.                                       *)
(***************************************************************************)
EXTENDS Integers, Sequences, FiniteSets, SequencesExt

CONSTANTS
    AllEvents,      \* the events there may be, with unique ids
    Limit,          \* the client's limit, 1 through 100
    MaxChanges      \* bound: events added or removed in one history

NoKind == "none"
NoCursor == <<>>

ASSUME PagesAssumption ==
    /\ IsFiniteSet(AllEvents)
    /\ \A a, b \in AllEvents : a.id = b.id => a = b
    /\ \A e \in AllEvents : e.created_at \in Nat /\ e.id \in Nat /\ e.kind # NoKind
    /\ Limit \in 1..100 /\ MaxChanges \in Nat

Kinds == {e.kind : e \in AllEvents}

Newer(a, b) == a.created_at > b.created_at \/ (a.created_at = b.created_at /\ a.id > b.id)

NewerIn(events, e) == {f \in events : Newer(f, e)}

\* _events, which is list_recent: newest first by (created_at, id); the n-th event is the
\* one with n - 1 newer ones.
Ordered(events) ==
    [n \in 1..Cardinality(events) |-> CHOOSE e \in events : Cardinality(NewerIn(events, e)) = n - 1]

Matching(events, kind) == {e \in events : kind = NoKind \/ e.kind = kind}

\* What _encode, or _cursor, makes of a position, and what _decode, or _position, tells apart:
\* the oracles encode an object with named fields and the alternates a list.
ImplementCursor(e) == <<"object", e.created_at, e.id>>
ImplementAlternateCursor(e) == <<"list", e.created_at, e.id>>

\* Mutant: the id is no part of the position, so that events of one instant share it.
CursorByTime(e, kind) == <<"object", e.created_at, kind>>

ReviewCursor(e, kind) == <<"object", e.created_at, e.id, kind>>
ReviewAlternateCursor(e, kind) == <<"list", kind, e.created_at, e.id>>

\* The cursors of a solution: the n-th one is that of the n-th event.
ImplementCursors(ordered) == [n \in DOMAIN ordered |-> ImplementCursor(ordered[n])]
ImplementAlternateCursors(ordered) == [n \in DOMAIN ordered |-> ImplementAlternateCursor(ordered[n])]
ReviewCursors(ordered, kind) == [n \in DOMAIN ordered |-> ReviewCursor(ordered[n], kind)]
ReviewAlternateCursors(ordered, kind) ==
    [n \in DOMAIN ordered |-> ReviewAlternateCursor(ordered[n], kind)]

Start(cursors, after) ==
    IF after = NoCursor THEN 1 ELSE 1 + SelectInSeq(cursors, LAMBDA c : c = after)

\* A cursor of another format, of another filter, or of an event that is gone, raises
\* ValueError.
Known(cursors, after) == after # NoCursor => \E n \in DOMAIN cursors : cursors[n] = after

Upto(n, s) == IF n > Len(s) THEN Len(s) ELSE n

Page(items, next) == [items |-> items, next |-> next]

\* The oracles search the start and encode the last item, if there are more.
PageOf(ordered, cursors, after) ==
    LET start == Start(cursors, after)
        items == SubSeq(ordered, start, Upto(start + Limit - 1, ordered))
        more == start + Len(items) - 1 < Len(ordered)
    IN  Page(items, IF items # <<>> /\ more THEN cursors[start + Len(items) - 1] ELSE NoCursor)

\* The alternates take the index in the list of positions and encode from that list.
AlternatePage(ordered, cursors, after) ==
    LET offset == IF after = NoCursor THEN 0
                  ELSE CHOOSE n \in DOMAIN cursors : cursors[n] = after
        last == Upto(offset + Limit, ordered)
    IN  Page(SubSeq(ordered, offset + 1, last),
             IF last < Len(ordered) THEN cursors[last] ELSE NoCursor)

-----------------------------------------------------------------------------
VARIABLES
    events,         \* the events there are
    filter,         \* the client's kind
    cursor,         \* of the page to come, NoCursor before the first and after the last one
    pages,          \* history: how many pages were read
    read,           \* history: the events on them
    stayed,         \* history: events that were there with every page
    changes         \* events added or removed

pageVars == <<events, filter, cursor, pages, read, stayed, changes>>

PagesInit ==
    /\ events \in SUBSET AllEvents
    /\ filter \in Kinds \union {NoKind}
    /\ cursor = NoCursor
    /\ pages = 0 /\ read = <<>>
    /\ stayed = events
    /\ changes = 0

Change(e) ==
    /\ changes < MaxChanges
    /\ events' = IF e \in events THEN events \ {e} ELSE events \union {e}
    /\ stayed' = IF pages = 0 THEN events' ELSE stayed \ {e}
    /\ changes' = changes + 1
    /\ UNCHANGED <<filter, cursor, pages, read>>

Reading == pages = 0 \/ cursor # NoCursor

\* The client asks the second step's oracle.  One that asks with another kind than before is
\* refused, and so is one whose event is gone; it has what it read.
ReadPage ==
    /\ Reading
    /\ LET ordered == Ordered(Matching(events, filter))
           cursors == ReviewCursors(ordered, filter)
           page == PageOf(ordered, cursors, cursor)
       IN  /\ Known(cursors, cursor)
           /\ read' = read \o page.items /\ cursor' = page.next
    /\ pages' = pages + 1
    /\ UNCHANGED <<events, filter, stayed, changes>>

PagesNext == ReadPage \/ \E e \in AllEvents : Change(e)

PagesSpec == PagesInit /\ [][PagesNext]_pageVars

-----------------------------------------------------------------------------
(* Properties. *)

\* However events come and go between two pages, a client sees no event twice and all of
\* them newest first; every page but the last one is full; and when it has read the last
\* one, it has seen every event of its kind that was there all the time.
PagesAreComplete ==
    /\ \A n, m \in DOMAIN read : n < m => Newer(read[n], read[m])
    /\ cursor # NoCursor => Len(read) = Limit * pages
    /\ ~Reading => Matching(stayed, filter) \subseteq ToSet(read)

\* The n-th cursor, none before the first page.
At(cursors, n) == IF n = 0 THEN NoCursor ELSE cursors[n]

\* Two pages show the same events, and the next page of both is the one behind the same event.
Alike(page, cursors, other, others) ==
    /\ page.items = other.items
    /\ \E n \in 0..Len(cursors) : page.next = At(cursors, n) /\ other.next = At(others, n)

\* No cursor of a solution is taken by the other.
Apart(cursors, others) ==
    \A n \in DOMAIN cursors : ~Known(others, cursors[n]) /\ ~Known(cursors, others[n])

\* Behind every event, the alternate of a step goes on as the oracle, and the second step as
\* the first one when no kind is asked for, each from its own cursor; and no client can
\* change the step, the kind or the solution between two pages, since the other one refuses
\* the cursor it holds.
PagesAgree ==
    LET ordered == Ordered(events)
        first == ImplementCursors(ordered)
        second == ReviewCursors(ordered, NoKind)
        firstAlternate == ImplementAlternateCursors(ordered)
        secondAlternate == ReviewAlternateCursors(ordered, NoKind)
    IN  /\ \A n \in 0..Len(ordered) :
             /\ Alike(PageOf(ordered, first, At(first, n)), first,
                      PageOf(ordered, second, At(second, n)), second)
             /\ Alike(PageOf(ordered, first, At(first, n)), first,
                      AlternatePage(ordered, firstAlternate, At(firstAlternate, n)), firstAlternate)
        /\ Apart(first, second) /\ Apart(firstAlternate, secondAlternate)
        /\ \A kind \in Kinds \union {NoKind} :
             LET matching == Ordered(Matching(events, kind))
                 oracle == ReviewCursors(matching, kind)
                 alternate == ReviewAlternateCursors(matching, kind)
             IN  /\ \A n \in 0..Len(matching) :
                      Alike(PageOf(matching, oracle, At(oracle, n)), oracle,
                            AlternatePage(matching, alternate, At(alternate, n)), alternate)
                 /\ Apart(oracle, alternate)
                 /\ kind # NoKind => \A n \in DOMAIN matching : ~Known(second, oracle[n])
                 /\ kind # NoKind => \A n \in DOMAIN ordered : ~Known(oracle, second[n])
=============================================================================
