------------------------------- MODULE ArenaWalk -------------------------------
(***************************************************************************)
(* The walk over the engine's arena of dynamic objects that ends the VR    *)
(* culling passes.  An arena is a chain of pages; records lie one after the*)
(* other from begin_, which is on the head page, to end_, and continue on  *)
(* the page whose address follows a full page's records.                   *)
(*                                                                         *)
(* Addresses are numbers: page p starts at p * PageGap, its records take   *)
(* kArenaPageBytes and one kArenaRecordBytes.  The arena, its pages and    *)
(* what a record holds are the engine's and external; well formed or not,  *)
(* it does not change during the walk.                                     *)
(***************************************************************************)
EXTENDS Naturals, FiniteSets, SequencesExt

CONSTANTS
    Pages,              \* a set of numbers above 0; page 0 is no page
    PageGap,
    kArenaPageBytes, kArenaRecordBytes,
    kMaxIter,
    ArenaContents       \* what the records may hold, by their addresses

Start(p) == p * PageGap
End(p) == Start(p) + kArenaPageBytes

Addresses == UNION {Start(p) .. End(p) : p \in Pages}

RecordKinds == {"empty", "plain", "shadowcaster"}

ASSUME ArenaAssumption ==
    /\ Pages \subseteq Nat \ {0} /\ IsFiniteSet(Pages)
    /\ PageGap \in Nat /\ kArenaPageBytes \in Nat \ {0} /\ PageGap > kArenaPageBytes
    /\ kArenaRecordBytes \in Nat \ {0} /\ kArenaPageBytes % kArenaRecordBytes = 0
    /\ kMaxIter \in Nat
    /\ ArenaContents \subseteq [Addresses -> RecordKinds]

VARIABLES
    arena,      \* head, begin_, end_, the page that follows each page; which pass
    contents,   \* what a record that starts at an address holds
    walk        \* the walk's locals; visited and added are its history

arenaVars == <<arena, contents, walk>>

Arenas == [head : Pages \cup {0}, begin : Addresses \cup {0}, end : Addresses,
           next : [Pages -> Pages \cup {0}], shadowPass : BOOLEAN]

ArenaTypeOK ==
    /\ arena \in Arenas /\ contents \in [Addresses -> RecordKinds]
    /\ walk \in [pc : {"enter", "test", "record", "advance", "done"}, page : Pages \cup {0},
                 cursor : Nat, count : 0 .. kMaxIter + 1,
                 visited : Seq(Addresses), added : Seq(Addresses)]

\* Any chain of pages; records of every kind.
ArenaInit ==
    /\ arena \in Arenas /\ contents \in ArenaContents
    /\ walk = [pc |-> "enter", page |-> 0, cursor |-> 0, count |-> 0, visited |-> <<>>, added |-> <<>>]

-----------------------------------------------------------------------------

\* No records, or begin_ not on the head page: nothing is walked.
Enter ==
    /\ walk.pc = "enter"
    /\ walk' = [walk EXCEPT
         !.page = arena.head, !.cursor = arena.begin,
         !.pc = IF \/ arena.begin = 0 \/ arena.begin = arena.end \/ arena.head = 0
                   \/ arena.begin < Start(arena.head) \/ arena.begin >= End(arena.head)
                THEN "done" ELSE "test"]

\* while (cursor != endAll) and the limit of the iterations.
TestCursor ==
    /\ walk.pc = "test"
    /\ walk' = IF walk.cursor = arena.end THEN [walk EXCEPT !.pc = "done"]
               ELSE [walk EXCEPT !.count = @ + 1,
                                 !.pc = IF walk.count + 1 > kMaxIter THEN "done" ELSE "record"]

\* a_fn: an empty record is skipped, and a shadow caster by the rain pass.
Adds(kind) == kind = "plain" \/ (kind = "shadowcaster" /\ arena.shadowPass)

VisitRecord ==
    /\ walk.pc = "record"
    /\ walk' = [walk EXCEPT
         !.visited = Append(@, walk.cursor),
         !.added = IF Adds(contents[walk.cursor]) THEN Append(@, walk.cursor) ELSE @,
         !.cursor = @ + kArenaRecordBytes,
         !.pc = "advance"]

\* Defect: the end of a page is not recognised if it is passed.
AdvanceOnEquality ==
    /\ walk.pc = "advance"
    /\ walk' = IF walk.cursor # End(walk.page) THEN [walk EXCEPT !.pc = "test"]
               ELSE LET p == arena.next[walk.page]
                    IN  IF p = 0 THEN [walk EXCEPT !.pc = "done"]
                        ELSE [walk EXCEPT !.page = p, !.cursor = Start(p), !.pc = "test"]

\* Past the page's end the walk gives up, at it the next page is taken.
Advance ==
    /\ walk.pc = "advance"
    /\ walk' = CASE walk.cursor > End(walk.page) -> [walk EXCEPT !.pc = "done"]
                 [] walk.cursor < End(walk.page) -> [walk EXCEPT !.pc = "test"]
                 [] OTHER ->
                      LET p == arena.next[walk.page]
                      IN  IF p = 0 THEN [walk EXCEPT !.pc = "done"]
                          ELSE [walk EXCEPT !.page = p, !.cursor = Start(p), !.pc = "test"]

ArenaNext == (Enter \/ TestCursor \/ VisitRecord \/ Advance) /\ UNCHANGED <<arena, contents>>

ArenaSpec == ArenaInit /\ [][ArenaNext]_arenaVars

-----------------------------------------------------------------------------

\* The pages from the head, as far as they are followed without a repetition.
PageChains ==
    {c \in UNION {[1..n -> Pages] : n \in 1..Cardinality(Pages)} :
        /\ c[1] = arena.head
        /\ \A i \in DOMAIN c : /\ \A j \in 1 .. i - 1 : c[i] # c[j]
                               /\ i > 1 => c[i] = arena.next[c[i - 1]]}

\* Where the records of a page start.
Slots(p) == {Start(p) + k * kArenaRecordBytes : k \in 0 .. (kArenaPageBytes \div kArenaRecordBytes) - 1}

\* The records from begin_ up to end_ over a chain of pages.
RecordsOn(c) ==
    {a \in UNION {Slots(c[i]) : i \in DOMAIN c} :
        /\ a \in Slots(c[1]) => a >= arena.begin
        /\ a \in Slots(c[Len(c)]) => a < arena.end}

\* The order of the records on a chain: by page, then by address.
Precedes(c, a, b) ==
    \E i, j \in DOMAIN c :
        /\ a \in Slots(c[i]) /\ b \in Slots(c[j])
        /\ i < j \/ (i = j /\ a < b)

InOrder(c, s) == \A m, n \in DOMAIN s : m < n => Precedes(c, s[m], s[n])

\* A chain from the head to the page of end_, with begin_ and end_ between
\* records.  The end of a full page is its successor's start, if it has one.
WellFormed(c) ==
    /\ arena.begin \in Slots(c[1])
    /\ \/ arena.end \in Slots(c[Len(c)])
       \/ arena.end = End(c[Len(c)]) /\ arena.next[c[Len(c)]] = 0
    /\ Len(c) = 1 => arena.begin <= arena.end
    /\ Cardinality(RecordsOn(c)) <= kMaxIter

(***************************************************************************)
(* Over a well-formed arena the walk visits every record from begin_ to    *)
(* end_ once and in order, across page ends, and adds those its pass wants.*)
(* Over any arena, misaligned or with a cycle of pages, it reads no record *)
(* that starts outside a page of the arena and ends after kMaxIter records *)
(* (ForEachArenaRecord).                                                   *)
(***************************************************************************)
ArenaWalkAgrees ==
    /\ walk.pc = "done" =>
         \A c \in PageChains : WellFormed(c) =>
            /\ ToSet(walk.visited) = RecordsOn(c) /\ InOrder(c, walk.visited)
            /\ ToSet(walk.added) = {a \in RecordsOn(c) : Adds(contents[a])} /\ InOrder(c, walk.added)
    /\ walk.pc = "record" => walk.cursor >= Start(walk.page) /\ walk.cursor < End(walk.page)
    /\ Len(walk.visited) <= kMaxIter
=============================================================================
