-------------------------- MODULE PreCulledVRProofs --------------------------
(***************************************************************************)
(* Theorems about PreCulledVR for any sets of threads, ids and objects,    *)
(* any assignment of ids to shards and any destructors.                    *)
(*                                                                         *)
(* That the two maps keep in step, that a pass uses no dead object and     *)
(* that a real miss is transient all follow from where the activations of  *)
(* UpdateIDto3DMap are.  While the setting stays, an id on which the maps  *)
(* differ has an activation between its two updates (MapsFollow); that     *)
(* activation holds its shard's writer lock, so it is the only one for the *)
(* id (WritersExclude), and it stays where it is while a pass holds the    *)
(* lock on the stock table (StockExcludes).  What a pass fetched is        *)
(* therefore in the stock table or about to enter it (PassesFollow).       *)
(* Destructors that call UpdateIDto3DMap again do not break this, because  *)
(* what leaves the map is still in the stock table: only the original      *)
(* destroys, after both updates of its id (FramesBelow).                   *)
(***************************************************************************)
EXTENDS PreCulledVR, SequenceTheorems, TLAPS

Reading ==
    [pc : ReaderPcs, hook : BOOLEAN, todo : SUBSET Ids, id : Ids \cup {Null},
     obj : Objects \cup {Null}, passes : 0..MaxPasses]

Types ==
    /\ usePreCulled \in BOOLEAN /\ toggles \in 0..MaxToggles /\ calls \in 0..MaxCalls
    /\ stock \in [Ids -> Objects \cup {Null}] /\ ours \in [Ids -> Objects \cup {Null}]
    /\ scene \subseteq Objects /\ dead \subseteq Objects
    /\ stack \in [Updaters -> Seq(Frame)]
    /\ reader \in [Readers -> Reading]

\* The activations that wait for one a destructor started.
BelowIn(s) == {s[i] : i \in 1..(Len(s) - 1)}

Below(t) == BelowIn(stack[t])

\* An activation waits only inside its own release of a reference, and while
\* the setting stays it is the original that destroys: what leaves the map is
\* still in the stock table.
FramesBelow ==
    \A t \in Updaters : \A f \in Below(t) :
        /\ f.pc \in {"original", "stocked"}
        /\ toggles = 0 => f.pc = "stocked"

FrameShapes ==
    \A t \in Updaters : \A f \in Frames(t) :
        /\ f.pc \in {"writer", "map", "mapped", "displaced"} => f.synced
        /\ f.obj \in scene \cup {Null}
        /\ toggles = 0 => f.synced = usePreCulled

\* The activation holds the writer lock of its shard.
Ordered(f) == f.synced /\ f.pc # "writer"

WritersExclude ==
    \A t, u \in Updaters : \A f \in Frames(t), g \in Frames(u) :
        Ordered(f) /\ Ordered(g) /\ ShardIndex[f.id] = ShardIndex[g.id] => t = u

ShardExcludes ==
    \A t \in Updaters, r \in Readers : \A f \in Frames(t) :
        f.pc = "mapped" /\ reader[r].pc = "find" => ShardIndex[f.id] # ShardIndex[reader[r].id]

StockExcludes ==
    \A t \in Updaters, r \in Readers : \A f \in Frames(t) : f.pc = "stocked" => reader[r].pc = "idle"

NoneDead ==
    /\ \A id \in Ids : stock[id] \notin dead /\ ours[id] \notin dead
    /\ scene \cap dead = {}

\* Between its two updates: the map has followed and the stock table has not.
InFlight(f) == f.synced /\ f.pc \in {"mapped", "displaced", "original"}

OnTheWay(id) == \E t \in Updaters : \E f \in Frames(t) : InFlight(f) /\ f.id = id

Arriving(id, obj) == \E t \in Updaters : \E f \in Frames(t) : InFlight(f) /\ f.id = id /\ f.obj = obj

MapsFollow ==
    toggles = 0 =>
        /\ \A id \in Ids : usePreCulled /\ ours[id] # stock[id] => OnTheWay(id)
        /\ \A t \in Updaters : \A f \in Frames(t) :
             /\ InFlight(f) => ours[f.id] = f.obj
             /\ f.pc \in {"mapped", "displaced"} => f.held \in {Null, stock[f.id]}

PassesFollow ==
    \A r \in Readers :
        LET id == reader[r].id
            pc == reader[r].pc
        IN  /\ pc \in {"find", "missed", "use", "real"} => id \in Ids
            /\ toggles = 0 =>
                 /\ pc \in {"find", "missed"} => usePreCulled
                 /\ pc = "missed" => stock[id] = Null \/ OnTheWay(id)
                 /\ pc = "real" => OnTheWay(id)
                 /\ pc \in {"use", "real"} => stock[id] = reader[r].obj \/ Arriving(id, reader[r].obj)

IInv ==
    /\ Types /\ FramesBelow /\ FrameShapes
    /\ WritersExclude /\ ShardExcludes /\ StockExcludes
    /\ NoneDead /\ MapsFollow /\ PassesFollow

-----------------------------------------------------------------------------
(* Stacks *)

LEMMA TopAndBelow ==
  ASSUME NEW S, NEW s \in Seq(S), s # <<>>
  PROVE  /\ Last(s) \in S /\ Front(s) \in Seq(S)
         /\ Range(Front(s)) = BelowIn(s)
         /\ Range(s) = BelowIn(s) \cup {Last(s)}
         /\ BelowIn(Front(s)) \subseteq BelowIn(s)
<1>1. Len(s) \in Nat \ {0} /\ DOMAIN s = 1..Len(s)
  BY EmptySeq, LenProperties
<1>2. Last(s) = s[Len(s)] /\ Len(s) \in 1..Len(s)
  BY <1>1 DEF Last
<1>3. Front(s) \in Seq(S) /\ Len(Front(s)) = Len(s) - 1
  BY <1>1, SubSeqProperties, ElementOfSeq DEF Front
<1>4. \A i \in 1..(Len(s) - 1) : Front(s)[i] = s[i]
  BY <1>1, SubSeqProperties, ElementOfSeq DEF Front
<1>5. DOMAIN Front(s) = 1..(Len(s) - 1)
  BY <1>3, LenProperties
<1>6. Range(Front(s)) = BelowIn(s)
  BY <1>4, <1>5 DEF Range, BelowIn
<1>7. Range(s) = BelowIn(s) \cup {Last(s)}
  <2>1. 1..Len(s) = 1..(Len(s) - 1) \cup {Len(s)}
    BY <1>1
  <2>2. QED
    BY <1>1, <1>2, <2>1 DEF Range, BelowIn
<1>8. BelowIn(Front(s)) \subseteq BelowIn(s)
  <2>1. 1..(Len(Front(s)) - 1) \subseteq 1..(Len(s) - 1)
    BY <1>1, <1>3
  <2>2. QED
    BY <1>4, <2>1 DEF BelowIn
<1>9. QED
  BY <1>1, <1>2, <1>3, <1>6, <1>7, <1>8, ElementOfSeq

LEMMA Pushed ==
  ASSUME NEW S, NEW s \in Seq(S), NEW x \in S
  PROVE  /\ Append(s, x) \in Seq(S)
         /\ BelowIn(Append(s, x)) = Range(s)
         /\ Range(Append(s, x)) = Range(s) \cup {x}
<1>1. /\ Append(s, x) \in Seq(S) /\ Len(Append(s, x)) = Len(s) + 1 /\ Len(s) \in Nat
      /\ \A i \in 1..Len(s) : Append(s, x)[i] = s[i]
      /\ Append(s, x)[Len(s) + 1] = x
  BY AppendProperties, LenProperties
<1>2. DOMAIN Append(s, x) = 1..(Len(s) + 1) /\ DOMAIN s = 1..Len(s)
  BY <1>1, LenProperties
<1>3. Len(s) + 1 - 1 = Len(s) /\ 1..(Len(s) + 1) = 1..Len(s) \cup {Len(s) + 1}
  BY <1>1
<1>4. BelowIn(Append(s, x)) = Range(s)
  BY <1>1, <1>2, <1>3 DEF BelowIn, Range
<1>5. Range(Append(s, x)) = Range(s) \cup {x}
  BY <1>1, <1>2, <1>3 DEF Range
<1>6. QED
  BY <1>1, <1>4, <1>5

\* The top activation of t after it went on, its local holding o.
NextFrame(t, o) == [Last(stack[t]) EXCEPT !.pc = Then(Last(stack[t])), !.held = o]

\* An activation that goes on is replaced by its next self; all others stay.
LEMMA Advanced ==
  ASSUME Types, NEW t \in Updaters, stack[t] # <<>>, NEW o \in Objects \cup {Null},
         Last(stack[t]).pc \in FramePcs \ {"leave"}
  PROVE  /\ Last(stack[t]) \in Frame /\ NextFrame(t, o) \in Frame
         /\ Advance(t, o) \in [Updaters -> Seq(Frame)]
         /\ \A u \in Updaters \ {t} : Advance(t, o)[u] = stack[u]
         /\ Frames(t) = Below(t) \cup {Last(stack[t])}
         /\ Range(Advance(t, o)[t]) = Below(t) \cup {NextFrame(t, o)}
         /\ BelowIn(Advance(t, o)[t]) = Below(t)
<1> DEFINE g == NextFrame(t, o)
<1>1. stack[t] \in Seq(Frame)
  BY DEF Types
<1>2. /\ Last(stack[t]) \in Frame /\ Front(stack[t]) \in Seq(Frame)
      /\ Range(Front(stack[t])) = Below(t)
      /\ Frames(t) = Below(t) \cup {Last(stack[t])}
  BY <1>1, TopAndBelow DEF Below, Frames
<1>3. g \in Frame
  <2>1. Then(Last(stack[t])) \in FramePcs
    BY DEF Then, FramePcs
  <2>2. QED
    BY <1>2, <2>1 DEF Frame, NextFrame
<1>4. Advance(t, o) = [stack EXCEPT ![t] = Append(Front(stack[t]), g)]
  BY DEF Advance, NextFrame
<1> HIDE DEF g
<1>5. /\ Append(Front(stack[t]), g) \in Seq(Frame)
      /\ BelowIn(Append(Front(stack[t]), g)) = Below(t)
      /\ Range(Append(Front(stack[t]), g)) = Below(t) \cup {g}
  BY <1>2, <1>3, Pushed
<1>6. QED
  BY <1>2, <1>3, <1>4, <1>5 DEF Types, g

\* The stacks after a destructor on t started an activation.
Starts(t, frames) ==
    \E id \in Ids :
        /\ NewFrame(id, Null) \in Frame
        /\ stack' \in [Updaters -> Seq(Frame)]
        /\ \A u \in Updaters \ {t} : stack'[u] = frames[u]
        /\ Range(stack'[t]) = Range(frames[t]) \cup {NewFrame(id, Null)}
        /\ BelowIn(stack'[t]) = Range(frames[t])

\* A release destroys what nothing refers to any more; its destructor may start
\* an activation on top of the stack.
LEMMA Dropped ==
  ASSUME Types, NEW t \in Updaters, NEW o \in Objects \cup {Null}, NEW scn, NEW stk, NEW our,
         NEW frames \in [Updaters -> Seq(Frame)], Drop(t, o, scn, stk, our, frames)
  PROVE  /\ scene' = scn /\ stock' = stk /\ ours' = our
         /\ \/ dead' = dead /\ stack' = frames
            \/ /\ o \in Objects /\ ~Referenced(o, scn, stk, our, frames) /\ dead' = dead \cup {o}
               /\ \/ stack' = frames
                  \/ Starts(t, frames)
<1> USE PreCulledVRAssumption
<1>1. CASE o = Null \/ Referenced(o, scn, stk, our, frames)
  BY <1>1 DEF Drop
<1>2. CASE ~(o = Null \/ Referenced(o, scn, stk, our, frames))
  <2>1. /\ o \in Objects /\ dead' = dead \cup {o}
        /\ scene' = scn /\ stock' = stk /\ ours' = our
    BY <1>2 DEF Drop
  <2>2. CASE ChildId[o] = Null
    BY <1>2, <2>1, <2>2 DEF Drop
  <2>3. CASE ChildId[o] # Null
    <3> DEFINE f == NewFrame(ChildId[o], Null)
    <3>1. ChildId[o] \in Ids
      BY <2>1, <2>3
    <3>2. f \in Frame
      BY <3>1 DEF NewFrame, Frame, FramePcs, Types
    <3>3. stack' = [frames EXCEPT ![t] = Append(frames[t], f)]
      BY <1>2, <2>3 DEF Drop
    <3> HIDE DEF f
    <3>4. /\ Append(frames[t], f) \in Seq(Frame)
          /\ BelowIn(Append(frames[t], f)) = Range(frames[t])
          /\ Range(Append(frames[t], f)) = Range(frames[t]) \cup {f}
      BY <3>2, Pushed
    <3>5. /\ stack' \in [Updaters -> Seq(Frame)]
          /\ \A u \in Updaters \ {t} : stack'[u] = frames[u]
          /\ stack'[t] = Append(frames[t], f)
      BY <3>3, <3>4
    <3>6. QED
      BY <1>2, <2>1, <3>1, <3>2, <3>4, <3>5 DEF f, Starts
  <2>4. QED
    BY <2>2, <2>3
<1>3. QED
  BY <1>1, <1>2

-----------------------------------------------------------------------------
(* Steps of the updaters *)

\* What a call or a destructor starts holds nothing and is on its way to nothing.
Fresh(f) ==
    /\ f.pc \in {"writer", "original"}
    /\ f.pc = "writer" <=> usePreCulled
    /\ f.synced = usePreCulled

\* Where an activation may be while one that a destructor started runs.
MayWait(f) == f.pc \in {"original", "stocked"} /\ (toggles = 0 => f.pc = "stocked")

\* The top activation of t goes from f to g, and a destructor may start another.
Moves(t, f, g) ==
    /\ f \in Frame /\ g \in Frame
    /\ g.id = f.id /\ g.obj = f.obj /\ g.synced = f.synced
    /\ Frames(t) = Below(t) \cup {f}
    /\ stack' \in [Updaters -> Seq(Frame)]
    /\ \A u \in Updaters \ {t} : stack'[u] = stack[u]
    /\ Below(t) \cup {g} \subseteq Frames(t)'
    /\ \A n \in Frames(t)' : n \in Below(t) \cup {g} \/ (Fresh(n) /\ n.obj = Null)
    /\ Below(t)' = Below(t) \/ (Below(t)' = Below(t) \cup {g} /\ MayWait(g))

LEMMA AdvanceMoves ==
  ASSUME Types, NEW t \in Updaters, stack[t] # <<>>, NEW o \in Objects \cup {Null},
         Last(stack[t]).pc \in FramePcs \ {"leave"}, stack' = Advance(t, o)
  PROVE  Moves(t, Last(stack[t]), NextFrame(t, o))
<1>1. /\ Last(stack[t]) \in Frame /\ NextFrame(t, o) \in Frame
      /\ stack' \in [Updaters -> Seq(Frame)]
      /\ \A u \in Updaters \ {t} : stack'[u] = stack[u]
      /\ Frames(t) = Below(t) \cup {Last(stack[t])}
      /\ Frames(t)' = Below(t) \cup {NextFrame(t, o)}
      /\ Below(t)' = Below(t)
  BY Advanced DEF Frames, Below
<1>2. /\ NextFrame(t, o).id = Last(stack[t]).id /\ NextFrame(t, o).obj = Last(stack[t]).obj
      /\ NextFrame(t, o).synced = Last(stack[t]).synced
  BY <1>1 DEF NextFrame, Frame
<1>3. QED
  BY <1>1, <1>2 DEF Moves

LEMMA DropMoves ==
  ASSUME Types, NEW t \in Updaters, stack[t] # <<>>, NEW o \in Objects \cup {Null},
         Last(stack[t]).pc \in FramePcs \ {"leave"}, NEW scn, NEW stk, NEW our,
         Drop(t, o, scn, stk, our, Advance(t, Null)),
         MayWait(NextFrame(t, Null)) \/ Referenced(o, scn, stk, our, Advance(t, Null)) \/ o = Null
  PROVE  /\ Moves(t, Last(stack[t]), NextFrame(t, Null))
         /\ scene' = scn /\ stock' = stk /\ ours' = our
         /\ \/ dead' = dead
            \/ /\ o \in Objects /\ ~Referenced(o, scn, stk, our, Advance(t, Null))
               /\ dead' = dead \cup {o}
<1>1. /\ Last(stack[t]) \in Frame /\ NextFrame(t, Null) \in Frame
      /\ Advance(t, Null) \in [Updaters -> Seq(Frame)]
      /\ \A u \in Updaters \ {t} : Advance(t, Null)[u] = stack[u]
      /\ Frames(t) = Below(t) \cup {Last(stack[t])}
      /\ Range(Advance(t, Null)[t]) = Below(t) \cup {NextFrame(t, Null)}
      /\ BelowIn(Advance(t, Null)[t]) = Below(t)
  BY Advanced
<1>2. /\ NextFrame(t, Null).id = Last(stack[t]).id /\ NextFrame(t, Null).obj = Last(stack[t]).obj
      /\ NextFrame(t, Null).synced = Last(stack[t]).synced
  BY <1>1 DEF NextFrame, Frame
<1>3. /\ scene' = scn /\ stock' = stk /\ ours' = our
      /\ \/ dead' = dead /\ stack' = Advance(t, Null)
         \/ /\ o \in Objects /\ ~Referenced(o, scn, stk, our, Advance(t, Null))
            /\ dead' = dead \cup {o}
            /\ \/ stack' = Advance(t, Null)
               \/ Starts(t, Advance(t, Null))
  <2> DEFINE frames == Advance(t, Null)
  <2>1. frames \in [Updaters -> Seq(Frame)] /\ Drop(t, o, scn, stk, our, frames)
    BY <1>1
  <2> HIDE DEF frames
  <2>2. QED
    BY <2>1, Dropped DEF frames
<1>4. CASE stack' = Advance(t, Null)
  BY <1>1, <1>2, <1>3, <1>4 DEF Moves, Frames, Below
<1>5. CASE stack' # Advance(t, Null)
  <2>1. PICK id \in Ids :
          /\ NewFrame(id, Null) \in Frame
          /\ stack' \in [Updaters -> Seq(Frame)]
          /\ \A u \in Updaters \ {t} : stack'[u] = Advance(t, Null)[u]
          /\ Range(stack'[t]) = Range(Advance(t, Null)[t]) \cup {NewFrame(id, Null)}
          /\ BelowIn(stack'[t]) = Range(Advance(t, Null)[t])
    BY <1>3, <1>5 DEF Starts
  <2>2. Fresh(NewFrame(id, Null)) /\ NewFrame(id, Null).obj = Null
    BY DEF Fresh, NewFrame, Types
  <2>3. /\ Frames(t)' = Below(t) \cup {NextFrame(t, Null)} \cup {NewFrame(id, Null)}
        /\ Below(t)' = Below(t) \cup {NextFrame(t, Null)}
    BY <1>1, <2>1 DEF Frames, Below
  <2>4. MayWait(NextFrame(t, Null))
    BY <1>3, <1>5, PreCulledVRAssumption
  <2>5. Moves(t, Last(stack[t]), NextFrame(t, Null))
    BY <1>1, <1>2, <2>1, <2>2, <2>3, <2>4 DEF Moves
  <2>6. QED
    BY <1>3, <2>5
<1>6. QED
  BY <1>4, <1>5

LEMMA MovesShapes ==
  ASSUME IInv, UNCHANGED <<usePreCulled, toggles, scene>>,
         NEW t \in Updaters, NEW f, NEW g, Moves(t, f, g),
         g.pc \in {"writer", "map", "mapped", "displaced"} => f.synced
  PROVE  FramesBelow' /\ FrameShapes'
<1>1. \A u \in Updaters \ {t} : Frames(u)' = Frames(u) /\ Below(u)' = Below(u)
  BY DEF Moves, Frames, Below
<1>2. f \in Frames(t) /\ Below(t) \subseteq Frames(t)
  BY DEF Moves
<1>3. FramesBelow'
  BY <1>1 DEF Moves, MayWait, IInv, FramesBelow
<1>4. FrameShapes'
  BY <1>1, <1>2 DEF Moves, Fresh, IInv, Types, FrameShapes
<1>5. QED
  BY <1>3, <1>4

LEMMA MovesLocks ==
  ASSUME IInv, UNCHANGED <<usePreCulled, reader>>,
         NEW t \in Updaters, NEW f, NEW g, Moves(t, f, g),
         Ordered(g) /\ ~Ordered(f) =>
            \A u \in Updaters \ {t} : \A h \in Frames(u) :
               ~(Ordered(h) /\ ShardIndex[h.id] = ShardIndex[f.id]),
         g.pc = "mapped" =>
            \A r \in Readers : ~(reader[r].pc = "find" /\ ShardIndex[f.id] = ShardIndex[reader[r].id]),
         g.pc = "stocked" => \A r \in Readers : reader[r].pc = "idle"
  PROVE  WritersExclude' /\ ShardExcludes' /\ StockExcludes'
<1>1. \A u \in Updaters \ {t} : Frames(u)' = Frames(u)
  BY DEF Moves, Frames
<1>2. f \in Frames(t) /\ Below(t) \subseteq Frames(t)
  BY DEF Moves
<1>3. \A n \in Frames(t)' : Ordered(n) => n = g \/ n \in Frames(t)
  BY <1>2 DEF Moves, Fresh, Ordered, IInv, Types
<1>4. \A n \in Frames(t)' : n.pc \in {"mapped", "stocked"} => n = g \/ n \in Frames(t)
  BY <1>2 DEF Moves, Fresh
<1>5. WritersExclude'
  <2> SUFFICES ASSUME NEW u \in Updaters, NEW v \in Updaters, NEW a \in Frames(u)', NEW b \in Frames(v)',
                      Ordered(a), Ordered(b), ShardIndex[a.id] = ShardIndex[b.id], u # v
               PROVE  FALSE
    BY DEF WritersExclude, Ordered
  <2>1. g.id = f.id
    BY DEF Moves
  <2>2. CASE u = t
    BY <1>1, <1>2, <1>3, <2>1, <2>2 DEF IInv, WritersExclude
  <2>3. CASE v = t
    BY <1>1, <1>2, <1>3, <2>1, <2>3 DEF IInv, WritersExclude
  <2>4. QED
    BY <1>1, <2>2, <2>3 DEF IInv, WritersExclude
<1>6. ShardExcludes'
  BY <1>1, <1>4 DEF Moves, IInv, ShardExcludes
<1>7. StockExcludes'
  BY <1>1, <1>4 DEF Moves, IInv, StockExcludes
<1>8. QED
  BY <1>5, <1>6, <1>7

\* Activations on their way between the maps keep their passes informed.
LEMMA MovesPasses ==
  ASSUME IInv, UNCHANGED <<usePreCulled, toggles, reader>>,
         NEW t \in Updaters, NEW f, NEW g, Moves(t, f, g),
         \/ \A r \in Readers : reader[r].pc = "idle"
         \/ stock' = stock /\ (InFlight(f) => InFlight(g))
  PROVE  PassesFollow'
<1>1. CASE \A r \in Readers : reader[r].pc = "idle"
  BY <1>1 DEF PassesFollow
<1>2. CASE stock' = stock /\ (InFlight(f) => InFlight(g))
  <2>1. \A u \in Updaters \ {t} : Frames(u)' = Frames(u)
    BY DEF Moves, Frames
  <2>2. \A u \in Updaters : \A h \in Frames(u) : InFlight(h) =>
           \E k \in Frames(u)' : InFlight(k) /\ k.id = h.id /\ k.obj = h.obj
    BY <1>2, <2>1 DEF Moves
  <2>3. \A id : OnTheWay(id) => OnTheWay(id)'
    BY <2>2 DEF OnTheWay, InFlight
  <2>4. \A id, obj : Arriving(id, obj) => Arriving(id, obj)'
    BY <2>2 DEF Arriving, InFlight
  <2>5. QED
    BY <1>2, <2>3, <2>4 DEF IInv, PassesFollow
<1>3. QED
  BY <1>1, <1>2

\* While neither map changes, an activation that stays between its updates, or
\* stays outside them, keeps the maps together.
LEMMA MovesMaps ==
  ASSUME IInv, UNCHANGED <<usePreCulled, toggles, stock, ours>>,
         NEW t \in Updaters, NEW f, NEW g, Moves(t, f, g),
         InFlight(f) <=> InFlight(g),
         g.pc \in {"mapped", "displaced"} => f.pc \in {"mapped", "displaced"} /\ g.held = f.held
  PROVE  MapsFollow'
<1>1. \A u \in Updaters \ {t} : Frames(u)' = Frames(u)
  BY DEF Moves, Frames
<1>2. f \in Frames(t) /\ Below(t) \subseteq Frames(t)
  BY DEF Moves
<1>3. \A u \in Updaters : \A h \in Frames(u) : InFlight(h) =>
         \E k \in Frames(u)' : InFlight(k) /\ k.id = h.id
  BY <1>1 DEF Moves
<1>4. \A id : OnTheWay(id) => OnTheWay(id)'
  BY <1>3 DEF OnTheWay, InFlight
<1>5. ASSUME NEW u \in Updaters, NEW n \in Frames(u)', toggles = 0
      PROVE  /\ InFlight(n) => ours[n.id] = n.obj
             /\ n.pc \in {"mapped", "displaced"} => n.held \in {Null, stock[n.id]}
  <2>1. CASE n \in Frames(u)
    BY <1>5, <2>1 DEF IInv, MapsFollow
  <2>2. CASE n = g /\ u = t
    BY <1>2, <1>5, <2>2 DEF Moves, IInv, MapsFollow
  <2>3. CASE Fresh(n)
    BY <2>3 DEF Fresh, InFlight, IInv, Types
  <2>4. QED
    BY <1>1, <1>2, <2>1, <2>2, <2>3 DEF Moves
<1>6. QED
  BY <1>4, <1>5 DEF IInv, MapsFollow, InFlight

\* Starting and ending activations leaves both maps and every pass alone.
LEMMA QuietStep ==
  ASSUME IInv, Types', UNCHANGED <<usePreCulled, toggles, stock, ours, reader>>, NoneDead',
         NEW t \in Updaters,
         \A u \in Updaters \ {t} : stack'[u] = stack[u],
         \A n \in Frames(t)' : n \in Frames(t) \/ Fresh(n),
         \A n \in Frames(t) : InFlight(n) => n \in Frames(t)',
         Below(t)' \subseteq Below(t),
         \A u \in Updaters : \A n \in Frames(u)' : n.obj \in scene' \cup {Null}
  PROVE  IInv'
<1>1. \A u \in Updaters \ {t} : Frames(u)' = Frames(u) /\ Below(u)' = Below(u)
  BY DEF Frames, Below
<1>2. FramesBelow'
  BY <1>1 DEF IInv, FramesBelow
<1>3. FrameShapes'
  BY <1>1 DEF Fresh, IInv, FrameShapes
<1>4. WritersExclude'
  <2>1. \A n \in Frames(t)' : Ordered(n) => n \in Frames(t)
    BY DEF Fresh, Ordered, IInv, Types
  <2>2. \A u \in Updaters : \A n \in Frames(u)' : Ordered(n) => n \in Frames(u)
    BY <1>1, <2>1
  <2>3. QED
    BY <2>2 DEF IInv, WritersExclude, Ordered
<1>5. ShardExcludes' /\ StockExcludes'
  <2>1. \A u \in Updaters : \A n \in Frames(u)' : n.pc \in {"mapped", "stocked"} => n \in Frames(u)
    BY <1>1 DEF Fresh
  <2>2. QED
    BY <2>1 DEF IInv, ShardExcludes, StockExcludes
<1>6. \A u \in Updaters : \A h \in Frames(u) : InFlight(h) => h \in Frames(u)'
  BY <1>1
<1>7. \A id : OnTheWay(id) => OnTheWay(id)'
  BY <1>6 DEF OnTheWay, InFlight
<1>8. \A id, obj : Arriving(id, obj) => Arriving(id, obj)'
  BY <1>6 DEF Arriving, InFlight
<1>9. MapsFollow'
  <2>1. \A u \in Updaters : \A n \in Frames(u)' :
           InFlight(n) \/ n.pc \in {"mapped", "displaced"} => n \in Frames(u)
    BY <1>1 DEF Fresh, InFlight, IInv, Types
  <2>2. QED
    BY <1>7, <2>1 DEF IInv, MapsFollow, InFlight
<1>10. PassesFollow'
  BY <1>7, <1>8 DEF IInv, PassesFollow
<1>11. QED
  BY <1>2, <1>3, <1>4, <1>5, <1>9, <1>10 DEF IInv

-----------------------------------------------------------------------------

LEMMA InitIInv == Init => IInv
<1> SUFFICES ASSUME Init PROVE IInv
  OBVIOUS
<1> USE PreCulledVRAssumption DEF Init
<1>1. Types
  <2>1. stack \in [Updaters -> Seq(Frame)]
    BY EmptySeq
  <2>2. reader \in [Readers -> Reading]
    BY DEF IdleReader, Reading, ReaderPcs
  <2>3. QED
    BY <2>1, <2>2 DEF Types
<1>2. \A t \in Updaters : Frames(t) = {} /\ Below(t) = {}
  BY DEF Frames, Range, Below, BelowIn
<1>3. FramesBelow /\ FrameShapes /\ WritersExclude /\ ShardExcludes /\ StockExcludes
  BY <1>2 DEF FramesBelow, FrameShapes, WritersExclude, ShardExcludes, StockExcludes
<1>4. NoneDead /\ MapsFollow
  BY <1>2 DEF NoneDead, MapsFollow
<1>5. PassesFollow
  BY DEF PassesFollow, IdleReader
<1>6. QED
  BY <1>1, <1>3, <1>4, <1>5 DEF IInv

LEMMA TopIs ==
  ASSUME Types, NEW t \in Updaters, NEW pc, Running(t, pc), NEW o
  PROVE  /\ stack[t] # <<>> /\ Last(stack[t]) \in Frame /\ Last(stack[t]).pc = pc
         /\ Last(stack[t]) \in Frames(t)
         /\ NextFrame(t, o).pc = Then(Last(stack[t])) /\ NextFrame(t, o).held = o
         /\ NextFrame(t, o).synced = Last(stack[t]).synced
<1>1. stack[t] # <<>> /\ Last(stack[t]).pc = pc /\ stack[t] \in Seq(Frame)
  BY DEF Running, Types
<1>2. Last(stack[t]) \in Frame /\ Last(stack[t]) \in Frames(t)
  <2>1. Last(stack[t]) \in Frame /\ Range(stack[t]) = BelowIn(stack[t]) \cup {Last(stack[t])}
    BY <1>1, TopAndBelow
  <2>2. QED
    BY <2>1 DEF Frames
<1>3. QED
  BY <1>1, <1>2 DEF NextFrame, Frame

LEMMA CallStep ==
  ASSUME IInv, NEW t \in Updaters, NEW id \in Ids, NEW obj \in scene \cup {Null}, Call(t, id, obj)
  PROVE  IInv'
<1> USE PreCulledVRAssumption
<1> DEFINE n == NewFrame(id, obj)
<1>1. n \in Frame /\ Fresh(n) /\ n.obj = obj
  BY DEF NewFrame, Fresh, Frame, FramePcs, IInv, Types
<1>2. stack' = [stack EXCEPT ![t] = <<n>>] /\ stack[t] = <<>>
  BY DEF Call
<1> HIDE DEF n
<1>3. <<n>> \in Seq(Frame) /\ Range(<<n>>) = {n} /\ BelowIn(<<n>>) = {}
  BY <1>1 DEF Range, BelowIn
<1>4. /\ stack' \in [Updaters -> Seq(Frame)]
      /\ \A u \in Updaters \ {t} : stack'[u] = stack[u]
      /\ Frames(t)' = {n} /\ Below(t)' = {}
  BY <1>2, <1>3 DEF IInv, Types, Frames, Below
<1>5. Types'
  BY <1>4 DEF Call, IInv, Types
<1>6. Frames(t) = {}
  BY <1>2 DEF Frames, Range
<1>7. \A u \in Updaters : \A f \in Frames(u)' : f.obj \in scene \cup {Null}
  BY <1>1, <1>4 DEF IInv, FrameShapes, Frames
<1>8. NoneDead'
  BY DEF Call, IInv, NoneDead
<1>9. QED
  BY <1>1, <1>4, <1>5, <1>6, <1>7, <1>8, QuietStep DEF Call

LEMMA SceneDropStep ==
  ASSUME IInv, NEW t \in Updaters, NEW o \in scene, SceneDrop(t, o) PROVE IInv'
<1> USE PreCulledVRAssumption
<1>1. /\ stack[t] = <<>> /\ \A u \in Updaters : \A f \in Frames(u) : f.obj # o
      /\ Drop(t, o, scene \ {o}, stock, ours, stack)
  BY DEF SceneDrop
<1>2. o \in Objects \cup {Null} /\ stack \in [Updaters -> Seq(Frame)]
  BY DEF IInv, Types
<1>3. /\ scene' = scene \ {o} /\ stock' = stock /\ ours' = ours
      /\ \/ dead' = dead /\ stack' = stack
         \/ /\ o \in Objects /\ ~Referenced(o, scene \ {o}, stock, ours, stack) /\ dead' = dead \cup {o}
            /\ stack' = stack \/ Starts(t, stack)
  BY <1>1, <1>2, Dropped DEF IInv
<1>4. NoneDead'
  BY <1>3 DEF Referenced, IInv, NoneDead
<1>5. Frames(t) = {} /\ Range(stack[t]) = {} /\ Below(t) = {}
  BY <1>1 DEF Frames, Range, Below, BelowIn
<1>6. /\ stack' \in [Updaters -> Seq(Frame)]
      /\ \A u \in Updaters \ {t} : stack'[u] = stack[u]
      /\ \A n \in Frames(t)' : Fresh(n) /\ n.obj = Null
      /\ Below(t)' = {}
  <2>1. CASE stack' = stack
    BY <1>5, <2>1 DEF IInv, Types, Frames, Below
  <2>2. CASE Starts(t, stack)
    <3>1. \A id \in Ids : Fresh(NewFrame(id, Null)) /\ NewFrame(id, Null).obj = Null
      BY DEF Fresh, NewFrame, IInv, Types
    <3>2. QED
      BY <1>5, <2>2, <3>1 DEF Starts, Frames, Below
  <2>3. QED
    BY <1>3, <2>1, <2>2
<1>7. Types'
  BY <1>3, <1>6 DEF SceneDrop, IInv, Types
<1>8. \A u \in Updaters : \A f \in Frames(u)' : f.obj \in scene' \cup {Null}
  BY <1>1, <1>3, <1>6 DEF IInv, FrameShapes, Frames
<1>9. QED
  BY <1>3, <1>4, <1>5, <1>6, <1>7, <1>8, QuietStep DEF SceneDrop

LEMMA ReturnStep == ASSUME IInv, NEW t \in Updaters, Return(t) PROVE IInv'
<1>1. /\ stack[t] # <<>> /\ stack[t] \in Seq(Frame) /\ Last(stack[t]).pc = "leave"
      /\ stack' = [stack EXCEPT ![t] = Front(stack[t])]
  BY DEF Return, Running, IInv, Types
<1>2. /\ Front(stack[t]) \in Seq(Frame)
      /\ Range(Front(stack[t])) = Below(t)
      /\ Frames(t) = Below(t) \cup {Last(stack[t])}
      /\ BelowIn(Front(stack[t])) \subseteq Below(t)
  BY <1>1, TopAndBelow DEF Below, Frames
<1>3. /\ stack' \in [Updaters -> Seq(Frame)]
      /\ \A u \in Updaters \ {t} : stack'[u] = stack[u]
      /\ Frames(t)' = Below(t) /\ Below(t)' \subseteq Below(t)
  BY <1>1, <1>2 DEF IInv, Types, Frames, Below
<1>4. Types' /\ NoneDead'
  BY <1>3 DEF Return, IInv, Types, NoneDead
<1>5. \A u \in Updaters : \A f \in Frames(u)' : f.obj \in scene \cup {Null}
  BY <1>2, <1>3 DEF IInv, FrameShapes, Frames
<1>6. \A f \in Frames(t) : InFlight(f) => f \in Frames(t)'
  BY <1>1, <1>2, <1>3 DEF InFlight
<1>7. QED
  BY <1>2, <1>3, <1>4, <1>5, <1>6, QuietStep DEF Return

LEMMA LockWriterStep == ASSUME IInv, NEW t \in Updaters, LockWriter(t) PROVE IInv'
<1> DEFINE f == Last(stack[t])
           g == NextFrame(t, Null)
<1>1. /\ stack[t] # <<>> /\ f \in Frame /\ f.pc = "writer" /\ f \in Frames(t)
      /\ g.pc = Then(f) /\ g.held = Null /\ g.synced = f.synced
  BY TopIs DEF LockWriter, IInv
<1>2. f.synced
  BY <1>1 DEF IInv, FrameShapes
<1>3. Moves(t, f, g)
  BY <1>1, AdvanceMoves DEF LockWriter, IInv, FramePcs
<1>4. \A u \in Updaters \ {t} : \A h \in Frames(u) :
         ~(Ordered(h) /\ ShardIndex[h.id] = ShardIndex[f.id])
  BY DEF LockWriter, HoldsWriter, Ordered
<1> HIDE DEF f, g
<1>5. g.pc = "map"
  BY <1>1 DEF Then
<1>6. Types' /\ NoneDead'
  BY <1>3 DEF Moves, LockWriter, IInv, Types, NoneDead
<1>7. FramesBelow' /\ FrameShapes'
  BY <1>2, <1>3, MovesShapes DEF LockWriter
<1>8. WritersExclude' /\ ShardExcludes' /\ StockExcludes'
  BY <1>3, <1>4, <1>5, MovesLocks DEF LockWriter
<1>9. MapsFollow'
  BY <1>1, <1>3, <1>5, MovesMaps DEF LockWriter, InFlight
<1>10. PassesFollow'
  BY <1>1, <1>3, <1>5, MovesPasses DEF LockWriter, InFlight
<1>11. QED
  BY <1>6, <1>7, <1>8, <1>9, <1>10 DEF IInv

LEMMA StockUnlockStep == ASSUME IInv, NEW t \in Updaters, StockUnlock(t) PROVE IInv'
<1> DEFINE f == Last(stack[t])
           g == NextFrame(t, Null)
<1>1. /\ stack[t] # <<>> /\ f \in Frame /\ f.pc = "stocked" /\ f \in Frames(t)
      /\ g.pc = Then(f) /\ g.held = Null /\ g.synced = f.synced
  BY TopIs DEF StockUnlock, IInv
<1>2. Moves(t, f, g)
  BY <1>1, AdvanceMoves DEF StockUnlock, IInv, FramePcs
<1> HIDE DEF f, g
<1>3. g.pc = "leave"
  BY <1>1 DEF Then
<1>4. Types' /\ NoneDead'
  BY <1>2 DEF Moves, StockUnlock, IInv, Types, NoneDead
<1>5. FramesBelow' /\ FrameShapes'
  BY <1>2, <1>3, MovesShapes DEF StockUnlock
<1>6. WritersExclude' /\ ShardExcludes' /\ StockExcludes'
  BY <1>1, <1>2, <1>3, MovesLocks DEF StockUnlock, Ordered
<1>7. MapsFollow'
  BY <1>1, <1>2, <1>3, MovesMaps DEF StockUnlock, InFlight
<1>8. PassesFollow'
  BY <1>1, <1>2, <1>3, MovesPasses DEF StockUnlock, InFlight
<1>9. QED
  BY <1>4, <1>5, <1>6, <1>7, <1>8 DEF IInv

\* The shard lock is dropped: the local still holds what left the map.
LEMMA UnlockStep ==
  ASSUME IInv, NEW t \in Updaters, Running(t, "mapped"),
         stack' = Advance(t, Last(stack[t]).held),
         UNCHANGED <<usePreCulled, toggles, stock, ours, scene, dead, calls, reader>>
  PROVE  IInv'
<1> DEFINE f == Last(stack[t])
           g == NextFrame(t, f.held)
<1>1. /\ stack[t] # <<>> /\ f \in Frame /\ f.pc = "mapped" /\ f \in Frames(t)
      /\ g.pc = Then(f) /\ g.held = f.held /\ g.synced = f.synced
  BY TopIs DEF IInv
<1>2. f.held \in Objects \cup {Null}
  BY <1>1 DEF Frame
<1>3. Moves(t, f, g)
  BY <1>1, <1>2, AdvanceMoves DEF IInv, FramePcs
<1> HIDE DEF f, g
<1>4. g.pc = "displaced"
  BY <1>1 DEF Then
<1>5. Types' /\ NoneDead'
  BY <1>3 DEF Moves, IInv, Types, NoneDead
<1>6. FramesBelow' /\ FrameShapes'
  BY <1>1, <1>3, <1>4, MovesShapes DEF IInv, FrameShapes
<1>7. WritersExclude' /\ ShardExcludes' /\ StockExcludes'
  BY <1>1, <1>3, <1>4, MovesLocks DEF Ordered
<1>8. MapsFollow'
  BY <1>1, <1>3, <1>4, MovesMaps DEF InFlight
<1>9. PassesFollow'
  BY <1>1, <1>3, <1>4, MovesPasses DEF InFlight
<1>10. QED
  BY <1>5, <1>6, <1>7, <1>8, <1>9 DEF IInv

\* The local is released: while the setting stays, the stock table still refers
\* to the object.
LEMMA ReleaseStep ==
  ASSUME IInv, NEW t \in Updaters, Running(t, "displaced"),
         Drop(t, Last(stack[t]).held, scene, stock, ours, Advance(t, Null)),
         UNCHANGED <<usePreCulled, toggles, calls, reader>>
  PROVE  IInv'
<1> USE PreCulledVRAssumption
<1> DEFINE f == Last(stack[t])
           g == NextFrame(t, Null)
<1>1. /\ stack[t] # <<>> /\ f \in Frame /\ f.pc = "displaced" /\ f \in Frames(t)
      /\ g.pc = Then(f) /\ g.held = Null /\ g.synced = f.synced
  BY TopIs DEF IInv
<1>2. f.held \in Objects \cup {Null} /\ f.id \in Ids
  BY <1>1 DEF Frame
<1>3. f.pc \in FramePcs \ {"leave"}
  BY <1>1 DEF FramePcs
<1>4. MayWait(g) \/ Referenced(f.held, scene, stock, ours, Advance(t, Null)) \/ f.held = Null
  <2>1. g.pc = "original"
    BY <1>1 DEF Then
  <2>2. toggles = 0 => f.held \in {Null, stock[f.id]}
    BY <1>1 DEF IInv, MapsFollow
  <2>3. QED
    BY <1>2, <2>1, <2>2 DEF MayWait, Referenced
<1>5. Types
  BY DEF IInv
<1>6. /\ Moves(t, f, g)
      /\ scene' = scene /\ stock' = stock /\ ours' = ours
      /\ \/ dead' = dead
         \/ /\ f.held \in Objects /\ ~Referenced(f.held, scene, stock, ours, Advance(t, Null))
            /\ dead' = dead \cup {f.held}
  BY <1>1, <1>2, <1>3, <1>4, <1>5, DropMoves
<1>7. NoneDead'
  BY <1>6 DEF Referenced, IInv, NoneDead
<1> HIDE DEF f, g
<1>8. g.pc = "original"
  BY <1>1 DEF Then
<1>9. Types'
  BY <1>6 DEF Moves, IInv, Types
<1>10. FramesBelow' /\ FrameShapes'
  BY <1>6, <1>8, MovesShapes
<1>11. WritersExclude' /\ ShardExcludes' /\ StockExcludes'
  BY <1>1, <1>6, <1>8, MovesLocks DEF Ordered
<1>12. MapsFollow'
  BY <1>1, <1>6, <1>8, MovesMaps DEF InFlight
<1>13. PassesFollow'
  BY <1>1, <1>6, <1>8, MovesPasses DEF InFlight
<1>14. QED
  BY <1>7, <1>9, <1>10, <1>11, <1>12, <1>13 DEF IInv

\* No other activation is between the two updates of an id.
LEMMA OnlyOneOnTheWay ==
  ASSUME IInv, toggles = 0, NEW t \in Updaters, NEW f \in Frames(t), Ordered(f),
         f.pc \notin {"mapped", "displaced", "original"}, Frames(t) = Below(t) \cup {f}
  PROVE  ~OnTheWay(f.id)
<1> SUFFICES ASSUME NEW u \in Updaters, NEW h \in Frames(u), InFlight(h), h.id = f.id PROVE FALSE
  BY DEF OnTheWay
<1>1. Ordered(h)
  BY DEF InFlight, Ordered
<1>2. u = t
  BY <1>1 DEF IInv, WritersExclude
<1>3. h # f
  BY DEF InFlight
<1>4. h \in Below(t)
  BY <1>2, <1>3
<1>5. QED
  BY <1>4 DEF InFlight, IInv, FramesBelow

LEMMA MapUpdateStep == ASSUME IInv, NEW t \in Updaters, MapUpdate(t) PROVE IInv'
<1> USE PreCulledVRAssumption
<1> DEFINE f == Last(stack[t])
           g == NextFrame(t, ours[f.id])
<1>1. /\ stack[t] # <<>> /\ f \in Frame /\ f.pc = "map" /\ f \in Frames(t)
      /\ g.pc = Then(f) /\ g.held = ours[f.id] /\ g.synced = f.synced
  BY TopIs DEF MapUpdate, IInv
<1>2. f.id \in Ids /\ f.obj \in Objects \cup {Null} /\ ours[f.id] \in Objects \cup {Null}
  BY <1>1 DEF Frame, IInv, Types
<1>3. Moves(t, f, g)
  BY <1>1, <1>2, AdvanceMoves DEF MapUpdate, IInv, FramePcs
<1>4. /\ ours' = [ours EXCEPT ![f.id] = f.obj]
      /\ \A r \in Readers : ~ReadsShard(r, ShardIndex[f.id])
      /\ UNCHANGED <<usePreCulled, toggles, stock, scene, dead, calls, reader>>
  BY DEF MapUpdate
<1> HIDE DEF f, g
<1>5. g.pc = "mapped" /\ g.id = f.id /\ g.obj = f.obj
  BY <1>1, <1>3 DEF Then, Moves
<1>6. Types'
  BY <1>2, <1>3, <1>4 DEF Moves, IInv, Types
<1>7. f.synced /\ f.obj \in scene \cup {Null}
  BY <1>1 DEF IInv, FrameShapes
<1>8. \A id \in Ids : ours'[id] = IF id = f.id THEN f.obj ELSE ours[id]
  BY <1>2, <1>4 DEF IInv, Types
<1>9. NoneDead'
  BY <1>4, <1>7, <1>8 DEF IInv, Types, NoneDead
<1>10. FramesBelow' /\ FrameShapes'
  BY <1>3, <1>4, <1>7, MovesShapes
<1>11. WritersExclude' /\ ShardExcludes' /\ StockExcludes'
  BY <1>1, <1>3, <1>4, <1>5, MovesLocks DEF Ordered, ReadsShard
<1>12. PassesFollow'
  BY <1>1, <1>3, <1>4, MovesPasses DEF InFlight
<1>13. ~InFlight(f) /\ Ordered(f)
  BY <1>1, <1>7 DEF InFlight, Ordered
<1>14. \A u \in Updaters \ {t} : Frames(u)' = Frames(u)
  BY <1>3 DEF Moves, Frames
<1>15. Frames(t) = Below(t) \cup {f} /\ Below(t) \cup {g} \subseteq Frames(t)'
  BY <1>3 DEF Moves
<1>16. \A u \in Updaters : \A h \in Frames(u) : InFlight(h) => h \in Frames(u)'
  BY <1>13, <1>14, <1>15
<1>17. \A id : OnTheWay(id) => OnTheWay(id)'
  BY <1>16 DEF OnTheWay, InFlight
<1>18. \A id : id = f.id => OnTheWay(id)'
  BY <1>1, <1>5, <1>7, <1>15 DEF OnTheWay, InFlight
<1>19. toggles = 0 => ~OnTheWay(f.id)
  BY <1>1, <1>13, <1>15, OnlyOneOnTheWay
<1>20. ASSUME NEW u \in Updaters, NEW n \in Frames(u)', toggles = 0
       PROVE  /\ InFlight(n) => ours'[n.id] = n.obj
              /\ n.pc \in {"mapped", "displaced"} => n.held \in {Null, stock[n.id]}
  <2>1. CASE n = g
    <3>1. ours[f.id] = stock[f.id]
      BY <1>1, <1>2, <1>7, <1>19, <1>20 DEF IInv, MapsFollow, FrameShapes
    <3>2. QED
      BY <1>1, <1>2, <1>5, <1>8, <2>1, <3>1
  <2>2. CASE n \in Frames(u)
    <3>1. n \in Frame
      BY <2>2, RangeOfSeq DEF IInv, Types, Frames
    <3>2. n.id \in Ids
      BY <3>1 DEF Frame
    <3>3. InFlight(n) => n.id # f.id
      BY <1>19, <1>20, <2>2 DEF OnTheWay
    <3>4. QED
      BY <1>8, <1>20, <2>2, <3>2, <3>3 DEF IInv, MapsFollow
  <2>3. CASE Fresh(n)
    BY <2>3 DEF Fresh, InFlight, IInv, Types
  <2>4. QED
    BY <1>3, <1>14, <1>15, <2>1, <2>2, <2>3 DEF Moves
<1>21. MapsFollow'
  <2>1. toggles = 0 => \A id \in Ids : usePreCulled /\ ours'[id] # stock[id] => OnTheWay(id)'
    BY <1>8, <1>17, <1>18 DEF IInv, MapsFollow
  <2>2. QED
    BY <1>4, <1>20, <2>1 DEF MapsFollow, InFlight
<1>22. QED
  BY <1>6, <1>9, <1>10, <1>11, <1>12, <1>21 DEF IInv

LEMMA StockUpdateStep == ASSUME IInv, NEW t \in Updaters, StockUpdate(t) PROVE IInv'
<1> USE PreCulledVRAssumption
<1> DEFINE f == Last(stack[t])
           g == NextFrame(t, Null)
           o == stock[f.id]
           stk == [stock EXCEPT ![f.id] = f.obj]
<1>1. /\ stack[t] # <<>> /\ f \in Frame /\ f.pc = "original" /\ f \in Frames(t)
      /\ g.pc = Then(f) /\ g.held = Null /\ g.synced = f.synced
  BY TopIs DEF StockUpdate, IInv
<1>2. f.id \in Ids /\ f.obj \in Objects \cup {Null} /\ o \in Objects \cup {Null}
  BY <1>1 DEF Frame, IInv, Types
<1>3. /\ Drop(t, o, scene, stk, ours, Advance(t, Null))
      /\ \A r \in Readers : reader[r].pc = "idle"
      /\ UNCHANGED <<usePreCulled, toggles, calls, reader>>
  BY DEF StockUpdate, ReadsStock
<1>4. f.pc \in FramePcs \ {"leave"} /\ Types
  BY <1>1 DEF FramePcs, IInv
<1>5. MayWait(g)
  BY <1>1 DEF MayWait, Then
<1>6. stk \in [Ids -> Objects \cup {Null}] /\ \A id \in Ids : stk[id] = IF id = f.id THEN f.obj ELSE stock[id]
  BY <1>2, <1>4 DEF Types
<1> HIDE DEF stk, o
<1>7. /\ Moves(t, f, g)
      /\ scene' = scene /\ stock' = stk /\ ours' = ours
      /\ \/ dead' = dead
         \/ /\ o \in Objects /\ ~Referenced(o, scene, stk, ours, Advance(t, Null))
            /\ dead' = dead \cup {o}
  BY <1>1, <1>2, <1>3, <1>4, <1>5, DropMoves
<1>8. f.obj \in scene \cup {Null}
  BY <1>1 DEF IInv, FrameShapes
<1>9. NoneDead'
  <2>1. \A id \in Ids : stk[id] \notin dead /\ ours[id] \notin dead
    BY <1>6, <1>8 DEF IInv, Types, NoneDead
  <2>2. dead' # dead => o \notin scene /\ \A id \in Ids : stk[id] # o /\ ours[id] # o
    BY <1>7 DEF Referenced
  <2>3. dead' \subseteq dead \cup {o}
    BY <1>7
  <2>4. QED
    BY <1>7, <2>1, <2>2, <2>3 DEF IInv, NoneDead
<1> HIDE DEF f, g
<1>10. g.pc = "stocked" /\ g.id = f.id
  BY <1>1, <1>7 DEF Then, Moves
<1>11. Types'
  BY <1>3, <1>6, <1>7 DEF Moves, IInv, Types
<1>12. FramesBelow' /\ FrameShapes'
  BY <1>3, <1>7, <1>10, MovesShapes
<1>13. WritersExclude' /\ ShardExcludes' /\ StockExcludes'
  BY <1>1, <1>3, <1>7, <1>10, MovesLocks DEF Ordered
<1>14. PassesFollow'
  BY <1>3, <1>7, MovesPasses
<1>15. \A u \in Updaters \ {t} : Frames(u)' = Frames(u)
  BY <1>7 DEF Moves, Frames
<1>16. Frames(t) = Below(t) \cup {f} /\ Below(t) \cup {g} \subseteq Frames(t)'
  BY <1>7 DEF Moves
<1>17. \A id : id # f.id /\ OnTheWay(id) => OnTheWay(id)'
  <2>1. \A u \in Updaters : \A h \in Frames(u) : h.id # f.id => h \in Frames(u)'
    BY <1>15, <1>16
  <2>2. QED
    BY <2>1 DEF OnTheWay, InFlight
<1>18. toggles = 0 /\ usePreCulled => ours[f.id] = f.obj
  <2>1. toggles = 0 /\ usePreCulled => InFlight(f)
    BY <1>1 DEF IInv, FrameShapes, InFlight
  <2>2. QED
    BY <1>1, <2>1 DEF IInv, MapsFollow
<1>19. ASSUME NEW u \in Updaters, NEW n \in Frames(u)', toggles = 0
       PROVE  /\ InFlight(n) => ours[n.id] = n.obj
              /\ n.pc \in {"mapped", "displaced"} => n.held \in {Null, stk[n.id]}
  <2>1. CASE n = g
    BY <1>10, <2>1 DEF InFlight
  <2>2. CASE n \in Frames(u)
    <3>1. InFlight(n) => ours[n.id] = n.obj
      BY <1>19, <2>2 DEF IInv, MapsFollow
    <3>2. ASSUME n.pc \in {"mapped", "displaced"} PROVE n.held \in {Null, stk[n.id]}
      <4>1. n.id \in Ids
        <5>1. n \in Frame
          BY <2>2, RangeOfSeq DEF IInv, Types, Frames
        <5>2. QED
          BY <5>1 DEF Frame
      <4>2. n.held \in {Null, stock[n.id]}
        BY <1>19, <2>2, <3>2 DEF IInv, MapsFollow
      <4>3. n.id # f.id
        <5> SUFFICES ASSUME n.id = f.id PROVE FALSE
          OBVIOUS
        <5>1. Ordered(n) /\ Ordered(f)
          BY <1>1, <1>19, <2>2, <3>2 DEF IInv, FrameShapes, Ordered
        <5>2. u = t
          BY <1>1, <2>2, <5>1 DEF IInv, WritersExclude
        <5>3. n \in Below(t)
          BY <1>1, <1>16, <2>2, <3>2, <5>2
        <5>4. QED
          BY <1>19, <3>2, <5>3 DEF IInv, FramesBelow
      <4>4. QED
        BY <1>6, <4>1, <4>2, <4>3
    <3>3. QED
      BY <3>1, <3>2
  <2>3. CASE Fresh(n)
    BY <2>3 DEF Fresh, InFlight, IInv, Types
  <2>4. QED
    BY <1>7, <1>15, <1>16, <2>1, <2>2, <2>3 DEF Moves
<1>20. MapsFollow'
  <2>1. toggles = 0 => \A id \in Ids : usePreCulled /\ ours[id] # stk[id] => OnTheWay(id)'
    BY <1>6, <1>17, <1>18 DEF IInv, MapsFollow
  <2>2. QED
    BY <1>3, <1>7, <1>19, <2>1 DEF MapsFollow, InFlight
<1>21. QED
  BY <1>9, <1>11, <1>12, <1>13, <1>14, <1>20 DEF IInv

-----------------------------------------------------------------------------
(* Steps of the culling passes *)

LEMMA ReadingUpdates ==
  ASSUME NEW x \in Reading
  PROVE  /\ \A pc \in ReaderPcs : [x EXCEPT !.pc = pc] \in Reading
         /\ \A pc \in ReaderPcs, hook \in BOOLEAN : [x EXCEPT !.pc = pc, !.hook = hook] \in Reading
         /\ \A pc \in ReaderPcs, id \in Ids \cup {Null} : [x EXCEPT !.pc = pc, !.id = id] \in Reading
         /\ \A pc \in ReaderPcs, id \in Ids \cup {Null}, obj \in Objects \cup {Null} :
              [x EXCEPT !.pc = pc, !.id = id, !.obj = obj] \in Reading
         /\ \A pc \in ReaderPcs, id \in Ids \cup {Null}, obj \in Objects \cup {Null}, todo \in SUBSET Ids :
              [x EXCEPT !.pc = pc, !.id = id, !.obj = obj, !.todo = todo] \in Reading
         /\ \A pc \in ReaderPcs, todo \in SUBSET Ids, hook \in BOOLEAN, passes \in 0..MaxPasses :
              [x EXCEPT !.pc = pc, !.todo = todo, !.hook = hook, !.passes = passes] \in Reading
<1> DEFINE S == SUBSET Ids
           P == 0..MaxPasses
<1>1. Reading = [pc : ReaderPcs, hook : BOOLEAN, todo : S, id : Ids \cup {Null},
                 obj : Objects \cup {Null}, passes : P]
  BY DEF Reading
<1> HIDE DEF S, P
<1>2. QED
  BY <1>1 DEF S, P

LEMMA ReaderPcsAre ==
  {"idle", "scan", "find", "missed", "use", "real"} \subseteq ReaderPcs
BY DEF ReaderPcs

\* What a pass may go on to, while everything else stays.
LEMMA ReaderStep ==
  ASSUME IInv, UNCHANGED <<usePreCulled, toggles, stock, ours, scene, dead, calls, stack>>,
         NEW r \in Readers, NEW x \in Reading, reader' = [reader EXCEPT ![r] = x],
         x.pc = "find" => \A t \in Updaters : \A f \in Frames(t) :
                             f.pc = "mapped" => ShardIndex[f.id] # ShardIndex[x.id],
         \/ reader[r].pc # "idle" \/ x.pc = "idle"
         \/ \A t \in Updaters : \A f \in Frames(t) : f.pc # "stocked",
         x.pc \in {"find", "missed", "use", "real"} => x.id \in Ids,
         toggles = 0 =>
             /\ x.pc \in {"find", "missed"} => usePreCulled
             /\ x.pc = "missed" => stock[x.id] = Null \/ OnTheWay(x.id)
             /\ x.pc = "real" => OnTheWay(x.id)
             /\ x.pc \in {"use", "real"} => stock[x.id] = x.obj \/ Arriving(x.id, x.obj)
  PROVE  IInv'
<1>1. /\ reader' \in [Readers -> Reading] /\ reader'[r] = x
      /\ \A s \in Readers \ {r} : reader'[s] = reader[s]
  BY DEF IInv, Types
<1>2. \A t \in Updaters : Frames(t)' = Frames(t) /\ Below(t)' = Below(t)
  BY DEF Frames, Below
<1>3. /\ \A id : OnTheWay(id)' <=> OnTheWay(id)
      /\ \A id, obj : Arriving(id, obj)' <=> Arriving(id, obj)
  BY <1>2 DEF OnTheWay, Arriving, InFlight
<1>4. Types'
  BY <1>1 DEF IInv, Types
<1>5. FramesBelow' /\ FrameShapes' /\ WritersExclude' /\ NoneDead'
  BY <1>2 DEF IInv, FramesBelow, FrameShapes, WritersExclude, NoneDead, Ordered
<1>6. ShardExcludes'
  BY <1>1, <1>2 DEF IInv, ShardExcludes
<1>7. StockExcludes'
  BY <1>1, <1>2 DEF IInv, StockExcludes
<1>8. MapsFollow'
  BY <1>2, <1>3 DEF IInv, MapsFollow, InFlight
<1>9. PassesFollow'
  <2> SUFFICES ASSUME NEW s \in Readers
               PROVE  LET id == reader'[s].id
                          pc == reader'[s].pc
                      IN  /\ pc \in {"find", "missed", "use", "real"} => id \in Ids
                          /\ toggles = 0 =>
                               /\ pc \in {"find", "missed"} => usePreCulled
                               /\ pc = "missed" => stock[id] = Null \/ OnTheWay(id)
                               /\ pc = "real" => OnTheWay(id)
                               /\ pc \in {"use", "real"} =>
                                    stock[id] = reader'[s].obj \/ Arriving(id, reader'[s].obj)
    BY <1>3 DEF PassesFollow
  <2>1. CASE s = r
    BY <1>1, <2>1
  <2>2. CASE s # r
    BY <1>1, <2>2 DEF IInv, PassesFollow
  <2>3. QED
    BY <2>1, <2>2
<1>10. QED
  BY <1>4, <1>5, <1>6, <1>7, <1>8, <1>9 DEF IInv

LEMMA BeginStep ==
  ASSUME IInv, NEW r \in Readers, NEW ids \in SUBSET Ids, NEW hook \in BOOLEAN, Begin(r, ids, hook)
  PROVE  IInv'
<1> USE PreCulledVRAssumption
<1> DEFINE x == [reader[r] EXCEPT !.pc = "scan", !.todo = ids, !.hook = hook, !.passes = @ + 1]
<1>1. reader[r] \in Reading /\ reader[r].passes \in 0..MaxPasses
  BY DEF IInv, Types, Reading
<1>2. reader[r].passes + 1 \in 0..MaxPasses
  BY <1>1 DEF Begin
<1>3. x \in Reading
  BY <1>1, <1>2, ReadingUpdates, ReaderPcsAre
<1>4. x.pc = "scan"
  BY <1>1 DEF Reading
<1>5. reader' = [reader EXCEPT ![r] = x]
  BY DEF Begin
<1> HIDE DEF x
<1>6. \A t \in Updaters : \A f \in Frames(t) : f.pc # "stocked"
  BY DEF Begin, WritesStock
<1>7. QED
  BY <1>3, <1>4, <1>5, <1>6, ReaderStep DEF Begin

\* A lookup that ends with an object of the stock table, or of one that arrives.
LEMMA FoundStep ==
  ASSUME IInv, UNCHANGED <<usePreCulled, toggles, stock, ours, scene, dead, calls, stack>>,
         NEW r \in Readers, reader[r].pc # "idle", NEW id \in Ids, NEW obj \in Objects \cup {Null},
         NEW pc \in {"use", "real"}, Found(r, id, obj, pc),
         toggles = 0 /\ obj # Null =>
             /\ stock[id] = obj \/ Arriving(id, obj)
             /\ pc = "real" => OnTheWay(id)
  PROVE  IInv'
<1> DEFINE x == [reader[r] EXCEPT !.pc = IF obj = Null THEN "scan" ELSE pc,
                                  !.id = IF obj = Null THEN Null ELSE id,
                                  !.obj = obj,
                                  !.todo = @ \ {id}]
<1>1. reader[r] \in Reading /\ reader[r].todo \ {id} \in SUBSET Ids
  BY DEF IInv, Types, Reading
<1>2. x \in Reading
  BY <1>1, ReadingUpdates, ReaderPcsAre
<1>3. x.pc = (IF obj = Null THEN "scan" ELSE pc) /\ x.id = (IF obj = Null THEN Null ELSE id) /\ x.obj = obj
  BY <1>1 DEF Reading
<1>4. reader' = [reader EXCEPT ![r] = x]
  BY DEF Found
<1> HIDE DEF x
<1>5. QED
  BY <1>2, <1>3, <1>4, ReaderStep

LEMMA PassStep == ASSUME IInv, NEW r \in Readers, Pass(r) PROVE IInv'
<1> USE PreCulledVRAssumption
<1>0. reader[r] \in Reading /\ reader[r].todo \subseteq Ids
      /\ \A id \in Ids : stock[id] \in Objects \cup {Null} /\ ours[id] \in Objects \cup {Null}
  BY DEF IInv, Types, Reading
<1>1. CASE LookupStock(r)
  <2>1. PICK id \in reader[r].todo : Found(r, id, stock[id], "use")
    BY <1>1 DEF LookupStock
  <2>2. QED
    BY <1>0, <1>1, <2>1, FoundStep DEF LookupStock
<1>2. CASE LockShard(r)
  <2>1. PICK id \in reader[r].todo :
          /\ \A t \in Updaters : ~HoldsShard(t, ShardIndex[id])
          /\ reader' = [reader EXCEPT ![r].pc = "find", ![r].id = id]
    BY <1>2 DEF LockShard
  <2> DEFINE x == [reader[r] EXCEPT !.pc = "find", !.id = id]
  <2>2. id \in Ids
    BY <1>0
  <2>3. x \in Reading /\ x.pc = "find" /\ x.id = id
    <3>1. x \in Reading
      BY <1>0, <2>2, ReadingUpdates, ReaderPcsAre
    <3>2. QED
      BY <1>0, <3>1 DEF Reading
  <2>4. reader' = [reader EXCEPT ![r] = x]
    BY <2>1
  <2> HIDE DEF x
  <2>5. \A t \in Updaters : \A f \in Frames(t) :
           f.pc = "mapped" => ShardIndex[f.id] # ShardIndex[x.id]
    BY <2>1, <2>3 DEF HoldsShard
  <2>6. reader[r].pc # "idle" /\ usePreCulled
        /\ UNCHANGED <<usePreCulled, toggles, stock, ours, scene, dead, calls, stack>>
    BY <1>2 DEF LockShard
  <2>7. QED
    BY <2>2, <2>3, <2>4, <2>5, <2>6, ReaderStep
<1>3. CASE FindOne(r)
  <2> DEFINE id == reader[r].id
  <2>1. id \in Ids /\ reader[r].pc = "find" /\ (toggles = 0 => usePreCulled)
    BY <1>3 DEF FindOne, IInv, PassesFollow
  <2>2. toggles = 0 /\ ours[id] # stock[id] => OnTheWay(id)
    BY <2>1 DEF IInv, MapsFollow
  <2>3. toggles = 0 => stock[id] = ours[id] \/ Arriving(id, ours[id])
    BY <2>1, <2>2 DEF IInv, MapsFollow, OnTheWay, Arriving
  <2>4. CASE Found(r, id, ours[id], "use")
    BY <1>0, <1>3, <2>1, <2>3, <2>4, FoundStep DEF FindOne
  <2>5. CASE ours[id] = Null /\ reader' = [reader EXCEPT ![r].pc = "missed"]
    <3> DEFINE x == [reader[r] EXCEPT !.pc = "missed"]
    <3>1. x \in Reading
      BY <1>0, ReadingUpdates, ReaderPcsAre
    <3>2. x.pc = "missed" /\ x.id = id
      BY <1>0 DEF Reading
    <3>3. reader' = [reader EXCEPT ![r] = x]
      BY <2>5
    <3> HIDE DEF x
    <3>4. QED
      BY <1>3, <2>1, <2>2, <2>5, <3>1, <3>2, <3>3, ReaderStep DEF FindOne
  <2>6. QED
    BY <1>3, <2>4, <2>5 DEF FindOne
<1>4. CASE Sentinel(r)
  <2>1. reader[r].pc = "missed" /\ reader[r].id \in Ids
    BY <1>4 DEF Sentinel, IInv, PassesFollow
  <2>2. toggles = 0 => stock[reader[r].id] = Null \/ OnTheWay(reader[r].id)
    BY <2>1 DEF IInv, PassesFollow
  <2>3. QED
    BY <1>0, <1>4, <2>1, <2>2, FoundStep DEF Sentinel
<1>5. CASE Use(r)
  <2> DEFINE x == [reader[r] EXCEPT !.pc = "scan", !.id = Null, !.obj = Null]
  <2>1. x \in Reading
    BY <1>0, ReadingUpdates, ReaderPcsAre
  <2>2. x.pc = "scan"
    BY <1>0 DEF Reading
  <2>3. reader' = [reader EXCEPT ![r] = x]
    BY <1>5 DEF Use
  <2> HIDE DEF x
  <2>4. QED
    BY <1>5, <2>1, <2>2, <2>3, ReaderStep DEF Use
<1>6. CASE End(r)
  <2> DEFINE x == [reader[r] EXCEPT !.pc = "idle", !.hook = FALSE]
  <2>1. x \in Reading
    BY <1>0, ReadingUpdates, ReaderPcsAre
  <2>2. x.pc = "idle"
    BY <1>0 DEF Reading
  <2>3. reader' = [reader EXCEPT ![r] = x]
    BY <1>6 DEF End
  <2> HIDE DEF x
  <2>4. QED
    BY <1>6, <2>1, <2>2, <2>3, ReaderStep DEF End
<1>7. QED
  BY <1>1, <1>2, <1>3, <1>4, <1>5, <1>6 DEF Pass

-----------------------------------------------------------------------------

\* No step of an updater, a pass or the setting breaks IInv.
LEMMA NextIInv == IInv /\ [Next]_vars => IInv'
<1> SUFFICES ASSUME IInv, [Next]_vars PROVE IInv'
  OBVIOUS
<1> USE PreCulledVRAssumption
<1>0. IInv
  OBVIOUS
<1>1. ASSUME NEW t \in Updaters, UpdateIDto3DMap(t) PROVE IInv'
  BY <1>0, <1>1, LockWriterStep, MapUpdateStep, UnlockStep, ReleaseStep, StockUpdateStep, StockUnlockStep,
     ReturnStep DEF UpdateIDto3DMap, UnlockThenRelease
<1>2. ASSUME NEW t \in Updaters, NEW id \in Ids, NEW obj \in scene \cup {Null}, Call(t, id, obj)
      PROVE  IInv'
  BY <1>0, <1>2, CallStep
<1>3. ASSUME NEW t \in Updaters, NEW o \in scene, SceneDrop(t, o) PROVE IInv'
  BY <1>0, <1>3, SceneDropStep
<1>4. ASSUME NEW r \in Readers, BeginPass(r) \/ BeginHook(r) PROVE IInv'
  BY <1>0, <1>4, BeginStep DEF BeginPass, BeginHook
<1>5. ASSUME NEW r \in Readers, Pass(r) PROVE IInv'
  BY <1>0, <1>5, PassStep
<1>6. ASSUME Toggle PROVE IInv'
  <2>1. toggles' # 0 /\ toggles' \in 0..MaxToggles
    BY <1>6 DEF Toggle, IInv, Types
  <2>2. Types' /\ NoneDead' /\ MapsFollow'
    BY <1>6, <2>1 DEF Toggle, IInv, Types, NoneDead, MapsFollow
  <2>3. \A t \in Updaters : Frames(t)' = Frames(t) /\ Below(t)' = Below(t)
    BY <1>6 DEF Toggle, Frames, Below
  <2>4. FramesBelow' /\ FrameShapes' /\ WritersExclude' /\ ShardExcludes' /\ StockExcludes'
    BY <1>6, <2>1, <2>3
       DEF Toggle, IInv, FramesBelow, FrameShapes, WritersExclude, ShardExcludes, StockExcludes, Ordered
  <2>5. PassesFollow'
    BY <1>6, <2>1 DEF Toggle, IInv, PassesFollow
  <2>6. QED
    BY <2>2, <2>4, <2>5 DEF IInv
<1>7. CASE UNCHANGED vars
  <2>1. /\ usePreCulled' = usePreCulled /\ toggles' = toggles /\ stock' = stock /\ ours' = ours
        /\ scene' = scene /\ dead' = dead /\ calls' = calls /\ stack' = stack /\ reader' = reader
    BY <1>7 DEF vars
  <2>2. \A t \in Updaters : Frames(t)' = Frames(t) /\ Below(t)' = Below(t)
    BY <2>1 DEF Frames, Below
  <2>3. /\ \A id : OnTheWay(id)' <=> OnTheWay(id)
        /\ \A id, obj : Arriving(id, obj)' <=> Arriving(id, obj)
    BY <2>2 DEF OnTheWay, Arriving, InFlight
  <2>4. Types' /\ NoneDead' /\ FramesBelow' /\ FrameShapes' /\ WritersExclude'
    BY <2>1, <2>2 DEF IInv, Types, NoneDead, FramesBelow, FrameShapes, WritersExclude, Ordered
  <2>5. ShardExcludes' /\ StockExcludes' /\ MapsFollow' /\ PassesFollow'
    BY <2>1, <2>2, <2>3 DEF IInv, ShardExcludes, StockExcludes, MapsFollow, PassesFollow, InFlight
  <2>6. QED
    BY <2>4, <2>5 DEF IInv
<1>8. QED
  BY <1>1, <1>2, <1>3, <1>4, <1>5, <1>6, <1>7 DEF Next

LEMMA Invariance == Spec => []IInv
BY InitIInv, NextIInv, PTL DEF Spec

\* Every variable keeps its type, and of a shard's lock there is one writer and
\* then no reader, however updates, destructors and passes interleave
\* (BSPreCulledObjectsPatchVR.cpp:560-640).
THEOREM TypeCorrect == Spec => []TypeOK
<1>1. IInv => TypeOK
  <2> SUFFICES ASSUME IInv PROVE TypeOK
    OBVIOUS
  <2>1. \A t \in Updaters : Frames(t) \subseteq Frame
    BY RangeOfSeq DEF IInv, Types, Frames
  <2>2. \A t \in Updaters, shard \in Range(ShardIndex) : HoldsShard(t, shard) =>
          /\ \A u \in Updaters \ {t} : ~HoldsShard(u, shard)
          /\ \A r \in Readers : ~ReadsShard(r, shard)
    <3> SUFFICES ASSUME NEW t \in Updaters, NEW shard, NEW f \in Frames(t), f.pc = "mapped",
                        ShardIndex[f.id] = shard
                 PROVE  /\ \A u \in Updaters \ {t} : ~HoldsShard(u, shard)
                        /\ \A r \in Readers : ~ReadsShard(r, shard)
      BY DEF HoldsShard
    <3>1. ASSUME NEW u \in Updaters, NEW g \in Frames(u), g.pc = "mapped", ShardIndex[g.id] = shard
          PROVE  u = t
      <4>1. Ordered(f) /\ Ordered(g)
        BY <3>1 DEF IInv, FrameShapes, Ordered
      <4>2. QED
        BY <3>1, <4>1 DEF IInv, WritersExclude
    <3>2. \A r \in Readers : ~ReadsShard(r, shard)
      BY DEF IInv, ShardExcludes, ReadsShard
    <3>3. QED
      BY <3>1, <3>2 DEF HoldsShard
  <2>3. QED
    BY <2>1, <2>2 DEF IInv, Types, Reading, TypeOK
<1>2. QED
  BY <1>1, Invariance, PTL

\* While nobody changes bUsePreCulledObjects, no pass uses an object whose
\* destructor has run: what it fetched is in the stock table or about to enter it
\* (BSPreCulledObjectsPatchVR.cpp:568-570).
THEOREM FetchedStaysAliveHolds == Spec => []FetchedStaysAliveIfSet
<1>1. IInv => FetchedStaysAliveIfSet
  <2> SUFFICES ASSUME IInv, toggles = 0, NEW r \in Readers, reader[r].pc \in {"use", "real"}
               PROVE  reader[r].obj \notin dead
    BY DEF FetchedStaysAliveIfSet, FetchedStaysAlive
  <2>1. /\ reader[r].id \in Ids
        /\ stock[reader[r].id] = reader[r].obj \/ Arriving(reader[r].id, reader[r].obj)
    BY DEF IInv, PassesFollow
  <2>2. \A id \in Ids : stock[id] \notin dead
    BY DEF IInv, NoneDead
  <2>3. ASSUME Arriving(reader[r].id, reader[r].obj) PROVE reader[r].obj \in scene \cup {Null}
    BY <2>3 DEF Arriving, IInv, FrameShapes
  <2>4. \A o \in scene \cup {Null} : o \notin dead
    BY PreCulledVRAssumption DEF IInv, Types, NoneDead
  <2>5. QED
    BY <2>1, <2>2, <2>3, <2>4
<1>2. QED
  BY <1>1, Invariance, PTL

\* The stock table and the copy differ on an id only while an update of its
\* shard is under way (BSPreCulledObjectsPatchVR.cpp:560-565).
THEOREM InStepHolds == Spec => []InStep
<1>1. IInv => InStep
  BY DEF IInv, MapsFollow, OnTheWay, InFlight, InStep, HoldsWriter
<1>2. QED
  BY <1>1, Invariance, PTL

\* The sentinel counts a real miss only while an update of that shard is under
\* way (BSPreCulledObjectsPatchVR.cpp:733-748).
THEOREM RealMissIsTransientHolds == Spec => []RealMissIsTransient
<1>1. IInv => RealMissIsTransient
  BY DEF IInv, PassesFollow, OnTheWay, InFlight, RealMissIsTransient, HoldsWriter
<1>2. QED
  BY <1>1, Invariance, PTL

\* No step runs a destructor on a thread that holds a shard lock
\* (BSPreCulledObjectsPatchVR.cpp:59-61).
THEOREM DestructorsRunUnlockedHolds == Spec => DestructorsRunUnlocked
<1> DEFINE A == \A t \in Updaters, shard \in Range(ShardIndex) :
                   dead' # dead /\ stack'[t] # stack[t] => ~HoldsShard(t, shard)
<1>1. IInv /\ [Next]_vars => [A]_vars
  <2> SUFFICES ASSUME IInv, Next, NEW t \in Updaters, NEW shard, dead' # dead, stack'[t] # stack[t],
                      NEW h \in Frames(t), h.pc = "mapped"
               PROVE  FALSE
    BY DEF HoldsShard
  <2>1. stack[t] # <<>> /\ Frames(t) = Below(t) \cup {Last(stack[t])}
    <3>1. stack[t] # <<>>
      BY DEF Frames, Range
    <3>2. stack[t] \in Seq(Frame)
      BY DEF IInv, Types
    <3>3. QED
      BY <3>1, <3>2, TopAndBelow DEF Frames, Below
  <2>2. Last(stack[t]).pc = "mapped"
    BY <2>1 DEF IInv, FramesBelow
  <2>3. ASSUME NEW u \in Updaters, NEW o, NEW scn, NEW stk, NEW our, u # t,
               Drop(u, o, scn, stk, our, Advance(u, Null)) \/ Drop(u, o, scn, stk, our, stack)
        PROVE  FALSE
    BY <2>3 DEF Drop, Advance, IInv, Types
  <2>4. PICK u \in Updaters : UpdateIDto3DMap(u) \/ \E o \in scene : SceneDrop(u, o)
    BY DEF Next, Call, BeginPass, BeginHook, Begin, Pass, LookupStock, LockShard, FindOne, Sentinel, Use,
           End, Toggle
  <2>5. \/ UnlockThenRelease(u) /\ Running(u, "displaced")
        \/ StockUpdate(u) \/ \E o \in scene : SceneDrop(u, o)
    BY <2>4 DEF UpdateIDto3DMap, LockWriter, MapUpdate, UnlockThenRelease, StockUnlock, Return
  <2>6. u # t
    BY <2>1, <2>2, <2>5 DEF Running, StockUpdate, SceneDrop
  <2>7. QED
    BY <2>3, <2>5, <2>6 DEF UnlockThenRelease, StockUpdate, SceneDrop, Running
<1>2. QED
  BY <1>1, Invariance, PTL DEF Spec, DestructorsRunUnlocked
=============================================================================
