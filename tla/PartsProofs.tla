----------------------------- MODULE PartsProofs -----------------------------
(***************************************************************************)
(* Proofs about components that share no state: the input switch, the      *)
(* symbols of a PDB, the work of the multi-threaded accumulation, the      *)
(* plugin's life, the interior navmesh fix, the list of loaded modules, the*)
(* walk over an arena, the pre-culled objects of the flat handler.         *)
(* MCParts checks the same properties, one part at a time.                 *)
(*                                                                         *)
(* Each part has its own inductive invariant; the definitions and lemmas   *)
(* of a part carry its prefix.                                             *)
(***************************************************************************)
EXTENDS InputSwitch, PdbDetails, WorkManager, Boot, NavCut, LoadedModules, ArenaWalk, PreCulledFlat,
        Integers, FiniteSetTheorems, SequenceTheorems, FunctionTheorems, WellFoundedInduction, TLAPS

-----------------------------------------------------------------------------
(* The input switch *)

\* The last two phases of the handler have their messages out, so a menu that
\* has no message to come agrees with the device already.
SwitchMessagesSent ==
    handler \in {"idle", "codes"} =>
        \A m \in openMenus \ messages : shownFor[m] = IsGamepadActiveDevice

SwitchCodesFollow == handler = "idle" => buttonCodes = IsGamepadActiveDevice

SwitchIInv == SwitchTypeOK /\ SwitchMessagesSent /\ SwitchCodesFollow /\ PipboyBalanced

Contexts == [{"ThumbNav", "LThumbCursor"} -> Nat]

LEMMA ResetIs ==
  ASSUME NEW cs \in Contexts, NEW c \in {"ThumbNav", "LThumbCursor"}, NEW push \in BOOLEAN
  PROVE  /\ Reset(cs, c, push) \in Contexts
         /\ Reset(cs, c, push)[c] = IF push THEN 1 ELSE 0
         /\ \A d \in {"ThumbNav", "LThumbCursor"} \ {c} : Reset(cs, c, push)[d] = cs[d]
  BY DEF Reset, Contexts

\* Whatever the Pipboy shows, a refresh leaves one cursor if it uses one, and
\* the contexts of the device.
LEMMA RefreshBalances ==
  ASSUME contexts \in Contexts, NEW old, cursors = (IF old.usesCursor THEN 1 ELSE 0),
         old \in [usesCursor : BOOLEAN, assignsCursor : BOOLEAN],
         NEW onMap \in BOOLEAN, NEW modal \in BOOLEAN, RefreshCursor(old, onMap, modal)
  PROVE  /\ pipboy' \in [usesCursor : BOOLEAN, assignsCursor : BOOLEAN]
         /\ cursors' \in Nat /\ cursors' = IF pipboy'.usesCursor THEN 1 ELSE 0
         /\ contexts' \in Contexts
         /\ contexts'["LThumbCursor"] <= contexts'["ThumbNav"]
         /\ contexts'["ThumbNav"] = IF pipboy'.assignsCursor THEN 1 ELSE 0
<1> DEFINE gamepad == IsGamepadActiveDevice
           shown == CursorEnabled(onMap, modal)
           first == Reset(contexts, "ThumbNav", gamepad)
<1>1. gamepad \in BOOLEAN /\ shown \in BOOLEAN /\ (gamepad /\ shown) \in BOOLEAN
  BY DEF IsGamepadActiveDevice, CursorEnabled
<1>2. /\ pipboy' = [usesCursor |-> shown, assignsCursor |-> gamepad]
      /\ cursors' = CASE shown /\ ~old.usesCursor -> cursors + 1
                      [] ~shown /\ old.usesCursor -> cursors - 1
                      [] OTHER -> cursors
      /\ contexts' = Reset(first, "LThumbCursor", gamepad /\ shown)
  BY DEF RefreshCursor
<1> HIDE DEF gamepad, shown
<1>3. /\ first \in Contexts
      /\ first["ThumbNav"] = IF gamepad THEN 1 ELSE 0
  BY <1>1, ResetIs
<1> HIDE DEF first
<1>4. /\ contexts' \in Contexts
      /\ contexts'["LThumbCursor"] = IF gamepad /\ shown THEN 1 ELSE 0
      /\ contexts'["ThumbNav"] = first["ThumbNav"]
  BY <1>1, <1>2, <1>3, ResetIs
<1>5. old.usesCursor \in BOOLEAN
  OBVIOUS
<1>6. cursors' = IF shown THEN 1 ELSE 0
  BY <1>1, <1>2, <1>5
<1>7. pipboy'.usesCursor = shown /\ pipboy'.assignsCursor = gamepad
  BY <1>2
<1>8. pipboy' \in [usesCursor : BOOLEAN, assignsCursor : BOOLEAN]
  BY <1>1, <1>2
<1>9. QED
  BY <1>1, <1>3, <1>4, <1>6, <1>7, <1>8

LEMMA SwitchInitIInv == SwitchInit => SwitchIInv
<1> SUFFICES ASSUME SwitchInit PROVE SwitchIInv
  OBVIOUS
<1>1. pipboy \in [usesCursor : BOOLEAN, assignsCursor : BOOLEAN]
  BY DEF SwitchInit, ClosedPipboy
<1>2. contexts \in [{"ThumbNav", "LThumbCursor"} -> Nat]
  BY DEF SwitchInit
<1>3. SwitchTypeOK
  BY <1>1, <1>2 DEF SwitchInit, SwitchTypeOK, Devices
<1>4. SwitchMessagesSent /\ SwitchCodesFollow
  BY DEF SwitchInit, SwitchMessagesSent, SwitchCodesFollow, IsGamepadActiveDevice
<1>5. PipboyBalanced
  BY DEF SwitchInit, PipboyBalanced, ClosedPipboy
<1>6. QED
  BY <1>3, <1>4, <1>5 DEF SwitchIInv

LEMMA SwitchNextIInv == SwitchIInv /\ [SwitchNext]_switchVars => SwitchIInv'
<1> SUFFICES ASSUME SwitchIInv, [SwitchNext]_switchVars PROVE SwitchIInv'
  OBVIOUS
<1> USE DEF SwitchIInv
<1>0. IsGamepadActiveDevice \in BOOLEAN
  BY DEF IsGamepadActiveDevice
<1>1. ASSUME NEW input \in Devices, NEW look \in BOOLEAN, ShouldHandleEvent(input, look)
      PROVE  SwitchIInv'
  <2>1. /\ handler = "idle" /\ ignoreKBM' = FALSE
        /\ UNCHANGED <<openMenus, shownFor, messages, buttonCodes, pipboy, cursors, contexts>>
    BY <1>1 DEF ShouldHandleEvent
  <2>2. \/ device' = input /\ handler' = "notify"
        \/ device' = device /\ handler' = "idle"
    BY <1>1 DEF ShouldHandleEvent
  <2>3. looking' \in Devices
    BY <1>1 DEF ShouldHandleEvent, SwitchTypeOK
  <2>4. SwitchTypeOK'
    BY <2>1, <2>2, <2>3 DEF SwitchTypeOK
  <2>5. (SwitchMessagesSent /\ SwitchCodesFollow)'
    BY <2>1, <2>2 DEF SwitchMessagesSent, SwitchCodesFollow, IsGamepadActiveDevice
  <2>6. PipboyBalanced'
    BY <2>1 DEF PipboyBalanced
  <2>7. QED
    BY <2>4, <2>5, <2>6
<1>2. CASE UpdateControls
  BY <1>2 DEF UpdateControls, SwitchTypeOK, SwitchMessagesSent, SwitchCodesFollow, PipboyBalanced,
              IsGamepadActiveDevice
<1>3. CASE UpdateButtonCodes
  BY <1>3 DEF UpdateButtonCodes, SwitchTypeOK, SwitchMessagesSent, SwitchCodesFollow, PipboyBalanced,
              IsGamepadActiveDevice
<1>4. ASSUME NEW m \in Menus, OpenMenu(m) PROVE SwitchIInv'
  <2>1. /\ m \notin openMenus /\ openMenus' = openMenus \cup {m}
        /\ shownFor' = [shownFor EXCEPT ![m] = IsGamepadActiveDevice]
        /\ UNCHANGED <<device, looking, handler, messages, buttonCodes, ignoreKBM>>
    BY <1>4 DEF OpenMenu
  <2>2. shownFor' \in [Menus -> BOOLEAN] /\ openMenus' \subseteq Menus
    BY <1>0, <2>1 DEF SwitchTypeOK
  <2>3. (SwitchMessagesSent /\ SwitchCodesFollow)'
    BY <2>1 DEF SwitchTypeOK, SwitchMessagesSent, SwitchCodesFollow, IsGamepadActiveDevice
  <2>4. CASE m = Pipboy
    <3>1. RefreshCursor(ClosedPipboy, FALSE, FALSE)
      BY <1>4, <2>4 DEF OpenMenu
    <3>2. ClosedPipboy.usesCursor = FALSE /\ ClosedPipboy \in [usesCursor : BOOLEAN, assignsCursor : BOOLEAN]
      BY DEF ClosedPipboy
    <3>3. cursors = 0 /\ contexts \in Contexts
      BY <2>1, <2>4 DEF PipboyBalanced, SwitchTypeOK, Contexts
    <3>4. /\ pipboy' \in [usesCursor : BOOLEAN, assignsCursor : BOOLEAN]
          /\ cursors' \in Nat /\ cursors' = IF pipboy'.usesCursor THEN 1 ELSE 0
          /\ contexts' \in Contexts
          /\ contexts'["LThumbCursor"] <= contexts'["ThumbNav"]
          /\ contexts'["ThumbNav"] = IF pipboy'.assignsCursor THEN 1 ELSE 0
      BY <3>1, <3>2, <3>3, RefreshBalances
    <3>5. Pipboy \in openMenus'
      BY <2>1, <2>4
    <3>6. PipboyBalanced' /\ SwitchTypeOK'
      BY <2>1, <2>2, <3>4, <3>5 DEF PipboyBalanced, SwitchTypeOK, Contexts
    <3>7. QED
      BY <2>3, <3>6
  <2>5. CASE m # Pipboy
    <3>1. UNCHANGED <<pipboy, cursors, contexts>>
      BY <1>4, <2>5 DEF OpenMenu
    <3>2. PipboyBalanced' /\ SwitchTypeOK'
      BY <2>1, <2>2, <2>5, <3>1 DEF PipboyBalanced, SwitchTypeOK
    <3>3. QED
      BY <2>3, <3>2
  <2>6. QED
    BY <2>4, <2>5
<1>5. ASSUME NEW m \in Menus, CloseMenu(m) PROVE SwitchIInv'
  <2>1. /\ m \in openMenus /\ openMenus' = openMenus \ {m}
        /\ UNCHANGED <<device, looking, handler, shownFor, messages, buttonCodes, ignoreKBM>>
    BY <1>5 DEF CloseMenu
  <2>2. (SwitchMessagesSent /\ SwitchCodesFollow)'
    BY <2>1 DEF SwitchMessagesSent, SwitchCodesFollow, IsGamepadActiveDevice
  <2>3. CASE m = Pipboy
    <3> DEFINE first == Reset(contexts, "LThumbCursor", FALSE)
    <3>1. /\ contexts' = Reset(first, "ThumbNav", FALSE)
          /\ cursors' = IF pipboy.usesCursor THEN cursors - 1 ELSE cursors
          /\ pipboy' = ClosedPipboy
      BY <1>5, <2>3 DEF CloseMenu
    <3>2. contexts \in Contexts
      BY DEF SwitchTypeOK, Contexts
    <3>3. first \in Contexts /\ first["LThumbCursor"] = 0
      BY <3>2, ResetIs
    <3> HIDE DEF first
    <3>4. contexts' \in Contexts /\ contexts'["LThumbCursor"] = 0 /\ contexts'["ThumbNav"] = 0
      BY <3>1, <3>3, ResetIs
    <3>5. cursors' = 0
      BY <3>1 DEF PipboyBalanced, SwitchTypeOK
    <3>6. /\ pipboy' \in [usesCursor : BOOLEAN, assignsCursor : BOOLEAN]
          /\ pipboy'.usesCursor = FALSE /\ pipboy'.assignsCursor = FALSE
      BY <3>1 DEF ClosedPipboy
    <3>7. PipboyBalanced' /\ SwitchTypeOK'
      BY <2>1, <3>4, <3>5, <3>6 DEF PipboyBalanced, SwitchTypeOK, Contexts
    <3>8. QED
      BY <2>2, <3>7
  <2>4. CASE m # Pipboy
    <3>1. UNCHANGED <<pipboy, cursors, contexts>>
      BY <1>5, <2>4 DEF CloseMenu
    <3>2. PipboyBalanced' /\ SwitchTypeOK'
      BY <2>1, <2>4, <3>1 DEF PipboyBalanced, SwitchTypeOK
    <3>3. QED
      BY <2>2, <3>2
  <2>5. QED
    BY <2>3, <2>4
<1>6. ASSUME NEW onMap \in BOOLEAN, NEW modal \in BOOLEAN,
             Pipboy \in openMenus, RefreshCursor(pipboy, onMap, modal)
      PROVE  /\ pipboy' \in [usesCursor : BOOLEAN, assignsCursor : BOOLEAN]
             /\ cursors' \in Nat /\ contexts' \in Contexts
             /\ openMenus' = openMenus => PipboyBalanced'
  <2>1. contexts \in Contexts /\ pipboy \in [usesCursor : BOOLEAN, assignsCursor : BOOLEAN]
    BY DEF SwitchTypeOK, Contexts
  <2>2. cursors = IF pipboy.usesCursor THEN 1 ELSE 0
    BY DEF PipboyBalanced
  <2>3. /\ pipboy' \in [usesCursor : BOOLEAN, assignsCursor : BOOLEAN]
        /\ cursors' \in Nat /\ cursors' = IF pipboy'.usesCursor THEN 1 ELSE 0
        /\ contexts' \in Contexts
        /\ contexts'["LThumbCursor"] <= contexts'["ThumbNav"]
        /\ contexts'["ThumbNav"] = IF pipboy'.assignsCursor THEN 1 ELSE 0
    BY <1>6, <2>1, <2>2, RefreshBalances
  <2>4. QED
    BY <1>6, <2>3 DEF PipboyBalanced
<1>7. ASSUME NEW onMap \in BOOLEAN, NEW modal \in BOOLEAN, PipboyRefreshes(onMap, modal)
      PROVE  SwitchIInv'
  <2>1. UNCHANGED <<device, looking, handler, openMenus, shownFor, messages, buttonCodes, ignoreKBM>>
    BY <1>7 DEF PipboyRefreshes
  <2>2. (SwitchMessagesSent /\ SwitchCodesFollow)'
    BY <2>1 DEF SwitchMessagesSent, SwitchCodesFollow, IsGamepadActiveDevice
  <2>3. /\ pipboy' \in [usesCursor : BOOLEAN, assignsCursor : BOOLEAN]
        /\ cursors' \in Nat /\ contexts' \in Contexts /\ PipboyBalanced'
    BY <1>6, <1>7, <2>1 DEF PipboyRefreshes
  <2>4. SwitchTypeOK'
    BY <2>1, <2>3 DEF SwitchTypeOK, Contexts
  <2>5. QED
    BY <2>2, <2>3, <2>4
<1>8. ASSUME NEW onMap \in BOOLEAN, NEW modal \in BOOLEAN, NEW m \in Menus, HandleMessage(m, onMap, modal)
      PROVE  SwitchIInv'
  <2>1. /\ m \in messages /\ messages' = messages \ {m}
        /\ UNCHANGED <<device, looking, handler, openMenus, buttonCodes, ignoreKBM>>
    BY <1>8 DEF HandleMessage
  <2>2. CASE m \in openMenus
    <3>1. shownFor' = [shownFor EXCEPT ![m] = IsGamepadActiveDevice]
      BY <1>8, <2>2 DEF HandleMessage
    <3>2. shownFor' \in [Menus -> BOOLEAN]
      BY <1>0, <3>1 DEF SwitchTypeOK
    <3>3. (SwitchMessagesSent /\ SwitchCodesFollow)'
      BY <2>1, <3>1 DEF SwitchTypeOK, SwitchMessagesSent, SwitchCodesFollow, IsGamepadActiveDevice
    <3>4. /\ pipboy' \in [usesCursor : BOOLEAN, assignsCursor : BOOLEAN]
          /\ cursors' \in Nat /\ contexts' \in Contexts /\ PipboyBalanced'
      <4>1. CASE m = Pipboy
        <5>1. RefreshCursor(pipboy, onMap, modal) /\ Pipboy \in openMenus
          BY <1>8, <2>2, <4>1 DEF HandleMessage
        <5>2. QED
          BY <1>6, <2>1, <5>1
      <4>2. CASE m # Pipboy
        <5>1. UNCHANGED <<pipboy, cursors, contexts>>
          BY <1>8, <2>2, <4>2 DEF HandleMessage
        <5>2. QED
          BY <2>1, <5>1 DEF PipboyBalanced, SwitchTypeOK, Contexts
      <4>3. QED
        BY <4>1, <4>2
    <3>5. SwitchTypeOK'
      BY <2>1, <3>2, <3>4 DEF SwitchTypeOK, Contexts
    <3>6. QED
      BY <3>3, <3>4, <3>5
  <2>3. CASE m \notin openMenus
    <3>1. UNCHANGED <<shownFor, pipboy, cursors, contexts>>
      BY <1>8, <2>3 DEF HandleMessage
    <3>2. (SwitchMessagesSent /\ SwitchCodesFollow)'
      BY <2>1, <2>3, <3>1 DEF SwitchMessagesSent, SwitchCodesFollow, IsGamepadActiveDevice
    <3>3. PipboyBalanced' /\ SwitchTypeOK'
      BY <2>1, <3>1 DEF PipboyBalanced, SwitchTypeOK
    <3>4. QED
      BY <3>2, <3>3
  <2>4. QED
    BY <2>2, <2>3
<1>9. CASE UNCHANGED switchVars
  BY <1>9 DEF switchVars, SwitchTypeOK, SwitchMessagesSent, SwitchCodesFollow, PipboyBalanced,
              IsGamepadActiveDevice
<1>10. QED
  BY <1>1, <1>2, <1>3, <1>4, <1>5, <1>7, <1>8, <1>9 DEF SwitchNext

\* Every variable of the input switch keeps its type.
THEOREM SwitchTypeCorrect == SwitchSpec => []SwitchTypeOK
<1>1. SwitchIInv => SwitchTypeOK
  BY DEF SwitchIInv
<1>2. QED
  BY <1>1, SwitchInitIInv, SwitchNextIInv, PTL DEF SwitchSpec

\* The open menus end up with the device of the last input, and the Pipboy's
\* cursor and contexts balance, in any order of input, openings, refreshes,
\* closings and messages (UpdateControls, RefreshCursor, PipboyMenuPreDtor).
THEOREM MenusAgreeWithDeviceHolds == SwitchSpec => []MenusAgreeWithDevice
<1>1. SwitchIInv => MenusAgreeWithDevice
  BY DEF SwitchIInv, SwitchMessagesSent, SwitchCodesFollow, MenusAgreeWithDevice, MenusFollowDevice
<1>2. QED
  BY <1>1, SwitchInitIInv, SwitchNextIInv, PTL DEF SwitchSpec

-----------------------------------------------------------------------------
(* The symbols of a PDB *)

PdbCallType == [pc : PdbPcs, paths : 0..2, session : 0..4]

PdbTypes ==
    /\ PdbTypeOK
    /\ pdbCall \in [PdbThreads -> PdbCallType]
    /\ comInits \in [PdbThreads -> Nat] /\ pdbThrew \in [PdbThreads -> Nat]

\* The places between CoInitializeEx and CoUninitialize.
PdbInitialised == {"create", "convert", "check", "load", "session", "public", "private", "uninit"}

\* A thread's count is what its exceptions left behind, and its own call's.
PdbBalance ==
    \A t \in PdbThreads :
        comInits[t] = pdbThrew[t] + (IF pdbCall[t].pc \in PdbInitialised THEN 1 ELSE 0)

PdbMutexHeld ==
    \A t \in PdbThreads : pdbSync = t <=> pdbCall[t].pc \notin {"idle", "lock"}

\* A path or an interface is left to try.
PdbLeft ==
    \A t \in PdbThreads :
        /\ pdbCall[t].pc = "load" => pdbCall[t].paths >= 1
        /\ pdbCall[t].pc = "session" => pdbCall[t].session <= 3
        /\ pdbCall[t].pc \in {"idle", "lock", "init", "create", "convert", "check", "load"} =>
             pdbCall[t].session = 0

PdbIInv == PdbTypes /\ PdbBalance /\ PdbMutexHeld /\ PdbLeft

LEMMA PdbInitIInv == PdbInit => PdbIInv
<1> SUFFICES ASSUME PdbInit PROVE PdbIInv
  OBVIOUS
<1>1. NoCall \in PdbCallType /\ NoCall.pc = "idle" /\ NoCall.session = 0
  BY DEF NoCall, PdbCallType, PdbPcs
<1>2. pdbCall \in [PdbThreads -> PdbCallType]
  BY <1>1 DEF PdbInit
<1>3. PdbTypes
  <2>1. comInits \in [PdbThreads -> Nat] /\ pdbThrew \in [PdbThreads -> Nat]
    BY DEF PdbInit
  <2>2. pdbCalls \in 0..MaxPdbCalls
    BY PdbAssumption DEF PdbInit
  <2>3. \A t \in PdbThreads : /\ pdbCall[t].pc \in PdbPcs /\ pdbCall[t].session \in 0..4
                             /\ comInits[t] \in Nat /\ pdbThrew[t] \in Nat
    BY <1>1, <2>1 DEF PdbInit, PdbPcs
  <2>4. PdbTypeOK
    BY <2>2, <2>3 DEF PdbInit, PdbTypeOK
  <2>5. QED
    BY <1>2, <2>1, <2>4 DEF PdbTypes
<1>4. PdbBalance /\ PdbLeft
  BY <1>1 DEF PdbInit, PdbBalance, PdbInitialised, PdbLeft
<1>5. PdbMutexHeld
  BY <1>1, PdbAssumption DEF PdbInit, PdbMutexHeld
<1>6. QED
  BY <1>3, <1>4, <1>5 DEF PdbIInv

LEMMA PdbFields ==
  ASSUME NEW c \in PdbCallType
  PROVE  /\ c.pc \in PdbPcs
         /\ c.paths \in 0..2 /\ c.session \in 0..4
         /\ \A pc \in PdbPcs : [c EXCEPT !.pc = pc] \in PdbCallType
  BY DEF PdbCallType

\* A step of one thread's call: what the invariant asks of its new record.
LEMMA PdbCallStep ==
  ASSUME PdbIInv, NEW t \in PdbThreads, NEW c \in PdbCallType,
         pdbCall' = [pdbCall EXCEPT ![t] = c],
         comInits' \in [PdbThreads -> Nat], pdbThrew' \in [PdbThreads -> Nat],
         \A u \in PdbThreads \ {t} : comInits'[u] = comInits[u] /\ pdbThrew'[u] = pdbThrew[u],
         comInits'[t] = pdbThrew'[t] + (IF c.pc \in PdbInitialised THEN 1 ELSE 0),
         c.pc = "load" => c.paths >= 1,
         c.pc = "session" => c.session <= 3,
         c.pc \in {"idle", "lock", "init", "create", "convert", "check", "load"} => c.session = 0,
         \/ pdbSync' = pdbSync /\ (c.pc \in {"idle", "lock"} <=> pdbCall[t].pc \in {"idle", "lock"})
         \/ pdbSync = "free" /\ pdbSync' = t /\ c.pc \notin {"idle", "lock"}
         \/ pdbSync = t /\ pdbSync' = "free" /\ c.pc \in {"idle", "lock"},
         symcacheChecked' \in BOOLEAN, symcacheValid' \in BOOLEAN, pdbCalls' \in 0..MaxPdbCalls
  PROVE  PdbIInv'
<1>0. pdbCall \in [PdbThreads -> PdbCallType] /\ "free" \notin PdbThreads
  BY PdbAssumption DEF PdbIInv, PdbTypes
<1>1. /\ pdbCall' \in [PdbThreads -> PdbCallType]
      /\ pdbCall'[t] = c /\ \A u \in PdbThreads \ {t} : pdbCall'[u] = pdbCall[u]
  BY <1>0
<1>2. PdbTypeOK'
  <2>1. pdbSync' \in PdbThreads \cup {"free"}
    BY DEF PdbIInv, PdbTypes, PdbTypeOK
  <2>2. ASSUME NEW u \in PdbThreads
        PROVE  /\ pdbCall'[u].pc \in PdbPcs /\ pdbCall'[u].session \in 0..4
               /\ comInits'[u] \in Nat /\ pdbThrew'[u] \in Nat
    <3>1. pdbCall'[u] \in PdbCallType
      BY <1>1
    <3>2. QED
      BY <3>1, PdbFields
  <2>3. QED
    BY <2>1, <2>2 DEF PdbTypeOK
<1>3. PdbTypes'
  BY <1>1, <1>2 DEF PdbTypes
<1>4. PdbBalance'
  BY <1>1 DEF PdbIInv, PdbBalance
<1>5. PdbMutexHeld'
  <2>1. SUFFICES ASSUME NEW u \in PdbThreads
                 PROVE  pdbSync' = u <=> pdbCall'[u].pc \notin {"idle", "lock"}
    BY DEF PdbMutexHeld
  <2>2. \A v \in PdbThreads : pdbSync = v <=> pdbCall[v].pc \notin {"idle", "lock"}
    BY DEF PdbIInv, PdbMutexHeld
  <2>3. \/ pdbSync' = pdbSync /\ (c.pc \in {"idle", "lock"} <=> pdbCall[t].pc \in {"idle", "lock"})
        \/ pdbSync = "free" /\ pdbSync' = t /\ c.pc \notin {"idle", "lock"}
        \/ pdbSync = t /\ pdbSync' = "free" /\ c.pc \in {"idle", "lock"}
    OBVIOUS
  <2>4. u # "free" /\ t # "free"
    BY <1>0
  <2>5. CASE u = t
    <3>1. pdbCall'[u].pc = c.pc
      BY <1>1, <2>5
    <3>2. pdbSync = t <=> pdbCall[t].pc \notin {"idle", "lock"}
      BY <2>2
    <3>3. QED
      BY ONLY <2>3, <2>4, <2>5, <3>1, <3>2
  <2>6. CASE u # t
    <3>1. pdbCall'[u].pc = pdbCall[u].pc
      BY <1>1, <2>6
    <3>2. pdbSync = u <=> pdbCall[u].pc \notin {"idle", "lock"}
      BY <2>2
    <3>3. QED
      BY ONLY <2>3, <2>4, <2>6, <3>1, <3>2
  <2>7. QED
    BY <2>5, <2>6
<1>6. PdbLeft'
  BY <1>1 DEF PdbIInv, PdbLeft
<1>7. QED
  BY <1>3, <1>4, <1>5, <1>6 DEF PdbIInv

\* A step that only moves a thread on.
LEMMA PdbGoIs ==
  ASSUME PdbIInv, NEW t \in PdbThreads, NEW pc \in PdbPcs, PdbGo(t, pc)
  PROVE  /\ [pdbCall[t] EXCEPT !.pc = pc] \in PdbCallType
         /\ [pdbCall[t] EXCEPT !.pc = pc].pc = pc
         /\ [pdbCall[t] EXCEPT !.pc = pc].paths = pdbCall[t].paths
         /\ [pdbCall[t] EXCEPT !.pc = pc].session = pdbCall[t].session
         /\ pdbCall' = [pdbCall EXCEPT ![t] = [pdbCall[t] EXCEPT !.pc = pc]]
<1>1. pdbCall \in [PdbThreads -> PdbCallType] /\ pdbCall[t] \in PdbCallType
  BY DEF PdbIInv, PdbTypes
<1>2. [pdbCall[t] EXCEPT !.pc = pc] \in PdbCallType
  BY <1>1, PdbFields
<1>3. /\ [pdbCall[t] EXCEPT !.pc = pc].pc = pc
      /\ [pdbCall[t] EXCEPT !.pc = pc].paths = pdbCall[t].paths
      /\ [pdbCall[t] EXCEPT !.pc = pc].session = pdbCall[t].session
  BY <1>1 DEF PdbCallType
<1>4. pdbCall' = [pdbCall EXCEPT ![t] = [pdbCall[t] EXCEPT !.pc = pc]]
  BY DEF PdbGo
<1>5. QED
  BY <1>2, <1>3, <1>4

\* Such a step within a call, which leaves the counts alone.
LEMMA PdbGoStep ==
  ASSUME PdbIInv, NEW t \in PdbThreads, NEW pc \in PdbPcs, PdbGo(t, pc),
         UNCHANGED <<pdbEnv, symcacheChecked, symcacheValid, pdbSync, comInits, pdbThrew, pdbCalls>>,
         pc \in PdbInitialised <=> pdbCall[t].pc \in PdbInitialised,
         pc \notin {"idle", "lock", "load"}, pdbCall[t].pc \notin {"idle", "lock"},
         pc \in {"session", "init", "create", "convert", "check"} => pdbCall[t].session = 0
  PROVE  PdbIInv'
<1> DEFINE c == [pdbCall[t] EXCEPT !.pc = pc]
<1>1. /\ c \in PdbCallType /\ c.pc = pc /\ c.session = pdbCall[t].session
      /\ pdbCall' = [pdbCall EXCEPT ![t] = c]
  BY PdbGoIs
<1> HIDE DEF c
<1>2. comInits' \in [PdbThreads -> Nat] /\ pdbThrew' \in [PdbThreads -> Nat]
  BY DEF PdbIInv, PdbTypes
<1>3. comInits'[t] = pdbThrew'[t] + (IF c.pc \in PdbInitialised THEN 1 ELSE 0)
  BY <1>1 DEF PdbIInv, PdbBalance
<1>4. symcacheChecked' \in BOOLEAN /\ symcacheValid' \in BOOLEAN /\ pdbCalls' \in 0..MaxPdbCalls
  BY DEF PdbIInv, PdbTypes, PdbTypeOK
<1>5. /\ c.pc = "load" => c.paths >= 1
      /\ c.pc = "session" => c.session <= 3
      /\ c.pc \in {"idle", "lock", "init", "create", "convert", "check", "load"} => c.session = 0
  <2>1. c.pc # "load" /\ c.pc # "idle" /\ c.pc # "lock"
    BY <1>1
  <2>2. c.pc \in {"session", "init", "create", "convert", "check"} => c.session = 0
    BY <1>1
  <2>3. c.pc = "session" => c.session = 0
    BY <2>2
  <2>4. 0 <= 3
    OBVIOUS
  <2>5. QED
    BY <2>1, <2>2, <2>3, <2>4
<1>6. pdbSync' = pdbSync /\ (c.pc \in {"idle", "lock"} <=> pdbCall[t].pc \in {"idle", "lock"})
  BY <1>1
<1>7. QED
  BY <1>1, <1>2, <1>3, <1>4, <1>5, <1>6, PdbCallStep

LEMMA PdbNextIInv == PdbIInv /\ [PdbNext]_pdbVars => PdbIInv'
<1> SUFFICES ASSUME PdbIInv, [PdbNext]_pdbVars PROVE PdbIInv'
  OBVIOUS
<1>0. /\ pdbCall \in [PdbThreads -> PdbCallType] /\ comInits \in [PdbThreads -> Nat]
      /\ pdbThrew \in [PdbThreads -> Nat] /\ symcacheChecked \in BOOLEAN /\ symcacheValid \in BOOLEAN
      /\ pdbCalls \in 0..MaxPdbCalls
      /\ MaxPdbCalls \in Nat /\ "free" \notin PdbThreads
  BY PdbAssumption DEF PdbIInv, PdbTypes, PdbTypeOK
<1>a. /\ NoCall \in PdbCallType /\ NoCall.pc = "idle" /\ NoCall.session = 0
      /\ NoCall.pc \notin PdbInitialised
  BY DEF NoCall, PdbCallType, PdbPcs, PdbInitialised
<1>b. {"lock", "init", "create", "convert", "check", "load", "session", "public",
       "private", "uninit", "release"} \subseteq PdbPcs
  BY DEF PdbPcs
<1> SUFFICES ASSUME PdbNext PROVE PdbIInv'
  <2>1. CASE UNCHANGED pdbVars
    BY <2>1 DEF pdbVars, PdbIInv, PdbTypes, PdbTypeOK, PdbBalance, PdbMutexHeld, PdbLeft
  <2>2. QED
    BY <2>1
<1> PICK t \in PdbThreads :
      \/ CallPdbDetails(t) \/ LockSymbols(t) \/ InitializeCom(t) \/ CreateSource(t)
      \/ ConvertPath(t) \/ Throw(t) \/ CheckSymcache(t) \/ LoadPdb(t) \/ OpenSession(t)
      \/ FindSymbol(t) \/ UninitializeCom(t) \/ ReturnPdbDetails(t)
  BY DEF PdbNext
<1> DEFINE old == pdbCall[t]
<1>c. /\ old \in PdbCallType
      /\ old.pc \in PdbPcs /\ old.paths \in 0..2 /\ old.session \in 0..4
      /\ comInits[t] = pdbThrew[t] + (IF old.pc \in PdbInitialised THEN 1 ELSE 0)
      /\ old.pc = "load" => old.paths >= 1
      /\ old.pc = "session" => old.session <= 3
      /\ old.pc \in {"idle", "lock", "init", "create", "convert", "check", "load"} => old.session = 0
      /\ pdbSync = t <=> old.pc \notin {"idle", "lock"}
  <2>1. old \in PdbCallType
    BY <1>0
  <2>2. old.pc \in PdbPcs /\ old.paths \in 0..2 /\ old.session \in 0..4
    BY <2>1, PdbFields
  <2>3. QED
    BY <2>1, <2>2 DEF PdbIInv, PdbBalance, PdbLeft, PdbMutexHeld
<1>1. CASE CallPdbDetails(t)
  <2> DEFINE c == [old EXCEPT !.pc = "lock"]
  <2>1. /\ old.pc = "idle" /\ pdbCalls < MaxPdbCalls /\ pdbCalls' = pdbCalls + 1 /\ PdbGo(t, "lock")
        /\ UNCHANGED <<pdbEnv, symcacheChecked, symcacheValid, pdbSync, comInits, pdbThrew>>
    BY <1>1 DEF CallPdbDetails, PdbAt
  <2>2. /\ c \in PdbCallType /\ c.pc = "lock" /\ c.session = old.session
        /\ pdbCall' = [pdbCall EXCEPT ![t] = c]
    BY <1>b, <2>1, PdbGoIs
  <2> HIDE DEF c
  <2>3. comInits'[t] = pdbThrew'[t] + (IF c.pc \in PdbInitialised THEN 1 ELSE 0)
    BY <1>c, <2>1, <2>2 DEF PdbInitialised
  <2>4. pdbCalls' \in 0..MaxPdbCalls
    BY <1>0, <2>1
  <2>5. c.session = 0
    BY <1>c, <2>1, <2>2
  <2>6. QED
    BY <1>0, <2>1, <2>2, <2>3, <2>4, <2>5, PdbCallStep
<1>2. CASE LockSymbols(t)
  <2> DEFINE c == [old EXCEPT !.pc = "init"]
  <2>1. /\ old.pc = "lock" /\ pdbSync = "free" /\ pdbSync' = t /\ PdbGo(t, "init")
        /\ UNCHANGED <<pdbEnv, symcacheChecked, symcacheValid, comInits, pdbThrew, pdbCalls>>
    BY <1>2 DEF LockSymbols, PdbAt
  <2>2. /\ c \in PdbCallType /\ c.pc = "init" /\ c.session = old.session
        /\ pdbCall' = [pdbCall EXCEPT ![t] = c]
    BY <1>b, <2>1, PdbGoIs
  <2> HIDE DEF c
  <2>3. comInits'[t] = pdbThrew'[t] + (IF c.pc \in PdbInitialised THEN 1 ELSE 0)
    BY <1>c, <2>1, <2>2 DEF PdbInitialised
  <2>4. c.session = 0
    BY <1>c, <2>1, <2>2
  <2>5. QED
    BY <1>0, <2>1, <2>2, <2>3, <2>4, PdbCallStep
<1>3. CASE InitializeCom(t)
  <2>1. /\ old.pc = "init"
        /\ UNCHANGED <<pdbEnv, symcacheChecked, symcacheValid, pdbSync, pdbThrew, pdbCalls>>
    BY <1>3 DEF InitializeCom, PdbAt
  <2>2. CASE PdbGo(t, "release") /\ UNCHANGED comInits
    BY <1>0, <1>b, <1>c, <2>1, <2>2, PdbGoStep DEF PdbInitialised
  <2>3. CASE PdbGo(t, "create") /\ comInits' = [comInits EXCEPT ![t] = @ + 1]
    <3> DEFINE c == [old EXCEPT !.pc = "create"]
    <3>1. /\ c \in PdbCallType /\ c.pc = "create" /\ c.session = old.session
          /\ pdbCall' = [pdbCall EXCEPT ![t] = c]
      BY <1>b, <2>3, PdbGoIs
    <3> HIDE DEF c
    <3>2. /\ comInits' \in [PdbThreads -> Nat] /\ comInits'[t] = comInits[t] + 1
          /\ \A u \in PdbThreads \ {t} : comInits'[u] = comInits[u] /\ pdbThrew'[u] = pdbThrew[u]
      BY <1>0, <2>1, <2>3
    <3>3. comInits[t] = pdbThrew[t] + 0
      BY <1>c, <2>1 DEF PdbInitialised
    <3>4. comInits'[t] = pdbThrew'[t] + (IF c.pc \in PdbInitialised THEN 1 ELSE 0)
      BY <1>0, <2>1, <3>1, <3>2, <3>3 DEF PdbInitialised
    <3>5. c.session = 0
      BY <1>c, <2>1, <3>1
    <3>6. pdbThrew' \in [PdbThreads -> Nat]
      BY <1>0, <2>1
    <3>7. QED
      BY <1>0, <2>1, <3>1, <3>2, <3>4, <3>5, <3>6, PdbCallStep
  <2>4. QED
    BY <1>3, <2>2, <2>3 DEF InitializeCom
<1>4. CASE CreateSource(t)
  <2>1. /\ old.pc = "create"
        /\ UNCHANGED <<pdbEnv, symcacheChecked, symcacheValid, pdbSync, comInits, pdbThrew, pdbCalls>>
    BY <1>4 DEF CreateSource, PdbAt
  <2>2. CASE PdbGo(t, "convert")
    BY <1>0, <1>b, <1>c, <2>1, <2>2, PdbGoStep DEF PdbInitialised
  <2>3. CASE PdbGo(t, "uninit")
    BY <1>0, <1>b, <1>c, <2>1, <2>3, PdbGoStep DEF PdbInitialised
  <2>4. QED
    BY <1>4, <2>2, <2>3 DEF CreateSource
<1>5. CASE ConvertPath(t)
  <2>1. /\ old.pc = "convert" /\ PdbGo(t, "check")
        /\ UNCHANGED <<pdbEnv, symcacheChecked, symcacheValid, pdbSync, comInits, pdbThrew, pdbCalls>>
    BY <1>5 DEF ConvertPath, PdbAt
  <2>2. QED
    BY <1>0, <1>b, <1>c, <2>1, PdbGoStep DEF PdbInitialised
<1>6. CASE Throw(t)
  <2>1. /\ old.pc \in {"init", "convert", "check", "load", "public", "private"}
        /\ pdbCall' = [pdbCall EXCEPT ![t] = NoCall] /\ pdbSync' = "free"
        /\ pdbThrew' = IF old.pc = "init" THEN pdbThrew ELSE [pdbThrew EXCEPT ![t] = @ + 1]
        /\ UNCHANGED <<pdbEnv, symcacheChecked, symcacheValid, comInits, pdbCalls>>
    BY <1>6 DEF Throw, PdbAt
  <2>2. /\ pdbThrew' \in [PdbThreads -> Nat]
        /\ pdbThrew'[t] = pdbThrew[t] + (IF old.pc = "init" THEN 0 ELSE 1)
        /\ \A u \in PdbThreads \ {t} : comInits'[u] = comInits[u] /\ pdbThrew'[u] = pdbThrew[u]
    <3>1. CASE old.pc = "init"
      BY <1>0, <2>1, <3>1
    <3>2. CASE old.pc # "init"
      BY <1>0, <2>1, <3>2
    <3>3. QED
      BY <3>1, <3>2
  <2>3. comInits[t] = pdbThrew[t] + (IF old.pc = "init" THEN 0 ELSE 1) /\ pdbSync = t
    BY <1>c, <2>1 DEF PdbInitialised
  <2>4. comInits'[t] = pdbThrew'[t] + (IF NoCall.pc \in PdbInitialised THEN 1 ELSE 0)
    BY <1>0, <1>a, <2>1, <2>2, <2>3
  <2>5. comInits' \in [PdbThreads -> Nat]
    BY <1>0, <2>1
  <2>6. QED
    BY <1>0, <1>a, <2>1, <2>2, <2>3, <2>4, <2>5, PdbCallStep
<1>7. CASE CheckSymcache(t)
  <2> DEFINE n == IF symcacheValid' THEN 2 ELSE 1
             c == [old EXCEPT !.paths = n, !.pc = "load"]
  <2>1. /\ old.pc = "check" /\ symcacheChecked' = TRUE
        /\ symcacheValid' = (symcacheValid \/ (~symcacheChecked /\ pdbEnv.symcache = "directory"))
        /\ pdbCall' = [pdbCall EXCEPT ![t].paths = IF symcacheValid' THEN 2 ELSE 1, ![t].pc = "load"]
        /\ UNCHANGED <<pdbEnv, pdbSync, comInits, pdbThrew, pdbCalls>>
    BY <1>7 DEF CheckSymcache, PdbAt
  <2>2. symcacheValid' \in BOOLEAN /\ symcacheChecked' \in BOOLEAN
    BY <1>0, <2>1
  <2>3. pdbCall' = [pdbCall EXCEPT ![t] = c]
    BY <1>0, <2>1
  <2>4. c \in PdbCallType /\ c.pc = "load" /\ c.session = old.session /\ c.paths >= 1
    <3>1. n \in 0..2 /\ n >= 1
      OBVIOUS
    <3> HIDE DEF n
    <3>2. c \in PdbCallType /\ c.pc = "load" /\ c.session = old.session /\ c.paths = n
      BY <1>b, <1>c, <3>1 DEF PdbCallType
    <3>3. QED
      BY <3>1, <3>2
  <2> HIDE DEF c
  <2>5. comInits'[t] = pdbThrew'[t] + (IF c.pc \in PdbInitialised THEN 1 ELSE 0)
    BY <1>c, <2>1, <2>4 DEF PdbInitialised
  <2>6. c.session = 0
    BY <1>c, <2>1, <2>4
  <2>7. QED
    BY <1>0, <2>1, <2>2, <2>3, <2>4, <2>5, <2>6, PdbCallStep
<1>8. CASE LoadPdb(t)
  <2>1. /\ old.pc = "load"
        /\ UNCHANGED <<pdbEnv, symcacheChecked, symcacheValid, pdbSync, comInits, pdbThrew, pdbCalls>>
    BY <1>8 DEF LoadPdb, PdbAt
  <2>2. CASE PdbGo(t, "session")
    BY <1>0, <1>b, <1>c, <2>1, <2>2, PdbGoStep DEF PdbInitialised
  <2>3. CASE pdbCall' = [pdbCall EXCEPT ![t].paths = @ - 1,
                                       ![t].pc = IF pdbCall[t].paths = 1 THEN "uninit" ELSE "load"]
    <3> DEFINE c == [old EXCEPT !.paths = @ - 1, !.pc = IF old.paths = 1 THEN "uninit" ELSE "load"]
    <3>1. pdbCall' = [pdbCall EXCEPT ![t] = c]
      BY <1>0, <2>3
    <3>2. old.paths - 1 \in 0..2 /\ (old.paths # 1 => old.paths - 1 >= 1)
      BY <1>c, <2>1
    <3>3. /\ c \in PdbCallType /\ c.pc = (IF old.paths = 1 THEN "uninit" ELSE "load")
          /\ c.session = old.session /\ c.paths = old.paths - 1
      BY <1>b, <1>c, <3>2 DEF PdbCallType
    <3> HIDE DEF c
    <3>4. comInits'[t] = pdbThrew'[t] + (IF c.pc \in PdbInitialised THEN 1 ELSE 0)
      BY <1>c, <2>1, <3>3 DEF PdbInitialised
    <3>5. c.session = 0 /\ c.pc # "session" /\ (c.pc = "load" => c.paths >= 1)
      BY <1>c, <2>1, <3>2, <3>3
    <3>6. c.pc \notin {"idle", "lock"} /\ old.pc \notin {"idle", "lock"}
      BY <2>1, <3>3
    <3>7. QED
      BY <1>0, <2>1, <3>1, <3>3, <3>4, <3>5, <3>6, PdbCallStep
  <2>4. QED
    BY <1>8, <2>2, <2>3 DEF LoadPdb
<1>9. CASE OpenSession(t)
  <2>1. /\ old.pc = "session"
        /\ UNCHANGED <<pdbEnv, symcacheChecked, symcacheValid, pdbSync, comInits, pdbThrew, pdbCalls>>
    BY <1>9 DEF OpenSession, PdbAt
  <2>2. CASE pdbCall' = [pdbCall EXCEPT ![t].session = @ + 1,
                                       ![t].pc = IF pdbCall[t].session = 3 THEN "public" ELSE "session"]
    <3> DEFINE c == [old EXCEPT !.session = @ + 1, !.pc = IF old.session = 3 THEN "public" ELSE "session"]
    <3>1. pdbCall' = [pdbCall EXCEPT ![t] = c]
      BY <1>0, <2>2
    <3>2. old.session + 1 \in 0..4 /\ (old.session # 3 => old.session + 1 <= 3)
      BY <1>c, <2>1
    <3>3. /\ c \in PdbCallType /\ c.pc = (IF old.session = 3 THEN "public" ELSE "session")
          /\ c.session = old.session + 1
      BY <1>b, <1>c, <3>2 DEF PdbCallType
    <3> HIDE DEF c
    <3>4. comInits'[t] = pdbThrew'[t] + (IF c.pc \in PdbInitialised THEN 1 ELSE 0)
      BY <1>c, <2>1, <3>3 DEF PdbInitialised
    <3>5. c.pc = "session" => c.session <= 3
      BY <3>2, <3>3
    <3>6. c.pc \notin {"idle", "lock", "init", "create", "convert", "check", "load"}
      BY <3>3
    <3>7. old.pc \notin {"idle", "lock"}
      BY <2>1
    <3>8. QED
      BY <1>0, <2>1, <3>1, <3>3, <3>4, <3>5, <3>6, <3>7, PdbCallStep
  <2>3. CASE PdbGo(t, "uninit")
    BY <1>0, <1>b, <1>c, <2>1, <2>3, PdbGoStep DEF PdbInitialised
  <2>4. QED
    BY <1>9, <2>2, <2>3 DEF OpenSession
<1>10. CASE FindSymbol(t)
  <2>1. /\ old.pc \in {"public", "private"}
        /\ UNCHANGED <<pdbEnv, symcacheChecked, symcacheValid, pdbSync, comInits, pdbThrew, pdbCalls>>
        /\ PdbGo(t, "private") \/ PdbGo(t, "uninit")
    BY <1>10 DEF FindSymbol, PdbAt
  <2>2. CASE PdbGo(t, "private")
    BY <1>b, <2>1, <2>2, PdbGoStep DEF PdbInitialised
  <2>3. CASE PdbGo(t, "uninit")
    BY <1>b, <2>1, <2>3, PdbGoStep DEF PdbInitialised
  <2>4. QED
    BY <2>1, <2>2, <2>3
<1>11. CASE UninitializeCom(t)
  <2> DEFINE c == [old EXCEPT !.pc = "release"]
  <2>1. /\ old.pc = "uninit" /\ comInits' = [comInits EXCEPT ![t] = @ - 1] /\ PdbGo(t, "release")
        /\ UNCHANGED <<pdbEnv, symcacheChecked, symcacheValid, pdbSync, pdbThrew, pdbCalls>>
    BY <1>11 DEF UninitializeCom, PdbAt
  <2>2. /\ c \in PdbCallType /\ c.pc = "release" /\ c.session = old.session
        /\ pdbCall' = [pdbCall EXCEPT ![t] = c]
    BY <1>b, <2>1, PdbGoIs
  <2> HIDE DEF c
  <2>3. comInits[t] = pdbThrew[t] + 1
    BY <1>c, <2>1 DEF PdbInitialised
  <2>4. comInits[t] - 1 = pdbThrew[t] /\ comInits[t] - 1 \in Nat
    BY <1>0, <2>3
  <2>5. /\ comInits' \in [PdbThreads -> Nat] /\ comInits'[t] = comInits[t] - 1
        /\ \A u \in PdbThreads \ {t} : comInits'[u] = comInits[u] /\ pdbThrew'[u] = pdbThrew[u]
    BY <1>0, <2>1, <2>4
  <2>6. comInits'[t] = pdbThrew'[t] + (IF c.pc \in PdbInitialised THEN 1 ELSE 0)
    BY <1>0, <2>1, <2>2, <2>4, <2>5 DEF PdbInitialised
  <2>7. pdbThrew' \in [PdbThreads -> Nat]
    BY <1>0, <2>1
  <2>8. QED
    BY <1>0, <2>1, <2>2, <2>5, <2>6, <2>7, PdbCallStep
<1>12. CASE ReturnPdbDetails(t)
  <2>1. /\ old.pc = "release" /\ pdbSync' = "free"
        /\ pdbCall' = [pdbCall EXCEPT ![t] = NoCall]
        /\ UNCHANGED <<pdbEnv, symcacheChecked, symcacheValid, comInits, pdbThrew, pdbCalls>>
    BY <1>12 DEF ReturnPdbDetails, PdbAt
  <2>2. comInits'[t] = pdbThrew'[t] + (IF NoCall.pc \in PdbInitialised THEN 1 ELSE 0)
    BY <1>a, <1>c, <2>1 DEF PdbInitialised
  <2>3. pdbSync = t
    BY <1>c, <2>1
  <2>4. QED
    BY <1>0, <1>a, <2>1, <2>2, <2>3, PdbCallStep
<1>13. QED
  BY <1>1, <1>2, <1>3, <1>4, <1>5, <1>6, <1>7, <1>8, <1>9, <1>10, <1>11, <1>12

\* Every variable of the symbol lookup keeps its type.
THEOREM PdbTypeCorrect == PdbSpec => []PdbTypeOK
<1>1. PdbIInv => PdbTypeOK
  BY DEF PdbIInv, PdbTypes
<1>2. QED
  BY <1>1, PdbInitIInv, PdbNextIInv, PTL DEF PdbSpec

\* Every way out of pdb_details, by a return or an exception at any step, leaves
\* its mutex free and COM as it found it, less the one CoUninitialize that an
\* exception after CoInitializeEx costs; no other call is under way meanwhile.
THEOREM PdbCallsEndCleanHolds == PdbSpec => []PdbCallsEndClean
<1>1. PdbIInv => PdbCallsEndClean
  <2> SUFFICES ASSUME PdbIInv PROVE PdbCallsEndClean
    OBVIOUS
  <2>1. ASSUME NEW t \in PdbThreads, pdbCall[t].pc \in {"idle", "lock", "init", "release"}
        PROVE  comInits[t] = pdbThrew[t]
    <3>1. pdbCall[t].pc \notin PdbInitialised /\ pdbThrew[t] \in Nat
      BY <2>1 DEF PdbInitialised, PdbIInv, PdbTypes
    <3>2. comInits[t] = pdbThrew[t] + 0
      BY <3>1 DEF PdbIInv, PdbBalance
    <3>3. QED
      BY <3>1, <3>2
  <2>2. QED
    BY <2>1 DEF PdbIInv, PdbMutexHeld, PdbCallsEndClean
<1>2. QED
  BY <1>1, PdbInitIInv, PdbNextIInv, PTL DEF PdbSpec

-----------------------------------------------------------------------------
(* The plugin's life *)

\* The parts PreLoad may install, and those that are installed by messages.
BootEarly == Always \cup VROnly \cup F4Only \cup NotNG \cup Papyrus \cup {"Crash"}

BootLate == {"FollowerStrayBullet", "InteriorNavCut", "F4EE", "EncounterZoneReset",
             "UtilityShader", "InputSwitchPostInit"}

BootProgress ==
    /\ dll = "absent" => ~patchedIAT
    /\ dll \in {"attached", "queried", "loaded"} /\ env.runtime # "NG" => patchedIAT
    /\ dll \in {"queried", "loaded"} => startup = "initialized"
    /\ listening \/ postInit # "never" => dll = "loaded"

\* Whether PreLoad has run: in the initialisers, on NG in F4SEPlugin_Load.
PreLoaded ==
    IF env.runtime = "NG" THEN dll = "loaded" ELSE patchedIAT /\ startup = "initialized"

BootEarlyOnce ==
    \A p \in BootEarly : installed[p] = IF PreLoaded /\ p \in PreLoad THEN 1 ELSE 0

CutsNavmesh == "InteriorNavCut" \in enabled /\ ~env.interiorDll

\* Each message that installs has a guard that is shut once it has.
BootLateOnce ==
    /\ \A p \in BootLate : installed[p] <= 1
    /\ ~listening => installed["FollowerStrayBullet"] = 0 /\ installed["InteriorNavCut"] = 0
    /\ listening /\ CutsNavmesh => installed["InteriorNavCut"] = 1
    /\ postInit # "done" => \A p \in {"EncounterZoneReset", "UtilityShader", "InputSwitchPostInit"} :
                              installed[p] = 0
    /\ installed["InputSwitchPostInit"] > 0 =>
         env.runtime = "F4" /\ "InputSwitch" \in enabled /\ dll = "loaded"
    /\ navUpdates => listening /\ CutsNavmesh

BootIInv == BootTypeOK /\ BootProgress /\ BootEarlyOnce /\ BootLateOnce

LEMMA PartsAre ==
  /\ BootEarly \cap BootLate = {} /\ Parts = BootEarly \cup BootLate
  /\ "Crash" \in BootEarly /\ "InputSwitch" \in F4Only
<1>1. \A p \in BootLate : p \notin Always /\ p \notin VROnly /\ p \notin F4Only
  BY DEF BootLate, Always, VROnly, F4Only
<1>2. \A p \in BootLate : p \notin NotNG /\ p \notin Papyrus /\ p # "Crash"
  BY DEF BootLate, NotNG, Papyrus
<1>3. BootLate = Later \cup {"InputSwitchPostInit"}
  BY DEF BootLate, Later
<1>4. "InputSwitch" \in F4Only
  BY DEF F4Only
<1>5. QED
  BY <1>1, <1>2, <1>3, <1>4 DEF BootEarly, Parts, Keys

LEMMA PreLoadIsEarly == PreLoad \subseteq BootEarly
  BY DEF PreLoad, FixesPreLoad, BootEarly

LEMMA InstallIs ==
  ASSUME BootTypeOK, NEW new, Install(new)
  PROVE  /\ installed' \in [Parts -> Nat]
         /\ \A p \in Parts : installed'[p] = IF p \in new THEN installed[p] + 1 ELSE installed[p]
  BY DEF Install, BootTypeOK

LEMMA BootInitIInv == BootInit => BootIInv
<1> SUFFICES ASSUME BootInit PROVE BootIInv
  OBVIOUS
<1>1. installed \in [Parts -> Nat] /\ \A p \in Parts : installed[p] = 0
  BY DEF BootInit
<1>2. BootTypeOK
  <2>1. env.runtime \in Runtimes
    BY DEF BootInit
  <2>2. sent \in 0..MaxMessages
    BY BootAssumption DEF BootInit
  <2>3. QED
    BY <1>1, <2>1, <2>2 DEF BootInit, BootTypeOK
<1>3. BootProgress
  BY DEF BootInit, BootProgress
<1>4. BootEarlyOnce
  BY <1>1, PartsAre DEF BootInit, BootEarlyOnce, PreLoaded
<1>5. BootLateOnce
  <2>1. \A p \in BootLate : installed[p] = 0
    BY <1>1, PartsAre
  <2>2. QED
    BY <2>1 DEF BootInit, BootLateOnce, BootLate
<1>6. QED
  BY <1>2, <1>3, <1>4, <1>5 DEF BootIInv

\* A step that installs nothing and leaves the settings, and whether PreLoad ran.
LEMMA BootQuiet ==
  ASSUME BootIInv, UNCHANGED <<env, enabled, installed>>, PreLoaded' = PreLoaded
  PROVE  BootEarlyOnce'
  BY DEF BootIInv, BootEarlyOnce, PreLoad, FixesPreLoad

\* A message that installs late parts.
LEMMA BootMessage ==
  ASSUME BootIInv, UNCHANGED <<env, enabled, dll, startup, patchedIAT>>,
         NEW new, new \subseteq BootLate, Install(new)
  PROVE  BootEarlyOnce'
<1>1. \A p \in BootEarly : installed'[p] = installed[p]
  BY PartsAre, InstallIs DEF BootIInv
<1>2. PreLoaded' = PreLoaded /\ PreLoad' = PreLoad
  BY DEF PreLoaded, PreLoad, FixesPreLoad
<1>3. QED
  BY <1>1, <1>2 DEF BootIInv, BootEarlyOnce

\* PreLoad itself.
LEMMA BootPreLoad ==
  ASSUME BootIInv, UNCHANGED <<env, enabled>>, ~PreLoaded, PreLoaded', Install(PreLoad)
  PROVE  BootEarlyOnce' /\ \A p \in BootLate : installed'[p] = installed[p]
<1>1. \A p \in BootEarly : installed[p] = 0
  BY DEF BootIInv, BootEarlyOnce
<1>2. PreLoad' = PreLoad
  BY DEF PreLoad, FixesPreLoad
<1>3. \A p \in Parts : installed'[p] = IF p \in PreLoad THEN installed[p] + 1 ELSE installed[p]
  BY InstallIs DEF BootIInv
<1>4. \A p \in BootEarly : installed'[p] = IF p \in PreLoad THEN 1 ELSE 0
  BY <1>1, <1>3, PartsAre
<1>5. \A p \in BootLate : installed'[p] = installed[p]
  BY <1>3, PartsAre, PreLoadIsEarly
<1>6. QED
  BY <1>2, <1>4, <1>5 DEF BootEarlyOnce

LEMMA BootNextIInv == BootIInv /\ [BootNext]_bootVars => BootIInv'
<1> SUFFICES ASSUME BootIInv, [BootNext]_bootVars PROVE BootIInv'
  OBVIOUS
<1>0. /\ BootTypeOK /\ BootProgress /\ BootEarlyOnce /\ BootLateOnce
      /\ MaxMessages \in Nat /\ sent \in 0..MaxMessages
  BY BootAssumption DEF BootIInv, BootTypeOK
<1>1. ASSUME NEW file \in SettingFiles, Attach(file) PROVE BootIInv'
  <2>1. /\ dll = "absent" /\ startup # "failed"
        /\ UNCHANGED <<env, startup, installed, listening, postInit, navUpdates, sent>>
        /\ dll' \in {"refused", "dead", "attached"}
        /\ env.runtime # "NG" /\ startup # "uninitialized" => dll' \in {"dead", "refused"}
        /\ patchedIAT' = (dll' = "attached" /\ startup = "uninitialized")
        /\ enabled' \subseteq Keys
    BY <1>1 DEF Attach, LoadedKeys
  <2>2. ~PreLoaded /\ ~PreLoaded'
    BY <1>0, <2>1 DEF PreLoaded, BootProgress
  <2>3. BootEarlyOnce'
    BY <1>0, <2>1, <2>2 DEF BootEarlyOnce
  <2>4. BootTypeOK'
    BY <1>0, <2>1 DEF BootTypeOK
  <2>5. BootProgress'
    BY <1>0, <2>1 DEF BootProgress
  <2>6. BootLateOnce'
    BY <1>0, <2>1 DEF BootLateOnce, BootProgress, CutsNavmesh
  <2>7. QED
    BY <2>3, <2>4, <2>5, <2>6 DEF BootIInv
<1>2. CASE StartEngine
  <2>1. /\ startup = "uninitialized" /\ dll # "dead" /\ startup' = "initializing"
        /\ UNCHANGED <<env, dll, patchedIAT, enabled, installed, listening, postInit, navUpdates, sent>>
    BY <1>2 DEF StartEngine
  <2>2. PreLoaded' = PreLoaded
    BY <2>1 DEF PreLoaded
  <2>3. BootTypeOK' /\ BootProgress' /\ BootLateOnce'
    BY <1>0, <2>1 DEF BootTypeOK, BootProgress, BootLateOnce, CutsNavmesh
  <2>4. QED
    BY <2>1, <2>2, <2>3, BootQuiet DEF BootIInv
<1>3. CASE FinishInitterm
  <2>1. /\ startup = "initializing" /\ dll # "dead" /\ startup' \in {"initialized", "failed"}
        /\ env.runtime # "NG" => startup' = "initialized"
        /\ UNCHANGED <<env, dll, patchedIAT, enabled, listening, postInit, navUpdates, sent>>
    BY <1>3 DEF FinishInitterm
  <2>2. BootProgress'
    BY <1>0, <2>1 DEF BootProgress
  <2>3. CASE patchedIAT /\ env.runtime # "NG"
    <3>1. Install(PreLoad) /\ ~PreLoaded /\ PreLoaded'
      BY <1>3, <2>1, <2>3 DEF FinishInitterm, PreLoaded
    <3>2. BootEarlyOnce' /\ \A p \in BootLate : installed'[p] = installed[p]
      BY <2>1, <3>1, BootPreLoad
    <3>3. installed' \in [Parts -> Nat]
      BY <1>0, <3>1, InstallIs
    <3>4. BootTypeOK'
      BY <1>0, <2>1, <3>3 DEF BootTypeOK
    <3>5. BootLateOnce'
      BY <1>0, <2>1, <3>2 DEF BootLateOnce, CutsNavmesh, BootLate
    <3>6. QED
      BY <2>2, <3>2, <3>4, <3>5 DEF BootIInv
  <2>4. CASE ~(patchedIAT /\ env.runtime # "NG")
    <3>1. UNCHANGED installed
      BY <1>3, <2>4 DEF FinishInitterm
    <3>2. PreLoaded' = PreLoaded
      BY <2>1, <2>4 DEF PreLoaded
    <3>3. BootTypeOK' /\ BootLateOnce'
      BY <1>0, <2>1, <3>1 DEF BootTypeOK, BootLateOnce, CutsNavmesh
    <3>4. QED
      BY <2>1, <2>2, <3>1, <3>2, <3>3, BootQuiet DEF BootIInv
  <2>5. QED
    BY <2>3, <2>4
<1>4. ASSUME NEW ok \in BOOLEAN, Query(ok) PROVE BootIInv'
  <2>1. /\ startup = "initialized" /\ dll = "attached" /\ dll' \in {"queried", "refused"}
        /\ UNCHANGED <<env, startup, patchedIAT, enabled, installed, listening, postInit, navUpdates, sent>>
    BY <1>4 DEF Query
  <2>2. PreLoaded' = PreLoaded
    BY <2>1 DEF PreLoaded
  <2>3. BootTypeOK' /\ BootProgress' /\ BootLateOnce'
    BY <1>0, <2>1 DEF BootTypeOK, BootProgress, BootLateOnce, CutsNavmesh
  <2>4. QED
    BY <2>1, <2>2, <2>3, BootQuiet DEF BootIInv
<1>5. ASSUME NEW ok \in BOOLEAN, Load(ok) PROVE BootIInv'
  <2>1. /\ startup = "initialized" /\ dll = "queried" /\ dll' = IF ok THEN "loaded" ELSE "refused"
        /\ UNCHANGED <<env, startup, patchedIAT, enabled, listening, postInit, navUpdates, sent>>
    BY <1>5 DEF Load
  <2>2. BootProgress'
    BY <1>0, <2>1 DEF BootProgress
  <2>3. CASE ok /\ env.runtime = "NG"
    <3>1. Install(PreLoad) /\ ~PreLoaded /\ PreLoaded'
      BY <1>5, <2>1, <2>3 DEF Load, PreLoaded
    <3>2. BootEarlyOnce' /\ \A p \in BootLate : installed'[p] = installed[p]
      BY <2>1, <3>1, BootPreLoad
    <3>3. installed' \in [Parts -> Nat]
      BY <1>0, <3>1, InstallIs
    <3>4. BootTypeOK'
      BY <1>0, <2>1, <3>3 DEF BootTypeOK
    <3>5. BootLateOnce'
      BY <1>0, <2>1, <3>2 DEF BootLateOnce, CutsNavmesh, BootLate
    <3>6. QED
      BY <2>2, <3>2, <3>4, <3>5 DEF BootIInv
  <2>4. CASE ~(ok /\ env.runtime = "NG")
    <3>1. UNCHANGED installed
      BY <1>5, <2>4 DEF Load
    <3>2. PreLoaded' = PreLoaded
      BY <2>1, <2>4 DEF PreLoaded
    <3>3. BootTypeOK' /\ BootLateOnce'
      BY <1>0, <2>1, <3>1 DEF BootTypeOK, BootLateOnce, CutsNavmesh
    <3>4. QED
      BY <2>1, <2>2, <3>1, <3>2, <3>3, BootQuiet DEF BootIInv
  <2>5. QED
    BY <2>3, <2>4
<1>6. CASE PostPostLoad
  <2>1. /\ installed["F4EE"] = 0 /\ Install({"F4EE"})
        /\ UNCHANGED <<env, startup, dll, patchedIAT, enabled, listening, postInit, navUpdates, sent>>
    BY <1>6 DEF PostPostLoad
  <2>2. {"F4EE"} \subseteq BootLate
    BY DEF BootLate
  <2>3. BootEarlyOnce'
    BY <2>1, <2>2, BootMessage
  <2>4. /\ installed' \in [Parts -> Nat]
        /\ \A p \in Parts : installed'[p] = IF p \in {"F4EE"} THEN installed[p] + 1 ELSE installed[p]
    BY <1>0, <2>1, InstallIs
  <2>5. \A p \in BootLate : installed'[p] = IF p = "F4EE" THEN 1 ELSE installed[p]
    BY <2>1, <2>4, PartsAre
  <2>6. BootTypeOK' /\ BootProgress'
    BY <1>0, <2>1, <2>4 DEF BootTypeOK, BootProgress
  <2>7. BootLateOnce'
    BY <1>0, <2>1, <2>5 DEF BootLateOnce, CutsNavmesh, BootLate
  <2>8. QED
    BY <2>3, <2>6, <2>7 DEF BootIInv
<1>7. CASE GameDataReady
  <2> DEFINE new == enabled \cap
                      ((IF env.runtime = "VR" THEN {"FollowerStrayBullet"} ELSE {})
                         \cup (IF env.interiorDll THEN {} ELSE {"InteriorNavCut"}))
  <2>1. /\ dll = "loaded" /\ ~listening /\ listening' = TRUE /\ Install(new)
        /\ UNCHANGED <<env, startup, dll, patchedIAT, enabled, postInit, navUpdates, sent>>
    BY <1>7 DEF GameDataReady
  <2>2. /\ new \subseteq {"FollowerStrayBullet", "InteriorNavCut"}
        /\ CutsNavmesh => "InteriorNavCut" \in new
    BY DEF CutsNavmesh
  <2> HIDE DEF new
  <2>3. new \subseteq BootLate
    BY <2>2 DEF BootLate
  <2>4. BootEarlyOnce'
    BY <2>1, <2>3, BootMessage
  <2>5. /\ installed' \in [Parts -> Nat]
        /\ \A p \in Parts : installed'[p] = IF p \in new THEN installed[p] + 1 ELSE installed[p]
    BY <1>0, <2>1, InstallIs
  <2>6. /\ \A p \in BootLate \ {"FollowerStrayBullet", "InteriorNavCut"} : installed'[p] = installed[p]
        /\ \A p \in {"FollowerStrayBullet", "InteriorNavCut"} : installed'[p] = IF p \in new THEN 1 ELSE 0
    <3>1. \A p \in {"FollowerStrayBullet", "InteriorNavCut"} : installed[p] = 0 /\ p \in BootLate
      BY <1>0, <2>1 DEF BootLateOnce, BootLate
    <3>2. \A p \in BootLate : p \in Parts
      BY PartsAre
    <3>3. ASSUME NEW p \in BootLate \ {"FollowerStrayBullet", "InteriorNavCut"}
          PROVE  installed'[p] = installed[p]
      BY <2>2, <2>5, <3>2
    <3>4. ASSUME NEW p \in {"FollowerStrayBullet", "InteriorNavCut"}
          PROVE  installed'[p] = IF p \in new THEN 1 ELSE 0
      <4>1. p \in Parts /\ installed[p] = 0
        BY <3>1, <3>2
      <4>2. QED
        BY <2>5, <4>1
    <3>5. QED
      BY <3>3, <3>4
  <2>7. BootTypeOK' /\ BootProgress'
    BY <1>0, <2>1, <2>5 DEF BootTypeOK, BootProgress
  <2>8. BootLateOnce'
    <3>1. \A p \in BootLate : installed'[p] <= 1
      BY <1>0, <2>6 DEF BootLateOnce
    <3>2. CutsNavmesh' = CutsNavmesh
      BY <2>1 DEF CutsNavmesh
    <3>3. listening /\ CutsNavmesh => installed'["InteriorNavCut"] = 1
      BY <2>1
    <3>4. CutsNavmesh => installed'["InteriorNavCut"] = 1
      BY <2>2, <2>6
    <3>5. \A p \in {"EncounterZoneReset", "UtilityShader", "InputSwitchPostInit"} : installed'[p] = installed[p]
      BY <2>6 DEF BootLate
    <3>6. ~navUpdates
      BY <1>0, <2>1 DEF BootLateOnce
    <3>7. QED
      BY <1>0, <2>1, <3>1, <3>2, <3>4, <3>5, <3>6 DEF BootLateOnce
  <2>9. QED
    BY <2>4, <2>7, <2>8 DEF BootIInv
<1>8. CASE GameLoaded
  <2>1. /\ dll = "loaded" /\ sent < MaxMessages /\ sent' = sent + 1
        /\ postInit' = IF postInit = "never" THEN "queued" ELSE postInit
        /\ UNCHANGED <<env, startup, dll, patchedIAT, enabled, installed, listening, navUpdates>>
    BY <1>8 DEF GameLoaded
  <2>2. PreLoaded' = PreLoaded
    BY <2>1 DEF PreLoaded
  <2>3. sent' \in 0..MaxMessages
    BY <1>0, <2>1
  <2>4. BootTypeOK' /\ BootProgress' /\ BootLateOnce'
    BY <1>0, <2>1, <2>3 DEF BootTypeOK, BootProgress, BootLateOnce, CutsNavmesh
  <2>5. QED
    BY <2>1, <2>2, <2>4, BootQuiet DEF BootIInv
<1>9. CASE PostInit
  <2> DEFINE new == (enabled \cap {"EncounterZoneReset"})
                      \cup (IF env.runtime = "F4"
                            THEN (enabled \cap {"UtilityShader"})
                                   \cup (IF "InputSwitch" \in enabled THEN {"InputSwitchPostInit"} ELSE {})
                            ELSE {})
             once == {"EncounterZoneReset", "UtilityShader", "InputSwitchPostInit"}
  <2>1. /\ postInit = "queued" /\ postInit' = "done" /\ Install(new)
        /\ UNCHANGED <<env, startup, dll, patchedIAT, enabled, listening, navUpdates, sent>>
    BY <1>9 DEF PostInit
  <2>2. /\ new \subseteq once
        /\ "InputSwitchPostInit" \in new => env.runtime = "F4" /\ "InputSwitch" \in enabled
    OBVIOUS
  <2> HIDE DEF new
  <2>3. once \subseteq BootLate
    BY DEF BootLate
  <2>4. BootEarlyOnce'
    BY <2>1, <2>2, <2>3, BootMessage
  <2>5. /\ installed' \in [Parts -> Nat]
        /\ \A p \in Parts : installed'[p] = IF p \in new THEN installed[p] + 1 ELSE installed[p]
    BY <1>0, <2>1, InstallIs
  <2>6. \A p \in once : installed[p] = 0
    BY <1>0, <2>1 DEF BootLateOnce
  <2>7. \A p \in once : installed'[p] = IF p \in new THEN 1 ELSE 0
    BY <2>3, <2>5, <2>6, PartsAre
  <2>8. \A p \in BootLate \ once : installed'[p] = installed[p]
    BY <2>2, <2>5, PartsAre
  <2>9. BootTypeOK' /\ BootProgress'
    BY <1>0, <2>1, <2>5 DEF BootTypeOK, BootProgress
  <2>10. BootLateOnce'
    <3>1. \A p \in BootLate : installed'[p] <= 1
      BY <1>0, <2>7, <2>8 DEF BootLateOnce
    <3>2. CutsNavmesh' = CutsNavmesh
      BY <2>1 DEF CutsNavmesh
    <3>3. \A p \in {"FollowerStrayBullet", "InteriorNavCut"} : installed'[p] = installed[p]
      BY <2>8 DEF BootLate
    <3>4. installed'["InputSwitchPostInit"] > 0 => "InputSwitchPostInit" \in new
      BY <2>7
    <3>5. dll = "loaded"
      BY <1>0, <2>1 DEF BootProgress
    <3>6. QED
      BY <1>0, <2>1, <2>2, <3>1, <3>2, <3>3, <3>4, <3>5 DEF BootLateOnce
  <2>11. QED
    BY <2>4, <2>9, <2>10 DEF BootIInv
<1>10. CASE PostLoadGame
  <2>1. /\ dll = "loaded" /\ sent < MaxMessages /\ sent' = sent + 1
        /\ navUpdates' = (navUpdates \/ ForcesNavMeshUpdate)
        /\ UNCHANGED <<env, startup, dll, patchedIAT, enabled, installed, listening, postInit>>
    BY <1>10 DEF PostLoadGame
  <2>2. PreLoaded' = PreLoaded
    BY <2>1 DEF PreLoaded
  <2>3. sent' \in 0..MaxMessages /\ navUpdates' \in BOOLEAN
    BY <1>0, <2>1 DEF BootTypeOK
  <2>4. ForcesNavMeshUpdate => listening /\ CutsNavmesh
    BY <1>10 DEF PostLoadGame, ForcesNavMeshUpdate, CutsNavmesh
  <2>5. CutsNavmesh' = CutsNavmesh
    BY <2>1 DEF CutsNavmesh
  <2>6. BootTypeOK' /\ BootProgress'
    BY <1>0, <2>1, <2>3 DEF BootTypeOK, BootProgress
  <2>7. BootLateOnce'
    BY <1>0, <2>1, <2>4, <2>5 DEF BootLateOnce
  <2>8. QED
    BY <2>1, <2>2, <2>6, <2>7, BootQuiet DEF BootIInv
<1>11. CASE UNCHANGED bootVars
  <2>1. UNCHANGED <<env, startup, dll, patchedIAT, enabled, installed, listening, postInit, navUpdates, sent>>
    BY <1>11 DEF bootVars
  <2>2. PreLoaded' = PreLoaded
    BY <2>1 DEF PreLoaded
  <2>3. BootTypeOK' /\ BootProgress' /\ BootLateOnce'
    BY <1>0, <2>1 DEF BootTypeOK, BootProgress, BootLateOnce, CutsNavmesh
  <2>4. QED
    BY <2>1, <2>2, <2>3, BootQuiet DEF BootIInv
<1>12. QED
  BY <1>1, <1>2, <1>3, <1>4, <1>5, <1>6, <1>7, <1>8, <1>9, <1>10, <1>11 DEF BootNext

\* Every variable of the plugin's life keeps its type.
THEOREM BootTypeCorrect == BootSpec => []BootTypeOK
<1>1. BootIInv => BootTypeOK
  BY DEF BootIInv
<1>2. QED
  BY <1>1, BootInitIInv, BootNextIInv, PTL DEF BootSpec

\* For any settings files, any process and any messages of F4SE: no part is
\* installed twice, PreLoad's are there when the initialisers have run, and
\* what needs another part finds it (initterm's proxy, F4SEPlugin_Load,
\* MessageHandler).
THEOREM InstalledInTimeHolds == BootSpec => []InstalledInTime
<1>1. BootIInv => InstalledInTime
  <2> SUFFICES ASSUME BootIInv PROVE InstalledInTime
    OBVIOUS
  <2> USE DEF BootIInv
  <2>1. \A p \in Parts : installed[p] <= 1
    BY PartsAre DEF BootEarlyOnce, BootLateOnce
  <2>2. ASSUME startup = "initialized", dll \notin {"absent", "refused", "dead"}, env.runtime # "NG",
               NEW p \in PreLoad
        PROVE  installed[p] = 1
    <3>1. PreLoaded
      BY <2>2 DEF BootTypeOK, BootProgress, PreLoaded
    <3>2. QED
      BY <3>1, PreLoadIsEarly DEF BootEarlyOnce
  <2>3. installed["InputSwitchPostInit"] > 0 => installed["InputSwitch"] = 1
    <3> SUFFICES ASSUME installed["InputSwitchPostInit"] > 0 PROVE installed["InputSwitch"] = 1
      OBVIOUS
    <3>1. env.runtime = "F4" /\ "InputSwitch" \in enabled /\ dll = "loaded"
      BY DEF BootLateOnce
    <3>2. "InputSwitch" \in PreLoad
      BY <3>1, PartsAre DEF PreLoad
    <3>3. startup = "initialized"
      BY <3>1 DEF BootProgress
    <3>4. QED
      BY <2>2, <3>1, <3>2, <3>3
  <2>4. navUpdates => installed["InteriorNavCut"] = 1
    BY DEF BootLateOnce
  <2>5. QED
    BY <2>1, <2>2, <2>3, <2>4 DEF InstalledInTime
<1>2. QED
  BY <1>1, BootInitIInv, BootNextIInv, PTL DEF BootSpec


-----------------------------------------------------------------------------
(* The work of the accumulation *)

WorkSpan == [first : Nat \ {0}, last : 0..MaxTasks]

WorkJob == [pc : {"done", "split", "submit", "take", "run"}, span : WorkSpan]

WorkTypes ==
    /\ WorkTypeOK
    /\ spans \in [SpanIndices -> WorkSpan]
    /\ job \in [Threads -> WorkJob]

WorkRunning == tid \in Threads /\ \A t \in Threads : job[t].pc \in {"take", "run", "done"}

\* One thread prepares a batch, while the others have nothing to do.
WorkPreparing ==
    \A t \in Threads : job[t].pc \in {"split", "submit"} =>
        /\ t = tid
        /\ \A u \in Threads \ {t} : job[u].pc = "done"
        /\ \A i \in 1..MaxTasks : executed[i] = 0

\* No job runs before the first batch.
WorkNobody ==
    tid \notin Threads =>
        /\ \A t \in Threads : job[t].pc = "done"
        /\ \A i \in 1..MaxTasks : executed[i] = 0
        /\ proxyTasks = 0

\* The spans are those of the batch when a job may take one.
WorkSpansCut ==
    WorkRunning \/ (\E t \in Threads : job[t].pc = "submit") =>
        spans = SplitInterval(THREAD_COUNT, proxyTasks)

Takers == {t \in Threads \ {tid} : job[t].pc = "take"}

\* Behind the index there are as many spans, less the last, as workers to take one.
WorkCounted == WorkRunning => idx + Cardinality(Takers) = THREAD_COUNT - 1

Covers(span, i) == span.first <= i /\ i <= span.last

Pending(t, i) == job[t].pc = "run" /\ Covers(job[t].span, i)

Unclaimed(i) ==
    \/ \E k \in SpanIndices : idx <= k /\ k < THREAD_COUNT - 1 /\ Covers(spans[k], i)
    \/ job[tid].pc = "take" /\ Covers(spans[THREAD_COUNT - 1], i)

\* Each task is executed, or what one thread still has to run, or in a span that
\* nobody has taken yet, and never two of these.
Accounted(i) ==
    /\ executed[i] <= 1
    /\ Unclaimed(i) => executed[i] = 0
    /\ \A t \in Threads : Pending(t, i) => executed[i] = 0 /\ ~Unclaimed(i)
    /\ \A t, u \in Threads : Pending(t, i) /\ Pending(u, i) => t = u
    /\ i <= proxyTasks <=> executed[i] = 1 \/ Unclaimed(i) \/ \E t \in Threads : Pending(t, i)

WorkPartition == WorkRunning => \A i \in 1..MaxTasks : Accounted(i)

WorkIInv ==
    /\ WorkTypes /\ WorkPreparing /\ WorkNobody
    /\ WorkSpansCut /\ WorkCounted /\ WorkPartition


LEMMA ThreadCount ==
  /\ IsFiniteSet(Threads) /\ THREAD_COUNT \in Nat \ {0}
  /\ \A t \in Threads : Cardinality(Threads \ {t}) = THREAD_COUNT - 1
  BY WorkManagerAssumption, FS_CardinalityType, FS_EmptySet, FS_RemoveElement DEF THREAD_COUNT

LEMMA Division ==
  ASSUME NEW a \in Nat, NEW s \in Nat \ {0}
  PROVE  a \div s \in Nat /\ s * (a \div s) <= a /\ a < s * (a \div s) + s
<1> DEFINE q == a \div s
           r == a % s
<1>1. \A b \in Int, n \in Int : n > 0 => b = n * (b \div n) + (b % n)
  BY SMTT(30)
<1>2. q \in Int /\ r \in 0..(s - 1)
  OBVIOUS
<1>3. a = s * q + r
  BY <1>1
<1> HIDE DEF q, r
<1>4. q <= -1 => s * q <= -s
  BY <1>2
<1>5. q >= 0 /\ s * q \in Int
  BY <1>2, <1>3, <1>4
<1>6. QED
  BY <1>2, <1>3, <1>5 DEF q

LEMMA Multiples ==
  ASSUME NEW a \in Nat, NEW b \in Nat, NEW q \in Nat, a <= b
  PROVE  a * q \in Nat /\ b * q \in Nat /\ a * q <= b * q
<1>1. (b - a) * q >= 0 /\ (b - a) * q = b * q - a * q
  OBVIOUS
<1>2. QED
  BY <1>1

\* SplitInterval hands each task of the batch to exactly one span.
LEMMA SplitIs ==
  ASSUME NEW n \in Nat \ {0}, NEW size \in 0..MaxTasks
  PROVE  /\ SplitInterval(n, size) \in [0..(n - 1) -> WorkSpan]
         /\ \A i \in 1..MaxTasks :
              i <= size <=> \E k \in 0..(n - 1) : Covers(SplitInterval(n, size)[k], i)
         /\ \A i \in 1..MaxTasks, k, j \in 0..(n - 1) :
              Covers(SplitInterval(n, size)[k], i) /\ Covers(SplitInterval(n, size)[j], i) => k = j
<1> DEFINE q == size \div n
           cut == SplitInterval(n, size)
<1>0. size \in Nat /\ MaxTasks \in Nat /\ size <= MaxTasks
  BY WorkManagerAssumption
<1>1. q \in Nat /\ n * q <= size /\ n * q \in Nat
  BY <1>0, Division
<1>2. \A k \in 0..(n - 1) : cut[k] = [first |-> k * q + 1,
                                       last |-> IF k = n - 1 THEN size ELSE (k + 1) * q]
  BY DEF SplitInterval
<1>3. cut = [k \in 0..(n - 1) |-> cut[k]]
  BY DEF SplitInterval
<1> HIDE DEF q, cut
<1>4. ASSUME NEW k \in 0..(n - 1)
      PROVE  k * q \in Nat /\ (k + 1) * q \in Nat /\ (k + 1) * q <= size
  <2>1. k \in Nat /\ k + 1 \in Nat /\ k + 1 <= n /\ n \in Nat
    OBVIOUS
  <2>2. (k + 1) * q <= n * q /\ (k + 1) * q \in Nat /\ k * q \in Nat
    BY <1>1, <2>1, Multiples
  <2>3. QED
    BY <1>0, <1>1, <2>2
<1>5. ASSUME NEW k \in 0..(n - 1)
      PROVE  /\ cut[k].first \in Nat \ {0} /\ cut[k].last \in 0..MaxTasks /\ cut[k].last <= size
             /\ cut[k] \in WorkSpan
             /\ cut[k].first = k * q + 1
             /\ k # n - 1 => cut[k].last = (k + 1) * q
             /\ k = n - 1 => cut[k].last = size
  <2> DEFINE from == k * q + 1
             to == IF k = n - 1 THEN size ELSE (k + 1) * q
  <2>1. cut[k] = [first |-> from, last |-> to]
    BY <1>2
  <2>2. from \in Nat \ {0}
    BY <1>4
  <2>3. to \in 0..MaxTasks /\ to <= size
    BY <1>0, <1>4
  <2> HIDE DEF from, to
  <2>4. cut[k].first = from /\ cut[k].last = to /\ cut[k] \in WorkSpan
    BY <2>1, <2>2, <2>3 DEF WorkSpan
  <2>5. cut[k].first = k * q + 1
    BY <2>4 DEF from
  <2>6. (k # n - 1 => to = (k + 1) * q) /\ (k = n - 1 => to = size)
    BY DEF to
  <2>7. QED
    BY <2>2, <2>3, <2>4, <2>5, <2>6
<1>6. cut \in [0..(n - 1) -> WorkSpan]
  BY <1>3, <1>5
<1>7. ASSUME NEW i \in 1..MaxTasks, NEW k \in 0..(n - 1), NEW j \in 0..(n - 1), k < j,
             Covers(cut[k], i), Covers(cut[j], i)
      PROVE  FALSE
  <2>1. i <= (k + 1) * q
    <3>1. cut[k].last = (k + 1) * q
      BY <1>5, <1>7
    <3>2. QED
      BY <1>7, <3>1 DEF Covers
  <2>2. j * q + 1 <= i
    <3>1. cut[j].first = j * q + 1
      BY <1>5
    <3>2. QED
      BY <1>7, <3>1 DEF Covers
  <2>3. (k + 1) * q <= j * q /\ (k + 1) * q \in Nat /\ j * q \in Nat
    <3>1. k + 1 \in Nat /\ j \in Nat /\ k + 1 <= j
      BY <1>7
    <3>2. QED
      BY <1>1, <3>1, Multiples
  <2>4. QED
    BY <2>1, <2>2, <2>3
<1>8. ASSUME NEW i \in 1..MaxTasks, i <= size
      PROVE  \E k \in 0..(n - 1) : Covers(cut[k], i)
  <2>1. n - 1 \in 0..(n - 1) /\ (n - 1) * q \in Nat
    <3>1. n - 1 \in 0..(n - 1)
      OBVIOUS
    <3>2. QED
      BY <1>4, <3>1
  <2>2. CASE i > (n - 1) * q
    <3>1. Covers(cut[n - 1], i)
      <4>1. cut[n - 1].first = (n - 1) * q + 1 /\ cut[n - 1].last = size
        BY <1>5, <2>1
      <4>2. QED
        BY <1>0, <1>8, <2>1, <2>2, <4>1 DEF Covers
    <3>2. QED
      BY <2>1, <3>1
  <2>3. CASE i <= (n - 1) * q
    <3>1. q \in Nat \ {0}
      <4>1. q = 0 => (n - 1) * q = 0
        OBVIOUS
      <4>2. QED
        BY <1>1, <2>3, <4>1
    <3> DEFINE k == (i - 1) \div q
    <3>2. k \in Nat /\ q * k <= i - 1 /\ i - 1 < q * k + q
      <4>1. i - 1 \in Nat
        OBVIOUS
      <4>2. QED
        BY <3>1, <4>1, Division
    <3> HIDE DEF k
    <3>3. k * q + 1 <= i /\ i <= (k + 1) * q
      <4>1. k * q = q * k /\ (k + 1) * q = q * k + q /\ q * k \in Nat
        BY <1>1, <3>2
      <4>2. QED
        BY <1>1, <3>2, <4>1
    <3>4. k < n - 1
      <4>1. n - 1 <= k => (n - 1) * q <= k * q
        BY <1>1, <2>1, <3>2, Multiples
      <4>2. k * q \in Nat
        BY <1>1, <3>2
      <4>3. QED
        BY <2>1, <2>3, <3>2, <3>3, <4>1, <4>2
    <3>5. k \in 0..(n - 1) /\ k # n - 1
      BY <3>2, <3>4
    <3>6. Covers(cut[k], i)
      <4>1. cut[k].first = k * q + 1 /\ cut[k].last = (k + 1) * q
        BY <1>5, <3>5
      <4>2. QED
        BY <3>3, <4>1 DEF Covers
    <3>7. QED
      BY <3>5, <3>6
  <2>4. QED
    BY <2>1, <2>2, <2>3
<1>9. ASSUME NEW i \in 1..MaxTasks, NEW k \in 0..(n - 1), Covers(cut[k], i)
      PROVE  i <= size
  <2>1. i <= cut[k].last /\ cut[k].last \in Nat /\ cut[k].last <= size
    BY <1>0, <1>5, <1>9 DEF Covers
  <2>2. QED
    BY <1>0, <2>1
<1>10. \A i \in 1..MaxTasks, k, j \in 0..(n - 1) : Covers(cut[k], i) /\ Covers(cut[j], i) => k = j
  <2> SUFFICES ASSUME NEW i \in 1..MaxTasks, NEW k \in 0..(n - 1), NEW j \in 0..(n - 1),
                      Covers(cut[k], i), Covers(cut[j], i)
               PROVE  k = j
    OBVIOUS
  <2>1. ~ (k < j) /\ ~ (j < k)
    BY <1>7
  <2>2. QED
    BY <2>1
<1>11. QED
  BY <1>6, <1>8, <1>9, <1>10 DEF cut

LEMMA WorkInitIInv == WorkInit => WorkIInv
<1> SUFFICES ASSUME WorkInit PROVE WorkIInv
  OBVIOUS
<1>0. MaxTasks \in Nat /\ MaxBatches \in Nat /\ THREAD_COUNT \in Nat \ {0}
  BY ThreadCount, WorkManagerAssumption
<1>1. NoSpan \in WorkSpan
  BY <1>0 DEF NoSpan, WorkSpan
<1>2. [pc |-> "done", span |-> NoSpan] \in WorkJob
  BY <1>1 DEF WorkJob
<1>3. spans \in [SpanIndices -> WorkSpan] /\ job \in [Threads -> WorkJob]
  BY <1>1, <1>2 DEF WorkInit
<1>4. \A t \in Threads : job[t].pc = "done"
  BY DEF WorkInit
<1>5. WorkTypeOK
  BY <1>0, <1>3, <1>4 DEF WorkInit, WorkTypeOK
<1>6. tid \notin Threads
  BY WorkManagerAssumption DEF WorkInit
<1>7. ~WorkRunning /\ WorkTypes /\ WorkPreparing /\ WorkNobody
  BY <1>3, <1>4, <1>5, <1>6 DEF WorkInit, WorkRunning, WorkTypes, WorkPreparing, WorkNobody
<1>8. QED
  BY <1>4, <1>7 DEF WorkIInv, WorkSpansCut, WorkCounted, WorkPartition

LEMMA SomeoneWorks ==
  ASSUME WorkIInv, NEW t \in Threads, job[t].pc \in {"take", "run"}
  PROVE  WorkRunning
<1>1. tid \in Threads
  BY DEF WorkIInv, WorkNobody
<1>2. \A u \in Threads : job[u].pc \notin {"split", "submit"}
  BY DEF WorkIInv, WorkPreparing
<1>3. \A u \in Threads : job[u].pc \in {"done", "split", "submit", "take", "run"}
  BY DEF WorkIInv, WorkTypes, WorkTypeOK
<1>4. QED
  BY <1>1, <1>2, <1>3 DEF WorkRunning

\* What a step that changes the job of one thread leaves of the invariant's types.
LEMMA OneJobTyped ==
  ASSUME WorkIInv, NEW t \in Threads, NEW x \in WorkJob, job' = [job EXCEPT ![t] = x]
  PROVE  /\ job' \in [Threads -> WorkJob] /\ job'[t] = x
         /\ \A u \in Threads \ {t} : job'[u] = job[u]
         /\ \A u \in Threads : job'[u].pc \in {"done", "split", "submit", "take", "run"}
<1>1. job \in [Threads -> WorkJob]
  BY DEF WorkIInv, WorkTypes
<1>2. job' \in [Threads -> WorkJob] /\ job'[t] = x /\ \A u \in Threads \ {t} : job'[u] = job[u]
  BY <1>1
<1>3. \A u \in Threads : job'[u].pc \in {"done", "split", "submit", "take", "run"}
  BY <1>2 DEF WorkJob
<1>4. QED
  BY <1>2, <1>3

LEMMA SubmitStep ==
  ASSUME WorkIInv, NEW t \in Threads, NEW size \in 0..MaxTasks, Submit(t, size)
  PROVE  WorkIInv'
<1> DEFINE x == [pc |-> "split", span |-> job[t].span]
<1>0. MaxTasks \in Nat /\ MaxBatches \in Nat /\ job \in [Threads -> WorkJob]
  BY WorkManagerAssumption DEF WorkIInv, WorkTypes
<1>1. x \in WorkJob /\ job' = [job EXCEPT ![t] = x]
  <2>1. job[t] \in WorkJob
    BY <1>0
  <2>2. job[t].span \in WorkSpan /\ [job[t] EXCEPT !.pc = "split"] = x
    BY <2>1 DEF WorkJob
  <2>3. job' = [job EXCEPT ![t] = [job[t] EXCEPT !.pc = "split"]]
    BY <1>0 DEF Submit
  <2>4. job' = [job EXCEPT ![t] = x]
    BY <2>2, <2>3
  <2>5. QED
    BY <2>2, <2>4 DEF WorkJob
<1>2. x.pc = "split"
  OBVIOUS
<1> HIDE DEF x
<1>3. /\ job' \in [Threads -> WorkJob] /\ job'[t] = x
      /\ \A u \in Threads \ {t} : job'[u] = job[u]
      /\ \A u \in Threads : job'[u].pc \in {"done", "split", "submit", "take", "run"}
  BY <1>1, OneJobTyped
<1>4. job'[t].pc = "split" /\ \A u \in Threads \ {t} : job'[u].pc = "done"
  BY <1>2, <1>3 DEF Submit
<1>5. WorkTypes'
  BY <1>0, <1>3 DEF Submit, WorkIInv, WorkTypes, WorkTypeOK
<1>6. ~WorkRunning' /\ WorkSpansCut' /\ WorkCounted' /\ WorkPartition'
  BY <1>4 DEF Submit, WorkRunning, WorkSpansCut, WorkCounted, WorkPartition
<1>7. WorkPreparing' /\ WorkNobody'
  BY <1>4 DEF Submit, WorkPreparing, WorkNobody
<1>8. QED
  BY <1>5, <1>6, <1>7 DEF WorkIInv

LEMMA ResetSpansStep ==
  ASSUME WorkIInv, NEW t \in Threads, ResetSpans(t)
  PROVE  WorkIInv'
<1> DEFINE x == [pc |-> "submit", span |-> job[t].span]
<1>0. /\ job \in [Threads -> WorkJob] /\ proxyTasks \in 0..MaxTasks
      /\ job[t].pc = "split"
  BY DEF WorkIInv, WorkTypes, WorkTypeOK, ResetSpans
<1>1. x \in WorkJob /\ job' = [job EXCEPT ![t] = x]
  <2>1. job[t] \in WorkJob
    BY <1>0
  <2>2. job[t].span \in WorkSpan /\ [job[t] EXCEPT !.pc = "submit"] = x
    BY <2>1 DEF WorkJob
  <2>3. job' = [job EXCEPT ![t] = [job[t] EXCEPT !.pc = "submit"]]
    BY <1>0 DEF ResetSpans
  <2>4. job' = [job EXCEPT ![t] = x]
    BY <2>2, <2>3
  <2>5. QED
    BY <2>2, <2>4 DEF WorkJob
<1>2. x.pc = "submit"
  OBVIOUS
<1> HIDE DEF x
<1>3. /\ job' \in [Threads -> WorkJob] /\ job'[t] = x
      /\ \A u \in Threads \ {t} : job'[u] = job[u]
      /\ \A u \in Threads : job'[u].pc \in {"done", "split", "submit", "take", "run"}
  BY <1>1, OneJobTyped
<1>4. t = tid /\ (\A u \in Threads \ {t} : job[u].pc = "done") /\ \A i \in 1..MaxTasks : executed[i] = 0
  BY <1>0 DEF WorkIInv, WorkPreparing
<1>5. job'[t].pc = "submit" /\ \A u \in Threads \ {t} : job'[u].pc = "done"
  BY <1>2, <1>3, <1>4
<1>6. spans' \in [SpanIndices -> WorkSpan] /\ DOMAIN spans' = SpanIndices
  BY <1>0, ThreadCount, SplitIs DEF ResetSpans, SpanIndices
<1>7. WorkTypes'
  BY <1>3, <1>6 DEF ResetSpans, WorkIInv, WorkTypes, WorkTypeOK
<1>8. ~WorkRunning' /\ WorkCounted' /\ WorkPartition'
  BY <1>5 DEF WorkRunning, WorkCounted, WorkPartition
<1>9. WorkSpansCut'
  BY DEF ResetSpans, WorkSpansCut
<1>10. WorkPreparing' /\ WorkNobody'
  BY <1>4, <1>5 DEF ResetSpans, WorkPreparing, WorkNobody
<1>11. QED
  BY <1>7, <1>8, <1>9, <1>10 DEF WorkIInv

LEMMA StartJobsStep ==
  ASSUME WorkIInv, NEW t \in Threads, StartJobs(t)
  PROVE  WorkIInv'
<1>0. job[t].pc = "submit" /\ proxyTasks \in 0..MaxTasks /\ THREAD_COUNT \in Nat \ {0}
  BY ThreadCount DEF WorkIInv, WorkTypes, WorkTypeOK, StartJobs
<1>1. t = tid /\ \A i \in 1..MaxTasks : executed[i] = 0
  BY <1>0 DEF WorkIInv, WorkPreparing
<1>2. spans = SplitInterval(THREAD_COUNT, proxyTasks)
  BY <1>0 DEF WorkIInv, WorkSpansCut
<1>3. [pc |-> "take", span |-> NoSpan] \in WorkJob
  BY WorkManagerAssumption DEF NoSpan, WorkSpan, WorkJob
<1>4. job' \in [Threads -> WorkJob] /\ \A u \in Threads : job'[u].pc = "take"
  BY <1>3 DEF StartJobs
<1>5. WorkTypes'
  BY <1>0, <1>4 DEF StartJobs, WorkIInv, WorkTypes, WorkTypeOK
<1>6. WorkPreparing' /\ WorkNobody' /\ WorkSpansCut'
  BY <1>1, <1>2, <1>4 DEF StartJobs, WorkPreparing, WorkNobody, WorkSpansCut
<1>7. WorkCounted'
  <2>1. Takers' = Threads \ {t}
    BY <1>1, <1>4 DEF StartJobs, Takers
  <2>2. Cardinality(Takers') = THREAD_COUNT - 1
    BY <2>1, ThreadCount
  <2>3. QED
    BY <1>0, <2>2 DEF StartJobs, WorkCounted
<1>8. ASSUME NEW i \in 1..MaxTasks
      PROVE  Accounted(i)'
  <2>1. \A u \in Threads : ~Pending(u, i)'
    BY <1>4 DEF Pending
  <2>2. Unclaimed(i)' <=> \E k \in SpanIndices : Covers(spans[k], i)
    <3>1. Unclaimed(i)' <=> \/ \E k \in SpanIndices : 0 <= k /\ k < THREAD_COUNT - 1 /\ Covers(spans[k], i)
                            \/ Covers(spans[THREAD_COUNT - 1], i)
      BY <1>1, <1>4 DEF StartJobs, Unclaimed, Covers
    <3>2. \A k \in SpanIndices : 0 <= k /\ (k < THREAD_COUNT - 1 \/ k = THREAD_COUNT - 1)
      BY <1>0 DEF SpanIndices
    <3>3. THREAD_COUNT - 1 \in SpanIndices
      BY <1>0 DEF SpanIndices
    <3>4. QED
      BY <3>1, <3>2, <3>3
  <2>3. i <= proxyTasks <=> \E k \in SpanIndices : Covers(spans[k], i)
    BY <1>0, <1>2, SplitIs DEF SpanIndices
  <2>4. executed'[i] = 0 /\ proxyTasks' = proxyTasks
    BY <1>1 DEF StartJobs
  <2>5. QED
    BY <2>1, <2>2, <2>3, <2>4 DEF Accounted
<1>9. QED
  BY <1>5, <1>6, <1>7, <1>8 DEF WorkIInv, WorkPartition

\* A running thread that changes its own job leaves a batch that still runs.
LEMMA StillRuns ==
  ASSUME WorkIInv, NEW t \in Threads, job[t].pc \in {"take", "run"},
         NEW x \in WorkJob, job' = [job EXCEPT ![t] = x], x.pc \in {"run", "done"},
         UNCHANGED <<tid, spans, proxyTasks>>
  PROVE  WorkRunning /\ WorkRunning' /\ WorkPreparing' /\ WorkNobody' /\ WorkSpansCut'
<1>1. WorkRunning
  BY SomeoneWorks
<1>2. job'[t] = x /\ \A u \in Threads \ {t} : job'[u] = job[u]
  BY OneJobTyped
<1>3. WorkRunning'
  BY <1>1, <1>2 DEF WorkRunning
<1>4. WorkPreparing' /\ WorkNobody'
  BY <1>3 DEF WorkRunning, WorkPreparing, WorkNobody
<1>5. WorkSpansCut'
  <2>1. spans = SplitInterval(THREAD_COUNT, proxyTasks)
    BY <1>1 DEF WorkIInv, WorkSpansCut
  <2>2. QED
    BY <2>1 DEF WorkSpansCut
<1>6. QED
  BY <1>1, <1>3, <1>4, <1>5

\* A span that leaves the unclaimed ones for a thread without one stays accounted for.
LEMMA HandedOver ==
  ASSUME WorkIInv, NEW t \in Threads, NEW s \in WorkSpan,
         job[t].pc = "take", job' = [job EXCEPT ![t] = [pc |-> "run", span |-> s]],
         UNCHANGED <<executed, proxyTasks>>,
         \A i \in 1..MaxTasks : /\ Unclaimed(i) <=> Unclaimed(i)' \/ Covers(s, i)
                                /\ ~ (Unclaimed(i)' /\ Covers(s, i))
  PROVE  WorkPartition'
<1>1. [pc |-> "run", span |-> s] \in WorkJob
  BY DEF WorkJob
<1>2. job'[t] = [pc |-> "run", span |-> s] /\ \A u \in Threads \ {t} : job'[u] = job[u]
  BY <1>1, OneJobTyped
<1>3. ASSUME NEW i \in 1..MaxTasks
      PROVE  Accounted(i)'
  <2>1. Accounted(i)
    BY SomeoneWorks DEF WorkIInv, WorkPartition
  <2>2. ~Pending(t, i) /\ (Pending(t, i)' <=> Covers(s, i))
    BY <1>2 DEF Pending, Covers
  <2>3. \A u \in Threads \ {t} : Pending(u, i)' <=> Pending(u, i)
    BY <1>2 DEF Pending, Covers
  <2>4. /\ Unclaimed(i) <=> Unclaimed(i)' \/ Covers(s, i)
        /\ ~ (Unclaimed(i)' /\ Covers(s, i))
    OBVIOUS
  <2>5. executed'[i] = executed[i] /\ proxyTasks' = proxyTasks
    OBVIOUS
  <2> HIDE DEF Accounted
  <2>6. (executed[i] <= 1 /\ (Unclaimed(i)' => executed[i] = 0))
    BY <2>1, <2>4 DEF Accounted
  <2>7. \A u \in Threads : Pending(u, i)' => executed[i] = 0 /\ ~Unclaimed(i)'
    BY <2>1, <2>2, <2>3, <2>4 DEF Accounted
  <2>8. \A u, v \in Threads : Pending(u, i)' /\ Pending(v, i)' => u = v
    BY <2>1, <2>2, <2>3, <2>4 DEF Accounted
  <2>9. i <= proxyTasks <=> executed[i] = 1 \/ Unclaimed(i)' \/ \E u \in Threads : Pending(u, i)'
    BY <2>1, <2>2, <2>3, <2>4 DEF Accounted
  <2>10. QED
    BY <2>5, <2>6, <2>7, <2>8, <2>9 DEF Accounted
<1>4. QED
  BY <1>3 DEF WorkPartition

\* As long as a worker has to take a span, the index is of one that is not the last.
LEMMA TakersIndex ==
  ASSUME WorkIInv, WorkRunning
  PROVE  /\ IsFiniteSet(Takers) /\ Cardinality(Takers) \in Nat /\ idx \in Nat
         /\ idx + Cardinality(Takers) = THREAD_COUNT - 1
         /\ \A t \in Takers : idx < THREAD_COUNT - 1 /\ idx \in SpanIndices
<1>1. IsFiniteSet(Takers) /\ Cardinality(Takers) \in Nat
  BY ThreadCount, FS_Subset, FS_CardinalityType DEF Takers
<1>2. idx \in Nat /\ THREAD_COUNT \in Nat
  BY ThreadCount DEF WorkIInv, WorkTypes, WorkTypeOK
<1>3. idx + Cardinality(Takers) = THREAD_COUNT - 1
  BY DEF WorkIInv, WorkCounted
<1>4. ASSUME NEW t \in Takers
      PROVE  idx < THREAD_COUNT - 1 /\ idx \in SpanIndices
  <2>1. Cardinality(Takers) # 0
    BY <1>1, FS_EmptySet
  <2>2. idx < THREAD_COUNT - 1
    BY <1>1, <1>2, <1>3, <2>1
  <2>3. QED
    BY <1>2, <2>2 DEF SpanIndices
<1>5. QED
  BY <1>1, <1>2, <1>3, <1>4

LEMMA GetWorkStep ==
  ASSUME WorkIInv, NEW t \in Threads, GetWork(t)
  PROVE  WorkIInv'
<1> DEFINE k == IF t = tid THEN THREAD_COUNT - 1 ELSE idx
           s == spans[k]
           x == [pc |-> "run", span |-> s]
           n == THREAD_COUNT - 1
<1>0. /\ job[t].pc = "take" /\ n \in Nat /\ spans \in [SpanIndices -> WorkSpan]
      /\ n \in SpanIndices /\ UNCHANGED <<proxyTasks, tid, spans, executed, batches>>
      /\ n = THREAD_COUNT - 1 /\ THREAD_COUNT \in Nat
  BY ThreadCount DEF WorkIInv, WorkTypes, SpanIndices, GetWork
<1>1. WorkRunning
  BY <1>0, SomeoneWorks
<1>2. /\ IsFiniteSet(Takers) /\ Cardinality(Takers) \in Nat /\ idx \in Nat
      /\ idx + Cardinality(Takers) = n
  BY <1>1, TakersIndex
<1>3. t # tid => t \in Takers /\ idx < n /\ idx \in SpanIndices
  <2>1. t # tid => t \in Takers
    BY <1>0 DEF Takers
  <2>2. QED
    BY <1>1, <2>1, TakersIndex
<1>4. k \in SpanIndices /\ (t = tid => k = n) /\ (t # tid => k = idx)
  BY <1>0, <1>3
<1>5. job' = [job EXCEPT ![t] = x] /\ idx' = (IF t = tid THEN idx ELSE idx + 1)
  BY DEF GetWork
<1> HIDE DEF k, n
<1>6. s \in WorkSpan /\ x \in WorkJob /\ x.pc = "run"
  BY <1>0, <1>4 DEF WorkJob
<1>7. /\ job' \in [Threads -> WorkJob] /\ job'[t] = x
      /\ \A u \in Threads \ {t} : job'[u] = job[u]
      /\ \A u \in Threads : job'[u].pc \in {"done", "split", "submit", "take", "run"}
  BY <1>5, <1>6, OneJobTyped
<1>8. WorkRunning' /\ WorkPreparing' /\ WorkNobody' /\ WorkSpansCut'
  BY <1>0, <1>5, <1>6, StillRuns
<1>9. WorkTypes'
  <2>1. idx' \in 0..THREAD_COUNT
    BY <1>0, <1>2, <1>3, <1>5
  <2>2. QED
    BY <1>0, <1>7, <2>1 DEF WorkIInv, WorkTypes, WorkTypeOK
<1>10. WorkCounted'
  <2>1. Takers' = Takers \ {t}
    BY <1>0, <1>6, <1>7 DEF Takers
  <2>2. CASE t = tid
    <3>1. Takers' = Takers /\ idx' = idx
      BY <1>5, <2>1, <2>2 DEF Takers
    <3>2. QED
      BY <1>0, <1>2, <3>1 DEF WorkCounted
  <2>3. CASE t # tid
    <3>1. Cardinality(Takers') = Cardinality(Takers) - 1
      BY <1>2, <1>3, <2>1, <2>3, FS_RemoveElement
    <3>2. QED
      BY <1>0, <1>2, <1>5, <2>3, <3>1 DEF WorkCounted
  <2>4. QED
    BY <2>2, <2>3
<1>11. ASSUME NEW i \in 1..MaxTasks
       PROVE  /\ Unclaimed(i) <=> Unclaimed(i)' \/ Covers(s, i)
              /\ ~ (Unclaimed(i)' /\ Covers(s, i))
  <2>1. \A a, b \in SpanIndices : Covers(spans[a], i) /\ Covers(spans[b], i) => a = b
    <3>1. spans = SplitInterval(THREAD_COUNT, proxyTasks) /\ proxyTasks \in 0..MaxTasks
      BY <1>1 DEF WorkIInv, WorkSpansCut, WorkTypes, WorkTypeOK
    <3>2. QED
      BY <3>1, ThreadCount, SplitIs DEF SpanIndices
  <2>2. Unclaimed(i) <=> \/ \E b \in SpanIndices : idx <= b /\ b < n /\ Covers(spans[b], i)
                         \/ job[tid].pc = "take" /\ Covers(spans[n], i)
    BY <1>0 DEF Unclaimed
  <2>3. Unclaimed(i)' <=> \/ \E b \in SpanIndices : idx' <= b /\ b < n /\ Covers(spans[b], i)
                          \/ job'[tid].pc = "take" /\ Covers(spans[n], i)
    BY <1>0 DEF Unclaimed, Covers
  <2>4. SpanIndices \subseteq Int
    BY <1>0 DEF SpanIndices
  <2>5. CASE t = tid
    <3>1. idx' = idx /\ job'[tid].pc # "take" /\ k = n
      BY <1>4, <1>5, <1>6, <1>7, <2>5
    <3>2. QED
      BY <1>0, <2>1, <2>2, <2>3, <2>5, <3>1
  <2>6. CASE t # tid
    <3>1. idx' = idx + 1 /\ job'[tid] = job[tid] /\ k = idx /\ idx < n /\ idx \in SpanIndices
      BY <1>1, <1>3, <1>4, <1>5, <1>7, <2>6 DEF WorkRunning
    <3>2. \A b \in SpanIndices : idx <= b <=> b = idx \/ idx + 1 <= b
      BY <1>2, <2>4
    <3>3. (\E b \in SpanIndices : idx <= b /\ b < n /\ Covers(spans[b], i))
          <=> Covers(s, i) \/ \E b \in SpanIndices : idx' <= b /\ b < n /\ Covers(spans[b], i)
      BY <3>1, <3>2
    <3>4. \A b \in SpanIndices : idx' <= b \/ b = n => b # idx
      BY <1>2, <2>4, <3>1
    <3>5. ~ (Unclaimed(i)' /\ Covers(s, i))
      BY <1>0, <2>1, <2>3, <3>1, <3>4
    <3>6. QED
      BY <2>2, <2>3, <3>1, <3>3, <3>5
  <2>7. QED
    BY <2>5, <2>6
<1>12. WorkPartition'
  BY <1>0, <1>5, <1>6, <1>11, HandedOver
<1>13. QED
  BY <1>8, <1>9, <1>10, <1>12 DEF WorkIInv

LEMMA ExecuteTaskStep ==
  ASSUME WorkIInv, NEW t \in Threads, ExecuteTask(t)
  PROVE  WorkIInv'
<1> DEFINE s == job[t].span
<1>0. /\ job[t].pc = "run" /\ job \in [Threads -> WorkJob]
      /\ executed \in [1..MaxTasks -> Nat] /\ MaxTasks \in Nat
      /\ UNCHANGED <<proxyTasks, tid, spans, idx, batches>>
  BY WorkManagerAssumption DEF WorkIInv, WorkTypes, WorkTypeOK, ExecuteTask
<1>1. s.first \in Nat \ {0} /\ s.last \in 0..MaxTasks /\ s = [first |-> s.first, last |-> s.last]
  <2>1. job[t] \in WorkJob
    BY <1>0
  <2>2. QED
    BY <2>1 DEF WorkJob, WorkSpan
<1>2. WorkRunning
  BY <1>0, SomeoneWorks
<1>3. ASSUME NEW x \in WorkJob, job' = [job EXCEPT ![t] = x], x.pc \in {"run", "done"},
             executed' \in [1..MaxTasks -> Nat],
             ASSUME NEW i \in 1..MaxTasks, Unclaimed(i)' <=> Unclaimed(i) PROVE Accounted(i)'
      PROVE  WorkIInv'
  <2>1. /\ job' \in [Threads -> WorkJob] /\ job'[t] = x
        /\ \A u \in Threads \ {t} : job'[u] = job[u]
        /\ \A u \in Threads : job'[u].pc \in {"done", "split", "submit", "take", "run"}
    BY <1>3, OneJobTyped
  <2>2. WorkRunning' /\ WorkPreparing' /\ WorkNobody' /\ WorkSpansCut'
    BY <1>0, <1>3, StillRuns
  <2>3. WorkTypes'
    BY <1>0, <1>3, <2>1 DEF WorkIInv, WorkTypes, WorkTypeOK
  <2>4. \A u \in Threads : job'[u].pc = "take" <=> job[u].pc = "take"
    BY <1>0, <1>3, <2>1
  <2>5. WorkCounted'
    <3>1. Takers' = Takers
      BY <1>0, <2>4 DEF Takers
    <3>2. QED
      BY <1>0, <1>2, <3>1 DEF WorkIInv, WorkCounted
  <2>6. \A i \in 1..MaxTasks : Unclaimed(i)' <=> Unclaimed(i)
    BY <1>0, <1>2, <2>4 DEF Unclaimed, Covers, WorkRunning
  <2>7. WorkPartition'
    BY <1>3, <2>6 DEF WorkPartition
  <2>8. QED
    BY <2>2, <2>3, <2>5, <2>7 DEF WorkIInv
<1>4. CASE s.first <= s.last
  <2> DEFINE x == [pc |-> "run", span |-> [first |-> s.first + 1, last |-> s.last]]
             j == s.first
  <2>1. x \in WorkJob /\ x.pc = "run" /\ x.span.first = j + 1 /\ x.span.last = s.last
    BY <1>1 DEF WorkJob, WorkSpan
  <2>2. job' = [job EXCEPT ![t] = x]
    <3>1. job' = [job EXCEPT ![t] = [job[t] EXCEPT !.span = [job[t].span EXCEPT !.first = @ + 1]]]
      BY <1>0, <1>4 DEF ExecuteTask
    <3>2. [s EXCEPT !.first = @ + 1] = [first |-> s.first + 1, last |-> s.last]
      BY <1>1
    <3>3. [job[t] EXCEPT !.span = [job[t].span EXCEPT !.first = @ + 1]] = x
      <4>1. job[t] \in WorkJob
        BY <1>0
      <4>2. QED
        BY <1>0, <3>2, <4>1 DEF WorkJob
    <3>4. QED
      BY <3>1, <3>3
  <2>3. j \in 1..MaxTasks /\ executed' = [executed EXCEPT ![j] = @ + 1]
    BY <1>0, <1>1, <1>4 DEF ExecuteTask
  <2> HIDE DEF x, j
  <2>4. executed' \in [1..MaxTasks -> Nat]
    BY <1>0, <2>3
  <2>5. job'[t] = x /\ \A u \in Threads \ {t} : job'[u] = job[u]
    BY <2>1, <2>2, OneJobTyped
  <2>6. ASSUME NEW i \in 1..MaxTasks, Unclaimed(i)' <=> Unclaimed(i)
        PROVE  Accounted(i)'
    <3>1. Accounted(i)
      BY <1>2 DEF WorkIInv, WorkPartition
    <3>2. \A u \in Threads \ {t} : Pending(u, i)' <=> Pending(u, i)
      BY <2>5 DEF Pending, Covers
    <3>3. (Pending(t, i) <=> j <= i /\ i <= s.last) /\ (Pending(t, i)' <=> j + 1 <= i /\ i <= s.last)
      BY <1>0, <2>1, <2>5 DEF Pending, Covers, j
    <3>4. CASE i = j
      <4>1. Pending(t, i) /\ ~Pending(t, i)'
        BY <1>4, <2>3, <3>3, <3>4 DEF j
      <4>2. executed[i] = 0 /\ executed'[i] = 1
        BY <1>0, <2>3, <3>1, <3>4, <4>1 DEF Accounted
      <4>3. ~Unclaimed(i)' /\ (\A u \in Threads : ~Pending(u, i)') /\ i <= proxyTasks
        BY <2>6, <3>1, <3>2, <4>1 DEF Accounted
      <4>4. QED
        BY <1>0, <4>2, <4>3 DEF Accounted
    <3>5. CASE i # j
      <4>1. \A u \in Threads : Pending(u, i)' <=> Pending(u, i)
        BY <1>1, <2>3, <3>2, <3>3, <3>5
      <4>2. executed'[i] = executed[i]
        BY <1>0, <2>3, <3>5
      <4>3. QED
        BY <1>0, <2>6, <3>1, <4>1, <4>2 DEF Accounted
    <3>6. QED
      BY <3>4, <3>5
  <2>7. QED
    BY <1>3, <2>1, <2>2, <2>4, <2>6
<1>5. CASE ~ (s.first <= s.last)
  <2> DEFINE x == [pc |-> "done", span |-> NoSpan]
  <2>1. x \in WorkJob /\ x.pc = "done"
    BY <1>0 DEF WorkJob, WorkSpan, NoSpan
  <2>2. job' = [job EXCEPT ![t] = x] /\ executed' = executed
    BY <1>5 DEF ExecuteTask
  <2> HIDE DEF x
  <2>3. job'[t] = x /\ \A u \in Threads \ {t} : job'[u] = job[u]
    BY <2>1, <2>2, OneJobTyped
  <2>4. ASSUME NEW i \in 1..MaxTasks, Unclaimed(i)' <=> Unclaimed(i)
        PROVE  Accounted(i)'
    <3>1. Accounted(i)
      BY <1>2 DEF WorkIInv, WorkPartition
    <3>2. ~Pending(t, i)' /\ ~Pending(t, i)
      BY <1>1, <1>5, <2>1, <2>3 DEF Pending, Covers
    <3>3. \A u \in Threads : Pending(u, i)' <=> Pending(u, i)
      BY <2>3, <3>2 DEF Pending, Covers
    <3>4. QED
      BY <1>0, <2>2, <2>4, <3>1, <3>3 DEF Accounted
  <2>5. QED
    BY <1>0, <1>3, <2>1, <2>2, <2>4
<1>6. QED
  BY <1>4, <1>5

LEMMA WorkNextIInv == WorkIInv /\ [WorkNext]_workVars => WorkIInv'
<1> SUFFICES ASSUME WorkIInv, [WorkNext]_workVars PROVE WorkIInv'
  OBVIOUS
<1>1. ASSUME NEW t \in Threads, NEW size \in 0..MaxTasks, Submit(t, size)
      PROVE  WorkIInv'
  BY <1>1, SubmitStep
<1>2. ASSUME NEW t \in Threads, ResetSpans(t)
      PROVE  WorkIInv'
  BY <1>2, ResetSpansStep
<1>3. ASSUME NEW t \in Threads, StartJobs(t)
      PROVE  WorkIInv'
  BY <1>3, StartJobsStep
<1>4. ASSUME NEW t \in Threads, GetWork(t)
      PROVE  WorkIInv'
  BY <1>4, GetWorkStep
<1>5. ASSUME NEW t \in Threads, ExecuteTask(t)
      PROVE  WorkIInv'
  BY <1>5, ExecuteTaskStep
<1>6. CASE UNCHANGED workVars
  BY <1>6 DEF workVars, WorkIInv, WorkTypes, WorkTypeOK, WorkPreparing, WorkNobody, WorkSpansCut,
              WorkCounted, WorkPartition, WorkRunning, Accounted, Pending, Unclaimed, Covers, Takers
<1>7. QED
  BY <1>1, <1>2, <1>3, <1>4, <1>5, <1>6 DEF WorkNext

LEMMA WorkAlwaysIInv == WorkSpec => []WorkIInv
<1>1. QED
  BY WorkInitIInv, WorkNextIInv, PTL DEF WorkSpec

(***************************************************************************)
(* The manager's variables keep their types: the index never passes the    *)
(* number of spans.                                                        *)
(***************************************************************************)
THEOREM WorkTypeCorrect == WorkSpec => []WorkTypeOK
<1>1. WorkIInv => WorkTypeOK
  BY DEF WorkIInv, WorkTypes
<1>2. QED
  BY <1>1, WorkAlwaysIInv, PTL

(***************************************************************************)
(* Whatever the number of threads and of tasks, no task of a batch is run  *)
(* twice, all are run when the jobs are done, and a worker of              *)
(* BSMTAManager::get_work always finds a span behind the index.            *)
(***************************************************************************)
THEOREM EachTaskOnceHolds == WorkSpec => []EachTaskOnce
<1>1. WorkIInv => EachTaskOnce
  <2> SUFFICES ASSUME WorkIInv PROVE EachTaskOnce
    OBVIOUS
  <2>0. MaxTasks \in Nat /\ proxyTasks \in 0..MaxTasks /\ executed \in [1..MaxTasks -> Nat]
    BY WorkManagerAssumption DEF WorkIInv, WorkTypes, WorkTypeOK
  <2>1. \A i \in 1..MaxTasks : executed[i] <= 1
    <3>1. CASE WorkRunning
      BY <3>1 DEF WorkIInv, WorkPartition, Accounted
    <3>2. CASE ~WorkRunning
      <4>1. \A i \in 1..MaxTasks : executed[i] = 0
        <5>1. CASE tid \notin Threads
          BY <5>1 DEF WorkIInv, WorkNobody
        <5>2. CASE tid \in Threads
          <6>1. PICK u \in Threads : job[u].pc \in {"split", "submit"}
            BY <3>2, <5>2 DEF WorkIInv, WorkTypes, WorkTypeOK, WorkRunning
          <6>2. QED
            BY <6>1 DEF WorkIInv, WorkPreparing
        <5>3. QED
          BY <5>1, <5>2
      <4>2. QED
        BY <4>1
    <3>3. QED
      BY <3>1, <3>2
  <2>2. ASSUME \A t \in Threads : job[t].pc = "done", NEW i \in 1..MaxTasks
        PROVE  executed[i] = IF i <= proxyTasks THEN 1 ELSE 0
    <3>1. CASE tid \notin Threads
      BY <2>0, <3>1 DEF WorkIInv, WorkNobody
    <3>2. CASE tid \in Threads
      <4>1. WorkRunning
        BY <2>2, <3>2 DEF WorkRunning
      <4>2. Accounted(i) /\ Takers = {}
        BY <2>2, <4>1 DEF WorkIInv, WorkPartition, Takers
      <4>3. idx = THREAD_COUNT - 1 /\ idx \in Nat
        BY <4>1, <4>2, TakersIndex, FS_EmptySet
      <4>4. ~Unclaimed(i)
        BY <2>2, <3>2, <4>3 DEF Unclaimed, SpanIndices
      <4>5. \A t \in Threads : ~Pending(t, i)
        BY <2>2 DEF Pending
      <4>6. i <= proxyTasks <=> executed[i] = 1
        BY <4>2, <4>4, <4>5 DEF Accounted
      <4>7. executed[i] <= 1 /\ executed[i] \in Nat
        BY <2>0, <2>1
      <4>8. QED
        BY <4>6, <4>7
    <3>3. QED
      BY <3>1, <3>2
  <2>3. ASSUME NEW t \in Threads, job[t].pc = "take", t # tid
        PROVE  idx < THREAD_COUNT - 1
    <3>1. WorkRunning /\ t \in Takers
      BY <2>3, SomeoneWorks DEF Takers
    <3>2. QED
      BY <3>1, TakersIndex
  <2>4. QED
    BY <2>1, <2>2, <2>3 DEF EachTaskOnce
<1>2. QED
  BY <1>1, WorkAlwaysIInv, PTL

-----------------------------------------------------------------------------
(* The interior navmesh fix *)

NavMain == navAt[MainThread]

\* The cells a thread still has to tell the navmesh of: what is left of a
\* load's snapshot, and the events whose cell has not been told.
NavPending(c) ==
    \/ c \in NavMain.refs
    \/ \E i \in 1..Len(NavMain.events) :
         (i = 1 => NavMain.pc = "event") /\ NavMain.events[i].cell = c

NavOneThread == onMain => \A t \in NavThreads \ {MainThread} : navAt[t] = Idle

\* What a thread holds fits where it is, and its events are about different
\* cells, the player's as the one that is attached.
NavShape(at) ==
    /\ at.events # <<>> <=> at.pc \in {"event", "test", "set", "add"}
    /\ at.refs # {} => at.pc = "refs"
    /\ \A i, j \in 1..Len(at.events) : at.events[i].cell = at.events[j].cell => i = j
    /\ \A i \in 1..Len(at.events) : at.events[i].attached <=> at.events[i].cell = playerCell

NavShapes == \A t \in NavThreads : NavShape(navAt[t])

\* The flag stands for one task: queued, about to be, or not yet through.
NavFlag ==
    onMain => IF updateTaskQueued
              THEN tasks = IF NavMain.pc \in {"add", "clear"} THEN 0 ELSE 1
              ELSE tasks = 0 /\ NavMain.pc \notin {"add", "clear"}
NavSetOnce == onMain /\ NavMain.pc = "set" => ~updateTaskQueued

\* What was told is applied, or somebody is on the way to applying it.
NavApplied ==
    onMain => carved = told \/ tasks > 0 \/ NavMain.pc \in {"test", "set", "add", "refs"}

\* After a load every cell is told right, or is still to be told.
NavTold ==
    /\ told \subseteq WorkshopCells
    /\ onMain /\ loads > 0 => \A c \in Cells : NavPending(c) \/ (c \in told <=> c \in Wanted)

NavIInv == NavTypeOK /\ NavOneThread /\ NavShapes /\ NavFlag /\ NavSetOnce /\ NavApplied /\ NavTold

NavPcs == {"idle", "event", "test", "set", "add", "refs", "clear"}
NavEvents == [cell : Cells, attached : BOOLEAN]
NavAts == [pc : NavPcs, events : Seq(NavEvents), refs : SUBSET Cells]

LEMMA NavIdleIs ==
  /\ Idle \in NavAts /\ Idle.pc = "idle" /\ Idle.events = <<>> /\ Idle.refs = {}
  /\ Len(Idle.events) = 0
  BY DEF Idle, NavAts, NavPcs

LEMMA NavInitIInv == NavInit => NavIInv
<1> SUFFICES ASSUME NavInit PROVE NavIInv
  OBVIOUS
<1>1. \A t \in NavThreads : navAt[t] = Idle
  BY DEF NavInit
<1>2. NavMain = Idle
  BY <1>1, NavCutAssumption DEF NavMain
<1>3. NavTypeOK
  <2>1. navAt \in [NavThreads -> NavAts]
    BY NavIdleIs DEF NavInit
  <2>2. told \subseteq Cells /\ carved \subseteq Cells /\ moves \in 0..MaxMoves /\ loads \in 0..MaxLoads
    BY NavCutAssumption DEF NavInit
  <2>3. onMain \in BOOLEAN /\ updateTaskQueued \in BOOLEAN /\ playerCell \in Cells /\ tasks \in Nat
    BY DEF NavInit
  <2>4. QED
    BY <2>1, <2>2, <2>3 DEF NavTypeOK, NavAts, NavPcs, NavEvents
<1>4. NavOneThread /\ NavShapes
  BY <1>1, NavIdleIs DEF NavOneThread, NavShapes, NavShape
<1>5. NavFlag /\ NavSetOnce /\ NavApplied /\ NavTold
  BY <1>2, NavIdleIs DEF NavInit, NavFlag, NavSetOnce, NavApplied, NavTold
<1>6. QED
  BY <1>3, <1>4, <1>5 DEF NavIInv

\* A thread that is done with its first event goes on with the next one.
LEMMA NavNextEventIs ==
  ASSUME NavTypeOK, NavShapes, NEW t \in NavThreads, navAt[t].events # <<>>
  PROVE  /\ NextEvent(t) \in [NavThreads -> NavAts]
         /\ \A u \in NavThreads \ {t} : NextEvent(t)[u] = navAt[u]
         /\ NextEvent(t)[t].events = Tail(navAt[t].events)
         /\ NextEvent(t)[t].refs = {}
         /\ NextEvent(t)[t].pc = IF Tail(navAt[t].events) = <<>> THEN "idle" ELSE "event"
<1> DEFINE at == navAt[t]
           rest == Tail(at.events)
<1>1. /\ at \in NavAts /\ at.refs = {}
  BY DEF NavTypeOK, NavAts, NavPcs, NavEvents, NavShapes, NavShape
<1>2. rest \in Seq(NavEvents)
  BY <1>1 DEF NavAts
<1>3. navAt \in [NavThreads -> NavAts]
  BY DEF NavTypeOK, NavAts, NavPcs, NavEvents
<1>4. NextEvent(t) = [navAt EXCEPT ![t] =
         IF rest = <<>> THEN Idle ELSE [at EXCEPT !.pc = "event", !.events = rest]]
  BY DEF NextEvent
<1>5. CASE rest = <<>>
  <2>1. NextEvent(t) = [navAt EXCEPT ![t] = Idle]
    BY <1>4, <1>5
  <2>2. QED
    BY <2>1, <1>3, <1>5, NavIdleIs
<1>6. CASE rest # <<>>
  <2> DEFINE new == [at EXCEPT !.pc = "event", !.events = rest]
  <2>1. NextEvent(t) = [navAt EXCEPT ![t] = new]
    BY <1>4, <1>6
  <2>2. new \in NavAts /\ new.pc = "event" /\ new.events = rest /\ new.refs = {}
    BY <1>1, <1>2 DEF NavAts, NavPcs
  <2> HIDE DEF new
  <2>3. QED
    BY <2>1, <2>2, <1>3, <1>6
<1>7. QED
  BY <1>5, <1>6

\* What is left of a thread's events, and what they say, after the first one.
LEMMA NavTailIs ==
  ASSUME NEW s \in Seq(NavEvents), s # <<>>
  PROVE  /\ Tail(s) \in Seq(NavEvents) /\ Len(Tail(s)) = Len(s) - 1 /\ Len(s) \in Nat \ {0}
         /\ \A i \in 1..Len(Tail(s)) : i + 1 \in 1..Len(s) /\ Tail(s)[i] = s[i + 1]
         /\ \A i \in 2..Len(s) : i - 1 \in 1..Len(Tail(s)) /\ Tail(s)[i - 1] = s[i]
         /\ Tail(s) = <<>> <=> Len(s) = 1
<1>1. Len(s) \in Nat \ {0} /\ Tail(s) \in Seq(NavEvents) /\ Len(Tail(s)) = Len(s) - 1
  OBVIOUS
<1>2. \A i \in 1..Len(Tail(s)) : i + 1 \in 1..Len(s) /\ Tail(s)[i] = s[i + 1]
  BY <1>1
<1>3. \A i \in 2..Len(s) : i - 1 \in 1..Len(Tail(s)) /\ Tail(s)[i - 1] = s[i]
  <2> SUFFICES ASSUME NEW i \in 2..Len(s)
               PROVE  i - 1 \in 1..Len(Tail(s)) /\ Tail(s)[i - 1] = s[i]
    OBVIOUS
  <2>1. i - 1 \in 1..Len(Tail(s)) /\ (i - 1) + 1 = i
    BY <1>1
  <2>2. QED
    BY <2>1, <1>2
<1>4. Tail(s) = <<>> <=> Len(s) = 1
  <2>1. Tail(s) = <<>> <=> Len(Tail(s)) = 0
    BY <1>1, EmptySeq
  <2>2. QED
    BY <2>1, <1>1
<1>5. QED
  BY <1>1, <1>2, <1>3, <1>4

\* Telling of one cell changes what was told of that cell only.
LEMMA NavUpdateIs ==
  ASSUME NEW cell \in Cells, NEW attaching \in BOOLEAN, told \subseteq WorkshopCells
  PROVE  LET new == DoUpdateNavmesh(cell, attaching)
         IN  /\ new \subseteq WorkshopCells
             /\ \A c \in Cells \ {cell} : c \in new <=> c \in told
             /\ cell \in new <=> attaching /\ cell \in WorkshopCells \ RemovedCells
<1>1. CASE cell \notin WorkshopCells
  <2>1. DoUpdateNavmesh(cell, attaching) = told
    BY <1>1 DEF DoUpdateNavmesh
  <2>2. QED
    BY <2>1, <1>1
<1>2. CASE cell \in WorkshopCells /\ attaching /\ cell \notin RemovedCells
  <2>1. DoUpdateNavmesh(cell, attaching) = told \cup {cell}
    BY <1>2 DEF DoUpdateNavmesh
  <2>2. QED
    BY <2>1, <1>2
<1>3. CASE cell \in WorkshopCells /\ ~(attaching /\ cell \notin RemovedCells)
  <2>1. DoUpdateNavmesh(cell, attaching) = told \ {cell}
    BY <1>3 DEF DoUpdateNavmesh
  <2>2. QED
    BY <2>1, <1>3
<1>4. QED
  BY <1>1, <1>2, <1>3

\* When the engine raises its events on the main thread, no other is at work.
LEMMA NavOtherThread ==
  ASSUME NavIInv, NEW t \in NavThreads, navAt[t] # Idle
  PROVE  onMain => t = MainThread
  BY DEF NavIInv, NavOneThread

LEMMA NavTellEventStep ==
  ASSUME NavIInv, NEW t \in NavThreads, TellEvent(t)
  PROVE  NavIInv'
<1> DEFINE at == navAt[t]
           e == Head(at.events)
<1>1. /\ at \in NavAts /\ NavShape(at) /\ at.pc = "event" /\ at.events # <<>>
      /\ at.refs = {} /\ navAt \in [NavThreads -> NavAts]
  BY DEF NavIInv, NavTypeOK, NavAts, NavPcs, NavEvents, NavShapes, NavShape, TellEvent
<1>2. /\ Len(at.events) \in Nat \ {0} /\ 1 \in 1..Len(at.events) /\ e = at.events[1]
      /\ e \in NavEvents /\ e.cell \in Cells /\ e.attached = (e.cell = playerCell)
  <2>1. at.events \in Seq(NavEvents)
    BY <1>1 DEF NavAts
  <2>2. Len(at.events) \in Nat \ {0} /\ e = at.events[1] /\ at.events[1] \in NavEvents
    BY <2>1, <1>1, NavTailIs
  <2>3. 1 \in 1..Len(at.events) /\ e.cell \in Cells /\ e.attached \in BOOLEAN
    BY <2>2 DEF NavEvents
  <2>4. e.attached = (e.cell = playerCell)
    BY <2>2, <2>3, <1>1 DEF NavShape
  <2>5. QED
    BY <2>2, <2>3, <2>4
<1>3. /\ navAt' = [navAt EXCEPT ![t].pc = "test"]
      /\ navAt'[t] = [at EXCEPT !.pc = "test"]
      /\ navAt'[t].events = at.events /\ navAt'[t].refs = {} /\ navAt'[t].pc = "test"
      /\ \A u \in NavThreads \ {t} : navAt'[u] = navAt[u]
      /\ navAt' \in [NavThreads -> NavAts]
  BY <1>1 DEF TellEvent, NavAts, NavPcs
<1>4. /\ told' = DoUpdateNavmesh(e.cell, e.attached)
      /\ told' \subseteq WorkshopCells /\ told' \subseteq Cells
      /\ \A c \in Cells \ {e.cell} : c \in told' <=> c \in told
      /\ e.cell \in told' <=> e.cell \in Wanted
  <2>1. told' = DoUpdateNavmesh(e.cell, e.attached)
    BY DEF TellEvent
  <2>2. told \subseteq WorkshopCells /\ WorkshopCells \subseteq Cells /\ playerCell \in Cells
    BY NavCutAssumption DEF NavIInv, NavTold, NavTypeOK
  <2>3. /\ told' \subseteq WorkshopCells
        /\ \A c \in Cells \ {e.cell} : c \in told' <=> c \in told
        /\ e.cell \in told' <=> e.attached /\ e.cell \in WorkshopCells \ RemovedCells
    BY <2>1, <2>2, <1>2, NavUpdateIs
  <2>5. QED
    BY <2>1, <2>2, <2>3, <1>2 DEF Wanted
<1>5. UNCHANGED <<onMain, playerCell, carved, updateTaskQueued, tasks, moves, loads>>
  BY DEF TellEvent
<1>6. NavTypeOK'
  BY <1>3, <1>4, <1>5 DEF NavIInv, NavTypeOK, NavAts, NavPcs, NavEvents
<1>7. onMain => t = MainThread
  BY <1>1, NavIdleIs, NavOtherThread
<1>8. NavOneThread'
  BY <1>3, <1>5, <1>7 DEF NavIInv, NavOneThread
<1>9. NavShapes'
  BY <1>1, <1>3, <1>5 DEF NavIInv, NavShapes, NavShape
<1>10. NavFlag' /\ NavSetOnce' /\ NavApplied'
  BY <1>1, <1>3, <1>5, <1>7 DEF NavIInv, NavFlag, NavSetOnce, NavApplied, NavMain
<1>11. ASSUME onMain, loads > 0, NEW c \in Cells
       PROVE  NavPending(c)' \/ (c \in told' <=> c \in Wanted)
  <2>1. CASE c = e.cell
    BY <2>1, <1>4
  <2>2. CASE c # e.cell
    <3>1. NavPending(c) => NavPending(c)'
      BY <2>2, <1>1, <1>2, <1>3, <1>7, <1>11 DEF NavPending, NavMain
    <3>2. NavPending(c) \/ (c \in told <=> c \in Wanted)
      BY <1>11 DEF NavIInv, NavTold
    <3>3. QED
      BY <3>1, <3>2, <2>2, <1>4
  <2>3. QED
    BY <2>1, <2>2
<1>12. NavTold'
  BY <1>4, <1>5, <1>11 DEF NavTold, Wanted
<1>13. QED
  BY <1>6, <1>8, <1>9, <1>10, <1>12 DEF NavIInv

\* A thread that is done with an event has told the navmesh of it, so what is
\* pending does not change.
LEMMA NavDoneWithEvent ==
  ASSUME NavIInv, NEW t \in NavThreads, navAt[t].events # <<>>, navAt[t].pc # "event",
         navAt' = NextEvent(t), tasks' \in Nat, onMain => t = MainThread, updateTaskQueued' \in BOOLEAN,
         UNCHANGED <<onMain, playerCell, told, carved, moves, loads>>
  PROVE  NavTypeOK' /\ NavOneThread' /\ NavShapes' /\ NavTold'
<1> DEFINE at == navAt[t]
           new == navAt'[t]
<1>1. /\ at \in NavAts /\ NavShape(at) /\ at.refs = {} /\ at.events \in Seq(NavEvents)
  BY DEF NavIInv, NavTypeOK, NavAts, NavPcs, NavEvents, NavShapes, NavShape
<1>2. /\ navAt' \in [NavThreads -> NavAts]
      /\ \A u \in NavThreads \ {t} : navAt'[u] = navAt[u]
      /\ new.events = Tail(at.events) /\ new.refs = {}
      /\ new.pc = IF Tail(at.events) = <<>> THEN "idle" ELSE "event"
  BY NavNextEventIs DEF NavIInv
<1>3. NavTypeOK'
  BY <1>2 DEF NavIInv, NavTypeOK, NavAts, NavPcs, NavEvents
<1>4. NavOneThread'
  BY <1>2 DEF NavIInv, NavOneThread
<1>5. /\ Len(new.events) = Len(at.events) - 1 /\ Len(at.events) \in Nat \ {0}
      /\ \A i \in 1..Len(new.events) : i + 1 \in 1..Len(at.events) /\ new.events[i] = at.events[i + 1]
      /\ \A i \in 2..Len(at.events) : i - 1 \in 1..Len(new.events) /\ new.events[i - 1] = at.events[i]
      /\ new.events = <<>> <=> Len(at.events) = 1
  <2> DEFINE old == at.events
             rest == Tail(old)
  <2>1. old \in Seq(NavEvents) /\ old # <<>> /\ new.events = rest
    BY <1>1, <1>2
  <2> HIDE DEF old
  <2>2. /\ Len(rest) = Len(old) - 1 /\ Len(old) \in Nat \ {0}
        /\ \A i \in 1..Len(rest) : i + 1 \in 1..Len(old) /\ rest[i] = old[i + 1]
        /\ \A i \in 2..Len(old) : i - 1 \in 1..Len(rest) /\ rest[i - 1] = old[i]
        /\ rest = <<>> <=> Len(old) = 1
    BY <2>1, NavTailIs
  <2> HIDE DEF new, rest
  <2>3. QED
    BY <2>1, <2>2 DEF old
<1>6. NavShape(new)
  <2>1. new.events # <<>> <=> new.pc \in {"event", "test", "set", "add"}
    BY <1>2
  <2>2. \A i, j \in 1..Len(new.events) : new.events[i].cell = new.events[j].cell => i = j
    <3> SUFFICES ASSUME NEW i \in 1..Len(new.events), NEW j \in 1..Len(new.events),
                        new.events[i].cell = new.events[j].cell
                 PROVE  i = j
      OBVIOUS
    <3>1. /\ i + 1 \in 1..Len(at.events) /\ new.events[i] = at.events[i + 1]
          /\ j + 1 \in 1..Len(at.events) /\ new.events[j] = at.events[j + 1]
      BY <1>5
    <3>2. at.events[i + 1].cell = at.events[j + 1].cell
      BY <3>1
    <3>3. i + 1 = j + 1
      BY <3>1, <3>2, <1>1 DEF NavShape
    <3>4. QED
      BY <3>3, <1>5
  <2>3. \A i \in 1..Len(new.events) : new.events[i].attached <=> new.events[i].cell = playerCell
    <3> SUFFICES ASSUME NEW i \in 1..Len(new.events)
                 PROVE  new.events[i].attached <=> new.events[i].cell = playerCell
      OBVIOUS
    <3>1. i + 1 \in 1..Len(at.events) /\ new.events[i] = at.events[i + 1]
      BY <1>5
    <3>2. QED
      BY <3>1, <1>1 DEF NavShape
  <2>4. QED
    BY <2>1, <2>2, <2>3, <1>2 DEF NavShape
<1>7. NavShapes'
  <2>1. \A u \in NavThreads : NavShape(navAt'[u])
    BY <1>2, <1>6 DEF NavIInv, NavShapes
  <2>2. QED
    BY <2>1 DEF NavShapes, NavShape
<1>8. ASSUME onMain, NEW c \in Cells, NavPending(c)
      PROVE  NavPending(c)'
  <2>1. PICK i \in 1..Len(at.events) : (i = 1 => at.pc = "event") /\ at.events[i].cell = c
    BY <1>1, <1>8 DEF NavPending, NavMain
  <2>2. i \in 2..Len(at.events)
    BY <2>1, <1>5
  <2>3. i - 1 \in 1..Len(new.events) /\ new.events[i - 1].cell = c /\ new.pc = "event"
    BY <2>1, <2>2, <1>2, <1>5
  <2>4. QED
    BY <2>3, <1>8 DEF NavPending, NavMain
<1>9. NavTold'
  BY <1>8 DEF NavIInv, NavTold, Wanted
<1>10. QED
  BY <1>3, <1>4, <1>7, <1>9

\* So does a thread that goes on with the one it has told.
LEMMA NavGoesOn ==
  ASSUME NavIInv, NEW t \in NavThreads, navAt[t].pc \in {"test", "set"},
         NEW pc \in {"set", "add"}, navAt' = [navAt EXCEPT ![t].pc = pc],
         onMain => t = MainThread, updateTaskQueued' \in BOOLEAN,
         UNCHANGED <<onMain, playerCell, told, carved, tasks, moves, loads>>
  PROVE  NavTypeOK' /\ NavOneThread' /\ NavShapes' /\ NavTold'
<1> DEFINE at == navAt[t]
<1>1. /\ at \in NavAts /\ NavShape(at) /\ navAt \in [NavThreads -> NavAts]
  BY DEF NavIInv, NavTypeOK, NavAts, NavPcs, NavEvents, NavShapes
<1>2. /\ navAt' \in [NavThreads -> NavAts]
      /\ \A u \in NavThreads \ {t} : navAt'[u] = navAt[u]
      /\ navAt'[t].events = at.events /\ navAt'[t].refs = at.refs /\ navAt'[t].pc = pc
  BY <1>1 DEF NavAts, NavPcs
<1>3. NavTypeOK'
  BY <1>2 DEF NavIInv, NavTypeOK, NavAts, NavPcs, NavEvents
<1>4. NavOneThread'
  BY <1>2 DEF NavIInv, NavOneThread
<1>5. NavShapes'
  BY <1>1, <1>2 DEF NavIInv, NavShapes, NavShape
<1>6. ASSUME onMain, NEW c \in Cells, NavPending(c)
      PROVE  NavPending(c)'
  BY <1>2, <1>6 DEF NavPending, NavMain
<1>7. NavTold'
  BY <1>6 DEF NavIInv, NavTold, Wanted
<1>8. QED
  BY <1>3, <1>4, <1>5, <1>7

LEMMA NavTestQueuedStep ==
  ASSUME NavIInv, NEW t \in NavThreads, TestQueued(t)
  PROVE  NavIInv'
<1> DEFINE at == navAt[t]
<1>1. /\ at \in NavAts /\ NavShape(at) /\ at.pc = "test" /\ at.events # <<>>
      /\ at.refs = {} /\ navAt \in [NavThreads -> NavAts] /\ at.events \in Seq(NavEvents)
  BY DEF NavIInv, NavTypeOK, NavAts, NavPcs, NavEvents, NavShapes, NavShape, TestQueued
<1>2. /\ UNCHANGED <<onMain, playerCell, told, carved, updateTaskQueued, tasks, moves, loads>>
      /\ tasks' \in Nat /\ updateTaskQueued' \in BOOLEAN
  BY DEF TestQueued, NavIInv, NavTypeOK
<1>3. onMain => t = MainThread
  BY <1>1, NavIdleIs, NavOtherThread
<1>4. CASE updateTaskQueued
  <2>1. navAt' = NextEvent(t)
    BY <1>4 DEF TestQueued
  <2>2. NavTypeOK' /\ NavOneThread' /\ NavShapes' /\ NavTold'
    BY <2>1, <1>1, <1>2, <1>3, NavDoneWithEvent
  <2>3. onMain => tasks > 0 /\ navAt'[t].pc \in {"idle", "event"}
    <3>1. navAt'[t].pc \in {"idle", "event"}
      BY <2>1, <1>1, NavNextEventIs DEF NavIInv
    <3>2. QED
      BY <3>1, <1>1, <1>3, <1>4 DEF NavIInv, NavFlag, NavMain
  <2>4. NavFlag' /\ NavSetOnce' /\ NavApplied'
    BY <2>3, <1>1, <1>2, <1>3, <1>4 DEF NavIInv, NavFlag, NavSetOnce, NavApplied, NavMain
  <2>5. QED
    BY <2>2, <2>4 DEF NavIInv
<1>5. CASE ~updateTaskQueued
  <2>1. navAt' = [navAt EXCEPT ![t].pc = "set"]
    BY <1>5 DEF TestQueued
  <2>2. NavTypeOK' /\ NavOneThread' /\ NavShapes' /\ NavTold'
    BY <2>1, <1>1, <1>2, <1>3, NavGoesOn
  <2>3. navAt'[t].pc = "set"
    BY <2>1, <1>1 DEF NavAts
  <2>4. NavFlag' /\ NavSetOnce' /\ NavApplied'
    BY <2>3, <1>1, <1>2, <1>3, <1>5 DEF NavIInv, NavFlag, NavSetOnce, NavApplied, NavMain
  <2>5. QED
    BY <2>2, <2>4 DEF NavIInv
<1>6. QED
  BY <1>4, <1>5 DEF NavIInv, NavTypeOK

LEMMA NavSetQueuedStep ==
  ASSUME NavIInv, NEW t \in NavThreads, SetQueued(t)
  PROVE  NavIInv'
<1> DEFINE at == navAt[t]
<1>1. /\ at \in NavAts /\ NavShape(at) /\ at.pc = "set" /\ at.events # <<>>
      /\ at.refs = {} /\ navAt \in [NavThreads -> NavAts]
  BY DEF NavIInv, NavTypeOK, NavAts, NavPcs, NavEvents, NavShapes, NavShape, SetQueued
<1>2. /\ UNCHANGED <<onMain, playerCell, told, carved, tasks, moves, loads>>
      /\ updateTaskQueued' = TRUE
      /\ navAt' = [navAt EXCEPT ![t].pc = "add"]
  BY DEF SetQueued
<1>3. onMain => t = MainThread
  BY <1>1, NavIdleIs, NavOtherThread
<1>4. NavTypeOK' /\ NavOneThread' /\ NavShapes' /\ NavTold'
  BY <1>1, <1>2, <1>3, NavGoesOn
<1>5. navAt'[t].pc = "add"
  BY <1>1, <1>2 DEF NavAts
<1>6. onMain => tasks = 0
  BY <1>1, <1>3 DEF NavIInv, NavFlag, NavSetOnce, NavMain
<1>7. NavFlag' /\ NavSetOnce' /\ NavApplied'
  BY <1>1, <1>2, <1>3, <1>5, <1>6 DEF NavIInv, NavFlag, NavSetOnce, NavApplied, NavMain
<1>8. QED
  BY <1>4, <1>7 DEF NavIInv

LEMMA NavAddTaskStep ==
  ASSUME NavIInv, NEW t \in NavThreads, AddTask(t)
  PROVE  NavIInv'
<1> DEFINE at == navAt[t]
<1>1. /\ at \in NavAts /\ NavShape(at) /\ at.pc = "add" /\ at.events # <<>>
      /\ at.refs = {} /\ navAt \in [NavThreads -> NavAts] /\ at.events \in Seq(NavEvents)
  BY DEF NavIInv, NavTypeOK, NavAts, NavPcs, NavEvents, NavShapes, NavShape, AddTask
<1>2. /\ UNCHANGED <<onMain, playerCell, told, carved, updateTaskQueued, moves, loads>>
      /\ tasks \in Nat /\ tasks' = tasks + 1
      /\ tasks' \in Nat /\ updateTaskQueued' \in BOOLEAN
      /\ navAt' = NextEvent(t)
  BY DEF AddTask, NavIInv, NavTypeOK
<1>3. onMain => t = MainThread
  BY <1>1, NavIdleIs, NavOtherThread
<1>4. NavTypeOK' /\ NavOneThread' /\ NavShapes' /\ NavTold'
  BY <1>1, <1>2, <1>3, NavDoneWithEvent
<1>5. navAt'[t].pc \in {"idle", "event"}
  BY <1>1, <1>2, NavNextEventIs DEF NavIInv
<1>6. onMain => tasks = 0 /\ updateTaskQueued
  BY <1>1, <1>3 DEF NavIInv, NavFlag, NavMain
<1>7. NavFlag' /\ NavSetOnce' /\ NavApplied'
  BY <1>1, <1>2, <1>3, <1>5, <1>6 DEF NavIInv, NavFlag, NavSetOnce, NavApplied, NavMain
<1>8. QED
  BY <1>4, <1>7 DEF NavIInv

LEMMA NavPlayerMovesStep ==
  ASSUME NavIInv, NEW t \in NavThreads, NEW cell \in Cells, PlayerMoves(t, cell)
  PROVE  NavIInv'
<1>1. /\ navAt[t] = Idle /\ navAt \in [NavThreads -> NavAts]
      /\ playerCell \in Cells /\ cell # playerCell /\ (onMain => t = MainThread)
      /\ playerCell' = cell /\ loads > 0
      /\ moves' = moves + 1 /\ moves < MaxMoves
      /\ UNCHANGED <<onMain, told, carved, updateTaskQueued, tasks, loads>>
  BY DEF PlayerMoves, NavIInv, NavTypeOK, NavAts, NavPcs, NavEvents
<1>2. \A u \in NavThreads : navAt[u].events = <<>> /\ navAt[u].pc # "refs"
  BY DEF PlayerMoves
<1>3. PICK old, evs, new :
        /\ old \in Cells /\ old = playerCell
        /\ evs = << [cell |-> old, attached |-> FALSE], [cell |-> cell, attached |-> TRUE] >>
        /\ new = [pc |-> "event", refs |-> {}, events |-> evs]
        /\ navAt' = [navAt EXCEPT ![t] = new]
  <2>1. navAt' = [navAt EXCEPT ![t] = [pc |-> "event", refs |-> {},
                   events |-> << [cell |-> playerCell, attached |-> FALSE],
                                 [cell |-> cell, attached |-> TRUE] >>]]
    BY DEF PlayerMoves
  <2>2. QED
    BY <2>1, <1>1
<1>4. /\ new \in NavAts /\ new.pc = "event" /\ new.refs = {} /\ new.events = evs
      /\ Len(evs) = 2
      /\ evs[1].cell = old /\ evs[2].cell = cell /\ ~evs[1].attached /\ evs[2].attached
  <2>1. [cell |-> old, attached |-> FALSE] \in NavEvents /\ [cell |-> cell, attached |-> TRUE] \in NavEvents
    BY <1>3 DEF NavEvents
  <2>2. evs \in Seq(NavEvents) /\ Len(evs) = 2
    BY <1>3, <2>1
  <2>3. evs[1] = [cell |-> old, attached |-> FALSE] /\ evs[2] = [cell |-> cell, attached |-> TRUE]
    BY <1>3
  <2>4. QED
    BY <1>3, <2>2, <2>3 DEF NavAts, NavPcs
<1>5. /\ navAt' \in [NavThreads -> NavAts] /\ navAt'[t] = new
      /\ \A u \in NavThreads \ {t} : navAt'[u] = navAt[u]
  BY <1>1, <1>3, <1>4
<1>6. NavTypeOK'
  <2>1. moves' \in 0..MaxMoves
    BY <1>1, NavCutAssumption DEF NavIInv, NavTypeOK
  <2>2. QED
    BY <2>1, <1>1, <1>5 DEF NavIInv, NavTypeOK, NavAts, NavPcs, NavEvents
<1>7. NavOneThread'
  BY <1>1, <1>5 DEF NavIInv, NavOneThread
<1>8. NavShapes'
  <2>1. NavShape(new)'
    <3>1. \A i \in 1..Len(evs) : i = 1 \/ i = 2
      BY <1>4
    <3>2. new.events # <<>>
      BY <1>4, NavIdleIs
    <3>3. QED
      BY <3>1, <3>2, <1>1, <1>3, <1>4 DEF NavShape
  <2>2. ASSUME NEW u \in NavThreads \ {t} PROVE NavShape(navAt[u])'
    BY <1>2, <1>5 DEF NavIInv, NavShapes, NavShape
  <2>3. QED
    BY <2>1, <2>2, <1>5 DEF NavShapes
<1>9. ASSUME onMain PROVE NavMain = Idle /\ NavMain' = new
  BY <1>1, <1>5, <1>9, NavCutAssumption DEF NavMain
<1>10. NavFlag' /\ NavSetOnce' /\ NavApplied'
  BY <1>1, <1>4, <1>9, NavIdleIs DEF NavIInv, NavFlag, NavSetOnce, NavApplied
<1>11. ASSUME onMain, NEW c \in Cells
       PROVE  NavPending(c)' \/ (c \in told <=> c \in Wanted')
  <2>1. CASE c = old \/ c = cell
    <3>1. 1 \in 1..Len(evs) /\ 2 \in 1..Len(evs)
      BY <1>4
    <3>2. NavPending(c)'
      BY <3>1, <2>1, <1>4, <1>9, <1>11 DEF NavPending
    <3>3. QED
      BY <3>2
  <2>2. CASE c # old /\ c # cell
    <3>1. ~NavPending(c)
      BY <1>9, <1>11, NavIdleIs DEF NavPending
    <3>2. c \notin Wanted /\ c \notin Wanted'
      BY <2>2, <1>1, <1>3 DEF Wanted
    <3>3. c \notin told
      BY <3>1, <3>2, <1>1, <1>11 DEF NavIInv, NavTold
    <3>4. QED
      BY <3>2, <3>3
  <2>3. QED
    BY <2>1, <2>2
<1>12. NavTold'
  BY <1>1, <1>11 DEF NavIInv, NavTold
<1>13. QED
  BY <1>6, <1>7, <1>8, <1>10, <1>12 DEF NavIInv

\* The main thread's own steps leave the other threads alone; they need only be
\* looked at for what the main thread becomes.
LEMMA NavMainBecomes ==
  ASSUME NavIInv, NEW new \in NavAts, navAt' = [navAt EXCEPT ![MainThread] = new],
         new.events = <<>>, new.pc \notin {"event", "test", "set", "add"},
         new.refs # {} => new.pc = "refs",
         \/ playerCell' = playerCell
         \/ \A u \in NavThreads : navAt[u].events = <<>>,
         UNCHANGED onMain
  PROVE  /\ navAt' \in [NavThreads -> NavAts] /\ NavMain' = new
         /\ NavOneThread' /\ NavShapes'
<1>1. /\ MainThread \in NavThreads /\ navAt \in [NavThreads -> NavAts]
  BY NavCutAssumption DEF NavIInv, NavTypeOK, NavAts, NavPcs, NavEvents
<1>2. /\ navAt' \in [NavThreads -> NavAts] /\ navAt'[MainThread] = new
      /\ \A u \in NavThreads \ {MainThread} : navAt'[u] = navAt[u]
  BY <1>1
<1>3. NavOneThread'
  BY <1>2 DEF NavIInv, NavOneThread
<1>4. NavShape(new)'
  BY NavIdleIs DEF NavShape, Idle
<1>5. ASSUME NEW u \in NavThreads \ {MainThread} PROVE NavShape(navAt[u])'
  <2>1. NavShape(navAt[u])
    BY DEF NavIInv, NavShapes
  <2>2. CASE playerCell' = playerCell
    BY <2>1, <2>2, <1>2 DEF NavShape
  <2>3. CASE navAt[u].events = <<>>
    <3>1. navAt'[u] = navAt[u] /\ Len(navAt[u].events) = 0
      BY <2>3, <1>2
    <3>2. QED
      BY <3>1, <2>1, <2>3 DEF NavShape
  <2>4. QED
    BY <2>2, <2>3
<1>6. QED
  BY <1>2, <1>3, <1>4, <1>5 DEF NavShapes, NavMain

LEMMA NavRunTaskStep ==
  ASSUME NavIInv, RunTask
  PROVE  NavIInv'
<1> DEFINE new == [Idle EXCEPT !.pc = "clear"]
<1>1. /\ NavMain = Idle /\ tasks \in Nat /\ tasks > 0 /\ tasks' = tasks - 1 /\ carved' = told
      /\ navAt' = [navAt EXCEPT ![MainThread] = new]
      /\ UNCHANGED <<onMain, playerCell, told, updateTaskQueued, moves, loads>>
  <2>1. navAt' = [navAt EXCEPT ![MainThread].pc = "clear"] /\ navAt[MainThread] = Idle
    BY DEF RunTask
  <2>2. navAt' = [navAt EXCEPT ![MainThread] = new]
    BY <2>1
  <2>3. QED
    BY <2>1, <2>2 DEF RunTask, NavIInv, NavTypeOK, NavMain
<1>2. new \in NavAts /\ new.pc = "clear" /\ new.events = <<>> /\ new.refs = {}
  BY NavIdleIs DEF NavAts, NavPcs
<1> HIDE DEF new
<1>3. /\ navAt' \in [NavThreads -> NavAts] /\ NavMain' = new
      /\ NavOneThread' /\ NavShapes'
  BY <1>1, <1>2, NavMainBecomes
<1>4. NavTypeOK'
  <2>1. tasks' \in Nat
    BY <1>1
  <2>2. QED
    BY <2>1, <1>1, <1>3 DEF NavIInv, NavTypeOK, NavAts, NavPcs, NavEvents
<1>5. NavFlag' /\ NavSetOnce' /\ NavApplied'
  BY <1>1, <1>2, <1>3, NavIdleIs DEF NavIInv, NavFlag, NavSetOnce, NavApplied, NavTypeOK
<1>6. \A c \in Cells : ~NavPending(c)
  BY <1>1, NavIdleIs DEF NavPending
<1>7. NavTold'
  BY <1>1, <1>6 DEF NavIInv, NavTold, Wanted
<1>8. QED
  BY <1>3, <1>4, <1>5, <1>7 DEF NavIInv

LEMMA NavClearQueuedStep ==
  ASSUME NavIInv, ClearQueued
  PROVE  NavIInv'
<1>1. /\ NavMain.pc = "clear" /\ updateTaskQueued' = FALSE
      /\ navAt' = [navAt EXCEPT ![MainThread] = Idle]
      /\ UNCHANGED <<onMain, playerCell, told, carved, tasks, moves, loads>>
  BY DEF ClearQueued, NavMain
<1>2. NavShape(NavMain) /\ NavMain.events = <<>> /\ Len(NavMain.events) = 0 /\ NavMain.refs = {}
  BY <1>1, NavCutAssumption DEF NavIInv, NavShapes, NavShape, NavMain
<1>3. /\ navAt' \in [NavThreads -> NavAts] /\ NavMain' = Idle
      /\ NavOneThread' /\ NavShapes'
  BY <1>1, NavIdleIs, NavMainBecomes
<1>4. NavTypeOK'
  BY <1>1, <1>3 DEF NavIInv, NavTypeOK, NavAts, NavPcs, NavEvents
<1>5. NavFlag' /\ NavSetOnce' /\ NavApplied'
  BY <1>1, <1>3, NavIdleIs DEF NavIInv, NavFlag, NavSetOnce, NavApplied, NavTypeOK
<1>6. \A c \in Cells : ~NavPending(c)
  BY <1>2 DEF NavPending
<1>7. NavTold'
  BY <1>1, <1>6 DEF NavIInv, NavTold, Wanted
<1>8. QED
  BY <1>3, <1>4, <1>5, <1>7 DEF NavIInv

LEMMA NavLoadGameStep ==
  ASSUME NavIInv, NEW cell \in Cells, LoadGame(cell)
  PROVE  NavIInv'
<1> DEFINE new == [pc |-> "refs", events |-> <<>>, refs |-> Cells]
<1>1. /\ NavMain = Idle /\ playerCell' = cell /\ loads' = loads + 1 /\ loads < MaxLoads
      /\ \A u \in NavThreads : navAt[u].events = <<>>
      /\ navAt' = [navAt EXCEPT ![MainThread] = new]
      /\ UNCHANGED <<onMain, told, carved, updateTaskQueued, tasks, moves>>
  BY DEF LoadGame, NavMain
<1>2. new \in NavAts /\ new.pc = "refs" /\ new.events = <<>> /\ new.refs = Cells
  BY DEF NavAts, NavPcs
<1> HIDE DEF new
<1>3. /\ navAt' \in [NavThreads -> NavAts] /\ NavMain' = new
      /\ NavOneThread' /\ NavShapes'
  BY <1>1, <1>2, NavMainBecomes
<1>4. NavTypeOK'
  <2>1. loads' \in 0..MaxLoads
    BY <1>1, NavCutAssumption DEF NavIInv, NavTypeOK
  <2>2. QED
    BY <2>1, <1>1, <1>3 DEF NavIInv, NavTypeOK, NavAts, NavPcs, NavEvents
<1>5. NavFlag' /\ NavSetOnce' /\ NavApplied'
  BY <1>1, <1>2, <1>3, NavIdleIs DEF NavIInv, NavFlag, NavSetOnce, NavApplied
<1>6. \A c \in Cells : NavPending(c)'
  BY <1>2, <1>3 DEF NavPending
<1>7. NavTold'
  BY <1>1, <1>6 DEF NavIInv, NavTold
<1>8. QED
  BY <1>3, <1>4, <1>5, <1>7 DEF NavIInv

LEMMA NavTellReferenceStep ==
  ASSUME NavIInv, NEW cell \in Cells, TellReference(cell)
  PROVE  NavIInv'
<1> DEFINE new == [NavMain EXCEPT !.refs = @ \ {cell}]
<1>1. /\ NavMain \in NavAts /\ NavShape(NavMain) /\ cell \in NavMain.refs
      /\ playerCell \in Cells /\ told \subseteq WorkshopCells
  BY NavCutAssumption DEF TellReference, NavMain, NavIInv, NavShapes, NavTypeOK, NavAts, NavPcs, NavEvents,
     NavTold
<1>2. /\ told' = DoUpdateNavmesh(cell, cell = playerCell)
      /\ navAt' = [navAt EXCEPT ![MainThread] = new]
      /\ UNCHANGED <<onMain, playerCell, carved, updateTaskQueued, tasks, moves, loads>>
  BY DEF TellReference, NavMain
<1>3. /\ NavMain.pc = "refs" /\ NavMain.events = <<>> /\ Len(NavMain.events) = 0
      /\ new \in NavAts /\ new.pc = "refs" /\ new.events = <<>>
      /\ new.refs = NavMain.refs \ {cell}
  BY <1>1 DEF NavShape, NavAts, NavPcs
<1> HIDE DEF new
<1>4. /\ navAt' \in [NavThreads -> NavAts] /\ NavMain' = new
      /\ NavOneThread' /\ NavShapes'
  BY <1>2, <1>3, NavMainBecomes
<1>5. /\ told' \subseteq WorkshopCells
      /\ \A c \in Cells \ {cell} : c \in told' <=> c \in told
      /\ cell \in told' <=> cell \in Wanted
  <2>1. (cell = playerCell) \in BOOLEAN
    OBVIOUS
  <2>2. /\ told' \subseteq WorkshopCells
        /\ \A c \in Cells \ {cell} : c \in told' <=> c \in told
        /\ cell \in told' <=> cell = playerCell /\ cell \in WorkshopCells \ RemovedCells
    BY <2>1, <1>1, <1>2, NavUpdateIs
  <2>3. QED
    BY <2>2 DEF Wanted
<1>6. NavTypeOK'
  <2>1. told' \subseteq Cells
    BY <1>5, NavCutAssumption
  <2>2. QED
    BY <2>1, <1>2, <1>4 DEF NavIInv, NavTypeOK, NavAts, NavPcs, NavEvents
<1>7. NavFlag' /\ NavSetOnce' /\ NavApplied'
  BY <1>2, <1>3, <1>4 DEF NavIInv, NavFlag, NavSetOnce, NavApplied
<1>8. ASSUME onMain, loads > 0, NEW c \in Cells
      PROVE  NavPending(c)' \/ (c \in told' <=> c \in Wanted)
  <2>1. CASE c = cell
    BY <2>1, <1>5
  <2>2. CASE c # cell
    <3>1. NavPending(c) => NavPending(c)'
      BY <2>2, <1>3, <1>4 DEF NavPending
    <3>2. QED
      BY <3>1, <2>2, <1>5, <1>8 DEF NavIInv, NavTold
  <2>3. QED
    BY <2>1, <2>2
<1>9. NavTold'
  BY <1>2, <1>5, <1>8 DEF NavTold, Wanted
<1>10. QED
  BY <1>4, <1>6, <1>7, <1>9 DEF NavIInv

LEMMA NavFinishLoadStep ==
  ASSUME NavIInv, FinishLoad
  PROVE  NavIInv'
<1>1. /\ NavMain.pc = "refs" /\ NavMain.refs = {} /\ carved' = told
      /\ navAt' = [navAt EXCEPT ![MainThread] = Idle]
      /\ UNCHANGED <<onMain, playerCell, told, updateTaskQueued, tasks, moves, loads>>
  BY DEF FinishLoad, NavMain
<1>2. NavMain.events = <<>> /\ Len(NavMain.events) = 0
  BY <1>1, NavCutAssumption DEF NavIInv, NavShapes, NavShape, NavMain
<1>3. /\ navAt' \in [NavThreads -> NavAts] /\ NavMain' = Idle
      /\ NavOneThread' /\ NavShapes'
  BY <1>1, NavIdleIs, NavMainBecomes
<1>4. NavTypeOK'
  BY <1>1, <1>3 DEF NavIInv, NavTypeOK, NavAts, NavPcs, NavEvents
<1>5. NavFlag' /\ NavSetOnce' /\ NavApplied'
  BY <1>1, <1>3, NavIdleIs DEF NavIInv, NavFlag, NavSetOnce, NavApplied
<1>6. \A c \in Cells : ~NavPending(c)
  BY <1>1, <1>2 DEF NavPending
<1>7. NavTold'
  BY <1>1, <1>6 DEF NavIInv, NavTold, Wanted
<1>8. QED
  BY <1>3, <1>4, <1>5, <1>7 DEF NavIInv

LEMMA NavNextIInv == NavIInv /\ [NavNext]_navVars => NavIInv'
<1> SUFFICES ASSUME NavIInv, [NavNext]_navVars PROVE NavIInv'
  OBVIOUS
<1>1. CASE NavEngineStep
  BY <1>1, NavLoadGameStep, NavPlayerMovesStep DEF NavEngineStep
<1>2. CASE NavMainStep
  BY <1>2, NavRunTaskStep, NavClearQueuedStep, NavFinishLoadStep, NavTellReferenceStep DEF NavMainStep
<1>3. CASE \E t \in NavThreads : NavThreadStep(t)
  BY <1>3, NavTellEventStep, NavTestQueuedStep, NavSetQueuedStep, NavAddTaskStep DEF NavThreadStep
<1>4. CASE UNCHANGED navVars
  BY <1>4 DEF navVars, NavIInv, NavTypeOK, NavOneThread, NavShapes, NavShape, NavFlag, NavSetOnce,
     NavApplied, NavTold, NavPending, NavMain, Wanted
<1>5. QED
  BY <1>1, <1>2, <1>3, <1>4 DEF NavNext

\* The navmesh fix's variables keep their types.
THEOREM NavTypeCorrect == NavSpec => []NavTypeOK
<1>1. NavIInv => NavTypeOK
  BY DEF NavIInv
<1>2. QED
  BY <1>1, NavInitIInv, NavNextIInv, PTL DEF NavSpec

\* When no event, task or load is under way the navmesh is cut by the player's
\* cell only, whatever events, tasks and loads came in which order, as long as
\* the engine raises cell events on the thread that runs the tasks
\* (ProcessEvent, its task, ForceNavMeshUpdate).
THEOREM QuietNavmeshIsRightHolds == NavSpec => []QuietNavmeshIsRight
<1>1. NavIInv => QuietNavmeshIsRight
  <2> SUFFICES ASSUME NavIInv, onMain, loads > 0, NavQuiet PROVE carved = Wanted
    BY DEF QuietNavmeshIsRight
  <2>1. NavMain = Idle /\ tasks = 0
    BY NavCutAssumption DEF NavQuiet, NavMain
  <2>2. carved = told
    BY <2>1, NavIdleIs DEF NavIInv, NavApplied
  <2>3. \A c \in Cells : ~NavPending(c)
    BY <2>1, NavIdleIs DEF NavPending
  <2>4. told \subseteq Cells /\ Wanted \subseteq Cells
    BY DEF NavIInv, NavTypeOK, Wanted
  <2>5. QED
    BY <2>2, <2>3, <2>4 DEF NavIInv, NavTold
<1>2. QED
  BY <1>1, NavInitIInv, NavNextIInv, PTL DEF NavSpec

-----------------------------------------------------------------------------
(* The loaded modules *)

\* The greatest of some positions.
LEMMA MaxIsGreatest ==
  ASSUME NEW n \in Nat, NEW S, S \subseteq 1..n, S # {}
  PROVE  Max(S) \in S /\ \A y \in S : y <= Max(S)
<1> DEFINE T == {n - i : i \in S}
<1>1. T \subseteq Nat /\ T # {}
  <2>1. \A i \in S : i \in 1..n /\ n - i \in Nat
    OBVIOUS
  <2>2. QED
    BY <2>1
<1>2. PICK x \in T : \A y \in T : ~ (<<y, x>> \in OpToRel(<, Nat))
  BY <1>1, NatLessThanWellFounded, WFMin
<1>3. PICK m \in S : x = n - m
  BY <1>2
<1>4. ASSUME NEW y \in S PROVE m >= y
  <2>1. n - y \in T /\ n - y \in Nat /\ n - m \in Nat
    BY <1>4
  <2>2. n - y < n - m => <<n - y, n - m>> \in OpToRel(<, Nat)
    BY <2>1 DEF OpToRel
  <2>3. ~ (n - y < n - m)
    BY <1>2, <1>3, <2>1, <2>2
  <2>4. QED
    BY <2>3, <1>4
<1> HIDE DEF T
<1>5. Max(S) \in S /\ \A y \in S : Max(S) >= y
  BY <1>4 DEF Max
<1>6. QED
  BY <1>5

\* A function of some positions to themselves that takes none twice takes each.
LEMMA Rearranges ==
  ASSUME NEW n \in Nat, NEW p \in [1..n -> 1..n], \A i, j \in 1..n : i # j => p[i] # p[j]
  PROVE  \A y \in 1..n : \E x \in 1..n : p[x] = y
<1>1. IsFiniteSet(1..n)
  BY FS_Interval
<1>2. p \in Injection(1..n, 1..n)
  BY Fun_IsInj
<1>3. p \in Surjection(1..n, 1..n)
  BY <1>1, <1>2, FS_Injection
<1>4. QED
  BY <1>3 DEF Surjection

LmHandles == Images \cup {NoHandle}
LmListings == [pc : {"resize", "enum", "create", "sorted", "dead"}, handles : Seq(LmHandles),
               needed : 0 .. Cardinality(Images), results : Seq(LmHandles)]

\* Nothing was unloaded while the images are listed, and no call failed.
LmClean == unloads = 0 /\ failures = 0

LmDistinct == \A i, j \in DOMAIN loaded : loaded[i] = loaded[j] => i = j
LmGrows == unloads = 0 => Len(loaded) >= Len(LoadedAtCrash)
LmCreates ==
    listing.pc = "create" =>
        /\ Len(listing.results) = Len(listing.handles)
        /\ \A i \in 1..Len(listing.handles) : listing.results[i] \in {NoHandle, listing.handles[i]}
LmDies == listing.pc = "dead" => ~LmClean

\* The buffer is never larger than the loader's list, and what the last call
\* wrote is the beginning of it.
LmFresh ==
    LmClean =>
        /\ listing.needed <= Len(loaded)
        /\ listing.pc = "resize" => Len(listing.handles) <= listing.needed
        /\ listing.pc = "enum" => Len(listing.handles) = listing.needed
        /\ listing.pc = "create" =>
             /\ Len(listing.handles) = listing.needed
             /\ listing.needed >= Len(LoadedAtCrash)
             /\ \A i \in 1..listing.needed : listing.handles[i] = loaded[i]

LmSorted ==
    LmClean /\ listing.pc = "sorted" =>
        /\ listing.needed >= Len(LoadedAtCrash)
        /\ Len(listing.results) = listing.needed
        /\ ToSet(listing.results) = {loaded[i] : i \in 1..listing.needed}
        /\ \A i, j \in 1..Len(listing.results) : i < j => listing.results[i] <= listing.results[j]

LmIInv == LmTypeOK /\ LmDistinct /\ LmGrows /\ LmCreates /\ LmDies /\ LmFresh /\ LmSorted

LEMMA LmTypes ==
  ASSUME LmTypeOK
  PROVE  /\ listing \in LmListings /\ loaded \in Seq(Images)
         /\ Len(loaded) \in Nat /\ DOMAIN loaded = 1..Len(loaded)
         /\ \A i \in 1..Len(loaded) : loaded[i] \in Images
         /\ Len(listing.handles) \in Nat /\ DOMAIN listing.handles = 1..Len(listing.handles)
         /\ Len(listing.results) \in Nat /\ DOMAIN listing.results = 1..Len(listing.results)
         /\ \A i \in 1..Len(listing.handles) : listing.handles[i] \in LmHandles
         /\ \A i \in 1..Len(listing.results) : listing.results[i] \in LmHandles
         /\ listing.needed \in Nat /\ Cardinality(Images) \in Nat
<1>1. listing \in LmListings /\ loaded \in Seq(Images)
  BY DEF LmTypeOK, LmListings, LmHandles
<1>2. listing.handles \in Seq(LmHandles) /\ listing.results \in Seq(LmHandles)
      /\ listing.needed \in 0..Cardinality(Images)
  BY <1>1 DEF LmListings
<1>3. Cardinality(Images) \in Nat
  BY FS_CardinalityType, LoadedModulesAssumption
<1>4. QED
  BY <1>1, <1>2, <1>3

LEMMA LmCrashIs ==
  /\ LoadedAtCrash \in Seq(Images) /\ Len(LoadedAtCrash) \in Nat
  /\ DOMAIN LoadedAtCrash = 1..Len(LoadedAtCrash)
  BY LoadedModulesAssumption

\* No more images are loaded than there are.
LEMMA LmFewLoaded ==
  ASSUME LmTypeOK, LmDistinct
  PROVE  Len(loaded) \in 0..Cardinality(Images)
<1>1. /\ IsFiniteSet(Images) /\ Len(loaded) \in Nat /\ Cardinality(Images) \in Nat
      /\ loaded \in [1..Len(loaded) -> Images]
  BY LmTypes, LoadedModulesAssumption
<1>2. IsFiniteSet(1..Len(loaded)) /\ Cardinality(1..Len(loaded)) = Len(loaded)
  <2> DEFINE n == Len(loaded)
  <2>1. n \in Int /\ 1 \in Int /\ n \in Nat
    BY <1>1
  <2> HIDE DEF n
  <2>2. IsFiniteSet(1..n) /\ Cardinality(1..n) = IF 1 > n THEN 0 ELSE n - 1 + 1
    BY <2>1, FS_Interval
  <2>3. IsFiniteSet(1..n) /\ Cardinality(1..n) = n
    BY <2>1, <2>2
  <2>4. QED
    BY <2>3 DEF n
<1>3. ~ (Cardinality(Images) < Cardinality(1..Len(loaded)))
  <2>1. ~ \E x, y \in 1..Len(loaded) : x # y /\ loaded[x] = loaded[y]
    BY <1>1, LmTypes DEF LmDistinct
  <2>2. QED
    BY <1>1, <1>2, <2>1, FS_PigeonHole
<1>4. QED
  BY <1>1, <1>2, <1>3

LEMMA LmInitIInv == LmInit => LmIInv
<1> SUFFICES ASSUME LmInit PROVE LmIInv
  OBVIOUS
<1>1. /\ loaded = LoadedAtCrash /\ unloads = 0 /\ failures = 0
      /\ listing.pc = "resize" /\ listing.handles = <<>> /\ listing.needed = 0
      /\ Len(listing.handles) = 0
  BY DEF LmInit
<1>2. listing \in LmListings
  <2>1. Cardinality(Images) \in Nat
    BY FS_CardinalityType, LoadedModulesAssumption
  <2>2. <<>> \in Seq(LmHandles) /\ 0 \in 0..Cardinality(Images)
    BY <2>1
  <2>3. QED
    BY <2>2 DEF LmInit, LmListings
<1>3. LmTypeOK
  BY <1>1, <1>2, LoadedModulesAssumption DEF LmTypeOK, LmListings, LmHandles
<1>4. LmDistinct /\ LmGrows
  BY <1>1, LmCrashIs, LoadedModulesAssumption DEF LmDistinct, LmGrows
<1>5. LmCreates /\ LmDies /\ LmSorted /\ LmFresh
  BY <1>1, LmCrashIs DEF LmCreates, LmDies, LmSorted, LmFresh
<1>6. QED
  BY <1>3, <1>4, <1>5 DEF LmIInv

LEMMA LmLoadStep ==
  ASSUME LmIInv, NEW m \in Images, LoadImage(m)
  PROVE  LmIInv'
<1> DEFINE n == Len(loaded)
<1>1. LmTypeOK /\ n \in Nat /\ \A i \in 1..n : loaded[i] # m
  BY LmTypes DEF LmIInv, LoadImage, ToSet
<1>2. /\ loaded' \in Seq(Images) /\ Len(loaded') = n + 1 /\ DOMAIN loaded' = 1..(n + 1)
      /\ loaded'[n + 1] = m /\ \A i \in 1..n : loaded'[i] = loaded[i]
      /\ UNCHANGED <<listing, unloads, failures>>
  BY <1>1, LmTypes DEF LoadImage
<1> HIDE DEF n
<1>3. LmTypeOK'
  BY <1>2 DEF LmIInv, LmTypeOK
<1>4. LmDistinct'
  <2> SUFFICES ASSUME NEW i \in 1..(n + 1), NEW j \in 1..(n + 1), loaded'[i] = loaded'[j]
               PROVE  i = j
    BY <1>2 DEF LmDistinct
  <2>1. DOMAIN loaded = 1..n
    BY <1>1, LmTypes DEF n
  <2>2. i = n + 1 \/ i \in 1..n
    BY <1>1
  <2>3. j = n + 1 \/ j \in 1..n
    BY <1>1
  <2>4. QED
    BY <1>1, <1>2, <2>1, <2>2, <2>3 DEF LmIInv, LmDistinct
<1>5. LmGrows' /\ LmCreates' /\ LmDies'
  BY <1>1, <1>2, LmCrashIs DEF LmIInv, LmGrows, LmCreates, LmDies, LmClean, n
<1>6. LmFresh' /\ LmSorted'
  <2>1. listing.needed \in Nat
    BY <1>1, LmTypes
  <2>2. LmClean => \A i \in 1..listing.needed : i \in 1..n
    BY <1>1, <2>1 DEF LmIInv, LmFresh, n
  <2>3. LmFresh'
    BY <1>1, <1>2, <2>1, <2>2 DEF LmIInv, LmFresh, LmClean, n
  <2>4. LmClean => {loaded'[i] : i \in 1..listing.needed} = {loaded[i] : i \in 1..listing.needed}
    BY <1>2, <2>2
  <2>5. LmSorted'
    BY <1>2, <2>4 DEF LmIInv, LmSorted, LmClean
  <2>6. QED
    BY <2>3, <2>5
<1>7. QED
  BY <1>3, <1>4, <1>5, <1>6 DEF LmIInv

LEMMA LmUnloadStep ==
  ASSUME LmIInv, NEW m \in Images, UnloadImage(m)
  PROVE  LmIInv'
<1> DEFINE n == Len(loaded)
<1>1. PICK k \in DOMAIN loaded : loaded[k] = m /\ loaded' = RemoveAt(loaded, k)
  BY DEF UnloadImage
<1>2. /\ LmTypeOK /\ n \in Nat /\ k \in 1..n /\ DOMAIN loaded = 1..n
      /\ \A i \in 1..n : loaded[i] \in Images
  BY LmTypes DEF LmIInv
<1>3. /\ unloads' = unloads + 1 /\ unloads < MaxUnloads /\ unloads \in 0..MaxUnloads
      /\ UNCHANGED <<listing, failures>>
  BY <1>2 DEF UnloadImage, LmTypeOK
<1>4. /\ loaded' \in Seq(Images) /\ Len(loaded') = n - 1
      /\ \A i \in 1..(n - 1) : loaded'[i] = loaded[IF i < k THEN i ELSE i + 1]
  <2> DEFINE a == SubSeq(loaded, 1, k - 1)
             b == SubSeq(loaded, k + 1, n)
  <2>1. a \in Seq(Images) /\ Len(a) = k - 1 /\ \A i \in 1..(k - 1) : a[i] = loaded[i]
    <3>1. \A i \in 1..(k - 1) : loaded[i] \in Images
      BY <1>2
    <3>2. 1 \in Int /\ k - 1 \in Int
      BY <1>2
    <3>3. /\ a \in Seq(Images) /\ Len(a) = IF 1 <= k - 1 THEN (k - 1) - 1 + 1 ELSE 0
          /\ \A i \in 1..((k - 1) - 1 + 1) : a[i] = loaded[1 + i - 1]
      BY <3>1, <3>2, SubSeqProperties
    <3>4. (k - 1) - 1 + 1 = k - 1 /\ \A i \in 1..(k - 1) : 1 + i - 1 = i
      BY <1>2
    <3>5. Len(a) = k - 1
      <4> HIDE DEF a
      <4>1. QED
        BY <3>3, <1>2
    <3> HIDE DEF a
    <3>6. QED
      BY <3>3, <3>4, <3>5
  <2>2. b \in Seq(Images) /\ Len(b) = n - k /\ \A i \in 1..(n - k) : b[i] = loaded[k + i]
    <3>1. \A i \in (k + 1)..n : loaded[i] \in Images
      BY <1>2
    <3>2. k + 1 \in Int /\ n \in Int
      BY <1>2
    <3>3. /\ b \in Seq(Images) /\ Len(b) = IF k + 1 <= n THEN n - (k + 1) + 1 ELSE 0
          /\ \A i \in 1..(n - (k + 1) + 1) : b[i] = loaded[(k + 1) + i - 1]
      BY <3>1, <3>2, SubSeqProperties
    <3>4. n - (k + 1) + 1 = n - k /\ \A i \in 1..(n - k) : (k + 1) + i - 1 = k + i
      BY <1>2
    <3>5. Len(b) = n - k
      <4> HIDE DEF b
      <4>1. QED
        BY <3>3, <1>2
    <3> HIDE DEF b
    <3>6. QED
      BY <3>3, <3>4, <3>5
  <2>3. loaded' = a \o b
    BY <1>1 DEF RemoveAt
  <2> HIDE DEF a, b
  <2>4. /\ a \o b \in Seq(Images) /\ Len(a \o b) = Len(a) + Len(b)
        /\ \A i \in 1..(Len(a) + Len(b)) : (a \o b)[i] = IF i <= Len(a) THEN a[i] ELSE b[i - Len(a)]
    BY <2>1, <2>2, ConcatProperties
  <2>5. Len(a) + Len(b) = n - 1
    BY <1>2, <2>1, <2>2
  <2>6. ASSUME NEW i \in 1..(n - 1)
        PROVE  loaded'[i] = loaded[IF i < k THEN i ELSE i + 1]
    <3>1. CASE i < k
      BY <3>1, <1>2, <2>1, <2>3, <2>4, <2>5
    <3>2. CASE ~ (i < k)
      <4>1. i - (k - 1) \in 1..(n - k) /\ k + (i - (k - 1)) = i + 1 /\ ~ (i <= k - 1)
        BY <3>2, <1>2
      <4>2. b[i - (k - 1)] = loaded[i + 1]
        BY <4>1, <2>2
      <4>3. QED
        BY <4>1, <4>2, <3>2, <2>1, <2>3, <2>4, <2>5
    <3>3. QED
      BY <3>1, <3>2
  <2>7. QED
    BY <2>3, <2>4, <2>5, <2>6
<1> HIDE DEF n
<1>5. LmTypeOK'
  <2>1. unloads' \in 0..MaxUnloads
    BY <1>3, LoadedModulesAssumption
  <2>2. QED
    BY <2>1, <1>3, <1>4 DEF LmIInv, LmTypeOK
<1>6. LmDistinct'
  <2> SUFFICES ASSUME NEW i \in DOMAIN loaded', NEW j \in DOMAIN loaded', loaded'[i] = loaded'[j]
               PROVE  i = j
    BY DEF LmDistinct
  <2>1. i \in 1..(n - 1) /\ j \in 1..(n - 1)
    BY <1>4
  <2> DEFINE at(x) == IF x < k THEN x ELSE x + 1
  <2>2. at(i) \in 1..n /\ at(j) \in 1..n
    BY <2>1, <1>2
  <2>3. loaded[at(i)] = loaded[at(j)]
    BY <2>1, <1>4
  <2>4. at(i) = at(j)
    BY <2>2, <2>3, <1>2 DEF LmIInv, LmDistinct
  <2>5. QED
    BY <2>1, <2>4, <1>2
<1>7. unloads' # 0 /\ ~LmClean'
  BY <1>3 DEF LmClean
<1>8. LmCreates'
  BY <1>3 DEF LmIInv, LmCreates
<1>9. QED
  BY <1>5, <1>6, <1>7, <1>8 DEF LmIInv, LmGrows, LmDies, LmFresh, LmSorted

LEMMA LmResizeStep ==
  ASSUME LmIInv, ResizeHandles
  PROVE  LmIInv'
<1> DEFINE l == listing
           grown == [i \in 1..l.needed |-> IF i <= Len(l.handles) THEN l.handles[i] ELSE NoHandle]
<1>1. /\ LmTypeOK /\ l \in LmListings /\ l.needed \in Nat /\ Len(l.handles) \in Nat
      /\ \A i \in 1..Len(l.handles) : l.handles[i] \in LmHandles
  BY LmTypes DEF LmIInv
<1>2. l.pc = "resize" /\ UNCHANGED <<loaded, unloads, failures>>
      /\ listing' = [l EXCEPT !.pc = "enum", !.handles = grown]
  BY DEF ResizeHandles
<1>3. grown \in Seq(LmHandles) /\ Len(grown) = l.needed
  <2>1. \A i \in 1..l.needed : (IF i <= Len(l.handles) THEN l.handles[i] ELSE NoHandle) \in LmHandles
    BY <1>1 DEF LmHandles
  <2>2. QED
    BY <2>1, <1>1
<1> HIDE DEF grown
<1>4. /\ listing' \in LmListings /\ listing'.pc = "enum" /\ listing'.handles = grown
      /\ listing'.needed = l.needed
  BY <1>1, <1>2, <1>3 DEF LmListings
<1>5. LmTypeOK'
  BY <1>2, <1>4 DEF LmIInv, LmTypeOK, LmListings, LmHandles
<1>6. LmDistinct' /\ LmGrows' /\ LmCreates' /\ LmDies' /\ LmSorted'
  BY <1>2, <1>4 DEF LmIInv, LmDistinct, LmGrows, LmCreates, LmDies, LmSorted
<1>7. LmFresh'
  BY <1>2, <1>3, <1>4 DEF LmIInv, LmFresh, LmClean
<1>8. QED
  BY <1>5, <1>6, <1>7 DEF LmIInv

\* A call that returns some handles and a size.
LEMMA LmAfterEnum ==
  ASSUME LmIInv, NEW handles \in Seq(LmHandles), NEW needed \in 0..Cardinality(Images),
         listing' = AfterEnum(handles, needed), UNCHANGED <<loaded, unloads>>,
         failures' \in 0..MaxFailures,
         LmClean' => /\ Len(handles) <= needed /\ needed = Len(loaded)
                     /\ \A i \in 1..Len(handles) : handles[i] = loaded[i]
  PROVE  LmIInv'
<1> DEFINE l == listing
           res == [i \in DOMAIN handles |-> NoHandle]
           next == IF Again(handles, needed) THEN "resize" ELSE "create"
<1>1. /\ LmTypeOK /\ l \in LmListings /\ needed \in Nat /\ Len(handles) \in Nat
      /\ Len(loaded) \in Nat
  <2>1. LmTypeOK /\ l \in LmListings /\ Cardinality(Images) \in Nat /\ Len(loaded) \in Nat
    BY LmTypes DEF LmIInv
  <2>2. QED
    BY <2>1
<1>2. listing' = [l EXCEPT !.handles = handles, !.needed = needed, !.pc = next, !.results = res]
  BY DEF AfterEnum
<1>3. res \in Seq(LmHandles) /\ Len(res) = Len(handles) /\ \A i \in 1..Len(handles) : res[i] = NoHandle
  <2>1. DOMAIN handles = 1..Len(handles)
    OBVIOUS
  <2>2. QED
    BY <1>1, <2>1 DEF LmHandles
<1>4. next \in {"resize", "create"}
  OBVIOUS
<1> HIDE DEF res
<1>5. /\ listing' \in LmListings /\ listing'.pc = next /\ listing'.handles = handles
      /\ listing'.needed = needed /\ listing'.results = res
  <2> HIDE DEF next
  <2>1. QED
    BY <1>1, <1>2, <1>3, <1>4 DEF LmListings
<1>6. LmTypeOK'
  BY <1>5 DEF LmIInv, LmTypeOK, LmListings, LmHandles
<1>7. LmDistinct' /\ LmGrows'
  BY DEF LmIInv, LmDistinct, LmGrows
<1>8. LmCreates' /\ LmDies' /\ LmSorted'
  BY <1>3, <1>4, <1>5 DEF LmCreates, LmDies, LmSorted
<1>9. LmFresh'
  <2>1. CASE Again(handles, needed)
    <3>1. next = "resize"
      BY <2>1
    <3>2. QED
      BY <3>1, <1>1, <1>5 DEF LmFresh
  <2>2. CASE ~Again(handles, needed)
    <3>1. next = "create" /\ ~(Len(handles) < needed)
      BY <2>2 DEF Again
    <3>2. LmClean' => Len(handles) = needed
      BY <3>1, <1>1
    <3>3. LmClean' => needed >= Len(LoadedAtCrash)
      BY <1>1 DEF LmIInv, LmGrows, LmClean
    <3>4. QED
      BY <3>1, <3>2, <3>3, <1>1, <1>5 DEF LmFresh
  <2>3. QED
    BY <2>1, <2>2
<1>10. QED
  BY <1>6, <1>7, <1>8, <1>9 DEF LmIInv

LEMMA LmEnumStep ==
  ASSUME LmIInv, EnumProcessModules
  PROVE  LmIInv'
<1> DEFINE old == listing.handles
           n == Len(loaded)
           filled == [i \in DOMAIN old |-> IF i <= n THEN loaded[i] ELSE old[i]]
<1>1. /\ LmTypeOK /\ n \in Nat /\ Len(old) \in Nat /\ DOMAIN old = 1..Len(old)
      /\ \A i \in 1..n : loaded[i] \in Images
      /\ \A i \in 1..Len(old) : old[i] \in LmHandles
      /\ old \in Seq(LmHandles) /\ listing.needed \in 0..Cardinality(Images)
      /\ n \in 0..Cardinality(Images) /\ failures \in 0..MaxFailures
  BY LmTypes, LmFewLoaded DEF LmIInv, LmListings, LmTypeOK
<1>2. UNCHANGED <<loaded, unloads>> /\ listing.pc = "enum"
  BY DEF EnumProcessModules
<1>3. CASE listing' = AfterEnum(filled, n) /\ failures' = failures
  <2>1. filled \in Seq(LmHandles) /\ Len(filled) = Len(old)
    <3>1. \A i \in 1..Len(old) : (IF i <= n THEN loaded[i] ELSE old[i]) \in LmHandles
      BY <1>1 DEF LmHandles
    <3>2. QED
      BY <3>1, <1>1
  <2>2. LmClean' => Len(old) <= n
    BY <1>1, <1>2, <1>3 DEF LmIInv, LmFresh, LmClean
  <2>3. \A i \in 1..Len(old) : i <= n => filled[i] = loaded[i]
    BY <1>1
  <2> HIDE DEF filled
  <2>4. LmClean' => Len(filled) <= n /\ \A i \in 1..Len(filled) : filled[i] = loaded[i]
    BY <2>1, <2>2, <2>3, <1>1
  <2> HIDE DEF n
  <2>5. QED
    BY <2>1, <2>4, <1>1, <1>2, <1>3, LmAfterEnum DEF n
<1>4. CASE /\ listing' = AfterEnum(old, listing.needed)
           /\ failures' = failures + 1 /\ failures < MaxFailures
  <2>1. failures' \in 0..MaxFailures /\ ~LmClean'
    BY <1>1, <1>4, LoadedModulesAssumption DEF LmClean
  <2>2. QED
    BY <2>1, <1>1, <1>2, <1>4, LmAfterEnum
<1>5. QED
  BY <1>3, <1>4 DEF EnumProcessModules

LEMMA LmCreateStep ==
  ASSUME LmIInv, NEW i \in DOMAIN listing.results, CreateModule(i)
  PROVE  LmIInv'
<1> DEFINE l == listing
<1>1. /\ LmTypeOK /\ l \in LmListings /\ i \in 1..Len(l.handles)
      /\ Len(l.handles) \in Nat /\ Len(l.results) = Len(l.handles)
      /\ l.results \in Seq(LmHandles) /\ l.handles[i] \in LmHandles
      /\ l.pc = "create" /\ UNCHANGED <<loaded, unloads, failures>>
  <2>1. LmTypeOK /\ l.pc = "create" /\ UNCHANGED <<loaded, unloads, failures>>
    BY DEF LmIInv, CreateModule
  <2>2. QED
    BY <2>1, LmTypes DEF LmIInv, LmCreates, LmListings
<1>2. LmDistinct' /\ LmGrows'
  BY <1>1 DEF LmIInv, LmDistinct, LmGrows
<1>3. CASE l.handles[i] \in ToSet(loaded)
  <2> DEFINE res == [l.results EXCEPT ![i] = l.handles[i]]
  <2>1. listing' = [l EXCEPT !.results = res]
    BY <1>3 DEF CreateModule
  <2>2. /\ res \in Seq(LmHandles) /\ Len(res) = Len(l.results)
        /\ \A j \in 1..Len(l.results) : res[j] = IF j = i THEN l.handles[i] ELSE l.results[j]
    BY <1>1
  <2> HIDE DEF res
  <2>3. /\ listing' \in LmListings /\ listing'.pc = "create" /\ listing'.handles = l.handles
        /\ listing'.needed = l.needed /\ listing'.results = res
    BY <1>1, <2>1, <2>2 DEF LmListings
  <2>4. LmTypeOK'
    BY <1>1, <2>3 DEF LmIInv, LmTypeOK, LmListings, LmHandles
  <2>5. LmCreates' /\ LmDies' /\ LmFresh' /\ LmSorted'
    BY <1>1, <2>2, <2>3 DEF LmIInv, LmCreates, LmDies, LmFresh, LmSorted, LmClean
  <2>6. QED
    BY <1>2, <2>4, <2>5 DEF LmIInv
<1>4. CASE l.handles[i] \notin ToSet(loaded)
  <2>1. listing' = [l EXCEPT !.pc = "dead"]
    BY <1>4 DEF CreateModule
  <2>2. listing' \in LmListings /\ listing'.pc = "dead" /\ listing'.needed = l.needed
    BY <1>1, <2>1 DEF LmListings
  <2>3. LmTypeOK'
    BY <1>1, <2>2 DEF LmIInv, LmTypeOK, LmListings, LmHandles
  <2>4. ~LmClean
    <3>1. SUFFICES ASSUME LmClean PROVE FALSE
      OBVIOUS
    <3>2. l.handles[i] = loaded[i] /\ i \in 1..Len(loaded)
      BY <3>1, <1>1, LmTypes DEF LmIInv, LmFresh
    <3>3. l.handles[i] \in ToSet(loaded)
      BY <3>2, <1>1, LmTypes DEF ToSet
    <3>4. QED
      BY <3>3, <1>4
  <2>5. LmCreates' /\ LmDies' /\ LmFresh' /\ LmSorted'
    BY <1>1, <2>2, <2>4 DEF LmCreates, LmDies, LmFresh, LmSorted, LmClean
  <2>6. QED
    BY <1>2, <2>3, <2>5 DEF LmIInv
<1>5. QED
  BY <1>3, <1>4

LEMMA LmSortStep ==
  ASSUME LmIInv, SortModules
  PROVE  LmIInv'
<1> DEFINE l == listing
           n == Len(l.results)
           sorted(from) == [i \in DOMAIN l.results |-> l.results[from[i]]]
<1>1. /\ LmTypeOK /\ l \in LmListings /\ n \in Nat /\ DOMAIN l.results = 1..n
      /\ \A i \in 1..n : l.results[i] \in LmHandles
      /\ l.pc = "create" /\ NoHandle \notin ToSet(l.results)
      /\ UNCHANGED <<loaded, unloads, failures>>
  BY LmTypes DEF SortModules, LmIInv
<1>2. PICK from \in [1..n -> 1..n] :
        /\ \A i, j \in 1..n : i # j => from[i] # from[j]
        /\ \A i, j \in 1..n : i < j => sorted(from)[i] <= sorted(from)[j]
        /\ listing' = [l EXCEPT !.pc = "sorted", !.results = sorted(from)]
  <2>1. PICK from \in [DOMAIN l.results -> DOMAIN l.results] :
          /\ \A i, j \in DOMAIN from : i # j => from[i] # from[j]
          /\ \A i, j \in DOMAIN from : i < j => sorted(from)[i] <= sorted(from)[j]
          /\ listing' = [l EXCEPT !.pc = "sorted", !.results = sorted(from)]
    BY DEF SortModules
  <2>2. DOMAIN from = 1..n
    BY <1>1, <2>1
  <2>3. QED
    BY <1>1, <2>1, <2>2
<1> DEFINE res == sorted(from)
<1>3. /\ res \in Seq(LmHandles) /\ Len(res) = n
      /\ \A i \in 1..n : from[i] \in 1..n /\ res[i] = l.results[from[i]]
  <2>1. \A i \in 1..n : from[i] \in 1..n /\ res[i] = l.results[from[i]] /\ res[i] \in LmHandles
    BY <1>1, <1>2
  <2>2. res = [i \in 1..n |-> l.results[from[i]]]
    BY <1>1
  <2>3. QED
    BY <1>1, <2>1, <2>2
<1>4. \A i, j \in 1..n : i < j => res[i] <= res[j]
  BY <1>2
<1>5. listing' = [l EXCEPT !.pc = "sorted", !.results = res]
  BY <1>2
<1> HIDE DEF res
<1>6. /\ listing' \in LmListings /\ listing'.pc = "sorted" /\ listing'.needed = l.needed
      /\ listing'.results = res
  BY <1>1, <1>3, <1>5 DEF LmListings
<1>7. LmTypeOK'
  BY <1>1, <1>6 DEF LmIInv, LmTypeOK, LmListings, LmHandles
<1>8. LmDistinct' /\ LmGrows' /\ LmCreates' /\ LmDies' /\ LmFresh'
  <2>1. LmDistinct' /\ LmGrows' /\ LmCreates' /\ LmDies'
    BY <1>1, <1>6 DEF LmIInv, LmDistinct, LmGrows, LmCreates, LmDies
  <2>2. LmFresh'
    BY <1>1, <1>6 DEF LmIInv, LmFresh, LmClean
  <2>3. QED
    BY <2>1, <2>2
<1>9. LmSorted'
  <2> SUFFICES ASSUME LmClean
               PROVE  /\ l.needed >= Len(LoadedAtCrash) /\ n = l.needed
                      /\ ToSet(res) = {loaded[i] : i \in 1..n}
    <3>1. LmClean' => LmClean
      BY <1>1 DEF LmClean
    <3>2. \A i, j \in 1..Len(res) : i < j => res[i] <= res[j]
      BY <1>3, <1>4
    <3> HIDE DEF n
    <3>3. QED
      BY <1>1, <1>3, <1>6, <3>1, <3>2 DEF LmSorted
  <2>1. /\ l.needed >= Len(LoadedAtCrash) /\ n = l.needed
        /\ \A i \in 1..n : l.handles[i] = loaded[i]
    BY <1>1 DEF LmIInv, LmFresh, LmCreates
  <2>2. \A i \in 1..n : l.results[i] = loaded[i]
    <3>1. \A i \in 1..n : l.results[i] # NoHandle
      BY <1>1 DEF ToSet
    <3>2. QED
      BY <3>1, <2>1, <1>1 DEF LmIInv, LmCreates
  <2>3. \A y \in 1..n : \E x \in 1..n : from[x] = y
    BY <1>1, <1>2, Rearranges
  <2>4. ToSet(res) = {loaded[from[i]] : i \in 1..n}
    <3>1. DOMAIN res = 1..n
      BY <1>3
    <3>2. \A i \in 1..n : res[i] = loaded[from[i]]
      BY <1>3, <2>2
    <3>3. QED
      BY <3>1, <3>2 DEF ToSet
  <2>5. {loaded[from[i]] : i \in 1..n} = {loaded[i] : i \in 1..n}
    BY <1>3, <2>3
  <2>6. QED
    BY <2>1, <2>4, <2>5
<1>10. QED
  BY <1>7, <1>8, <1>9 DEF LmIInv

LEMMA LmNextIInv == LmIInv /\ [LmNext]_lmVars => LmIInv'
<1> SUFFICES ASSUME LmIInv, [LmNext]_lmVars PROVE LmIInv'
  OBVIOUS
<1>1. CASE LmNext
  BY <1>1, LmResizeStep, LmEnumStep, LmSortStep, LmCreateStep, LmLoadStep, LmUnloadStep DEF LmNext
<1>2. CASE UNCHANGED lmVars
  BY <1>2 DEF lmVars, LmIInv, LmTypeOK, LmDistinct, LmGrows, LmCreates, LmDies, LmFresh, LmSorted, LmClean
<1>3. QED
  BY <1>1, <1>2

\* The module list's variables keep their types.
THEOREM LmTypeCorrect == LmSpec => []LmTypeOK
<1>1. LmIInv => LmTypeOK
  BY DEF LmIInv
<1>2. QED
  BY <1>1, LmInitIInv, LmNextIInv, PTL DEF LmSpec

LEMMA LmListingIs == LmIInv => ListingAgrees
<1> SUFFICES ASSUME LmIInv PROVE ListingAgrees
  OBVIOUS
<1> DEFINE res == listing.results
           n == Len(res)
           Own(p) == {m \in ToSet(res) : p \in m + 1 .. m + ImageSize - 1}
<1>1. /\ n \in Nat /\ DOMAIN res = 1..n /\ Len(loaded) \in Nat /\ listing.needed \in Nat
      /\ \A i \in 1..Len(loaded) : loaded[i] \in Images
      /\ unloads \in Nat /\ failures \in Nat
  BY LmTypes, LoadedModulesAssumption DEF LmIInv, LmTypeOK
<1>2. ASSUME listing.pc = "dead" PROVE unloads > 0 \/ failures > 0
  BY <1>1, <1>2 DEF LmIInv, LmDies, LmClean
<1>3. ASSUME listing.pc = "sorted", LmClean, NEW p \in Spans
      PROVE  ModuleForPointer(p) =
               IF \E m \in ToSet(res) : p \in m + 1 .. m + ImageSize - 1
               THEN CHOOSE m \in ToSet(res) : p \in m + 1 .. m + ImageSize - 1
               ELSE NoHandle
  <2> DEFINE below == {i \in DOMAIN res : res[i] < p}
             k == Max(below)
  <2>1. /\ ImageSize \in Nat /\ Images \subseteq Nat \ {0}
        /\ \A a, b \in Images : a < b => a + ImageSize <= b
    BY LoadedModulesAssumption
  <2>2. p \in Nat
    <3>1. PICK m \in Images : p \in m .. m + ImageSize
      BY <1>3 DEF Spans
    <3>2. QED
      BY <2>1, <3>1
  <2>3. /\ \A i \in 1..n : res[i] \in Images /\ res[i] \in ToSet(res)
        /\ \A m \in ToSet(res) : m \in Images /\ \E i \in 1..n : res[i] = m
        /\ \A i, j \in 1..n : i < j => res[i] <= res[j]
    <3>1. ToSet(res) = {loaded[i] : i \in 1..listing.needed} /\ listing.needed <= Len(loaded)
      BY <1>3 DEF LmIInv, LmSorted, LmFresh
    <3>2. ToSet(res) \subseteq Images
      BY <1>1, <3>1
    <3>3. QED
      BY <1>1, <1>3, <3>2 DEF LmIInv, LmSorted, ToSet
  <2>4. ModuleForPointer(p) = IF below # {} /\ p < res[k] + ImageSize THEN res[k] ELSE NoHandle
    BY DEF ModuleForPointer
  <2>5. ASSUME below # {}
        PROVE  k \in 1..n /\ res[k] < p /\ \A i \in below : i <= k
    <3>1. below \subseteq 1..n
      BY <1>1
    <3>2. k \in below /\ \A i \in below : i <= k
      BY <1>1, <2>5, <3>1, MaxIsGreatest
    <3>3. QED
      BY <3>1, <3>2
  <2> HIDE DEF k
  <2>6. CASE \E m \in ToSet(res) : p \in m + 1 .. m + ImageSize - 1
    <3>1. PICK m \in ToSet(res) : p \in m + 1 .. m + ImageSize - 1
      BY <2>6
    <3>a. \A o \in ToSet(res) : o \in Images /\ o \in Nat
      BY <2>1, <2>3
    <3>2. \A o \in ToSet(res) : p \in o + 1 .. o + ImageSize - 1 => o = m
      <4> SUFFICES ASSUME NEW o \in ToSet(res), p \in o + 1 .. o + ImageSize - 1
                   PROVE  o = m
        OBVIOUS
      <4>1. o \in Images /\ m \in Images /\ o \in Nat /\ m \in Nat
        BY <3>a
      <4>2. o < p /\ p < o + ImageSize /\ m < p /\ p < m + ImageSize
        BY <2>1, <2>2, <3>1, <4>1
      <4>3. (o < m => o + ImageSize <= m) /\ (m < o => m + ImageSize <= o)
        BY <2>1, <4>1
      <4>4. QED
        BY <2>1, <2>2, <4>1, <4>2, <4>3
    <3>3. (CHOOSE o \in ToSet(res) : p \in o + 1 .. o + ImageSize - 1) = m
      BY <3>1, <3>2
    <3>4. PICK i \in 1..n : res[i] = m
      BY <2>3
    <3>5. m < p /\ p < m + ImageSize /\ m \in Nat
      <4>1. m \in Nat
        BY <3>a
      <4>2. QED
        BY <2>1, <2>2, <3>1, <4>1
    <3>6. i \in below
      BY <1>1, <3>4, <3>5
    <3>7. k \in 1..n /\ res[k] < p /\ i <= k
      BY <2>5, <3>6
    <3>8. res[k] \in Images /\ res[k] \in Nat /\ m <= res[k]
      <4>1. res[k] \in Images /\ res[i] \in Images
        BY <2>3, <3>7
      <4>2. i = k \/ i < k
        BY <3>7
      <4>3. res[i] <= res[k]
        <5>1. CASE i = k
          <6>1. res[i] = res[k] /\ res[k] \in Nat
            BY <2>1, <4>1, <5>1
          <6> HIDE DEF res
          <6>2. QED
            BY <6>1
        <5>2. CASE i < k
          BY <2>3, <3>7, <5>2
        <5>3. QED
          BY <4>2, <5>1, <5>2
      <4>4. QED
        BY <2>1, <3>4, <4>1, <4>3
    <3>9. res[k] = m
      <4>1. m \in Images
        BY <2>3
      <4>2. m < res[k] => m + ImageSize <= res[k]
        BY <2>1, <3>8, <4>1
      <4>3. ~ (m < res[k])
        BY <2>1, <2>2, <3>5, <3>7, <3>8, <4>2
      <4>4. QED
        BY <3>5, <3>8, <4>3
    <3>10. QED
      BY <2>4, <2>6, <3>3, <3>5, <3>6, <3>9
  <2>7. CASE ~ \E m \in ToSet(res) : p \in m + 1 .. m + ImageSize - 1
    <3>1. ASSUME below # {} PROVE ~ (p < res[k] + ImageSize)
      <4>1. k \in 1..n /\ res[k] < p
        BY <2>5, <3>1
      <4>2. res[k] \in ToSet(res) /\ res[k] \in Nat
        BY <2>1, <2>3, <4>1
      <4>3. p \notin res[k] + 1 .. res[k] + ImageSize - 1
        BY <2>7, <4>2
      <4>4. QED
        BY <2>1, <2>2, <4>1, <4>2, <4>3
    <3>2. QED
      BY <2>4, <2>7, <3>1
  <2>8. QED
    BY <2>6, <2>7
<1>4. ASSUME listing.pc = "sorted", unloads = 0, failures = 0
      PROVE  /\ listing.needed >= Len(LoadedAtCrash)
             /\ n = listing.needed
             /\ ToSet(res) = {loaded[i] : i \in 1..listing.needed}
  BY <1>4 DEF LmIInv, LmSorted, LmClean
<1>5. QED
  BY <1>2, <1>3, <1>4 DEF ListingAgrees, LmClean

\* While nothing is unloaded and the system can list its images, the list has
\* every image of the last call, once and in order, whatever is loaded
\* meanwhile, and an address goes to the image that contains it
\* (get_loaded_modules, get_module_for_pointer).
THEOREM ListingAgreesHolds == LmSpec => []ListingAgrees
<1>1. QED
  BY LmListingIs, LmInitIInv, LmNextIInv, PTL DEF LmSpec

-----------------------------------------------------------------------------
(* The walk over an arena *)

ArenaRecords == kArenaPageBytes \div kArenaRecordBytes

LEMMA ArenaPageIs ==
  /\ kArenaRecordBytes \in Nat \ {0} /\ ArenaRecords \in Nat
  /\ kArenaPageBytes = ArenaRecords * kArenaRecordBytes
<1> DEFINE b == kArenaPageBytes
           d == kArenaRecordBytes
<1>1. b \in Nat /\ d \in Nat \ {0} /\ b % d = 0
  BY ArenaAssumption
<1> HIDE DEF b, d
<1>2. b \div d \in Nat
  BY <1>1, Division
<1>3. \A x \in Int, n \in Int : n > 0 => x = n * (x \div n) + (x % n)
  BY SMTT(30)
<1>4. b = d * (b \div d)
  BY <1>1, <1>2, <1>3
<1>5. b = (b \div d) * d
  BY <1>1, <1>2, <1>4
<1>6. QED
  BY <1>1, <1>2, <1>5 DEF ArenaRecords, b, d

LEMMA ArenaStarts ==
  ASSUME NEW p \in Pages
  PROVE  /\ p \in Nat \ {0} /\ Start(p) \in Nat /\ Start(p) > 0 /\ End(p) \in Nat
         /\ kArenaPageBytes \in Nat /\ End(p) = Start(p) + kArenaPageBytes
         /\ Start(p) .. End(p) \subseteq Addresses
<1>1. /\ p \in Nat /\ 1 <= p /\ PageGap \in Nat /\ PageGap > 0
      /\ kArenaPageBytes \in Nat /\ kArenaPageBytes < PageGap
  BY ArenaAssumption
<1>2. p * PageGap \in Nat /\ 1 * PageGap <= p * PageGap
  BY <1>1, Multiples
<1>3. QED
  BY <1>1, <1>2 DEF Start, End, Addresses

\* Pages do not overlap, their last addresses included.
LEMMA ArenaApart ==
  ASSUME NEW p \in Pages, NEW q \in Pages, NEW a \in Nat,
         Start(p) <= a, a <= End(p), Start(q) <= a, a <= End(q)
  PROVE  p = q
<1>1. ASSUME NEW x \in Pages, NEW y \in Pages, x < y PROVE End(x) < Start(y)
  <2>1. x \in Nat /\ y \in Nat /\ x + 1 <= y /\ PageGap \in Nat /\ kArenaPageBytes \in Nat
        /\ PageGap > kArenaPageBytes
    BY <1>1, ArenaAssumption
  <2>2. (x + 1) * PageGap <= y * PageGap /\ x * PageGap \in Nat /\ y * PageGap \in Nat
    BY <2>1, Multiples
  <2>3. (x + 1) * PageGap = x * PageGap + PageGap
    BY <2>1
  <2>4. QED
    BY <2>1, <2>2, <2>3 DEF Start, End
<1>2. p < q \/ q < p \/ p = q
  BY ArenaAssumption
<1>3. Start(p) \in Nat /\ End(p) \in Nat /\ Start(q) \in Nat /\ End(q) \in Nat
  BY ArenaStarts
<1>4. QED
  BY <1>1, <1>2, <1>3

\* The records of a page begin on it, at multiples of their size, and end on it.
LEMMA ArenaSlotsAre ==
  ASSUME NEW p \in Pages, NEW a \in Slots(p)
  PROVE  /\ a \in Nat /\ Start(p) <= a /\ a < End(p) /\ a + kArenaRecordBytes <= End(p)
         /\ a \in Addresses
         /\ a + kArenaRecordBytes \in Slots(p) \cup {End(p)}
         /\ \A b \in Slots(p) \cup {End(p)} : a < b => a + kArenaRecordBytes <= b
<1> DEFINE d == kArenaRecordBytes
           R == ArenaRecords
           s == Start(p)
<1>1. /\ d \in Nat \ {0} /\ R \in Nat /\ s \in Nat /\ End(p) = s + R * d
      /\ Slots(p) = {s + k * d : k \in 0..(R - 1)}
      /\ s .. End(p) \subseteq Addresses
  BY ArenaPageIs, ArenaStarts DEF Slots, ArenaRecords
<1> HIDE DEF d, R, s
<1>2. PICK k \in 0..(R - 1) : a = s + k * d
  BY <1>1
<1>3. k \in Nat /\ k * d \in Nat /\ (k + 1) * d \in Nat /\ (k + 1) * d = k * d + d
  BY <1>1, <1>2
<1>4. R * d \in Nat /\ (k + 1) * d <= R * d
  <2>1. k + 1 \in Nat /\ k + 1 <= R
    BY <1>1, <1>2
  <2>2. QED
    BY <2>1, <1>1, Multiples
<1>5. a \in Nat /\ s <= a /\ a + d <= End(p) /\ a < End(p)
  BY <1>1, <1>2, <1>3, <1>4
<1>6. a + d \in Slots(p) \cup {End(p)}
  <2>1. CASE k + 1 = R
    BY <2>1, <1>1, <1>2, <1>3
  <2>2. CASE k + 1 # R
    <3>1. k + 1 \in 0..(R - 1) /\ a + d = s + (k + 1) * d
      BY <2>2, <1>1, <1>2, <1>3
    <3>2. QED
      BY <3>1, <1>1
  <2>3. QED
    BY <2>1, <2>2
<1>7. ASSUME NEW b \in Slots(p), a < b PROVE a + d <= b
  <2>1. PICK l \in 0..(R - 1) : b = s + l * d
    BY <1>1
  <2>2. l \in Nat /\ l * d \in Nat
    BY <1>1, <2>1
  <2>3. ~ (l <= k)
    <3>1. l <= k => l * d <= k * d
      BY <1>1, <1>3, <2>2, Multiples
    <3>2. QED
      BY <1>1, <1>2, <1>3, <1>7, <2>1, <2>2, <3>1
  <2>4. k + 1 <= l /\ k + 1 \in Nat
    BY <1>3, <2>2, <2>3
  <2>5. (k + 1) * d <= l * d
    BY <1>1, <2>2, <2>4, Multiples
  <2>6. QED
    BY <1>1, <1>2, <1>3, <2>1, <2>2, <2>5
<1>8. a \in Addresses
  BY <1>1, <1>5
<1>9. QED
  BY <1>5, <1>6, <1>7, <1>8 DEF d, s

LEMMA ArenaSlotsFinite ==
  ASSUME NEW p \in Pages
  PROVE  IsFiniteSet(Slots(p))
<1> DEFINE at(k) == Start(p) + k * kArenaRecordBytes
           K == 0..(ArenaRecords - 1)
           f == [k \in K |-> at(k)]
<1>1. IsFiniteSet(K)
  <2>1. 0 \in Int /\ ArenaRecords - 1 \in Int
    BY ArenaPageIs
  <2>2. QED
    BY <2>1, FS_Interval
<1>2. Slots(p) = {at(k) : k \in K}
  BY DEF Slots, ArenaRecords
<1>3. f \in Surjection(K, Slots(p))
  BY <1>2 DEF Surjection
<1>4. QED
  BY <1>1, <1>3, FS_Surjection

LEMMA ArenaStartIsSlot ==
  ASSUME NEW p \in Pages
  PROVE  Start(p) \in Slots(p)
<1>1. ArenaRecords # 0
  BY ArenaPageIs, ArenaAssumption
<1>2. 0 \in 0..(ArenaRecords - 1) /\ Start(p) + 0 * kArenaRecordBytes = Start(p)
  BY <1>1, ArenaPageIs, ArenaStarts
<1>3. QED
  BY <1>2 DEF Slots, ArenaRecords

LEMMA ArenaChainIs ==
  ASSUME arena \in Arenas, NEW c \in PageChains
  PROVE  /\ Len(c) \in Nat \ {0} /\ DOMAIN c = 1..Len(c) /\ c[1] = arena.head
         /\ \A i \in 1..Len(c) : c[i] \in Pages
         /\ \A i, j \in 1..Len(c) : c[i] = c[j] => i = j
         /\ \A i \in 1..(Len(c) - 1) : arena.next[c[i]] = c[i + 1]
<1>1. PICK n \in 1..Cardinality(Pages) : c \in [1..n -> Pages]
  BY DEF PageChains
<1>2. n \in Nat \ {0}
  <2>1. Cardinality(Pages) \in Nat
    BY FS_CardinalityType, ArenaAssumption
  <2>2. QED
    BY <2>1
<1>3. Len(c) = n /\ DOMAIN c = 1..n
  BY <1>1, <1>2
<1>4. /\ c[1] = arena.head
      /\ \A i \in 1..n : /\ \A j \in 1..(i - 1) : c[i] # c[j]
                         /\ i > 1 => c[i] = arena.next[c[i - 1]]
  BY <1>3 DEF PageChains
<1>5. ASSUME NEW i \in 1..n, NEW j \in 1..n, c[i] = c[j] PROVE i = j
  <2>1. i < j => i \in 1..(j - 1)
    BY <1>2
  <2>2. j < i => j \in 1..(i - 1)
    BY <1>2
  <2>3. QED
    BY <1>2, <1>4, <1>5, <2>1, <2>2
<1>6. ASSUME NEW i \in 1..(n - 1) PROVE arena.next[c[i]] = c[i + 1]
  <2>1. i + 1 \in 1..n /\ i + 1 > 1 /\ (i + 1) - 1 = i
    BY <1>2
  <2>2. QED
    BY <1>4, <2>1
<1>7. QED
  BY <1>1, <1>2, <1>3, <1>4, <1>5, <1>6

\* A record is on one page of a chain.
LEMMA ArenaOnePage ==
  ASSUME arena \in Arenas, NEW c \in PageChains, NEW i \in 1..Len(c), NEW j \in 1..Len(c),
         NEW a \in Slots(c[i]) \cup {End(c[i])}, a \in Slots(c[j]) \cup {End(c[j])}
  PROVE  i = j
<1>1. c[i] \in Pages /\ c[j] \in Pages /\ (c[i] = c[j] => i = j)
  BY ArenaChainIs
<1>2. ASSUME NEW p \in Pages, a \in Slots(p) \cup {End(p)}
      PROVE  a \in Nat /\ Start(p) <= a /\ a <= End(p)
  BY <1>2, ArenaStarts, ArenaSlotsAre
<1>3. QED
  BY <1>1, <1>2, ArenaApart

LEMMA ArenaRecordsFinite ==
  ASSUME arena \in Arenas, NEW c \in PageChains
  PROVE  IsFiniteSet(RecordsOn(c)) /\ Cardinality(RecordsOn(c)) \in Nat
<1> DEFINE N == 1..Len(c)
           U == {Slots(c[i]) : i \in N}
           f == [i \in N |-> Slots(c[i])]
<1>1. Len(c) \in Nat /\ DOMAIN c = N /\ \A i \in N : c[i] \in Pages
  BY ArenaChainIs
<1>2. IsFiniteSet(N)
  <2>1. 1 \in Int /\ Len(c) \in Int
    BY <1>1
  <2>2. QED
    BY <2>1, FS_Interval
<1>3. f \in Surjection(N, U)
  BY DEF Surjection
<1>4. IsFiniteSet(U)
  BY <1>2, <1>3, FS_Surjection
<1>5. \A S \in U : IsFiniteSet(S)
  BY <1>1, ArenaSlotsFinite
<1>6. IsFiniteSet(UNION U)
  BY <1>4, <1>5, FS_UNION
<1>7. RecordsOn(c) \subseteq UNION U
  BY <1>1 DEF RecordsOn
<1>8. QED
  BY <1>6, <1>7, FS_Subset, FS_CardinalityType

\* A sequence of some members of a set, all different, that lacks one of it.
LEMMA SequenceLacks ==
  ASSUME NEW S, IsFiniteSet(S), NEW n \in Nat, NEW s, \A i \in 1..n : s[i] \in S,
         \A i, j \in 1..n : s[i] = s[j] => i = j,
         NEW x \in S, \A i \in 1..n : s[i] # x
  PROVE  n + 1 <= Cardinality(S)
<1> DEFINE f == [i \in 1..(n + 1) |-> IF i = n + 1 THEN x ELSE s[i]]
<1>1. f \in [1..(n + 1) -> S]
  <2>1. \A i \in 1..(n + 1) : i # n + 1 => i \in 1..n
    OBVIOUS
  <2>2. QED
    BY <2>1
<1>2. ~ \E a, b \in 1..(n + 1) : a # b /\ f[a] = f[b]
  <2> SUFFICES ASSUME NEW a \in 1..(n + 1), NEW b \in 1..(n + 1), a # b PROVE f[a] # f[b]
    OBVIOUS
  <2>1. (a = n + 1 \/ a \in 1..n) /\ (b = n + 1 \/ b \in 1..n)
    OBVIOUS
  <2>2. QED
    BY <2>1
<1>3. IsFiniteSet(1..(n + 1)) /\ Cardinality(1..(n + 1)) = n + 1
  <2>1. 1 \in Int /\ n + 1 \in Int
    OBVIOUS
  <2>2. IsFiniteSet(1..(n + 1)) /\ Cardinality(1..(n + 1)) = IF 1 > n + 1 THEN 0 ELSE (n + 1) - 1 + 1
    BY <2>1, FS_Interval
  <2>3. QED
    BY <2>2
<1> HIDE DEF f
<1>4. ~ (Cardinality(S) < Cardinality(1..(n + 1)))
  BY <1>1, <1>2, <1>3, FS_PigeonHole
<1>5. Cardinality(S) \in Nat
  BY FS_CardinalityType
<1>6. QED
  BY <1>3, <1>4, <1>5

\* The records of a chain that lie before an address of its i-th page.
ArenaBefore(c, i, x) ==
    {a \in RecordsOn(c) :
        \E j \in 1..Len(c) : a \in Slots(c[j]) /\ (j < i \/ (j = i /\ a < x))}

ArenaWalks == [pc : {"enter", "test", "record", "advance", "done"}, page : Pages \cup {0},
               cursor : Nat, count : 0 .. kMaxIter + 1,
               visited : Seq(Addresses), added : Seq(Addresses)]

\* Over any arena: what bounds the walk, and keeps it on its page.
ArenaBounded(w) ==
    /\ Len(w.visited) <= kMaxIter
    /\ w.pc = "enter" => w.visited = <<>> /\ w.added = <<>> /\ w.count = 0
    /\ w.pc \in {"test", "advance"} => w.count = Len(w.visited)
    /\ w.pc = "record" => w.count = Len(w.visited) + 1 /\ w.count <= kMaxIter
    /\ w.pc \in {"test", "record"} =>
         w.page \in Pages /\ Start(w.page) <= w.cursor /\ w.cursor < End(w.page)
    /\ w.pc = "advance" => w.page \in Pages /\ Start(w.page) <= w.cursor

\* Over a well-formed one: the walk is between two records of the i-th page of
\* the chain, and has visited those before it.
ArenaAt(c, i, w) ==
    /\ w.page = c[i]
    /\ ToSet(w.visited) = ArenaBefore(c, i, w.cursor)
    /\ i = 1 => w.cursor >= arena.begin
    /\ i = Len(c) => w.cursor <= arena.end
    /\ w.cursor \in Slots(c[i]) \/ (w.pc = "advance" /\ w.cursor = End(c[i]))
    /\ w.pc = "record" => w.cursor \in RecordsOn(c)

ArenaFollows(c, w) ==
    /\ w.pc \in {"test", "record", "advance"} => \E i \in 1..Len(c) : ArenaAt(c, i, w)
    /\ w.pc = "done" => ToSet(w.visited) = RecordsOn(c)
    /\ ToSet(w.added) = {a \in ToSet(w.visited) : Adds(contents[a])}
    /\ InOrder(c, w.visited) /\ InOrder(c, w.added)

ArenaIInv ==
    /\ arena \in Arenas /\ contents \in [Addresses -> RecordKinds]
    /\ walk \in ArenaWalks /\ ArenaBounded(walk)
    /\ \A c \in PageChains : WellFormed(c) => ArenaFollows(c, walk)

\* Only the walk changes.
LEMMA ArenaStays ==
  ASSUME ArenaIInv, UNCHANGED <<arena, contents>>, walk' \in ArenaWalks, ArenaBounded(walk'),
         \A c \in PageChains : WellFormed(c) => ArenaFollows(c, walk')
  PROVE  ArenaIInv'
<1>1. PageChains' = PageChains
  BY DEF PageChains
<1>2. \A c : WellFormed(c)' <=> WellFormed(c)
  BY DEF WellFormed, RecordsOn
<1>3. \A c : ArenaFollows(c, walk)' <=> ArenaFollows(c, walk')
  BY DEF ArenaFollows, ArenaAt, ArenaBefore, RecordsOn, Adds
<1>4. ArenaBounded(walk)' <=> ArenaBounded(walk')
  BY DEF ArenaBounded
<1>5. QED
  BY <1>1, <1>2, <1>3, <1>4 DEF ArenaIInv

LEMMA ArenaAppends ==
  ASSUME NEW s \in Seq(Addresses), NEW x \in Addresses
  PROVE  /\ Append(s, x) \in Seq(Addresses) /\ Len(Append(s, x)) = Len(s) + 1
         /\ ToSet(Append(s, x)) = ToSet(s) \cup {x}
         /\ \A c : InOrder(c, s) /\ (\A a \in ToSet(s) : Precedes(c, a, x)) => InOrder(c, Append(s, x))
<1> DEFINE n == Len(s)
           t == Append(s, x)
<1>1. /\ n \in Nat /\ DOMAIN s = 1..n /\ t \in Seq(Addresses) /\ Len(t) = n + 1
      /\ DOMAIN t = 1..(n + 1) /\ t[n + 1] = x /\ \A i \in 1..n : t[i] = s[i]
  OBVIOUS
<1> HIDE DEF n, t
<1>2. \A i \in 1..(n + 1) : i = n + 1 \/ i \in 1..n
  BY <1>1
<1>3. ToSet(t) = ToSet(s) \cup {x}
  <2>1. \A a \in ToSet(t) : a \in ToSet(s) \cup {x}
    BY <1>1, <1>2 DEF ToSet
  <2>2. \A i \in 1..n : i \in 1..(n + 1)
    BY <1>1
  <2>3. n + 1 \in 1..(n + 1)
    BY <1>1
  <2>4. \A a \in ToSet(s) \cup {x} : a \in ToSet(t)
    BY <1>1, <2>2, <2>3 DEF ToSet
  <2>5. QED
    BY <2>1, <2>4
<1>4. ASSUME NEW c, InOrder(c, s), \A a \in ToSet(s) : Precedes(c, a, x)
      PROVE  InOrder(c, t)
  <2> SUFFICES ASSUME NEW k \in 1..(n + 1), NEW l \in 1..(n + 1), k < l PROVE Precedes(c, t[k], t[l])
    BY <1>1 DEF InOrder
  <2>1. k \in 1..n
    BY <1>1
  <2>2. CASE l = n + 1
    BY <2>1, <2>2, <1>1, <1>4 DEF ToSet
  <2>3. CASE l # n + 1
    BY <2>1, <2>3, <1>1, <1>2, <1>4 DEF InOrder
  <2>4. QED
    BY <2>2, <2>3
<1>5. QED
  BY <1>1, <1>3, <1>4 DEF n, t

\* Nothing precedes itself.
LEMMA ArenaStrict ==
  ASSUME arena \in Arenas, NEW c \in PageChains, NEW a
  PROVE  ~Precedes(c, a, a)
<1> SUFFICES ASSUME Precedes(c, a, a) PROVE FALSE
  OBVIOUS
<1>1. PICK i \in DOMAIN c, j \in DOMAIN c :
        a \in Slots(c[i]) /\ a \in Slots(c[j]) /\ (i < j \/ (i = j /\ a < a))
  BY DEF Precedes
<1>2. i \in 1..Len(c) /\ j \in 1..Len(c) /\ Len(c) \in Nat /\ c[i] \in Pages
  BY ArenaChainIs
<1>3. i = j /\ a \in Nat
  BY <1>1, <1>2, ArenaOnePage, ArenaSlotsAre
<1>4. QED
  BY <1>1, <1>2, <1>3

\* Where a well-formed arena begins and ends.
LEMMA ArenaEnds ==
  ASSUME arena \in Arenas, NEW c \in PageChains, WellFormed(c)
  PROVE  /\ arena.head = c[1] /\ arena.begin \in Slots(c[1]) /\ arena.begin \in Nat
         /\ arena.end \in Slots(c[Len(c)]) \cup {End(c[Len(c)])} /\ arena.end \in Nat
         /\ arena.end = End(c[Len(c)]) => arena.next[c[Len(c)]] = 0
         /\ Len(c) = 1 => arena.begin <= arena.end
         /\ \A i \in 1..Len(c) : \A a \in Slots(c[i]) :
              a \in RecordsOn(c) <=> /\ i = 1 => a >= arena.begin
                                     /\ i = Len(c) => a < arena.end
         /\ \A a \in RecordsOn(c) : \E i \in 1..Len(c) : a \in Slots(c[i])
<1>1. /\ Len(c) \in Nat \ {0} /\ DOMAIN c = 1..Len(c) /\ c[1] = arena.head
      /\ 1 \in 1..Len(c) /\ Len(c) \in 1..Len(c)
      /\ \A i \in 1..Len(c) : c[i] \in Pages
  BY ArenaChainIs
<1>2. /\ arena.begin \in Slots(c[1])
      /\ \/ arena.end \in Slots(c[Len(c)])
         \/ arena.end = End(c[Len(c)]) /\ arena.next[c[Len(c)]] = 0
      /\ Len(c) = 1 => arena.begin <= arena.end
  BY DEF WellFormed
<1>3. arena.begin \in Nat /\ arena.end \in Nat
  BY <1>1, <1>2, ArenaSlotsAre, ArenaStarts
<1>4. arena.end = End(c[Len(c)]) => arena.next[c[Len(c)]] = 0
  <2>1. arena.end \in Slots(c[Len(c)]) => arena.end < End(c[Len(c)])
    BY <1>1, ArenaSlotsAre
  <2>2. QED
    BY <1>2, <1>3, <2>1
<1>5. ASSUME NEW i \in 1..Len(c), NEW a \in Slots(c[i])
      PROVE  a \in RecordsOn(c) <=> /\ i = 1 => a >= arena.begin
                                    /\ i = Len(c) => a < arena.end
  <2>1. a \in Slots(c[1]) <=> i = 1
    BY <1>1, ArenaOnePage
  <2>2. a \in Slots(c[Len(c)]) <=> i = Len(c)
    BY <1>1, ArenaOnePage
  <2>3. QED
    BY <1>1, <2>1, <2>2 DEF RecordsOn
<1>6. \A a \in RecordsOn(c) : \E i \in 1..Len(c) : a \in Slots(c[i])
  BY <1>1 DEF RecordsOn
<1>7. QED
  BY <1>1, <1>2, <1>3, <1>4, <1>5, <1>6

LEMMA ArenaInitIInv == ArenaInit => ArenaIInv
<1> SUFFICES ASSUME ArenaInit PROVE ArenaIInv
  OBVIOUS
<1>1. /\ arena \in Arenas /\ contents \in [Addresses -> RecordKinds]
      /\ walk.pc = "enter" /\ walk.visited = <<>> /\ walk.added = <<>> /\ walk.count = 0
      /\ Len(walk.visited) = 0 /\ kMaxIter \in Nat
  BY ArenaAssumption DEF ArenaInit
<1>2. walk \in ArenaWalks
  BY <1>1 DEF ArenaInit, ArenaWalks
<1>3. ArenaBounded(walk)
  BY <1>1 DEF ArenaBounded
<1>4. ASSUME NEW c PROVE ArenaFollows(c, walk)
  <2>1. ToSet(walk.visited) = {} /\ ToSet(walk.added) = {}
    BY <1>1 DEF ToSet
  <2>2. InOrder(c, walk.visited) /\ InOrder(c, walk.added)
    BY <1>1 DEF InOrder
  <2>3. QED
    BY <1>1, <2>1, <2>2 DEF ArenaFollows
<1>5. QED
  BY <1>1, <1>2, <1>3, <1>4 DEF ArenaIInv

LEMMA ArenaEnterStep ==
  ASSUME ArenaIInv, Enter, UNCHANGED <<arena, contents>>
  PROVE  ArenaIInv'
<1> DEFINE stops == \/ arena.begin = 0 \/ arena.begin = arena.end \/ arena.head = 0
                    \/ arena.begin < Start(arena.head) \/ arena.begin >= End(arena.head)
           pc == IF stops THEN "done" ELSE "test"
<1>1. /\ walk \in ArenaWalks /\ arena \in Arenas /\ ArenaBounded(walk) /\ walk.pc = "enter"
      /\ walk.visited = <<>> /\ walk.added = <<>> /\ walk.count = 0 /\ Len(walk.visited) = 0
      /\ kMaxIter \in Nat
  BY ArenaAssumption DEF ArenaIInv, ArenaBounded, Enter
<1>2. walk' = [walk EXCEPT !.page = arena.head, !.cursor = arena.begin, !.pc = pc]
  BY DEF Enter
<1>3. arena.head \in Pages \cup {0} /\ arena.begin \in Nat
  <2>1. \A a \in Addresses : a \in Nat
    BY ArenaStarts DEF Addresses
  <2>2. QED
    BY <1>1, <2>1 DEF Arenas
<1>4. pc \in {"done", "test"}
  OBVIOUS
<1>5. /\ walk' \in ArenaWalks /\ walk'.pc = pc /\ walk'.page = arena.head /\ walk'.cursor = arena.begin
      /\ walk'.visited = <<>> /\ walk'.added = <<>> /\ walk'.count = 0 /\ Len(walk'.visited) = 0
  <2> HIDE DEF pc
  <2>1. QED
    BY <1>1, <1>2, <1>3, <1>4 DEF ArenaWalks
<1>6. ArenaBounded(walk')
  <2>1. pc = "test" => /\ arena.head \in Pages
                       /\ Start(arena.head) <= arena.begin /\ arena.begin < End(arena.head)
    BY <1>3, ArenaStarts
  <2> HIDE DEF pc
  <2>2. QED
    BY <1>1, <1>4, <1>5, <2>1 DEF ArenaBounded
<1>7. ASSUME NEW c \in PageChains, WellFormed(c) PROVE ArenaFollows(c, walk')
  <2>1. /\ arena.head = c[1] /\ arena.begin \in Slots(c[1])
        /\ Len(c) \in Nat \ {0} /\ 1 \in 1..Len(c) /\ Len(c) \in 1..Len(c)
        /\ \A i \in 1..Len(c) : c[i] \in Pages
    BY <1>1, <1>7, ArenaEnds, ArenaChainIs
  <2>2. /\ arena.begin # 0 /\ arena.head # 0
        /\ Start(arena.head) <= arena.begin /\ arena.begin < End(arena.head)
    BY <2>1, ArenaStarts, ArenaSlotsAre
  <2>3. /\ ToSet(walk'.visited) = {} /\ ToSet(walk'.added) = {}
        /\ InOrder(c, walk'.visited) /\ InOrder(c, walk'.added)
    BY <1>5 DEF ToSet, InOrder
  <2>4. CASE arena.begin = arena.end
    <3>1. pc = "done"
      BY <2>4
    <3>2. arena.end \in Slots(c[Len(c)]) \cup {End(c[Len(c)])}
      BY <1>1, <1>7, ArenaEnds
    <3>3. Len(c) = 1
      BY <1>1, <2>1, <2>4, <3>2, ArenaOnePage
    <3>4. RecordsOn(c) = {}
      <4> SUFFICES ASSUME NEW a \in RecordsOn(c) PROVE FALSE
        OBVIOUS
      <4>1. PICK i \in 1..Len(c) : a \in Slots(c[i])
        BY <1>1, <1>7, ArenaEnds
      <4>2. i = 1 /\ i = Len(c)
        BY <3>3, <4>1
      <4>3. a >= arena.begin /\ a < arena.end /\ a \in Nat /\ arena.begin \in Nat
        BY <1>1, <1>7, <2>1, <4>1, <4>2, ArenaEnds, ArenaSlotsAre
      <4>4. QED
        BY <2>4, <4>3
    <3> HIDE DEF pc
    <3>5. QED
      BY <1>5, <2>3, <3>1, <3>4 DEF ArenaFollows
  <2>5. CASE arena.begin # arena.end
    <3>1. pc = "test"
      BY <2>2, <2>5, <1>3, ArenaStarts, <2>1
    <3>2. ArenaBefore(c, 1, arena.begin) = {}
      <4> SUFFICES ASSUME NEW a \in ArenaBefore(c, 1, arena.begin) PROVE FALSE
        OBVIOUS
      <4>1. PICK j \in 1..Len(c) : a \in Slots(c[j]) /\ (j < 1 \/ (j = 1 /\ a < arena.begin))
        BY DEF ArenaBefore
      <4>2. j = 1 /\ a < arena.begin /\ a \in RecordsOn(c)
        BY <4>1, <2>1 DEF ArenaBefore
      <4>3. a >= arena.begin /\ a \in Nat /\ arena.begin \in Nat
        BY <1>1, <1>7, <2>1, <4>1, <4>2, ArenaEnds, ArenaSlotsAre
      <4>4. QED
        BY <4>2, <4>3
    <3>3. Len(c) = 1 => arena.begin <= arena.end
      BY <1>1, <1>7, ArenaEnds
    <3> HIDE DEF pc
    <3>4. ArenaAt(c, 1, walk')
      <4>1. walk'.page = c[1] /\ walk'.pc = "test" /\ walk'.cursor \in Slots(c[1])
        BY <1>5, <2>1, <3>1
      <4>2. ToSet(walk'.visited) = ArenaBefore(c, 1, walk'.cursor)
        BY <1>5, <2>3, <3>2
      <4>3. walk'.cursor >= arena.begin /\ (1 = Len(c) => walk'.cursor <= arena.end)
        BY <1>3, <1>5, <3>3
      <4>4. QED
        BY <4>1, <4>2, <4>3 DEF ArenaAt
    <3>5. QED
      BY <1>5, <2>1, <2>3, <3>1, <3>4 DEF ArenaFollows
  <2>6. QED
    BY <2>4, <2>5
<1>8. QED
  BY <1>5, <1>6, <1>7, ArenaStays

LEMMA ArenaTestStep ==
  ASSUME ArenaIInv, TestCursor, UNCHANGED <<arena, contents>>
  PROVE  ArenaIInv'
<1> DEFINE pc == IF walk.cursor = arena.end \/ walk.count + 1 > kMaxIter THEN "done" ELSE "record"
<1>1. /\ walk \in ArenaWalks /\ arena \in Arenas /\ ArenaBounded(walk) /\ walk.pc = "test"
      /\ walk.visited \in Seq(Addresses) /\ Len(walk.visited) \in Nat
      /\ walk.count = Len(walk.visited) /\ walk.count <= kMaxIter /\ kMaxIter \in Nat
  <2>1. /\ walk \in ArenaWalks /\ arena \in Arenas /\ ArenaBounded(walk) /\ walk.pc = "test"
        /\ kMaxIter \in Nat
    BY ArenaAssumption DEF ArenaIInv, TestCursor
  <2>2. walk.visited \in Seq(Addresses)
    BY <2>1 DEF ArenaWalks
  <2>3. QED
    BY <2>1, <2>2 DEF ArenaBounded
<1>2. /\ walk' \in ArenaWalks /\ walk'.pc = pc /\ walk'.page = walk.page /\ walk'.cursor = walk.cursor
      /\ walk'.visited = walk.visited /\ walk'.added = walk.added
      /\ pc = "record" => walk'.count = walk.count + 1
  <2>1. CASE walk.cursor = arena.end
    <3>1. walk' = [walk EXCEPT !.pc = "done"] /\ pc = "done"
      BY <2>1 DEF TestCursor
    <3> HIDE DEF pc
    <3>2. QED
      BY <3>1, <1>1 DEF ArenaWalks
  <2>2. CASE walk.cursor # arena.end
    <3>1. walk' = [walk EXCEPT !.count = @ + 1, !.pc = pc]
      BY <2>2 DEF TestCursor
    <3>2. pc \in {"done", "record"} /\ walk.count + 1 \in 0 .. kMaxIter + 1
      BY <1>1
    <3> HIDE DEF pc
    <3>3. QED
      BY <3>1, <3>2, <1>1 DEF ArenaWalks
  <2>3. QED
    BY <2>1, <2>2
<1>3. pc \in {"done", "record"} /\ (pc = "record" => walk.count + 1 <= kMaxIter)
  BY <1>1
<1>4. ASSUME NEW c \in PageChains, WellFormed(c) PROVE ArenaFollows(c, walk')
  <2>1. /\ ToSet(walk.added) = {a \in ToSet(walk.visited) : Adds(contents[a])}
        /\ InOrder(c, walk.visited) /\ InOrder(c, walk.added)
    BY <1>4 DEF ArenaIInv, ArenaFollows
  <2>2. PICK i \in 1..Len(c) : ArenaAt(c, i, walk)
    BY <1>1, <1>4 DEF ArenaIInv, ArenaFollows
  <2>3. /\ Len(c) \in Nat \ {0} /\ Len(c) \in 1..Len(c) /\ c[i] \in Pages
        /\ walk.cursor \in Slots(c[i]) /\ walk.cursor \in Nat
        /\ ToSet(walk.visited) = ArenaBefore(c, i, walk.cursor)
        /\ arena.end \in Slots(c[Len(c)]) \cup {End(c[Len(c)])} /\ arena.end \in Nat
    BY <1>1, <1>4, <2>2, ArenaChainIs, ArenaEnds, ArenaSlotsAre DEF ArenaAt
  <2>4. CASE walk.cursor = arena.end
    <3>1. i = Len(c)
      BY <1>1, <2>3, <2>4, ArenaOnePage
    <3>2. ASSUME NEW a \in RecordsOn(c) PROVE a \in ArenaBefore(c, i, walk.cursor)
      <4>1. PICK j \in 1..Len(c) : a \in Slots(c[j])
        BY <1>1, <1>4, ArenaEnds
      <4>2. j = Len(c) => a < arena.end
        BY <1>1, <1>4, <4>1, ArenaEnds
      <4>3. j < i \/ (j = i /\ a < walk.cursor)
        BY <2>3, <2>4, <3>1, <4>1, <4>2
      <4>4. QED
        BY <4>1, <4>3 DEF ArenaBefore
    <3>3. ToSet(walk.visited) = RecordsOn(c)
      BY <2>3, <3>2 DEF ArenaBefore
    <3>4. pc = "done"
      BY <2>4
    <3> HIDE DEF pc
    <3>5. QED
      BY <1>2, <2>1, <3>3, <3>4 DEF ArenaFollows
  <2>5. CASE walk.cursor # arena.end
    <3>1. walk.cursor \in RecordsOn(c)
      <4>1. (i = 1 => walk.cursor >= arena.begin) /\ (i = Len(c) => walk.cursor <= arena.end)
        BY <2>2 DEF ArenaAt
      <4>2. i = Len(c) => walk.cursor < arena.end
        BY <2>3, <2>5, <4>1
      <4>3. QED
        BY <1>1, <1>4, <2>3, <4>1, <4>2, ArenaEnds
    <3>2. walk.cursor \notin ToSet(walk.visited)
      <4> SUFFICES ASSUME walk.cursor \in ArenaBefore(c, i, walk.cursor) PROVE FALSE
        BY <2>3
      <4>1. PICK j \in 1..Len(c) :
              /\ walk.cursor \in Slots(c[j])
              /\ j < i \/ (j = i /\ walk.cursor < walk.cursor)
        BY DEF ArenaBefore
      <4>2. j = i
        BY <1>1, <2>3, <4>1, ArenaOnePage
      <4>3. QED
        BY <2>3, <4>1, <4>2
    <3>3. walk.count + 1 <= kMaxIter
      <4> DEFINE s == walk.visited
                 n == Len(s)
      <4>1. DOMAIN s = 1..n /\ n \in Nat
        BY <1>1
      <4>2. \A k \in 1..n : s[k] \in RecordsOn(c) /\ s[k] # walk.cursor
        BY <2>3, <3>2, <4>1 DEF ToSet, ArenaBefore
      <4>3. ASSUME NEW k \in 1..n, NEW l \in 1..n, s[k] = s[l] PROVE k = l
        <5>1. k < l => Precedes(c, s[k], s[l])
          BY <2>1, <4>1 DEF InOrder
        <5>2. l < k => Precedes(c, s[l], s[k])
          BY <2>1, <4>1 DEF InOrder
        <5>3. ~Precedes(c, s[k], s[k])
          BY <1>1, ArenaStrict
        <5>4. QED
          BY <4>1, <4>3, <5>1, <5>2, <5>3
      <4>4. IsFiniteSet(RecordsOn(c)) /\ Cardinality(RecordsOn(c)) \in Nat
            /\ Cardinality(RecordsOn(c)) <= kMaxIter
        BY <1>1, <1>4, ArenaRecordsFinite DEF WellFormed
      <4> HIDE DEF s, n
      <4>5. n + 1 <= Cardinality(RecordsOn(c))
        BY <3>1, <4>1, <4>2, <4>3, <4>4, SequenceLacks
      <4>6. QED
        BY <1>1, <4>1, <4>4, <4>5 DEF n, s
    <3>4. pc = "record"
      BY <1>1, <2>5, <3>3
    <3>5. ArenaAt(c, i, walk')
      <4> HIDE DEF pc
      <4>1. QED
        BY <1>1, <1>2, <2>2, <3>1, <3>4 DEF ArenaAt
    <3> HIDE DEF pc
    <3>6. QED
      BY <1>2, <2>1, <3>4, <3>5 DEF ArenaFollows
  <2>6. QED
    BY <2>4, <2>5
<1> HIDE DEF pc
<1>5. ArenaBounded(walk')
  BY <1>1, <1>2, <1>3 DEF ArenaBounded
<1>6. QED
  BY <1>2, <1>4, <1>5, ArenaStays

LEMMA ArenaVisitStep ==
  ASSUME ArenaIInv, VisitRecord, UNCHANGED <<arena, contents>>
  PROVE  ArenaIInv'
<1> DEFINE x == walk.cursor
           d == kArenaRecordBytes
           adds == Adds(contents[x])
           s == Append(walk.visited, x)
           t == IF adds THEN Append(walk.added, x) ELSE walk.added
<1>1. /\ walk \in ArenaWalks /\ arena \in Arenas /\ ArenaBounded(walk) /\ walk.pc = "record"
      /\ walk.visited \in Seq(Addresses) /\ walk.added \in Seq(Addresses) /\ x \in Nat
      /\ kMaxIter \in Nat /\ d \in Nat \ {0} /\ Len(walk.visited) \in Nat
  <2>1. /\ walk \in ArenaWalks /\ arena \in Arenas /\ ArenaBounded(walk) /\ walk.pc = "record"
        /\ kMaxIter \in Nat /\ d \in Nat \ {0}
    BY ArenaAssumption DEF ArenaIInv, VisitRecord
  <2>2. walk.visited \in Seq(Addresses) /\ walk.added \in Seq(Addresses) /\ x \in Nat
    BY <2>1 DEF ArenaWalks
  <2>3. QED
    BY <2>1, <2>2
<1>2. /\ walk.page \in Pages /\ Start(walk.page) <= x /\ x < End(walk.page)
      /\ walk.count = Len(walk.visited) + 1 /\ walk.count <= kMaxIter
  BY <1>1 DEF ArenaBounded
<1>3. x \in Addresses
  BY <1>1, <1>2, ArenaStarts
<1>4. /\ s \in Seq(Addresses) /\ Len(s) = Len(walk.visited) + 1
      /\ ToSet(s) = ToSet(walk.visited) \cup {x}
      /\ t \in Seq(Addresses)
      /\ ToSet(t) = ToSet(walk.added) \cup (IF adds THEN {x} ELSE {})
  BY <1>1, <1>3, ArenaAppends
<1>5. ASSUME NEW c, InOrder(c, walk.visited), InOrder(c, walk.added),
             \A a \in ToSet(walk.visited) : Precedes(c, a, x),
             ToSet(walk.added) \subseteq ToSet(walk.visited)
      PROVE  InOrder(c, s) /\ InOrder(c, t)
  BY <1>1, <1>3, <1>5, ArenaAppends
<1>6. /\ walk' \in ArenaWalks /\ walk'.pc = "advance" /\ walk'.page = walk.page
      /\ walk'.cursor = x + d /\ walk'.visited = s /\ walk'.added = t /\ walk'.count = walk.count
  <2>1. walk' = [walk EXCEPT !.visited = s, !.added = t, !.cursor = x + d, !.pc = "advance"]
    BY DEF VisitRecord
  <2>2. x + d \in Nat
    BY <1>1
  <2> HIDE DEF s, t, x, d
  <2>3. QED
    BY <1>1, <1>4, <2>1, <2>2 DEF ArenaWalks
<1>7. ASSUME NEW c \in PageChains, WellFormed(c) PROVE ArenaFollows(c, walk')
  <2>1. /\ ToSet(walk.added) = {a \in ToSet(walk.visited) : Adds(contents[a])}
        /\ InOrder(c, walk.visited) /\ InOrder(c, walk.added)
    BY <1>7 DEF ArenaIInv, ArenaFollows
  <2>2. PICK i \in 1..Len(c) : ArenaAt(c, i, walk)
    BY <1>1, <1>7 DEF ArenaIInv, ArenaFollows
  <2>3. /\ walk.page = c[i] /\ ToSet(walk.visited) = ArenaBefore(c, i, x)
        /\ i = 1 => x >= arena.begin
        /\ x \in RecordsOn(c) /\ x \in Slots(c[i])
    BY <1>1, <2>2 DEF ArenaAt
  <2>4. /\ Len(c) \in Nat \ {0} /\ DOMAIN c = 1..Len(c) /\ c[i] \in Pages
        /\ x + d \in Slots(c[i]) \cup {End(c[i])}
        /\ \A b \in Slots(c[i]) \cup {End(c[i])} : x < b => x + d <= b
    BY <1>1, <1>7, <2>3, ArenaChainIs, ArenaSlotsAre
  <2>5. ArenaBefore(c, i, x + d) = ArenaBefore(c, i, x) \cup {x}
    <3>1. \A a \in Slots(c[i]) : a \in Nat /\ (a < x + d <=> a < x \/ a = x)
      <4> SUFFICES ASSUME NEW a \in Slots(c[i]) PROVE a \in Nat /\ (a < x + d <=> a < x \/ a = x)
        OBVIOUS
      <4>1. a \in Nat
        BY <2>4, ArenaSlotsAre
      <4>2. x < a => x + d <= a
        BY <2>4
      <4> HIDE DEF x, d
      <4>3. QED
        BY <1>1, <4>1, <4>2
    <3> HIDE DEF x, d
    <3>2. ASSUME NEW a \in ArenaBefore(c, i, x + d) PROVE a \in ArenaBefore(c, i, x) \cup {x}
      <4>1. PICK j \in 1..Len(c) : a \in Slots(c[j]) /\ (j < i \/ (j = i /\ a < x + d))
        BY <3>2 DEF ArenaBefore
      <4>2. a \in RecordsOn(c)
        BY <3>2 DEF ArenaBefore
      <4>3. j < i \/ (j = i /\ a < x) \/ a = x
        BY <3>1, <4>1
      <4>4. QED
        BY <4>1, <4>2, <4>3 DEF ArenaBefore
    <3>3. ASSUME NEW a \in ArenaBefore(c, i, x) \cup {x} PROVE a \in ArenaBefore(c, i, x + d)
      <4>1. a \in RecordsOn(c)
        BY <2>3, <3>3 DEF ArenaBefore
      <4>2. PICK j \in 1..Len(c) : a \in Slots(c[j]) /\ (j < i \/ (j = i /\ (a < x \/ a = x)))
        BY <2>3, <3>3 DEF ArenaBefore
      <4>3. j < i \/ (j = i /\ a < x + d)
        BY <3>1, <4>2
      <4>4. QED
        BY <4>1, <4>2, <4>3 DEF ArenaBefore
    <3>4. QED
      BY <3>2, <3>3
  <2>6. \A a \in ToSet(walk.visited) : Precedes(c, a, x)
    <3> SUFFICES ASSUME NEW a \in ArenaBefore(c, i, x) PROVE Precedes(c, a, x)
      BY <2>3
    <3>1. PICK j \in 1..Len(c) : a \in Slots(c[j]) /\ (j < i \/ (j = i /\ a < x))
      BY DEF ArenaBefore
    <3>2. QED
      BY <2>3, <2>4, <3>1 DEF Precedes
  <2>7. InOrder(c, s) /\ InOrder(c, t)
    BY <1>5, <2>1, <2>6
  <2>8. ToSet(t) = {a \in ToSet(s) : Adds(contents[a])}
    BY <1>4, <2>1
  <2>9. ArenaAt(c, i, walk')
    <3>1. i = Len(c) => x + d <= arena.end
      <4> SUFFICES ASSUME i = Len(c) PROVE x + d <= arena.end
        OBVIOUS
      <4>1. arena.end \in Slots(c[i]) \cup {End(c[i])} /\ x < arena.end
        BY <1>1, <1>7, <2>3, ArenaEnds
      <4>2. QED
        BY <2>4, <4>1
    <3>2. i = 1 => x + d >= arena.begin
      <4>1. arena.begin \in Nat
        BY <1>1, <1>7, ArenaEnds
      <4>2. QED
        BY <1>1, <2>3, <4>1
    <3> HIDE DEF s, t, x, d
    <3>3. ToSet(walk'.visited) = ArenaBefore(c, i, walk'.cursor)
      BY <1>4, <1>6, <2>3, <2>5
    <3>4. walk'.page = c[i]
      BY <1>6, <2>3
    <3>5. QED
      BY <1>6, <2>4, <3>1, <3>2, <3>3, <3>4 DEF ArenaAt
  <2> HIDE DEF s, t, x, d
  <2>10. QED
    BY <1>6, <2>7, <2>8, <2>9 DEF ArenaFollows
<1>8. ArenaBounded(walk')
  <2>1. Start(walk.page) <= x + d
    BY <1>1, <1>2, ArenaStarts
  <2> HIDE DEF s, t, x, d
  <2>2. Len(walk'.visited) <= kMaxIter /\ walk'.count = Len(walk'.visited)
    BY <1>1, <1>2, <1>4, <1>6
  <2>3. QED
    BY <1>2, <1>6, <2>1, <2>2 DEF ArenaBounded
<1> HIDE DEF s, t, x, d
<1>9. QED
  BY <1>6, <1>7, <1>8, ArenaStays

\* The records before the end of a page are those before the next one's start.
LEMMA ArenaPageTurns ==
  ASSUME arena \in Arenas, NEW c \in PageChains, NEW i \in 1..Len(c), i # Len(c)
  PROVE  ArenaBefore(c, i, End(c[i])) = ArenaBefore(c, i + 1, Start(c[i + 1]))
<1>1. /\ Len(c) \in Nat /\ i + 1 \in 1..Len(c) /\ c[i] \in Pages /\ c[i + 1] \in Pages
      /\ \A j \in 1..Len(c) : j < i + 1 <=> j < i \/ j = i
  BY ArenaChainIs
<1>2. \A a \in Slots(c[i]) : a < End(c[i])
  BY <1>1, ArenaSlotsAre
<1>3. \A a \in Slots(c[i + 1]) : ~ (a < Start(c[i + 1]))
  <2>1. Start(c[i + 1]) \in Nat
    BY <1>1, ArenaStarts
  <2>2. \A a \in Slots(c[i + 1]) : a \in Nat /\ Start(c[i + 1]) <= a
    BY <1>1, ArenaSlotsAre
  <2>3. QED
    BY <2>1, <2>2
<1>4. QED
  BY <1>1, <1>2, <1>3 DEF ArenaBefore

LEMMA ArenaAdvanceStep ==
  ASSUME ArenaIInv, Advance, UNCHANGED <<arena, contents>>
  PROVE  ArenaIInv'
<1> DEFINE x == walk.cursor
           e == End(walk.page)
           p == arena.next[walk.page]
           ends == x > e \/ (x = e /\ p = 0)
           turns == x = e /\ p # 0
<1>1. /\ walk \in ArenaWalks /\ arena \in Arenas /\ ArenaBounded(walk) /\ walk.pc = "advance"
      /\ walk.visited \in Seq(Addresses) /\ x \in Nat /\ kMaxIter \in Nat
  <2>1. /\ walk \in ArenaWalks /\ arena \in Arenas /\ ArenaBounded(walk) /\ walk.pc = "advance"
        /\ kMaxIter \in Nat
    BY ArenaAssumption DEF ArenaIInv, Advance
  <2>2. QED
    BY <2>1 DEF ArenaWalks
<1>2. /\ walk.page \in Pages /\ Start(walk.page) <= x /\ walk.count = Len(walk.visited)
      /\ Len(walk.visited) <= kMaxIter
  BY <1>1 DEF ArenaBounded
<1>3. /\ e \in Nat /\ p \in Pages \cup {0} /\ 0 \notin Pages
      /\ p # 0 => p \in Pages /\ Start(p) \in Nat /\ Start(p) < End(p)
  <2>1. p \in Pages \cup {0} /\ 0 \notin Pages
    BY <1>1, <1>2, ArenaAssumption DEF Arenas
  <2>2. e \in Nat
    BY <1>2, ArenaStarts
  <2>3. p # 0 => p \in Pages /\ Start(p) \in Nat /\ Start(p) < End(p)
    BY <2>1, ArenaStarts, ArenaStartIsSlot, ArenaSlotsAre
  <2>4. QED
    BY <2>1, <2>2, <2>3
<1> HIDE DEF p, e
<1>4. walk' = IF ends THEN [walk EXCEPT !.pc = "done"]
              ELSE IF turns THEN [walk EXCEPT !.page = p, !.cursor = Start(p), !.pc = "test"]
              ELSE [walk EXCEPT !.pc = "test"]
  <2>1. walk' = CASE x > e -> [walk EXCEPT !.pc = "done"]
                  [] x < e -> [walk EXCEPT !.pc = "test"]
                  [] OTHER -> IF p = 0 THEN [walk EXCEPT !.pc = "done"]
                              ELSE [walk EXCEPT !.page = p, !.cursor = Start(p), !.pc = "test"]
    BY DEF Advance, p, e
  <2>2. (x > e \/ x < e \/ x = e) /\ ~(x > e /\ x < e) /\ ~(x > e /\ x = e) /\ ~(x < e /\ x = e)
    BY <1>1, <1>3
  <2>3. CASE x > e
    BY <2>1, <2>2, <2>3
  <2>4. CASE x < e
    BY <2>1, <2>2, <2>4
  <2>5. CASE x = e
    BY <2>1, <2>2, <2>5
  <2>6. QED
    BY <2>2, <2>3, <2>4, <2>5
<1>5. /\ walk' \in ArenaWalks /\ walk'.visited = walk.visited /\ walk'.added = walk.added
      /\ walk'.count = walk.count /\ walk'.pc = IF ends THEN "done" ELSE "test"
      /\ ~ends => /\ walk'.page = IF turns THEN p ELSE walk.page
                  /\ walk'.cursor = IF turns THEN Start(p) ELSE x
  <2>1. CASE ends
    BY <1>1, <1>4, <2>1 DEF ArenaWalks
  <2>2. CASE ~ends /\ turns
    <3>1. walk' = [walk EXCEPT !.page = p, !.cursor = Start(p), !.pc = "test"]
      BY <1>4, <2>2
    <3>2. p \in Pages /\ Start(p) \in Nat
      BY <1>3, <2>2
    <3>3. QED
      BY <1>1, <2>2, <3>1, <3>2 DEF ArenaWalks
  <2>3. CASE ~ends /\ ~turns
    BY <1>1, <1>4, <2>3 DEF ArenaWalks
  <2>4. QED
    BY <2>1, <2>2, <2>3
<1>6. ArenaBounded(walk')
  <2>1. Len(walk'.visited) <= kMaxIter /\ (walk'.pc = "test" => walk'.count = Len(walk'.visited))
    BY <1>2, <1>5
  <2>2. walk'.pc = "test" =>
          walk'.page \in Pages /\ Start(walk'.page) <= walk'.cursor /\ walk'.cursor < End(walk'.page)
    <3> SUFFICES ASSUME ~ends
                 PROVE  walk'.page \in Pages /\ Start(walk'.page) <= walk'.cursor /\ walk'.cursor < End(walk'.page)
      BY <1>5
    <3>1. CASE turns
      <4>1. walk'.page = p /\ walk'.cursor = Start(p) /\ p \in Pages /\ Start(p) \in Nat /\ Start(p) < End(p)
        BY <1>3, <1>5, <3>1
      <4>2. Start(p) <= Start(p)
        BY <4>1
      <4>3. QED
        BY <4>1, <4>2
    <3>2. CASE ~turns
      <4>1. walk'.page = walk.page /\ walk'.cursor = x /\ x < e
        BY <1>1, <1>3, <1>5, <3>2
      <4>2. QED
        BY <1>2, <4>1 DEF e
    <3>3. QED
      BY <3>1, <3>2
  <2>3. walk'.pc \in {"test", "done"}
    BY <1>5
  <2>4. QED
    BY <2>1, <2>2, <2>3 DEF ArenaBounded
<1>7. ASSUME NEW c \in PageChains, WellFormed(c) PROVE ArenaFollows(c, walk')
  <2>1. /\ ToSet(walk.added) = {a \in ToSet(walk.visited) : Adds(contents[a])}
        /\ InOrder(c, walk.visited) /\ InOrder(c, walk.added)
    BY <1>7 DEF ArenaIInv, ArenaFollows
  <2>2. PICK i \in 1..Len(c) : ArenaAt(c, i, walk)
    BY <1>1, <1>7 DEF ArenaIInv, ArenaFollows
  <2>3. /\ walk.page = c[i] /\ ToSet(walk.visited) = ArenaBefore(c, i, x)
        /\ i = 1 => x >= arena.begin
        /\ i = Len(c) => x <= arena.end
        /\ x \in Slots(c[i]) \/ x = e
    BY <2>2 DEF ArenaAt, e
  <2>4. /\ Len(c) \in Nat \ {0} /\ \A j \in 1..Len(c) : c[j] \in Pages
        /\ i # Len(c) => i \in 1..(Len(c) - 1) /\ i + 1 \in 1..Len(c) /\ i + 1 # 1
        /\ \A j \in 1..(Len(c) - 1) : arena.next[c[j]] = c[j + 1]
        /\ 1 \in 1..Len(c) /\ Len(c) \in 1..Len(c)
    BY <1>1, <1>7, ArenaChainIs
  <2>5. i # Len(c) => p = c[i + 1] /\ p \in Pages /\ p # 0
    BY <1>3, <2>3, <2>4 DEF p
  <2>6. x <= e /\ (x = e \/ x < e)
    <3>1. x \in Slots(c[i]) => x < e
      BY <2>3, <2>4, ArenaSlotsAre DEF e
    <3>2. QED
      BY <1>1, <1>3, <2>3, <3>1
  <2>7. CASE ends
    <3>1. x = e /\ p = 0 /\ i = Len(c)
      BY <1>1, <1>3, <2>5, <2>6, <2>7
    <3>2. \A j \in 1..Len(c) : \A a \in Slots(c[j]) : j < i \/ (j = i /\ a < x)
      <4> SUFFICES ASSUME NEW j \in 1..Len(c), NEW a \in Slots(c[j]) PROVE j < i \/ (j = i /\ a < x)
        OBVIOUS
      <4>1. j < i \/ j = i
        BY <2>4, <3>1
      <4>2. j = i => a < x
        BY <2>3, <2>4, <3>1, ArenaSlotsAre DEF e
      <4>3. QED
        BY <4>1, <4>2
    <3>3. \A a \in RecordsOn(c) : \E j \in 1..Len(c) : a \in Slots(c[j])
      BY <1>1, <1>7, ArenaEnds
    <3>4. ArenaBefore(c, i, x) = RecordsOn(c)
      BY <3>2, <3>3 DEF ArenaBefore
    <3>5. walk'.pc = "done"
      BY <1>5, <2>7
    <3>6. QED
      BY <1>5, <2>1, <2>3, <3>4, <3>5 DEF ArenaFollows
  <2>8. CASE turns
    <3>1. i # Len(c)
      <4> SUFFICES ASSUME i = Len(c) PROVE FALSE
        OBVIOUS
      <4>1. arena.end \in Slots(c[i]) \cup {End(c[i])} /\ arena.end \in Nat
            /\ (arena.end = End(c[i]) => arena.next[c[i]] = 0)
        BY <1>1, <1>7, ArenaEnds
      <4>2. arena.end # e
        BY <2>3, <2>8, <4>1 DEF e, p
      <4>3. arena.end < e
        BY <2>3, <2>4, <4>1, <4>2, ArenaSlotsAre DEF e
      <4>4. e <= arena.end
        BY <2>3, <2>8
      <4>5. QED
        BY <1>3, <4>1, <4>3, <4>4
    <3>2. ~ends
      BY <1>3, <2>8
    <3>3. /\ walk'.page = c[i + 1] /\ walk'.cursor = Start(c[i + 1]) /\ walk'.pc = "test"
          /\ c[i + 1] \in Pages
      BY <1>5, <2>5, <2>8, <3>1, <3>2
    <3>4. ToSet(walk'.visited) = ArenaBefore(c, i + 1, walk'.cursor)
      <4>1. ArenaBefore(c, i, End(c[i])) = ArenaBefore(c, i + 1, Start(c[i + 1]))
        BY <1>1, <1>7, <3>1, ArenaPageTurns
      <4>2. QED
        BY <1>5, <2>3, <2>8, <3>3, <4>1 DEF e
    <3>5. i + 1 = Len(c) => walk'.cursor <= arena.end
      <4>1. i + 1 = Len(c) => arena.end \in Slots(c[i + 1]) \cup {End(c[i + 1])}
        BY <1>1, <1>7, ArenaEnds
      <4>2. \A b \in Slots(c[i + 1]) \cup {End(c[i + 1])} : Start(c[i + 1]) <= b
        BY <3>3, ArenaSlotsAre, ArenaStarts
      <4>3. QED
        BY <3>3, <4>1, <4>2
    <3>6. walk'.cursor \in Slots(c[i + 1])
      BY <3>3, ArenaStartIsSlot
    <3>7. i + 1 \in 1..Len(c) /\ i + 1 # 1
      BY <2>4, <3>1
    <3>8. ArenaAt(c, i + 1, walk')
      BY <3>3, <3>4, <3>5, <3>6, <3>7 DEF ArenaAt
    <3>9. QED
      BY <1>5, <2>1, <3>3, <3>7, <3>8 DEF ArenaFollows
  <2>9. CASE x < e
    <3>1. ~ends /\ ~turns
      BY <1>1, <1>3, <2>9
    <3>2. /\ walk'.page = walk.page /\ walk'.cursor = x /\ walk'.pc = "test"
          /\ walk'.visited = walk.visited
      BY <1>5, <3>1
    <3>3. x \in Slots(c[i])
      BY <1>1, <1>3, <2>3, <2>9
    <3>4. ArenaAt(c, i, walk')
      BY <2>3, <3>2, <3>3 DEF ArenaAt
    <3>5. QED
      BY <1>5, <2>1, <3>2, <3>4 DEF ArenaFollows
  <2>10. QED
    BY <2>6, <2>7, <2>8, <2>9
<1>8. QED
  BY <1>5, <1>6, <1>7, ArenaStays

LEMMA ArenaNextIInv == ArenaIInv /\ [ArenaNext]_arenaVars => ArenaIInv'
<1> SUFFICES ASSUME ArenaIInv, [ArenaNext]_arenaVars PROVE ArenaIInv'
  OBVIOUS
<1>1. CASE ArenaNext
  BY <1>1, ArenaEnterStep, ArenaTestStep, ArenaVisitStep, ArenaAdvanceStep DEF ArenaNext
<1>2. CASE UNCHANGED arenaVars
  <2>1. UNCHANGED <<arena, contents>> /\ walk' = walk
    BY <1>2 DEF arenaVars
  <2>2. walk \in ArenaWalks /\ ArenaBounded(walk) /\ \A c \in PageChains : WellFormed(c) => ArenaFollows(c, walk)
    BY DEF ArenaIInv
  <2>3. QED
    BY <2>1, <2>2, ArenaStays
<1>3. QED
  BY <1>1, <1>2

LEMMA ArenaInductive == ArenaSpec => []ArenaIInv
BY ArenaInitIInv, ArenaNextIInv, PTL DEF ArenaSpec

\* The walk's locals keep their types (ForEachArenaRecord).
THEOREM ArenaTypeCorrect == ArenaSpec => []ArenaTypeOK
<1>1. ArenaIInv => ArenaTypeOK
  BY DEF ArenaIInv, ArenaTypeOK, ArenaWalks
<1>2. QED
  BY <1>1, ArenaInductive, PTL

(***************************************************************************)
(* Over a well-formed arena the walk visits every record from begin_ to    *)
(* end_ once and in order and adds what its pass wants; over any arena it  *)
(* stays on the pages and within the limit of the iterations               *)
(* (ForEachArenaRecord).                                                   *)
(***************************************************************************)
THEOREM ArenaWalkAgreesHolds == ArenaSpec => []ArenaWalkAgrees
<1>1. ArenaIInv => ArenaWalkAgrees
  <2> SUFFICES ASSUME ArenaIInv PROVE ArenaWalkAgrees
    OBVIOUS
  <2>1. ArenaBounded(walk) /\ walk \in ArenaWalks
    BY DEF ArenaIInv
  <2>2. Len(walk.visited) <= kMaxIter
    BY <2>1 DEF ArenaBounded
  <2>3. walk.pc = "record" => walk.cursor >= Start(walk.page) /\ walk.cursor < End(walk.page)
    BY <2>1, ArenaStarts DEF ArenaBounded, ArenaWalks
  <2>4. ASSUME walk.pc = "done", NEW c \in PageChains, WellFormed(c)
        PROVE  /\ ToSet(walk.visited) = RecordsOn(c) /\ InOrder(c, walk.visited)
               /\ ToSet(walk.added) = {a \in RecordsOn(c) : Adds(contents[a])} /\ InOrder(c, walk.added)
    BY <2>4 DEF ArenaIInv, ArenaFollows
  <2>5. QED
    BY <2>2, <2>3, <2>4 DEF ArenaWalkAgrees
<1>2. QED
  BY <1>1, ArenaInductive, PTL

-----------------------------------------------------------------------------
(* The pre-culled objects of the flat handler *)

\* That a culled object is alive rests on three facts, none of which is
\* inductive alone: what the table, the scene or a frame refers to is not dead
\* (FlatReferencesKeep), what a pass has found is still in the table
\* (FlatFoundIsCurrent), and no updater is past the mutex while a pass scans
\* (FlatMutexExcludes).  They survive destructors that call UpdateIDto3DMap
\* again, because such a call only adds a frame that waits for the mutex.

FlatFrames ==
    [pc : {"lock", "locked", "callback", "unlock"}, id : FlatIds, obj : FlatObjects \cup {NoObject}]

FlatPassRecords ==
    [pc : {"idle", "lock", "scan", "notify"}, kind : Passes, todo : SUBSET FlatIds,
     found : SUBSET [id : FlatIds, obj : FlatObjects], passes : Nat]

FlatTypes ==
    /\ flatUse \in BOOLEAN
    /\ flatMap \in [FlatIds -> FlatObjects \cup {NoObject}]
    /\ flatScene \subseteq FlatObjects /\ flatDead \subseteq FlatObjects
    /\ flatStack \in [FlatUpdaters -> Seq(FlatFrames)]
    /\ flatPass \in [FlatReaders -> FlatPassRecords]
    /\ flatGroup \subseteq FlatObjects /\ updates \in 0..MaxUpdates

FlatReferencesKeep ==
    /\ \A id \in FlatIds : flatMap[id] \notin flatDead
    /\ flatScene \cap flatDead = {}
    /\ \A t \in FlatUpdaters : \A f \in Range(flatStack[t]) : f.obj \in flatScene \cup {NoObject}

FlatFoundIsCurrent ==
    \A r \in FlatReaders :
        /\ flatPass[r].pc # "scan" => flatPass[r].found = {}
        /\ \A e \in flatPass[r].found : flatMap[e.id] = e.obj

FlatPastMutex(t) == \E f \in Range(flatStack[t]) : f.pc # "lock"

FlatMutexExcludes ==
    \A t \in FlatUpdaters, r \in FlatReaders : ~(FlatPastMutex(t) /\ flatPass[r].pc = "scan")

FlatIInv == FlatTypes /\ FlatReferencesKeep /\ FlatFoundIsCurrent /\ FlatMutexExcludes /\ flatGroup = {}

-----------------------------------------------------------------------------
(* The flat handler: its stacks *)

LEMMA TopOfStack ==
  ASSUME NEW S, NEW s \in Seq(S), s # <<>>
  PROVE  /\ Last(s) \in S /\ Front(s) \in Seq(S)
         /\ Last(s) \in Range(s)
         /\ Range(Front(s)) \subseteq Range(s)
         /\ Len(s) \in Nat \ {0} /\ Len(Front(s)) = Len(s) - 1
<1>1. Len(s) \in Nat \ {0} /\ DOMAIN s = 1..Len(s)
  BY EmptySeq, LenProperties
<1>2. Last(s) = s[Len(s)] /\ Len(s) \in 1..Len(s)
  BY <1>1 DEF Last
<1>3. Front(s) \in Seq(S) /\ Len(Front(s)) = Len(s) - 1
  BY <1>1, SubSeqProperties, ElementOfSeq DEF Front
<1>4. \A i \in 1..(Len(s) - 1) : Front(s)[i] = s[i]
  BY <1>1, SubSeqProperties, ElementOfSeq DEF Front
<1>5. Range(Front(s)) \subseteq Range(s)
  BY <1>1, <1>3, <1>4, LenProperties DEF Range
<1>6. QED
  BY <1>1, <1>2, <1>3, <1>5, ElementOfSeq DEF Range

LEMMA PushedOnStack ==
  ASSUME NEW S, NEW s \in Seq(S), NEW x \in S
  PROVE  /\ Append(s, x) \in Seq(S)
         /\ Range(Append(s, x)) = Range(s) \cup {x}
<1>1. /\ Append(s, x) \in Seq(S) /\ Len(Append(s, x)) = Len(s) + 1 /\ Len(s) \in Nat
      /\ \A i \in 1..Len(s) : Append(s, x)[i] = s[i]
      /\ Append(s, x)[Len(s) + 1] = x
  BY AppendProperties, LenProperties
<1>2. DOMAIN Append(s, x) = 1..(Len(s) + 1) /\ DOMAIN s = 1..Len(s)
  BY <1>1, LenProperties
<1>3. QED
  BY <1>1, <1>2 DEF Range

\* An activation that goes on keeps its object and leaves the others alone.
LEMMA FlatAtFrames ==
  ASSUME FlatTypes, NEW t \in FlatUpdaters, flatStack[t] # <<>>,
         NEW pc \in {"lock", "locked", "callback", "unlock"}
  PROVE  /\ FlatAt(t, pc) \in [FlatUpdaters -> Seq(FlatFrames)]
         /\ \A u \in FlatUpdaters \ {t} : FlatAt(t, pc)[u] = flatStack[u]
         /\ \A f \in Range(FlatAt(t, pc)[t]) : \E g \in Range(flatStack[t]) : f.obj = g.obj
<1> DEFINE s == flatStack[t]
           f == [Last(s) EXCEPT !.pc = pc]
<1>1. s \in Seq(FlatFrames)
  BY DEF FlatTypes
<1>2. Last(s) \in FlatFrames /\ Front(s) \in Seq(FlatFrames) /\ Last(s) \in Range(s)
      /\ Range(Front(s)) \subseteq Range(s)
  BY <1>1, TopOfStack
<1>3. f \in FlatFrames /\ f.obj = Last(s).obj
  BY <1>2 DEF FlatFrames
<1>4. FlatAt(t, pc) = [flatStack EXCEPT ![t] = Append(Front(s), f)]
  BY DEF FlatAt
<1> HIDE DEF f
<1>5. Append(Front(s), f) \in Seq(FlatFrames) /\ Range(Append(Front(s), f)) = Range(Front(s)) \cup {f}
  BY <1>2, <1>3, PushedOnStack
<1>6. QED
  BY <1>2, <1>3, <1>4, <1>5 DEF FlatTypes

\* What is released dies only if nothing refers to it, and its destructor adds
\* an activation that waits and holds no object.
LEMMA FlatReleaseFrames ==
  ASSUME NEW t \in FlatUpdaters, NEW o \in FlatObjects \cup {NoObject}, NEW map, NEW scn,
         NEW frames \in [FlatUpdaters -> Seq(FlatFrames)], Release(t, o, map, scn, frames)
  PROVE  /\ flatMap' = map /\ flatScene' = scn
         /\ \/ flatDead' = flatDead
            \/ o \in FlatObjects \ (scn \cup Range(map)) /\ flatDead' = flatDead \cup {o}
         /\ flatStack' \in [FlatUpdaters -> Seq(FlatFrames)]
         /\ \A u \in FlatUpdaters : \A f \in Range(flatStack'[u]) :
              f \in Range(frames[u]) \/ (f.pc = "lock" /\ f.obj = NoObject)
<1> USE PreCulledFlatAssumption
<1>1. CASE flatStack' = frames
  BY <1>1 DEF Release
<1>2. CASE flatStack' # frames
  <2> DEFINE f == [pc |-> "lock", id |-> FlatChildId[o], obj |-> NoObject]
  <2>1. o \in FlatObjects /\ FlatChildId[o] \in FlatIds
    BY <1>2 DEF Release
  <2>2. f \in FlatFrames
    BY <2>1 DEF FlatFrames
  <2>3. flatStack' = [frames EXCEPT ![t] = Append(frames[t], f)]
    BY <1>2 DEF Release
  <2> HIDE DEF f
  <2>4. /\ Append(frames[t], f) \in Seq(FlatFrames)
        /\ Range(Append(frames[t], f)) = Range(frames[t]) \cup {f}
    BY <2>2, PushedOnStack
  <2>5. \A u \in FlatUpdaters : \A g \in Range(flatStack'[u]) : g \in Range(frames[u]) \/ g = f
    BY <2>3, <2>4
  <2>6. flatStack' \in [FlatUpdaters -> Seq(FlatFrames)]
    BY <2>3, <2>4
  <2>7. QED
    BY <1>2, <2>1, <2>5, <2>6 DEF Release, f
<1>3. QED
  BY <1>1, <1>2

-----------------------------------------------------------------------------

LEMMA FlatInitIInv == FlatInit => FlatIInv
<1> SUFFICES ASSUME FlatInit PROVE FlatIInv
  OBVIOUS
<1> USE PreCulledFlatAssumption DEF FlatInit
<1>1. FlatTypes
  <2>1. flatStack \in [FlatUpdaters -> Seq(FlatFrames)]
    BY EmptySeq
  <2>2. flatPass \in [FlatReaders -> FlatPassRecords]
    BY DEF NoPass, FlatPassRecords, Passes
  <2>3. QED
    BY <2>1, <2>2 DEF FlatTypes
<1>2. \A t \in FlatUpdaters : Range(flatStack[t]) = {}
  BY DEF Range
<1>3. QED
  BY <1>1, <1>2
     DEF FlatIInv, FlatReferencesKeep, FlatFoundIsCurrent, FlatMutexExcludes, FlatPastMutex, NoPass

\* Frames that keep their objects, while map, scene and passes stay, break nothing.
LEMMA FlatFramesOnly ==
  ASSUME FlatIInv, UNCHANGED <<flatUse, flatMap, flatScene, flatDead, flatPass, flatGroup>>,
         updates' \in 0..MaxUpdates,
         flatStack' \in [FlatUpdaters -> Seq(FlatFrames)],
         \A u \in FlatUpdaters : \A f \in Range(flatStack'[u]) : f.obj \in flatScene \cup {NoObject},
         FlatMutexExcludes'
  PROVE  FlatIInv'
BY DEF FlatIInv, FlatTypes, FlatReferencesKeep, FlatFoundIsCurrent

\* Passes that move, while everything else stays, break nothing if what they
\* have found is current and none enters the scan while an updater is past the mutex.
LEMMA FlatPassesOnly ==
  ASSUME FlatIInv, UNCHANGED <<flatUse, flatMap, flatScene, flatDead, flatStack, updates>>,
         flatPass' \in [FlatReaders -> FlatPassRecords],
         FlatFoundIsCurrent', FlatMutexExcludes', flatGroup' = {}
  PROVE  FlatIInv'
BY DEF FlatIInv, FlatTypes, FlatReferencesKeep

LEMMA FlatPassMoves ==
  ASSUME FlatTypes, NEW r \in FlatReaders, NEW pc \in {"idle", "lock", "scan", "notify"}
  PROVE  [flatPass EXCEPT ![r].pc = pc] \in [FlatReaders -> FlatPassRecords]
<1>1. flatPass[r] \in FlatPassRecords
  BY DEF FlatTypes
<1>2. [flatPass[r] EXCEPT !.pc = pc] \in FlatPassRecords
  <2> DEFINE S1 == SUBSET FlatIds
             S2 == SUBSET [id : FlatIds, obj : FlatObjects]
  <2>1. FlatPassRecords = [pc : {"idle", "lock", "scan", "notify"}, kind : Passes, todo : S1, found : S2,
                passes : Nat]
    BY DEF FlatPassRecords
  <2> HIDE DEF S1, S2
  <2>2. QED
    BY <1>1, <2>1
<1>3. QED
  BY <1>2 DEF FlatTypes

LEMMA FlatPassFinds ==
  ASSUME FlatTypes, NEW r \in FlatReaders, NEW todo \in SUBSET FlatIds,
         NEW found \in SUBSET [id : FlatIds, obj : FlatObjects]
  PROVE  [flatPass EXCEPT ![r].todo = todo, ![r].found = found] \in [FlatReaders -> FlatPassRecords]
<1>1. flatPass[r] \in FlatPassRecords
  BY DEF FlatTypes
<1>2. [flatPass[r] EXCEPT !.todo = todo, !.found = found] \in FlatPassRecords
  <2> DEFINE S1 == SUBSET FlatIds
             S2 == SUBSET [id : FlatIds, obj : FlatObjects]
  <2>1. FlatPassRecords = [pc : {"idle", "lock", "scan", "notify"}, kind : Passes, todo : S1, found : S2,
                passes : Nat]
    BY DEF FlatPassRecords
  <2>2. todo \in S1 /\ found \in S2
    OBVIOUS
  <2> HIDE DEF S1, S2
  <2>3. QED
    BY <1>1, <2>1, <2>2
<1>3. QED
  BY <1>2 DEF FlatTypes

\* No step of an updater, a pass or the engine breaks FlatIInv.
LEMMA FlatNextIInv == FlatIInv /\ [FlatNext]_flatVars => FlatIInv'
<1> SUFFICES ASSUME FlatIInv, [FlatNext]_flatVars PROVE FlatIInv'
  OBVIOUS
<1> USE PreCulledFlatAssumption
<1>0. FlatIInv
  OBVIOUS
<1>1. ASSUME NEW t \in FlatUpdaters, NEW id \in FlatIds, NEW o \in FlatObjects \cup {NoObject},
             FlatCall(t, id, o) PROVE FlatIInv'
  <2>1. [pc |-> "lock", id |-> id, obj |-> o] \in FlatFrames
    BY DEF FlatFrames
  <2>2. CASE flatUse
    <3> DEFINE f == [pc |-> "lock", id |-> id, obj |-> o]
    <3>1. flatStack' = [flatStack EXCEPT ![t] = <<f>>]
      BY <1>1, <2>2 DEF FlatCall
    <3> HIDE DEF f
    <3>2. <<f>> \in Seq(FlatFrames) /\ Range(<<f>>) = {f}
      BY <2>1 DEF Range, f
    <3>3. \A u \in FlatUpdaters : \A g \in Range(flatStack'[u]) : g \in Range(flatStack[u]) \/ g = f
      BY <3>1, <3>2 DEF FlatIInv, FlatTypes
    <3>4. flatStack' \in [FlatUpdaters -> Seq(FlatFrames)]
      BY <3>1, <3>2 DEF FlatIInv, FlatTypes
    <3>5. FlatMutexExcludes'
      BY <1>1, <3>3 DEF FlatCall, FlatIInv, FlatMutexExcludes, FlatPastMutex, f
    <3>6. \A u \in FlatUpdaters : \A g \in Range(flatStack'[u]) : g.obj \in flatScene \cup {NoObject}
      BY <1>1, <3>3 DEF FlatCall, FlatIInv, FlatReferencesKeep, f
    <3>7. QED
      BY <1>1, <3>4, <3>5, <3>6, FlatFramesOnly DEF FlatCall, FlatIInv, FlatTypes
  <2>3. CASE ~flatUse
    BY <1>1, <2>3
       DEF FlatCall, FlatIInv, FlatTypes, FlatReferencesKeep, FlatFoundIsCurrent, FlatMutexExcludes, FlatPastMutex
  <2>4. QED
    BY <2>2, <2>3 DEF FlatIInv, FlatTypes
<1>2. ASSUME NEW t \in FlatUpdaters, FlatLock(t) PROVE FlatIInv'
  <2>1. /\ flatStack' \in [FlatUpdaters -> Seq(FlatFrames)]
        /\ \A u \in FlatUpdaters \ {t} : flatStack'[u] = flatStack[u]
        /\ \A f \in Range(flatStack'[t]) : \E g \in Range(flatStack[t]) : f.obj = g.obj
    BY <1>2, FlatAtFrames DEF FlatLock, FlatTop, FlatIInv
  <2>2. \A r \in FlatReaders : flatPass[r].pc # "scan"
    BY <1>2 DEF FlatLock, FlatFree, HoldsFlat
  <2>3. FlatMutexExcludes'
    BY <1>2, <2>2 DEF FlatLock, FlatMutexExcludes
  <2>4. QED
    BY <1>2, <2>1, <2>3, FlatFramesOnly DEF FlatLock, FlatIInv, FlatTypes, FlatReferencesKeep
<1>3. ASSUME NEW t \in FlatUpdaters, FlatRemoveCallback(t) PROVE FlatIInv'
  <2>1. /\ flatStack' \in [FlatUpdaters -> Seq(FlatFrames)]
        /\ \A u \in FlatUpdaters \ {t} : flatStack'[u] = flatStack[u]
        /\ \A f \in Range(flatStack'[t]) : \E g \in Range(flatStack[t]) : f.obj = g.obj
    BY <1>3, FlatAtFrames DEF FlatRemoveCallback, FlatTop, FlatIInv
  <2>2. FlatPastMutex(t)
    BY <1>3, TopOfStack DEF FlatRemoveCallback, FlatTop, FlatPastMutex, FlatIInv, FlatTypes
  <2>3. FlatMutexExcludes'
    BY <1>3, <2>2 DEF FlatRemoveCallback, FlatIInv, FlatMutexExcludes, FlatPastMutex
  <2>4. QED
    BY <1>3, <2>1, <2>3, FlatFramesOnly DEF FlatRemoveCallback, FlatIInv, FlatTypes, FlatReferencesKeep
<1>4. ASSUME NEW t \in FlatUpdaters, FlatUnlock(t) PROVE FlatIInv'
  <2>1. flatStack' = [flatStack EXCEPT ![t] = Front(flatStack[t])]
    BY <1>4 DEF FlatUnlock
  <2>2. Front(flatStack[t]) \in Seq(FlatFrames) /\ Range(Front(flatStack[t])) \subseteq Range(flatStack[t])
    BY <1>4, TopOfStack DEF FlatUnlock, FlatTop, FlatIInv, FlatTypes
  <2>3. flatStack' \in [FlatUpdaters -> Seq(FlatFrames)]
    BY <2>1, <2>2 DEF FlatIInv, FlatTypes
  <2>4. \A u \in FlatUpdaters : Range(flatStack'[u]) \subseteq Range(flatStack[u])
    BY <2>1, <2>2 DEF FlatIInv, FlatTypes
  <2>5. FlatMutexExcludes'
    BY <1>4, <2>4 DEF FlatUnlock, FlatIInv, FlatMutexExcludes, FlatPastMutex
  <2>6. QED
    BY <1>4, <2>3, <2>4, <2>5, FlatFramesOnly DEF FlatUnlock, FlatIInv, FlatTypes, FlatReferencesKeep
<1>5. ASSUME NEW t \in FlatUpdaters, FlatUpdate(t) PROVE FlatIInv'
  <2> DEFINE f == Last(flatStack[t])
             old == IF flatMap[f.id] = f.obj THEN NoObject ELSE flatMap[f.id]
             map == [flatMap EXCEPT ![f.id] = f.obj]
             frames == FlatAt(t, IF f.obj = NoObject THEN "callback" ELSE "unlock")
  <2>1. flatStack[t] # <<>> /\ f.pc = "locked" /\ Release(t, old, map, flatScene, frames)
    BY <1>5 DEF FlatUpdate, FlatTop
  <2>2. f \in FlatFrames /\ f \in Range(flatStack[t])
    BY <2>1, TopOfStack DEF FlatIInv, FlatTypes
  <2>3. f.id \in FlatIds /\ f.obj \in flatScene \cup {NoObject} /\ f.obj \in FlatObjects \cup {NoObject}
    BY <2>2 DEF FlatFrames, FlatIInv, FlatReferencesKeep
  <2>4. old \in FlatObjects \cup {NoObject}
    BY <2>3 DEF FlatIInv, FlatTypes
  <2>5. map \in [FlatIds -> FlatObjects \cup {NoObject}]
    BY <2>3 DEF FlatIInv, FlatTypes
  <2>6. \A id \in FlatIds : map[id] = IF id = f.id THEN f.obj ELSE flatMap[id]
    BY <2>3 DEF FlatIInv, FlatTypes
  <2>7. /\ frames \in [FlatUpdaters -> Seq(FlatFrames)]
        /\ \A u \in FlatUpdaters \ {t} : frames[u] = flatStack[u]
        /\ \A g \in Range(frames[t]) : \E h \in Range(flatStack[t]) : g.obj = h.obj
    BY <2>1, FlatAtFrames DEF FlatIInv
  <2>8. FlatPastMutex(t)
    BY <2>1, <2>2 DEF FlatPastMutex
  <2> HIDE DEF f, old, map, frames
  <2>9. /\ flatMap' = map /\ flatScene' = flatScene
        /\ \/ flatDead' = flatDead
           \/ old \in FlatObjects \ (flatScene \cup Range(map)) /\ flatDead' = flatDead \cup {old}
        /\ flatStack' \in [FlatUpdaters -> Seq(FlatFrames)]
        /\ \A u \in FlatUpdaters : \A g \in Range(flatStack'[u]) :
             g \in Range(frames[u]) \/ (g.pc = "lock" /\ g.obj = NoObject)
    BY <2>1, <2>4, <2>7, FlatReleaseFrames
  <2>10. FlatTypes'
    BY <1>5, <2>5, <2>9 DEF FlatUpdate, FlatIInv, FlatTypes
  <2>11. \A id \in FlatIds : map[id] \notin flatDead
    BY <2>3, <2>6 DEF FlatIInv, FlatTypes, FlatReferencesKeep
  <2>12. \A id \in FlatIds : map[id] \in Range(map)
    BY <2>5 DEF Range
  <2>13. \A u \in FlatUpdaters : \A g \in Range(flatStack'[u]) : g.obj \in flatScene \cup {NoObject}
    BY <2>7, <2>9 DEF FlatIInv, FlatReferencesKeep
  <2>14. FlatReferencesKeep'
    BY <2>9, <2>11, <2>12, <2>13 DEF FlatIInv, FlatReferencesKeep
  <2>15. \A r \in FlatReaders : flatPass[r].pc # "scan"
    BY <2>8 DEF FlatIInv, FlatMutexExcludes
  <2>16. FlatFoundIsCurrent' /\ FlatMutexExcludes' /\ flatGroup' = {}
    BY <1>5, <2>15 DEF FlatUpdate, FlatIInv, FlatFoundIsCurrent, FlatMutexExcludes
  <2>17. QED
    BY <2>10, <2>14, <2>16 DEF FlatIInv
<1>6. ASSUME NEW t \in FlatUpdaters, NEW o \in FlatObjects, LeaveScene(t, o) PROVE FlatIInv'
  <2>1. /\ Release(t, o, flatMap, flatScene \ {o}, flatStack)
        /\ \A u \in FlatUpdaters : \A f \in Range(flatStack[u]) : f.obj # o
    BY <1>6 DEF LeaveScene
  <2>2. /\ flatMap' = flatMap /\ flatScene' = flatScene \ {o}
        /\ \/ flatDead' = flatDead
           \/ o \in FlatObjects \ Range(flatMap) /\ flatDead' = flatDead \cup {o}
        /\ flatStack' \in [FlatUpdaters -> Seq(FlatFrames)]
        /\ \A u \in FlatUpdaters : \A g \in Range(flatStack'[u]) :
             g \in Range(flatStack[u]) \/ (g.pc = "lock" /\ g.obj = NoObject)
    BY <2>1, FlatReleaseFrames DEF FlatIInv, FlatTypes
  <2>3. FlatTypes'
    BY <1>6, <2>2 DEF LeaveScene, FlatIInv, FlatTypes
  <2>4. \A id \in FlatIds : flatMap[id] \in Range(flatMap)
    BY DEF FlatIInv, FlatTypes, Range
  <2>5. FlatReferencesKeep'
    BY <2>1, <2>2, <2>4 DEF FlatIInv, FlatReferencesKeep
  <2>6. FlatMutexExcludes'
    BY <1>6, <2>2 DEF LeaveScene, FlatIInv, FlatMutexExcludes, FlatPastMutex
  <2>7. FlatFoundIsCurrent' /\ flatGroup' = {}
    BY <1>6, <2>2 DEF LeaveScene, FlatIInv, FlatFoundIsCurrent
  <2>8. QED
    BY <2>3, <2>5, <2>6, <2>7 DEF FlatIInv
<1>7. ASSUME NEW r \in FlatReaders, NEW kind \in Passes, NEW ids \in SUBSET FlatIds,
             BeginPass(r, kind, ids) PROVE FlatIInv'
  <2>1. flatPass' \in [FlatReaders -> FlatPassRecords]
    BY <1>7 DEF BeginPass, FlatIInv, FlatTypes, FlatPassRecords
  <2>2. FlatFoundIsCurrent' /\ FlatMutexExcludes' /\ flatGroup' = {}
    BY <1>7 DEF BeginPass, FlatIInv, FlatTypes, FlatFoundIsCurrent, FlatMutexExcludes, FlatPastMutex
  <2>3. QED
    BY <1>7, <2>1, <2>2, FlatPassesOnly DEF BeginPass
<1>8. ASSUME NEW r \in FlatReaders, LockPass(r) PROVE FlatIInv'
  <2>1. flatPass' \in [FlatReaders -> FlatPassRecords]
    BY <1>8, FlatPassMoves DEF LockPass, FlatIInv
  <2>2. FlatFoundIsCurrent' /\ flatGroup' = {}
    BY <1>8 DEF LockPass, FlatIInv, FlatTypes, FlatFoundIsCurrent
  <2>3. FlatMutexExcludes'
    BY <1>8 DEF LockPass, FlatFree, HoldsFlat, FlatIInv, FlatTypes, FlatMutexExcludes, FlatPastMutex
  <2>4. QED
    BY <1>8, <2>1, <2>2, <2>3, FlatPassesOnly DEF LockPass
<1>9. ASSUME NEW r \in FlatReaders, NEW id \in FlatIds, FindBucket(r, id) PROVE FlatIInv'
  <2> DEFINE found == {[id |-> i, obj |-> flatMap[i]] : i \in
                          {j \in FlatIds : Bucket[j] = Bucket[id] /\ flatMap[j] # NoObject}}
  <2>1. flatPass' = [flatPass EXCEPT ![r].todo = @ \ {id}, ![r].found = found]
    BY <1>9 DEF FindBucket
  <2>2. found \subseteq [id : FlatIds, obj : FlatObjects] /\ \A e \in found : flatMap[e.id] = e.obj
    BY DEF FlatIInv, FlatTypes
  <2> HIDE DEF found
  <2>3. flatPass' \in [FlatReaders -> FlatPassRecords]
    <3>1. flatPass[r].todo \ {id} \in SUBSET FlatIds
      BY DEF FlatIInv, FlatTypes, FlatPassRecords
    <3>2. flatPass' = [flatPass EXCEPT ![r].todo = flatPass[r].todo \ {id}, ![r].found = found]
      BY <2>1
    <3>3. QED
      BY <2>2, <3>1, <3>2, FlatPassFinds DEF FlatIInv
  <2>4. FlatFoundIsCurrent' /\ FlatMutexExcludes' /\ flatGroup' = {}
    BY <1>9, <2>1, <2>2
       DEF FindBucket, FlatIInv, FlatTypes, FlatFoundIsCurrent, FlatMutexExcludes, FlatPastMutex
  <2>5. QED
    BY <1>9, <2>3, <2>4, FlatPassesOnly DEF FindBucket
<1>10. ASSUME NEW r \in FlatReaders, NEW e \in flatPass[r].found, AddToGroup(r, e) PROVE FlatIInv'
  <2>1. e \in [id : FlatIds, obj : FlatObjects] /\ flatMap[e.id] = e.obj
    BY DEF FlatIInv, FlatTypes, FlatPassRecords, FlatFoundIsCurrent
  <2>2. e.obj \notin flatDead
    BY <2>1 DEF FlatIInv, FlatReferencesKeep
  <2>3. flatGroup' = {}
    BY <1>10, <2>2 DEF AddToGroup, FlatIInv
  <2>4. flatPass' \in [FlatReaders -> FlatPassRecords]
    <3>1. /\ flatPass[r].todo \in SUBSET FlatIds
          /\ flatPass[r].found \ {e} \in SUBSET [id : FlatIds, obj : FlatObjects]
      BY DEF FlatIInv, FlatTypes, FlatPassRecords
    <3>2. [flatPass EXCEPT ![r].todo = flatPass[r].todo, ![r].found = flatPass[r].found \ {e}]
             \in [FlatReaders -> FlatPassRecords]
      BY <3>1, FlatPassFinds DEF FlatIInv
    <3>3. flatPass' = [flatPass EXCEPT ![r].todo = flatPass[r].todo, ![r].found = flatPass[r].found \ {e}]
      BY <1>10 DEF AddToGroup, FlatIInv, FlatTypes, FlatPassRecords
    <3>4. QED
      BY <3>2, <3>3
  <2>5. FlatFoundIsCurrent' /\ FlatMutexExcludes'
    BY <1>10 DEF AddToGroup, FlatIInv, FlatTypes, FlatFoundIsCurrent, FlatMutexExcludes, FlatPastMutex
  <2>6. QED
    BY <1>10, <2>3, <2>4, <2>5, FlatPassesOnly DEF AddToGroup
<1>11. ASSUME NEW r \in FlatReaders, EndScan(r) PROVE FlatIInv'
  <2>1. flatPass' \in [FlatReaders -> FlatPassRecords]
    BY <1>11, FlatPassMoves DEF EndScan, FlatIInv
  <2>2. FlatFoundIsCurrent' /\ FlatMutexExcludes' /\ flatGroup' = {}
    BY <1>11 DEF EndScan, FlatIInv, FlatTypes, FlatFoundIsCurrent, FlatMutexExcludes, FlatPastMutex
  <2>3. QED
    BY <1>11, <2>1, <2>2, FlatPassesOnly DEF EndScan
<1>12. ASSUME NEW r \in FlatReaders, CallVisibilityCallbacks(r) PROVE FlatIInv'
  <2>1. flatPass' \in [FlatReaders -> FlatPassRecords]
    BY <1>12, FlatPassMoves DEF CallVisibilityCallbacks, FlatIInv
  <2>2. FlatFoundIsCurrent' /\ FlatMutexExcludes' /\ flatGroup' = {}
    BY <1>12
       DEF CallVisibilityCallbacks, FlatIInv, FlatTypes, FlatFoundIsCurrent, FlatMutexExcludes, FlatPastMutex
  <2>3. QED
    BY <1>12, <2>1, <2>2, FlatPassesOnly DEF CallVisibilityCallbacks
<1>13. CASE UNCHANGED flatVars
  BY <1>13
     DEF flatVars, FlatIInv, FlatTypes, FlatReferencesKeep, FlatFoundIsCurrent, FlatMutexExcludes, FlatPastMutex
<1>14. QED
  BY <1>1, <1>2, <1>3, <1>4, <1>5, <1>6, <1>7, <1>8, <1>9, <1>10, <1>11, <1>12, <1>13
     DEF FlatNext, FlatEngineStep, FlatUpdaterStep, FlatReaderStep

LEMMA FlatInductive == FlatSpec => []FlatIInv
BY FlatInitIInv, FlatNextIInv, PTL DEF FlatSpec

\* Every variable keeps its type, also while destructors call back
\* (BSPreCulledObjectsPatch.h:256-394).
THEOREM FlatTypeCorrect == FlatSpec => []FlatTypeOK
<1>1. FlatIInv => FlatTypeOK
  <2> SUFFICES ASSUME FlatIInv PROVE FlatTypeOK
    OBVIOUS
  <2>1. \A t \in FlatUpdaters : \A f \in Range(flatStack[t]) : f \in FlatFrames
    BY RangeOfSeq DEF FlatIInv, FlatTypes
  <2>2. QED
    BY <2>1 DEF FlatIInv, FlatTypes, FlatPassRecords, FlatFrames, FlatTypeOK
<1>2. QED
  BY <1>1, FlatInductive, PTL

\* Whatever threads attach, detach, destroy and cull, no pass hands a destroyed
\* object to the engine, and what it hands over is what the table has
\* (BSPreCulledObjectsPatch.h:287-312).
THEOREM CulledObjectsAliveHolds == FlatSpec => []CulledObjectsAlive
<1>1. FlatIInv => CulledObjectsAlive
  BY DEF FlatIInv, FlatFoundIsCurrent, CulledObjectsAlive
<1>2. QED
  BY <1>1, FlatInductive, PTL

-----------------------------------------------------------------------------
(* The flat handler: where the re-entry comes from *)

FlatNoReentry == \A o \in FlatObjects : FlatChildId[o] = NoObject

FlatOneActivation == \A t \in FlatUpdaters : Len(flatStack[t]) <= 1

LEMMA FlatAtKeepsLength ==
  ASSUME FlatTypes, NEW t \in FlatUpdaters, flatStack[t] # <<>>,
         NEW pc \in {"lock", "locked", "callback", "unlock"}
  PROVE  \A u \in FlatUpdaters : Len(FlatAt(t, pc)[u]) = Len(flatStack[u])
<1> DEFINE s == flatStack[t]
           f == [Last(s) EXCEPT !.pc = pc]
<1>1. s \in Seq(FlatFrames) /\ Len(s) \in Nat
  BY LenProperties DEF FlatTypes
<1>2. Front(s) \in Seq(FlatFrames) /\ Len(Front(s)) = Len(s) - 1
  BY <1>1, TopOfStack
<1>3. f \in FlatFrames
  <2>1. Last(s) \in FlatFrames
    BY <1>1, TopOfStack
  <2>2. QED
    BY <2>1 DEF FlatFrames
<1>4. FlatAt(t, pc) = [flatStack EXCEPT ![t] = Append(Front(s), f)]
  BY DEF FlatAt
<1> HIDE DEF f
<1>5. Len(Append(Front(s), f)) = Len(s)
  BY <1>1, <1>2, <1>3, AppendProperties
<1>6. QED
  BY <1>4, <1>5 DEF FlatTypes

\* Without such destructors no step stacks a second activation on a thread.
LEMMA FlatNextOneActivation ==
  FlatNoReentry /\ FlatIInv /\ FlatOneActivation /\ [FlatNext]_flatVars => FlatOneActivation'
<1> SUFFICES ASSUME FlatNoReentry, FlatIInv, FlatOneActivation, [FlatNext]_flatVars PROVE FlatOneActivation'
  OBVIOUS
<1>1. \A t \in FlatUpdaters : flatStack[t] \in Seq(FlatFrames) /\ Len(flatStack[t]) \in Nat
  BY LenProperties DEF FlatIInv, FlatTypes
<1>2. ASSUME NEW t \in FlatUpdaters, NEW id \in FlatIds, NEW o \in FlatObjects \cup {NoObject},
             FlatCall(t, id, o) PROVE FlatOneActivation'
  BY <1>1, <1>2 DEF FlatCall, FlatOneActivation, FlatIInv, FlatTypes
<1>3. ASSUME NEW t \in FlatUpdaters, FlatLock(t) \/ FlatRemoveCallback(t) PROVE FlatOneActivation'
  BY <1>3, FlatAtKeepsLength DEF FlatLock, FlatRemoveCallback, FlatTop, FlatOneActivation, FlatIInv
<1>4. ASSUME NEW t \in FlatUpdaters, FlatUnlock(t) PROVE FlatOneActivation'
  <2>1. Len(Front(flatStack[t])) = Len(flatStack[t]) - 1
    BY <1>1, <1>4, TopOfStack DEF FlatUnlock, FlatTop
  <2>2. QED
    BY <1>1, <1>4, <2>1 DEF FlatUnlock, FlatOneActivation, FlatIInv, FlatTypes
<1>5. ASSUME NEW t \in FlatUpdaters, FlatUpdate(t) PROVE FlatOneActivation'
  <2>1. /\ flatStack[t] # <<>>
        /\ \/ flatStack' = FlatAt(t, "callback")
           \/ flatStack' = FlatAt(t, "unlock")
    <3> DEFINE f == Last(flatStack[t])
    <3>1. f.id \in FlatIds
      <4>1. f \in FlatFrames
        BY <1>1, <1>5, TopOfStack DEF FlatUpdate, FlatTop
      <4>2. QED
        BY <4>1 DEF FlatFrames
    <3>2. flatMap[f.id] \in FlatObjects \cup {NoObject}
      BY <3>1 DEF FlatIInv, FlatTypes
    <3>3. QED
      BY <1>5, <3>2 DEF FlatUpdate, FlatTop, Release, FlatNoReentry
  <2>2. QED
    BY <2>1, FlatAtKeepsLength DEF FlatOneActivation, FlatIInv
<1>6. ASSUME NEW t \in FlatUpdaters, NEW o \in FlatObjects, LeaveScene(t, o) PROVE FlatOneActivation'
  BY <1>6 DEF LeaveScene, Release, FlatNoReentry, FlatOneActivation
<1>7. ASSUME UNCHANGED flatStack PROVE FlatOneActivation'
  BY <1>7 DEF FlatOneActivation
<1>8. ASSUME NEW r \in FlatReaders,
             \/ \E k \in Passes, ids \in SUBSET FlatIds : BeginPass(r, k, ids)
             \/ FlatReaderStep(r)
      PROVE  UNCHANGED flatStack
  BY <1>8 DEF FlatReaderStep, BeginPass, LockPass, EndScan, CallVisibilityCallbacks, FindBucket,
              AddToGroup
<1>9. CASE UNCHANGED flatVars
  BY <1>7, <1>9 DEF flatVars
<1>10. QED
  BY <1>2, <1>3, <1>4, <1>5, <1>6, <1>7, <1>8, <1>9 DEF FlatNext, FlatEngineStep, FlatUpdaterStep

LEMMA FlatOneActivationNeverWaits == ASSUME FlatIInv, FlatOneActivation PROVE NoSelfWait
<1> SUFFICES ASSUME NEW t \in FlatUpdaters, FlatTop(t, "lock"), HoldsFlat(t) PROVE FALSE
  BY DEF NoSelfWait
<1>1. flatStack[t] \in Seq(FlatFrames) /\ flatStack[t] # <<>> /\ Last(flatStack[t]).pc = "lock"
  BY DEF FlatTop, FlatIInv, FlatTypes
<1>2. Len(flatStack[t]) = 1
  <2>1. Len(flatStack[t]) \in Nat \ {0}
    BY <1>1, TopOfStack
  <2>2. Len(flatStack[t]) <= 1
    BY DEF FlatOneActivation
  <2>3. \A n \in Nat \ {0} : n <= 1 => n = 1
    OBVIOUS
  <2>4. QED
    BY <2>1, <2>2, <2>3
<1>3. Range(flatStack[t]) = {Last(flatStack[t])}
  BY <1>1, <1>2, LenProperties DEF Range, Last
<1>4. QED
  BY <1>1, <1>3 DEF HoldsFlat

\* A thread waits for the mutex it holds only because a destructor calls
\* UpdateIDto3DMap: where none does, NoSelfWait holds for any callers
\* (BSPreCulledObjectsPatch.h:382-394).
THEOREM NoSelfWaitWithoutReentry == FlatNoReentry => (FlatSpec => []NoSelfWait)
<1> SUFFICES ASSUME FlatNoReentry PROVE FlatSpec => []NoSelfWait
  OBVIOUS
<1>1. FlatInit => FlatOneActivation
  BY DEF FlatInit, FlatOneActivation
<1>2. FlatIInv /\ FlatOneActivation /\ [FlatNext]_flatVars => FlatOneActivation'
  BY FlatNextOneActivation
<1>3. FlatIInv /\ FlatOneActivation => NoSelfWait
  BY FlatOneActivationNeverWaits
<1>4. QED
  BY <1>1, <1>2, <1>3, FlatInductive, PTL DEF FlatSpec
=============================================================================
