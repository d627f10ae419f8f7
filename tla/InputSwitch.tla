----------------------------- MODULE InputSwitch -----------------------------
(***************************************************************************)
(* The input switch patch: the handler that notes which device the last    *)
(* input came from and tells the open menus, and the Pipboy's cursor and   *)
(* input contexts, which follow the device.                                *)
(*                                                                         *)
(* External: the input events, the UI's menus and message queue (a menu    *)
(* that opens or handles kUpdateController asks for the device), and the   *)
(* Pipboy's life: its destructor unregisters its cursor and leaves         *)
(* kThumbNav.                                                              *)
(***************************************************************************)
EXTENDS Naturals

CONSTANTS Pipboy, Menus     \* Pipboy is one of the menus

ASSUME InputSwitchAssumption == Pipboy \in Menus

VARIABLES
    device, looking,    \* _active
    handler,            \* how far ShouldHandleEvent is
    openMenus,
    shownFor,           \* the device each menu shows buttons for
    messages,           \* menus with a kUpdateController in the queue
    buttonCodes,        \* what updateGamepadDependentButtonCodes was told last
    ignoreKBM,
    pipboy,             \* the menu's flags
    cursors,            \* registrations of the menu cursor
    contexts            \* pushed input contexts

switchVars == <<device, looking, handler, openMenus, shownFor, messages,
                buttonCodes, ignoreKBM, pipboy, cursors, contexts>>

Devices == {"none", "kbm", "gamepad"}

ClosedPipboy == [usesCursor |-> FALSE, assignsCursor |-> FALSE]

SwitchTypeOK ==
    /\ device \in Devices /\ looking \in Devices
    /\ handler \in {"idle", "notify", "codes"}
    /\ openMenus \subseteq Menus /\ messages \subseteq Menus
    /\ shownFor \in [Menus -> BOOLEAN]
    /\ buttonCodes \in BOOLEAN /\ ignoreKBM \in BOOLEAN
    /\ pipboy \in [usesCursor : BOOLEAN, assignsCursor : BOOLEAN]
    /\ cursors \in Nat
    /\ contexts \in [{"ThumbNav", "LThumbCursor"} -> Nat]

SwitchInit ==
    /\ device = "none" /\ looking = "none" /\ handler = "idle"
    /\ openMenus = {} /\ messages = {}
    /\ shownFor = [m \in Menus |-> FALSE]
    /\ buttonCodes = FALSE /\ ignoreKBM = TRUE
    /\ pipboy = ClosedPipboy /\ cursors = 0
    /\ contexts = [c \in {"ThumbNav", "LThumbCursor"} |-> 0]

IsGamepadActiveDevice == device = "gamepad"

-----------------------------------------------------------------------------
(* DeviceSwapHandler *)

\* ShouldHandleEvent up to UpdateControls: input of any other device is noted
\* for looking only.  Its last two assignments, to looking and to ignoreKBM,
\* are made here too: nothing it calls in between reads them.
ShouldHandleEvent(input, look) ==
    /\ handler = "idle"
    /\ LET switches == input # "none" /\ device # input
       IN  /\ device' = IF switches THEN input ELSE device
           /\ handler' = IF switches THEN "notify" ELSE "idle"
    /\ looking' = IF look THEN input ELSE looking
    /\ ignoreKBM' = FALSE
    /\ UNCHANGED <<openMenus, shownFor, messages, buttonCodes, pipboy, cursors, contexts>>

\* UpdateControls: one message for every entry of the menu map, the menus that
\* are closed included, under the lock of the map.
UpdateControls ==
    /\ handler = "notify"
    /\ messages' = Menus
    /\ handler' = "codes"
    /\ UNCHANGED <<device, looking, openMenus, shownFor, buttonCodes, ignoreKBM, pipboy, cursors, contexts>>

UpdateButtonCodes ==
    /\ handler = "codes"
    /\ buttonCodes' = IsGamepadActiveDevice
    /\ handler' = "idle"
    /\ UNCHANGED <<device, looking, openMenus, shownFor, messages, ignoreKBM, pipboy, cursors, contexts>>

-----------------------------------------------------------------------------
(* PipboyMenu::RefreshCursor *)

\* Defect: a context is popped once before it is pushed.
ResetOnce(contexts_, context, push) ==
    [contexts_ EXCEPT ![context] = (IF @ = 0 THEN 0 ELSE @ - 1) + IF push THEN 2 ELSE 0]

\* Pop the context as often as it was pushed, then push it once if wanted.
Reset(contexts_, context, push) == [contexts_ EXCEPT ![context] = IF push THEN 1 ELSE 0]

CursorEnabled(onMap, modal) == (onMap /\ ~modal) \/ ~IsGamepadActiveDevice

\* Defect: the cursor is registered or unregistered whether the flag changed or not.
RefreshUntested(old, onMap, modal) ==
    LET gamepad == IsGamepadActiveDevice
        enabled == CursorEnabled(onMap, modal)
    IN  /\ pipboy' = [usesCursor |-> enabled, assignsCursor |-> gamepad]
        /\ cursors' = IF enabled THEN cursors + 1 ELSE cursors - 1
        /\ contexts' = Reset(Reset(contexts, "ThumbNav", gamepad), "LThumbCursor", gamepad /\ enabled)

\* What RefreshCursor changes; the menu had the flags old.
RefreshCursor(old, onMap, modal) ==
    LET gamepad == IsGamepadActiveDevice
        enabled == CursorEnabled(onMap, modal)
    IN  /\ pipboy' = [usesCursor |-> enabled, assignsCursor |-> gamepad]
        /\ cursors' = CASE enabled /\ ~old.usesCursor -> cursors + 1
                        [] ~enabled /\ old.usesCursor -> cursors - 1
                        [] OTHER -> cursors
        /\ contexts' = Reset(Reset(contexts, "ThumbNav", gamepad), "LThumbCursor", gamepad /\ enabled)

\* The Pipboy changes its page or shows a message.
PipboyRefreshes(onMap, modal) ==
    /\ Pipboy \in openMenus
    /\ RefreshCursor(pipboy, onMap, modal)
    /\ UNCHANGED <<device, looking, handler, openMenus, shownFor, messages, buttonCodes, ignoreKBM>>

OpenMenu(m) ==
    /\ m \notin openMenus
    /\ openMenus' = openMenus \cup {m}
    /\ shownFor' = [shownFor EXCEPT ![m] = IsGamepadActiveDevice]
    /\ IF m = Pipboy THEN RefreshCursor(ClosedPipboy, FALSE, FALSE)
       ELSE UNCHANGED <<pipboy, cursors, contexts>>
    /\ UNCHANGED <<device, looking, handler, messages, buttonCodes, ignoreKBM>>

\* The menu handles a kUpdateController, which makes the Pipboy refresh.
HandleMessage(m, onMap, modal) ==
    /\ m \in messages
    /\ messages' = messages \ {m}
    /\ IF m \in openMenus
       THEN /\ shownFor' = [shownFor EXCEPT ![m] = IsGamepadActiveDevice]
            /\ IF m = Pipboy THEN RefreshCursor(pipboy, onMap, modal)
               ELSE UNCHANGED <<pipboy, cursors, contexts>>
       ELSE UNCHANGED <<shownFor, pipboy, cursors, contexts>>
    /\ UNCHANGED <<device, looking, handler, openMenus, buttonCodes, ignoreKBM>>

\* A menu closes.  PipboyMenuPreDtor pops LThumbCursor before the Pipboy's own
\* destructor, which gives back what the engine knows of: ThumbNav, the cursor.
CloseMenu(m) ==
    /\ m \in openMenus
    /\ openMenus' = openMenus \ {m}
    /\ IF m = Pipboy
       THEN /\ contexts' = Reset(Reset(contexts, "LThumbCursor", FALSE), "ThumbNav", FALSE)
            /\ cursors' = IF pipboy.usesCursor THEN cursors - 1 ELSE cursors
            /\ pipboy' = ClosedPipboy
       ELSE UNCHANGED <<pipboy, cursors, contexts>>
    /\ UNCHANGED <<device, looking, handler, shownFor, messages, buttonCodes, ignoreKBM>>

SwitchNext ==
    \/ \E input \in Devices, look \in BOOLEAN : ShouldHandleEvent(input, look)
    \/ UpdateControls \/ UpdateButtonCodes
    \/ \E m \in Menus : OpenMenu(m) \/ CloseMenu(m)
    \/ \E onMap, modal \in BOOLEAN :
         PipboyRefreshes(onMap, modal) \/ \E m \in Menus : HandleMessage(m, onMap, modal)

SwitchSpec == SwitchInit /\ [][SwitchNext]_switchVars

-----------------------------------------------------------------------------

\* When the handler has returned, every open menu without a message to come
\* shows the buttons of the device of the last input.
MenusFollowDevice ==
    handler = "idle" =>
        /\ buttonCodes = IsGamepadActiveDevice
        /\ \A m \in openMenus \ messages : shownFor[m] = IsGamepadActiveDevice

\* One cursor while the Pipboy uses one, at most one of each context and the
\* cursor stick only with the other, none when it is closed.
PipboyBalanced ==
    /\ cursors = IF pipboy.usesCursor THEN 1 ELSE 0
    /\ contexts["LThumbCursor"] <= contexts["ThumbNav"]
    /\ contexts["ThumbNav"] = IF pipboy.assignsCursor THEN 1 ELSE 0
    /\ Pipboy \notin openMenus => cursors = 0 /\ contexts["ThumbNav"] = 0

(***************************************************************************)
(* In whatever order input, openings, closings, refreshes and messages come, *)
(* the open menus end up with the device of the last input, and the Pipboy's *)
(* cursor registration and input contexts stay balanced (UpdateControls,   *)
(* RefreshCursor, PipboyMenuPreDtor).                                      *)
(***************************************************************************)
MenusAgreeWithDevice == MenusFollowDevice /\ PipboyBalanced
=============================================================================
