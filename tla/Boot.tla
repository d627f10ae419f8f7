---------------------------------- MODULE Boot ----------------------------------
(***************************************************************************)
(* The plugin's life from DllMain to a running game: which parts are       *)
(* installed, in which runtime and when.  The plugin preloader attaches the*)
(* dll before the engine's C++ initialisers run, so that PreLoad can run   *)
(* between two of them; on the NG runtimes F4SE attaches it later.         *)
(*                                                                         *)
(* External: the preloader, the engine's start, the other plugins in the   *)
(* process, and F4SE, which asks, loads and then sends its messages.       *)
(***************************************************************************)
EXTENDS Naturals

CONSTANTS
    SettingFiles,   \* the settings files that are tried, from keys to on, off, mistyped
    MaxMessages     \* bound: how often F4SE sends GameLoaded and PostLoadGame

ASSUME BootAssumption == MaxMessages \in Nat

VARIABLES
    env,            \* the process the plugin is in
    startup,        \* how far the engine's start is (NativeStartupState)
    dll,            \* the plugin's own progress
    patchedIAT,     \* whether initterm::thunk was in the table in time
    enabled,        \* the settings that are on
    installed,      \* how often each part was installed
    listening,      \* whether F4SE has sent GameDataReady
    postInit,       \* the once_flag of GameLoaded, and its task
    navUpdates,     \* whether ForceNavMeshUpdate has run
    sent            \* GameLoaded and PostLoadGame messages so far

bootVars == <<env, startup, dll, patchedIAT, enabled, installed, listening,
              postInit, navUpdates, sent>>

Runtimes == {"F4", "VR", "NG"}

\* The parts by the runtimes they are for.
VROnly == {"BackportedBA2Support", "BSLightingShaderMaterialGlowmap", "EscapeFreeze"}
F4Only == {"BSMTAManager", "InputSwitch"}
NotNG  == {"GreyMovies", "PackageAllocateLocation", "BSTextureStreamerLocalHeap",
           "HavokMemorySystem", "MemoryManager", "ScaleformAllocator",
           "SmallBlockAllocator", "CreateTexture2D", "BSPreCulledObjects", "WorkshopMenu"}
Papyrus == {"FixScriptPageAllocation", "FixToggleScriptsCommand", "MaxPapyrusOpsPerFrame"}
Always == {"ActorIsHostileToActor", "BGSAIWorldLocationRefRadiusNull", "CellInit",
           "CreateD3DAndSwapChain", "MagicEffectApplyEvent", "MovementPlanner", "SafeExit",
           "TESObjectREFRGetEncounterZone", "UnalignedLoad", "WorkBenchSwap",
           "PipboyLightInvFix", "Achievements", "INISettingCollection", "MaxStdIO",
           "ImageSpaceAdapter"}
Later == {"EncounterZoneReset", "UtilityShader", "InteriorNavCut", "FollowerStrayBullet", "F4EE"}

\* The settings of the parts.  An integer is on if the part would be installed;
\* MemoryManager stands for MemoryManagerDebug too.
Keys == VROnly \cup F4Only \cup NotNG \cup Papyrus \cup Always \cup Later

DefaultOff == {"PipboyLightInvFix", "InputSwitch", "MaxStdIO", "F4EE"}

\* Crash is installed whatever the settings say; InputSwitch has two halves.
Parts == Keys \cup {"Crash", "InputSwitchPostInit"}

BootTypeOK ==
    /\ env.runtime \in Runtimes
    /\ startup \in {"uninitialized", "initializing", "initialized", "failed"}
    /\ dll \in {"absent", "attached", "refused", "queried", "loaded", "dead"}
    /\ enabled \subseteq Keys
    /\ installed \in [Parts -> Nat]
    /\ patchedIAT \in BOOLEAN /\ listening \in BOOLEAN /\ navUpdates \in BOOLEAN
    /\ postInit \in {"never", "queued", "done"}
    /\ sent \in 0..MaxMessages

BootInit ==
    /\ env \in [runtime : Runtimes, editor : BOOLEAN, oldF4SE : BOOLEAN,
                interiorDll : BOOLEAN, bakaDll : BOOLEAN, f4ee : {"absent", "known", "other"}]
    /\ startup = "uninitialized" /\ dll = "absent" /\ patchedIAT = FALSE
    /\ enabled = {}
    /\ installed = [p \in Parts |-> 0]
    /\ listening = FALSE /\ postInit = "never" /\ navUpdates = FALSE /\ sent = 0

Install(parts) == installed' = [p \in Parts |-> IF p \in parts THEN installed[p] + 1 ELSE installed[p]]

-----------------------------------------------------------------------------

FixesPreLoad ==
    enabled \cap
      (Always \cup (IF env.runtime = "VR" THEN VROnly ELSE {})
              \cup (IF env.runtime # "NG" THEN NotNG ELSE {})
              \cup (IF env.runtime # "NG" /\ ~env.bakaDll THEN Papyrus ELSE {}))

\* The parts PreLoad installs.
PreLoad == {"Crash"} \cup FixesPreLoad \cup (IF env.runtime = "F4" THEN enabled \cap F4Only ELSE {})

\* Settings::load: what the file does not set keeps its default, and a value of a
\* wrong type throws.
LoadThrows(file) == \E k \in DOMAIN file : file[k] = "mistyped"

LoadedKeys(file) ==
    {k \in Keys : IF k \in DOMAIN file THEN file[k] = "on" ELSE k \notin DefaultOff}

\* DllMain: what load() throws leaves it; too late for the initialisers is an
\* error where PreLoad depends on them.
Attach(file) ==
    /\ dll = "absent" /\ startup # "failed"
    /\ dll' = IF env.editor THEN "refused"
              ELSE IF LoadThrows(file) THEN "dead"
              ELSE IF env.runtime # "NG" /\ startup # "uninitialized" THEN "dead"
              ELSE "attached"
    /\ enabled' = IF dll' = "attached" THEN LoadedKeys(file) ELSE {}
    /\ patchedIAT' = (dll' = "attached" /\ startup = "uninitialized")
    /\ UNCHANGED <<env, startup, installed, listening, postInit, navUpdates, sent>>

\* The engine calls _initterm; its first initialiser has run.
StartEngine ==
    /\ startup = "uninitialized" /\ dll # "dead"
    /\ startup' = "initializing"
    /\ UNCHANGED <<env, dll, patchedIAT, enabled, installed, listening, postInit, navUpdates, sent>>

\* The proxy that the thunk inserted, and the other initialisers.  On NG the
\* table is _initterm_e's, whose entries return an error code and the proxy
\* returns none: what the engine makes of it is undefined.
FinishInitterm ==
    /\ startup = "initializing" /\ dll # "dead"
    /\ IF patchedIAT /\ env.runtime # "NG" THEN Install(PreLoad) ELSE UNCHANGED installed
    /\ startup' \in IF patchedIAT /\ env.runtime = "NG" THEN {"initialized", "failed"} ELSE {"initialized"}
    /\ UNCHANGED <<env, dll, patchedIAT, enabled, listening, postInit, navUpdates, sent>>

-----------------------------------------------------------------------------

\* F4SEPlugin_Query; NG's F4SE reads F4SEPlugin_Version instead.
Query(supported) ==
    /\ startup = "initialized" /\ dll = "attached"
    /\ dll' = IF supported \/ env.runtime = "NG" THEN "queried" ELSE "refused"
    /\ UNCHANGED <<env, startup, patchedIAT, enabled, installed, listening, postInit, navUpdates, sent>>

\* F4SEPlugin_Load.
Load(registered) ==
    /\ startup = "initialized" /\ dll = "queried"
    /\ dll' = IF registered THEN "loaded" ELSE "refused"
    /\ IF registered /\ env.runtime = "NG" THEN Install(PreLoad) ELSE UNCHANGED installed
    /\ UNCHANGED <<env, startup, patchedIAT, enabled, listening, postInit, navUpdates, sent>>

\* kPostPostLoad, the first message: F4EE::Install looks at the other plugin.
PostPostLoad ==
    /\ dll = "loaded" /\ ~listening /\ sent = 0 /\ installed["F4EE"] = 0
    /\ env.runtime = "F4" /\ "F4EE" \in enabled /\ env.f4ee = "known"
    /\ Install({"F4EE"})
    /\ UNCHANGED <<env, startup, dll, patchedIAT, enabled, listening, postInit, navUpdates, sent>>

\* kGameDataReady, once: an old F4SEVR sends it only if LooksMenu makes it.
GameDataReady ==
    /\ dll = "loaded" /\ ~listening
    /\ ~(env.runtime = "VR" /\ env.oldF4SE /\ env.f4ee = "absent")
    /\ listening' = TRUE
    /\ Install(enabled \cap
         ((IF env.runtime = "VR" THEN {"FollowerStrayBullet"} ELSE {})
            \cup (IF env.interiorDll THEN {} ELSE {"InteriorNavCut"})))
    /\ UNCHANGED <<env, startup, dll, patchedIAT, enabled, postInit, navUpdates, sent>>

\* Defect: without the once_flag.
GameLoadedAgain ==
    /\ dll = "loaded" /\ sent < MaxMessages
    /\ sent' = sent + 1
    /\ postInit' = "queued"
    /\ UNCHANGED <<env, startup, dll, patchedIAT, enabled, installed, listening, navUpdates>>

\* kGameLoaded queues PostInit once.
GameLoaded ==
    /\ dll = "loaded" /\ sent < MaxMessages
    /\ sent' = sent + 1
    /\ postInit' = IF postInit = "never" THEN "queued" ELSE postInit
    /\ UNCHANGED <<env, startup, dll, patchedIAT, enabled, installed, listening, navUpdates>>

\* The task of PostInit: Fixes::PostInit and, on F4, Patches::PostInit.
PostInit ==
    /\ postInit = "queued"
    /\ postInit' = "done"
    /\ Install((enabled \cap {"EncounterZoneReset"})
         \cup (IF env.runtime = "F4"
               THEN (enabled \cap {"UtilityShader"})
                      \cup (IF "InputSwitch" \in enabled THEN {"InputSwitchPostInit"} ELSE {})
               ELSE {}))
    /\ UNCHANGED <<env, startup, dll, patchedIAT, enabled, listening, navUpdates, sent>>

ForcesNavMeshUpdate ==
    /\ "InteriorNavCut" \in enabled /\ ~env.interiorDll
    /\ ~(env.runtime = "VR" /\ env.oldF4SE /\ env.f4ee = "absent")

\* kPostLoadGame; a game is loaded when its data are.
PostLoadGame ==
    /\ dll = "loaded" /\ sent < MaxMessages
    /\ listening \/ (env.runtime = "VR" /\ env.oldF4SE /\ env.f4ee = "absent")
    /\ sent' = sent + 1
    /\ navUpdates' = (navUpdates \/ ForcesNavMeshUpdate)
    /\ UNCHANGED <<env, startup, dll, patchedIAT, enabled, installed, listening, postInit>>

BootNext ==
    \/ \E file \in SettingFiles : Attach(file)
    \/ StartEngine \/ FinishInitterm
    \/ \E ok \in BOOLEAN : Query(ok) \/ Load(ok)
    \/ PostPostLoad \/ GameDataReady \/ GameLoaded \/ PostInit \/ PostLoadGame

BootSpec == BootInit /\ [][BootNext]_bootVars

-----------------------------------------------------------------------------

(***************************************************************************)
(* However the dll gets into the process and whatever F4SE sends, no part  *)
(* is installed twice (a hook over itself calls itself), every part that   *)
(* patches what the engine's initialisers build is there before they end, and *)
(* the second half of InputSwitch only where the first is (DllMain, initterm's *)
(* proxy, F4SEPlugin_Load, MessageHandler).  The navmesh is updated after a *)
(* load only where the listener of cell events is registered too, or the cells *)
(* that are cut would stay cut, also with the F4SEVR that never sends      *)
(* GameDataReady (PostLoadGame).                                           *)
(***************************************************************************)
InstalledInTime ==
    /\ \A p \in Parts : installed[p] <= 1
    /\ startup = "initialized" /\ dll \notin {"absent", "refused", "dead"} /\ env.runtime # "NG" =>
          \A p \in PreLoad : installed[p] = 1
    /\ installed["InputSwitchPostInit"] > 0 => installed["InputSwitch"] = 1
    /\ navUpdates => installed["InteriorNavCut"] = 1
=============================================================================
