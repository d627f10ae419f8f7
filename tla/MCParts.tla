-------------------------------- MODULE MCParts --------------------------------
(***************************************************************************)
(* The components that share no state with each other, checked in one run: *)
(* every behaviour is one of a single part, chosen at the start, while the *)
(* variables of the others keep one value.                                 *)
(***************************************************************************)
EXTENDS NavCut, WorkManager, PreCulledFlat, InputSwitch, Boot, Workshop,
        ArenaWalk, LoadedModules, PdbDetails, Introspection

VARIABLE part

partsVars == <<navVars, workVars, flatVars, switchVars, bootVars, wsVars, arenaVars,
               lmVars, pdbVars, inVars>>

-----------------------------------------------------------------------------
(* Values of the constants *)

MCBucket == "i1" :> 1 @@ "i2" :> 1 @@ "i3" :> 2

MCNoChild == [o \in FlatObjects |-> NoObject]

\* No file, all on, one fix off, nothing but one patch, and one value of a wrong type.
MCSettingFiles ==
    {<<>>, [k \in Keys |-> "on"], "InteriorNavCut" :> "off" @@ "InputSwitch" :> "on",
     [k \in Keys |-> IF k = "WorkshopMenu" THEN "on" ELSE "off"], "MaxStdIO" :> "mistyped"}

\* Recipes over two keywords: one makes a list of forms that has one of them
\* twice, two differ in their form id only, one is always shown, one has no
\* bench here, one no filter, and one more filters than the map reads.  The last
\* set is that of a place without a workshop.
MCRecipe(filters, created, conditions, bench, priority, name, id) ==
    [filters |-> filters, createsList |-> Len(created) > 1, created |-> created,
     conditions |-> conditions, bench |-> bench, priority |-> priority, name |-> name, id |-> id]

MCRecipeSets ==
    {"r1" :> MCRecipe(<<"k1">>, <<"f1">>, TRUE, TRUE, 1, 1, 3)
       @@ "r2" :> MCRecipe(<<"k1", "k2">>, <<"f3", "f2", "f3">>, FALSE, TRUE, 0, 1, 2)
       @@ "r3" :> MCRecipe(<<"k2">>, <<"f1">>, TRUE, TRUE, 0, 1, 1),
     "r2" :> MCRecipe(<<"k2", "always">>, <<"f3">>, FALSE, TRUE, 1, 1, 1)
       @@ "r3" :> MCRecipe(<<"k1">>, <<"f1">>, TRUE, FALSE, 1, 0, 2)
       @@ "r5" :> MCRecipe(<<NoForm, "k1", "k2">>, <<"f5">>, TRUE, TRUE, 0, 1, 3)
       @@ "r4" :> MCRecipe(<<>>, <<"f4">>, FALSE, TRUE, 0, 0, 0),
     "r1" :> MCRecipe(<<"k1">>, <<"f1">>, TRUE, FALSE, 0, 0, 0)}

MCEmptyLists == [l \in FormLists |-> <<>>]

MCListSets ==
    {MCEmptyLists} \cup
    {("root" :> r @@ "l1" :> l @@ "l2" :> m) :
        r \in {<<"k1", "l1">>, <<"l1", "k2">>, <<NoForm, "l1", "l2">>},
        l \in {<<>>, <<"k2", "k1">>, <<"l2", "k1">>, <<"k1", "k2", "l2">>, <<"k1", "l1">>},
        m \in {<<"k2", "misc", "k1">>, <<"k1", "l1">>}}

MCArenaContents ==
    {[a \in Addresses |-> CASE a % 3 = 0 -> "empty" [] a % 3 = 1 -> "plain" [] OTHER -> "shadowcaster"]}

MCLoadedAtCrash == <<20, 10>>

Thing(kind, image, bad) ==
    [kind |-> kind, image |-> image, bases |-> <<>>, bad |-> bad, empty |-> {}, link |-> <<>>]

GameObject(bases, bad, empty, link) ==
    [kind |-> "object", image |-> "none", bases |-> bases, bad |-> bad, empty |-> empty, link |-> link]

\* One place of each kind, in the game and in a plugin where that makes a
\* difference, and objects of every filter with a member or two that cannot be
\* read.
MCPlace ==
    "gone" :> Thing("unmapped", "none", {}) @@ "data" :> Thing("data", "none", {})
    @@ "code" :> Thing("code", "none", {}) @@ "plugin code" :> Thing("code", "plugin", {})
    @@ "strange code" :> Thing("code", "other plugin", {"symbols"})
    @@ "end" :> Thing("code at the end", "plugin", {})
    @@ "text" :> Thing("string", "none", {}) @@ "plugin text" :> Thing("string", "plugin", {})
    @@ "other" :> Thing("plugin object", "plugin", {})
    @@ "node" :> GameObject(<<"NiObjectNET", "NiAVObject">>, {"RTTIName"}, {},
                            "Checking Parent" :> "root" @@ "Checking TESObjectREFR" :> "ref")
    @@ "root" :> GameObject(<<"NiObjectNET", "NiAVObject">>, {"Checking TESObjectREFR"}, {"Name"}, <<>>)
    @@ "ref" :> GameObject(<<"TESForm", "TESObjectREFR">>, {"File", "FormID"}, {"EditorID"},
                           "Object Reference" :> "form")
    @@ "form" :> GameObject(<<"TESForm", "TESFullName">>, {"Name", "Flags"}, {}, <<>>)
    @@ "extra" :> GameObject(<<"ExtraTextDisplayData">>, {}, {},
                             "displayNameText" :> "form" @@ "Owner Quest" :> "quest")
    @@ "quest" :> GameObject(<<"TESQuest">>, {}, {}, <<>>)
    @@ "tasklet" :> GameObject(<<"CodeTasklet">>, {}, {}, "objectReferences" :> "form")
    @@ "broken" :> GameObject(<<"CodeTasklet">>, {"Stack Trace"}, {}, "objectReferences" :> "form")
    @@ "file" :> GameObject(<<"LooseFileStreamBase", "NiStream", "NiTexture", "BSShaderProperty">>,
                            {"File Name", "Name"}, {"Prefix"}, <<>>)
    @@ "native" :> GameObject(<<"NativeFunctionBase", "ObjectTypeInfo">>, {"Object"}, {"DocString"}, <<>>)

MCStacks ==
    {<<a, b, "node">> : a \in DOMAIN MCPlace \cup {Zero}, b \in {"text", "plugin text", "other", Zero}}
      \cup {<<>>, <<"text", "text">>}

-----------------------------------------------------------------------------
(* One part at a time *)

\* The parts that are not chosen start with these choices.
MCNoArena == [head |-> 0, begin |-> 0, end |-> Start(1), next |-> [p \in Pages |-> 0], shadowPass |-> FALSE]

Pinned ==
    /\ \/ part = "nav"
       \/ part # "nav" /\ onMain = FALSE /\ playerCell = "c1"
    /\ \/ part = "flat"
       \/ part # "flat" /\ flatUse = FALSE
    /\ \/ part = "boot"
       \/ part # "boot" /\ env = [runtime |-> "F4", editor |-> FALSE, oldF4SE |-> FALSE,
                                      interiorDll |-> FALSE, bakaDll |-> FALSE, f4ee |-> "absent"]
    /\ \/ part = "workshop"
       \/ part # "workshop" /\ wsLists = MCEmptyLists /\ wsRecipes = <<>> /\ deleted = {}
    /\ \/ part = "arena"
       \/ part # "arena" /\ arena = MCNoArena
    /\ \/ part = "pdb"
       \/ part # "pdb" /\ pdbEnv = [singleThreaded |-> {}, symcache |-> "unusable"]
    /\ \/ part = "words"
       \/ part # "words" /\ stack = <<>>

PartsInit ==
    /\ part \in {"nav", "work", "flat", "switch", "boot", "workshop",
               "arena", "modules", "pdb", "words"}
    /\ Pinned
    /\ NavInit /\ WorkInit /\ FlatInit /\ SwitchInit /\ BootInit /\ WsInit
    /\ ArenaInit /\ LmInit /\ PdbInit /\ InInit

OnlyNav == UNCHANGED <<part, workVars, flatVars, switchVars, bootVars, wsVars, arenaVars, lmVars, pdbVars, inVars>>
OnlyWork == UNCHANGED <<part, navVars, flatVars, switchVars, bootVars, wsVars, arenaVars, lmVars, pdbVars, inVars>>
OnlyFlat == UNCHANGED <<part, navVars, workVars, switchVars, bootVars, wsVars, arenaVars, lmVars, pdbVars, inVars>>
OnlySwitch == UNCHANGED <<part, navVars, workVars, flatVars, bootVars, wsVars, arenaVars, lmVars, pdbVars, inVars>>
OnlyBoot == UNCHANGED <<part, navVars, workVars, flatVars, switchVars, wsVars, arenaVars, lmVars, pdbVars, inVars>>
OnlyWs == UNCHANGED <<part, navVars, workVars, flatVars, switchVars, bootVars, arenaVars, lmVars, pdbVars, inVars>>
OnlyArena == UNCHANGED <<part, navVars, workVars, flatVars, switchVars, bootVars, wsVars, lmVars, pdbVars, inVars>>
OnlyLm == UNCHANGED <<part, navVars, workVars, flatVars, switchVars, bootVars, wsVars, arenaVars, pdbVars, inVars>>
OnlyPdb == UNCHANGED <<part, navVars, workVars, flatVars, switchVars, bootVars, wsVars, arenaVars, lmVars, inVars>>
OnlyIn == UNCHANGED <<part, navVars, workVars, flatVars, switchVars, bootVars, wsVars, arenaVars, lmVars, pdbVars>>

PartsNext ==
    \/ part = "nav" /\ NavNext /\ OnlyNav
    \/ part = "work" /\ WorkNext /\ OnlyWork
    \/ part = "flat" /\ FlatNext /\ OnlyFlat
    \/ part = "switch" /\ SwitchNext /\ OnlySwitch
    \/ part = "boot" /\ BootNext /\ OnlyBoot
    \/ part = "workshop" /\ WsNext /\ OnlyWs
    \/ part = "arena" /\ ArenaNext /\ OnlyArena
    \/ part = "modules" /\ LmNext /\ OnlyLm
    \/ part = "pdb" /\ PdbNext /\ OnlyPdb
    \/ part = "words" /\ InNext /\ OnlyIn

\* The main thread runs its tasks and its share of a load, and a thread that
\* raises events goes on, whatever the engine does.
PartsSpec ==
    /\ PartsInit /\ [][PartsNext]_<<part, partsVars>>
    /\ WF_navVars(part = "nav" /\ NavMainStep /\ OnlyNav)
    /\ \A t \in NavThreads : WF_navVars(part = "nav" /\ NavThreadStep(t) /\ OnlyNav)
=============================================================================
