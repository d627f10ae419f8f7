---------------------------- MODULE Introspection ----------------------------
(***************************************************************************)
(* Crash::Introspection: what the words of the registers and of the stack  *)
(* are, told by reading the memory they point to while the other threads of*)
(* the game run on.  A block of words is analysed in parallel, one slot of *)
(* the results per word, and then printed in order.                        *)
(*                                                                         *)
(* A word is 0 or the name of a place; a place is what is found there: on  *)
(* the heap, in the game, or in the image of a plugin, which may be        *)
(* unloaded.  An object of the game has a chain of filters, one for each of*)
(* its base classes that is known; a filter reads members, each under a    *)
(* try of its own, and may go on to other objects.                         *)
(***************************************************************************)
EXTENDS Naturals, FiniteSets, SequencesExt

CONSTANTS
    Place,          \* the places and what is there: [Places -> [kind, ...]]
    Stacks,         \* the sequences of words that are tried
    BlockSize       \* the words analysed at once, 1000 in the code

Zero == "0"

\* What the heap holds may be freed, and then faults; an object of a plugin is
\* there too, while its vtable and the name of its type are in the image.
OnHeap(p) ==
    \/ Place[p].kind \in {"plugin object", "object"}
    \/ Place[p].kind \in {"data", "string"} /\ Place[p].image = "none"

VARIABLES
    stack,          \* the words
    freed,          \* the places freed since the crash
    unloaded,       \* the images unloaded since
    block,          \* the words analysed so far, before this block
    worker,         \* how far the analysis of each word of the block is
    results,        \* the block's results
    printed,        \* the lines of the log
    terminated      \* an exception has left a worker

inVars == <<stack, freed, unloaded, block, worker, results, printed, terminated>>

\* The block of words after the first n.
BlockAfter(n) == n + 1 .. (IF n + BlockSize < Len(stack) THEN n + BlockSize ELSE Len(stack))

Words == BlockAfter(block)

\* The worker of a word, from the word's address to its text.
Fresh(words) == [i \in words |-> [pc |-> "probe", as |-> "?"]]

NoResults(words) == [i \in words |-> [as |-> "?", lines |-> <<>>]]

InInit ==
    /\ stack \in Stacks
    /\ freed = {} /\ unloaded = {} /\ block = 0 /\ printed = <<>> /\ terminated = FALSE
    /\ worker = Fresh(Words)
    /\ results = NoResults(Words)

\* The image a place belongs to is still there; the game's always is.
Loaded(p) == Place[p].image \notin unloaded

Mapped(p) == Place[p].kind # "unmapped" /\ p \notin freed /\ (OnHeap(p) \/ Loaded(p))

\* An address of an image that was listed at the crash.
InImage(p) ==
    \/ Place[p].kind \in {"code", "code at the end"}
    \/ Place[p].kind = "string" /\ Place[p].image # "none"

-----------------------------------------------------------------------------
(* Filters *)

Text(key)   == [key |-> key, kind |-> "text"]      \* left out if empty
AlwaysShown(key) == [key |-> key, kind |-> "always"]
Link(key)   == [key |-> key, kind |-> "link"]      \* and what it leads to

\* The members each filter reads, in order.
StreamMembers ==
    [LooseFileStreamBase |-> <<Text("Directory Name"), Text("File Name"), Text("Prefix")>>,
     NativeFunctionBase  |-> <<Text("Function"), Text("Object"), Text("State")>>,
     ObjectTypeInfo      |-> <<Text("Name"), Text("DocString")>>]

NiMembers ==
    [NiObjectNET |-> <<Text("Name")>>,
     NiStream    |-> <<Text("File Name"), AlwaysShown("Header"), Text("lastLoadedRTTI"),
                       Text("fileName"), Text("filePath")>>,
     NiTexture   |-> <<Text("Name"), Text("RTTIName")>>]

FormMembers ==
    [TESForm     |-> <<Text("File"), Text("Modified by"), AlwaysShown("Flags"), Text("Name"),
                       Text("EditorID"), AlwaysShown("FormID"), Text("FormType")>>,
     TESFullName |-> <<Text("GetFullName")>>]

SceneMembers ==
    [TESObjectREFR    |-> <<Link("Object Reference")>>,
     BSShaderProperty |-> <<AlwaysShown("Flags"), Text("Name"), Text("RTTIName")>>,
     NiAVObject       |-> <<Text("Name"), Text("RTTIName"), AlwaysShown("Flags"),
                            Link("Checking TESObjectREFR"), Link("Checking Parent")>>]

ScriptMembers ==
    [TESQuest             |-> <<AlwaysShown("Already Run Quest, Current Stage")>>,
     ExtraTextDisplayData |-> <<Text("Display Name"), Link("displayNameText"), Link("Owner Quest")>>,
     CodeTasklet          |-> <<AlwaysShown("Stack Trace"), Link("objectReferences")>>]

Members ==
    [c \in UNION {DOMAIN StreamMembers, DOMAIN NiMembers, DOMAIN FormMembers, DOMAIN SceneMembers,
                  DOMAIN ScriptMembers} |->
        IF c \in DOMAIN StreamMembers THEN StreamMembers[c]
        ELSE IF c \in DOMAIN NiMembers THEN NiMembers[c]
        ELSE IF c \in DOMAIN FormMembers THEN FormMembers[c]
        ELSE IF c \in DOMAIN SceneMembers THEN SceneMembers[c]
        ELSE ScriptMembers[c]]

\* The filter that goes on from a link.
LinkClass ==
    [key \in {"Object Reference", "displayNameText", "objectReferences", "Checking TESObjectREFR",
              "Checking Parent", "Owner Quest"} |->
        IF key = "Checking TESObjectREFR" THEN "TESObjectREFR"
        ELSE IF key = "Checking Parent" THEN "NiAVObject"
        ELSE IF key = "Owner Quest" THEN "TESQuest"
        ELSE "TESForm"]

\* Reading a member of a freed object faults; a tasklet's references are found
\* while its stack is read.
Readable(p, m) ==
    /\ Mapped(p) /\ m.key \notin Place[p].bad
    /\ m.key = "objectReferences" => "Stack Trace" \notin Place[p].bad

Target(p, m) == IF m.key \in DOMAIN Place[p].link THEN Place[p].link[m.key] ELSE "none"

\* The engine's data: its objects have known base classes, and following links
\* comes to an end, as the filters set no bound on how far they follow them.
ASSUME IntrospectionAssumption ==
    /\ BlockSize \in Nat \ {0}
    /\ IsFiniteSet(DOMAIN Place) /\ DOMAIN Place \cap {Zero, "none"} = {}
    /\ \A p \in DOMAIN Place : Place[p].kind = "object" => Place[p].image = "none"
    /\ Stacks \subseteq Seq(DOMAIN Place \cup {Zero})
    /\ \A p \in DOMAIN Place :
         /\ Place[p].bases \in Seq(DOMAIN Members)
         /\ \A key \in DOMAIN Place[p].link : Place[p].link[key] \in DOMAIN Place
    /\ \A S \in SUBSET {p \in DOMAIN Place : DOMAIN Place[p].link # {}} :
         S # {} => \E p \in S : \A key \in DOMAIN Place[p].link : Place[p].link[key] \notin S

Line(c, p, m) == <<[filter |-> c, of |-> p, key |-> m.key]>>

\* A filter on an object.
Filterings == (DOMAIN Members) \X (DOMAIN Place)

\* What a link adds: a header, for some, and the lines of what it leads to.
Follow(c, p, m, nested) ==
    LET headed == IF m.key = "Object Reference" THEN Target(p, m) = "none" \/ nested # <<>>
                  ELSE IF m.key \in {"displayNameText", "objectReferences"} THEN FALSE
                  ELSE Target(p, m) # "none"
    IN  (IF headed THEN Line(c, p, m) ELSE <<>>) \o nested

Attempt(c, p, m, nested) ==
    IF ~Readable(p, m) THEN <<>>
    ELSE IF m.kind = "link" THEN Follow(c, p, m, nested)
    ELSE IF m.kind = "text" /\ m.key \in Place[p].empty THEN <<>>
    ELSE Line(c, p, m)

Leads(p, m) == m.kind = "link" /\ Readable(p, m) /\ Target(p, m) # "none"

\* The lines of filter x[1] for the object at x[2].
Lines[x \in Filterings] ==
    FlattenSeq([i \in DOMAIN Members[x[1]] |->
        LET m == Members[x[1]][i]
        IN  Attempt(x[1], x[2], m,
                    IF Leads(x[2], m) THEN Lines[<<LinkClass[m.key], Target(x[2], m)>>] ELSE <<>>)])

\* F4Polymorphic::name: every base class that has a filter, in order.
ObjectLines(p) == FlattenSeq([i \in DOMAIN Place[p].bases |-> Lines[<<Place[p].bases[i], p>>]])

-----------------------------------------------------------------------------
(* The workers *)

WorkerTo(i, pc, as) == worker' = [worker EXCEPT ![i] = [pc |-> pc, as |-> as]]

At(i, pc) == ~terminated /\ i \in Words /\ worker[i].pc = pc

\* analyze_integer reads a byte at the address, which may fault: an integer.
AnalyzeInteger(i) ==
    /\ At(i, "probe")
    /\ IF stack[i] = Zero \/ ~Mapped(stack[i]) THEN WorkerTo(i, "name", "integer")
       ELSE WorkerTo(i, "polymorphic", "?")
    /\ UNCHANGED <<stack, freed, unloaded, block, results, printed, terminated>>

\* Defect: no try.
AnalyzePolymorphicUnguarded(i) ==
    /\ At(i, "polymorphic")
    /\ terminated' = ~Mapped(stack[i])
    /\ IF Place[stack[i]].kind \in {"object", "plugin object"} /\ Loaded(stack[i])
       THEN WorkerTo(i, "name", Place[stack[i]].kind)
       ELSE WorkerTo(i, "string", "?")
    /\ UNCHANGED <<stack, freed, unloaded, block, results, printed>>

\* A vtable of an image, with its locator and type descriptor in place.
AnalyzePolymorphic(i) ==
    /\ At(i, "polymorphic")
    /\ IF /\ Mapped(stack[i]) /\ Loaded(stack[i])
          /\ Place[stack[i]].kind \in {"object", "plugin object"}
       THEN WorkerTo(i, "name", Place[stack[i]].kind)
       ELSE WorkerTo(i, "string", "?")
    /\ UNCHANGED <<stack, freed, unloaded, block, results, printed, terminated>>

\* Between 1 and 999 printable characters, or a pointer.
AnalyzeString(i) ==
    /\ At(i, "string")
    /\ WorkerTo(i, "name", IF Mapped(stack[i]) /\ Place[stack[i]].kind = "string" THEN "string"
                          ELSE "pointer")
    /\ UNCHANGED <<stack, freed, unloaded, block, results, printed, terminated>>

\* name() runs outside of any try, and reads memory again: a string's characters,
\* the mangled name in a plugin's image, and for an address in an image first its
\* symbols, which may throw, and then the eight bytes of an instruction.
NameFaults(i) ==
    LET p == stack[i]
    IN  \/ worker[i].as = "string" /\ ~Mapped(p)
        \/ worker[i].as = "plugin object" /\ ~Loaded(p)
        \/ /\ worker[i].as = "pointer" /\ InImage(p)
           /\ ~Loaded(p) \/ "symbols" \in Place[p].bad \/ Place[p].kind = "code at the end"

\* A fault that leaves a worker of a parallel loop ends the process.
Name(i) ==
    /\ At(i, "name")
    /\ terminated' = NameFaults(i)
    /\ WorkerTo(i, "done", worker[i].as)
    /\ results' = [results EXCEPT ![i] =
                     [as |-> worker[i].as,
                      lines |-> IF worker[i].as = "object" THEN ObjectLines(stack[i]) ELSE <<>>]]
    /\ UNCHANGED <<stack, freed, unloaded, block, printed>>

\* When the block is done its words are printed, and the next block is begun.
PrintBlock ==
    /\ ~terminated /\ block < Len(stack)
    /\ \A i \in Words : worker[i].pc = "done"
    /\ printed' = printed \o [i \in 1 .. Cardinality(Words) |->
                                [word |-> stack[Len(printed) + i], text |-> results[block + i]]]
    /\ block' = block + Cardinality(Words)
    /\ worker' = Fresh(BlockAfter(block'))
    /\ results' = NoResults(BlockAfter(block'))
    /\ UNCHANGED <<stack, freed, unloaded, terminated>>

\* Another thread frees what a word points to.
FreePlace(p) ==
    /\ ~terminated /\ p \in ToSet(stack) \ (freed \cup {Zero}) /\ OnHeap(p)
    /\ freed' = freed \cup {p}
    /\ UNCHANGED <<stack, unloaded, block, worker, results, printed, terminated>>

\* Another thread unloads the image of what a word points to.
LoseImage(p) ==
    /\ ~terminated /\ p \in ToSet(stack) \ {Zero}
    /\ Place[p].image \notin unloaded \cup {"none"}
    /\ unloaded' = unloaded \cup {Place[p].image}
    /\ UNCHANGED <<stack, freed, block, worker, results, printed, terminated>>

InNext ==
    \/ PrintBlock
    \/ \E i \in Words : AnalyzeInteger(i) \/ AnalyzePolymorphic(i) \/ AnalyzeString(i) \/ Name(i)
    \/ \E p \in ToSet(stack) : FreePlace(p) \/ LoseImage(p)

InSpec == InInit /\ [][InNext]_inVars

-----------------------------------------------------------------------------

Kinds == {"integer", "object", "plugin object", "string", "pointer"}

LineOf == [filter : DOMAIN Members, of : DOMAIN Place,
           key : UNION {{m.key : m \in ToSet(Members[c])} : c \in DOMAIN Members}]

InTypeOK ==
    /\ stack \in Stacks /\ block \in 0 .. Len(stack) /\ terminated \in BOOLEAN
    /\ freed \subseteq {p \in DOMAIN Place : OnHeap(p)}
    /\ unloaded \subseteq {Place[p].image : p \in DOMAIN Place} \ {"none"}
    /\ worker \in [Words -> [pc : {"probe", "polymorphic", "string", "name", "done"}, as : Kinds \cup {"?"}]]
    /\ results \in [Words -> [as : Kinds \cup {"?"}, lines : Seq(LineOf)]]
    /\ printed \in Seq([word : DOMAIN Place \cup {Zero}, text : [as : Kinds, lines : Seq(LineOf)]])

\* What a word is, memory being still.
Meaning(w) ==
    IF w = Zero \/ Place[w].kind = "unmapped" THEN "integer"
    ELSE IF Place[w].kind \in {"object", "plugin object", "string"} THEN Place[w].kind
    ELSE "pointer"

\* The filters on objects that a filter on an object comes to, by readable links.
Reached[x \in Filterings] ==
    {x} \cup UNION {Reached[<<LinkClass[m.key], Target(x[2], m)>>] :
                     m \in {l \in ToSet(Members[x[1]]) : Leads(x[2], l)}}

\* The members that have a value to show.
Values(x) ==
    {[filter |-> x[1], of |-> x[2], key |-> m.key] :
        m \in {l \in ToSet(Members[x[1]]) :
                 l.kind # "link" /\ Readable(x[2], l)
                 /\ (l.kind = "text" => l.key \notin Place[x[2]].empty)}}

\* Those of all that is reached from an object.
Shown(p) == UNION {UNION {Values(x) : x \in Reached[<<c, p>>]} : c \in ToSet(Place[p].bases)}

ValueLines(lines) == {l \in ToSet(lines) : l.key \notin DOMAIN LinkClass}

MemoryStill == freed = {} /\ unloaded = {}

(***************************************************************************)
(* Every word is printed once, in order and as its own; while memory stays *)
(* as it was, as what it is, an object with exactly the members that can be*)
(* read and are not empty, here and behind every readable link: one that   *)
(* cannot be read costs its own line only.  The process ends early only at *)
(* a string that went away after it was recognised, an object whose image  *)
(* did, or an address in an image: one that is gone or ends within the     *)
(* instruction, or whose symbols cannot be looked up.                      *)
(***************************************************************************)
AnalysisAgrees ==
    /\ \A k \in DOMAIN printed : printed[k].word = stack[k]
    /\ Len(printed) = block
    /\ MemoryStill => \A k \in DOMAIN printed :
         LET w == stack[k]
             text == printed[k].text
         IN  /\ text.as = Meaning(w)
             /\ text.as = "object" => ValueLines(text.lines) = Shown(w)
    /\ terminated => \E i \in Words :
         LET p == stack[i]
         IN  /\ p # Zero
             /\ \/ Place[p].kind = "string" /\ ~Mapped(p)
                \/ Place[p].kind = "plugin object" /\ ~Loaded(p)
                \/ /\ InImage(p)
                   /\ ~Loaded(p) \/ "symbols" \in Place[p].bad \/ Place[p].kind = "code at the end"
=============================================================================
