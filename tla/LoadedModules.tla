----------------------------- MODULE LoadedModules -----------------------------
(***************************************************************************)
(* Crash::Modules: the list of the images in the process, taken while      *)
(* other threads may still load and unload some, and the search of the     *)
(* image an address belongs to.                                            *)
(*                                                                         *)
(* An image is known by its first address.  External: the system's loader, *)
(* which lists the images in the order in which they were loaded.          *)
(***************************************************************************)
EXTENDS Naturals, Sequences, FiniteSetsExt, SequencesExt

CONSTANTS
    Images,         \* the first addresses of all the images there are
    ImageSize,      \* the size of every image
    LoadedAtCrash,  \* the sequence of those that are loaded
    MaxUnloads,     \* bound: images that are unloaded meanwhile
    MaxFailures     \* bound: enumerations that fail

ASSUME LoadedModulesAssumption ==
    /\ Images \subseteq Nat \ {0} /\ IsFiniteSet(Images) /\ ImageSize \in Nat
    /\ \A m, n \in Images : m < n => m + ImageSize <= n
    /\ LoadedAtCrash \in Seq(Images) /\ LoadedAtCrash # <<>>
    /\ \A i, j \in DOMAIN LoadedAtCrash : LoadedAtCrash[i] = LoadedAtCrash[j] => i = j
    /\ MaxUnloads \in Nat /\ MaxFailures \in Nat

VARIABLES
    loaded,         \* the loader's list
    listing,        \* get_loaded_modules: position, handles, needed, results
    unloads, failures

lmVars == <<loaded, listing, unloads, failures>>

NoHandle == 0

LmTypeOK ==
    /\ loaded \in Seq(Images)
    /\ listing \in [pc : {"resize", "enum", "create", "sorted", "dead"},
                    handles : Seq(Images \cup {NoHandle}), needed : 0 .. Cardinality(Images),
                    results : Seq(Images \cup {NoHandle})]
    /\ unloads \in 0..MaxUnloads /\ failures \in 0..MaxFailures

LmInit ==
    /\ loaded = LoadedAtCrash
    /\ listing = [pc |-> "resize", handles |-> <<>>, needed |-> 0, results |-> <<>>]
    /\ unloads = 0 /\ failures = 0

-----------------------------------------------------------------------------

LoadImage(m) ==
    /\ m \notin ToSet(loaded)
    /\ loaded' = Append(loaded, m)
    /\ UNCHANGED <<listing, unloads, failures>>

UnloadImage(m) ==
    /\ unloads < MaxUnloads
    /\ \E i \in DOMAIN loaded : loaded[i] = m /\ loaded' = RemoveAt(loaded, i)
    /\ unloads' = unloads + 1
    /\ UNCHANGED <<listing, failures>>

ResizeHandles ==
    /\ listing.pc = "resize"
    /\ listing' = [listing EXCEPT !.pc = "enum",
                     !.handles = [i \in 1 .. listing.needed |-> IF i <= Len(@) THEN @[i] ELSE NoHandle]]
    /\ UNCHANGED <<loaded, unloads, failures>>

\* Defect: one call for the size and one for the handles.
NeverAgain(handles, needed) == Len(handles) < needed /\ handles = <<>>

\* The loop ends when the buffer was large enough.
Again(handles, needed) == Len(handles) < needed

\* The parallel loop over the handles comes next.
AfterEnum(handles, needed) ==
    [listing EXCEPT !.handles = handles, !.needed = needed,
                    !.pc = IF Again(handles, needed) THEN "resize" ELSE "create",
                    !.results = [i \in DOMAIN handles |-> NoHandle]]

\* K32EnumProcessModules fills the buffer as far as it goes and says how much
\* would be needed, or fails and writes nothing, which the loop does not test.
EnumProcessModules ==
    /\ listing.pc = "enum"
    /\ \/ /\ listing' = AfterEnum([i \in DOMAIN listing.handles |->
                                     IF i <= Len(loaded) THEN loaded[i] ELSE listing.handles[i]],
                                  Len(loaded))
          /\ UNCHANGED failures
       \/ /\ failures < MaxFailures
          /\ failures' = failures + 1
          /\ listing' = AfterEnum(listing.handles, listing.needed)
    /\ UNCHANGED <<loaded, unloads>>

\* Factory::create for one handle, by a worker: it reads the image's headers,
\* and a fault in a parallel loop ends the process.
CreateModule(i) ==
    /\ listing.pc = "create" /\ i \in DOMAIN listing.results /\ listing.results[i] = NoHandle
    /\ listing' = IF listing.handles[i] \in ToSet(loaded)
                  THEN [listing EXCEPT !.results[i] = listing.handles[i]]
                  ELSE [listing EXCEPT !.pc = "dead"]
    /\ UNCHANGED <<loaded, unloads, failures>>

\* std::sort by address: the same modules, each as often as before.
SortModules ==
    /\ listing.pc = "create" /\ NoHandle \notin ToSet(listing.results)
    /\ \E from \in [DOMAIN listing.results -> DOMAIN listing.results] :
          LET sorted == [i \in DOMAIN listing.results |-> listing.results[from[i]]]
          IN  /\ \A i, j \in DOMAIN from : i # j => from[i] # from[j]
              /\ \A i, j \in DOMAIN from : i < j => sorted[i] <= sorted[j]
              /\ listing' = [listing EXCEPT !.pc = "sorted", !.results = sorted]
    /\ UNCHANGED <<loaded, unloads, failures>>

LmNext ==
    \/ ResizeHandles \/ EnumProcessModules \/ SortModules
    \/ \E i \in DOMAIN listing.results : CreateModule(i)
    \/ \E m \in Images : LoadImage(m) \/ UnloadImage(m)

LmSpec == LmInit /\ [][LmNext]_lmVars

-----------------------------------------------------------------------------

\* get_module_for_pointer: the last image that begins before p (from the back,
\* the first whose address is not >= p), if p is in it.
ModuleForPointer(p) ==
    LET below == {i \in DOMAIN listing.results : listing.results[i] < p}
        m     == listing.results[Max(below)]
    IN  IF below # {} /\ p < m + ImageSize THEN m ELSE NoHandle

Spans == UNION {m .. m + ImageSize : m \in Images}

(***************************************************************************)
(* Whatever is loaded while the images are being listed, the list is the   *)
(* loader's as of the last call, with none missing, and an address is      *)
(* attributed to the listed image that contains it; only an image's very   *)
(* first byte (its HMODULE) is attributed to none.  Listing ends the process *)
(* only if an image was unloaded meanwhile or the system could not list them. *)
(***************************************************************************)
ListingAgrees ==
    /\ listing.pc = "dead" => unloads > 0 \/ failures > 0
    /\ listing.pc = "sorted" /\ unloads = 0 /\ failures = 0 =>
         /\ listing.needed >= Len(LoadedAtCrash)
         /\ Len(listing.results) = listing.needed
         /\ ToSet(listing.results) = {loaded[i] : i \in 1 .. listing.needed}
         /\ \A p \in Spans :
               ModuleForPointer(p) =
                  (IF \E m \in ToSet(listing.results) : p \in m + 1 .. m + ImageSize - 1
                   THEN CHOOSE m \in ToSet(listing.results) : p \in m + 1 .. m + ImageSize - 1
                   ELSE NoHandle)
=============================================================================
