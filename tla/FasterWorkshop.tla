----------------------------- MODULE FasterWorkshop -----------------------------
(***************************************************************************)
(* The VR patch of the workshop menu.  It answers the engine's two         *)
(* questions, has this list anything to show and which recipes has this    *)
(* keyword, from a map it builds once.                                     *)
(*                                                                         *)
(* A form is a keyword or the name of a form list.  Of a recipe the model  *)
(* keeps its filter keywords, the forms it creates, whether its conditions *)
(* and bench keyword hold here, and its sort key: priority, name, form id. *)
(* A filter whose index is no keyword's is NoForm; a recipe without the    *)
(* array of filters is one without filters.                                *)
(***************************************************************************)
EXTENDS Naturals, Sequences, FiniteSets, SequencesExt

CONSTANTS
    Keywords, RootList, SubLists,
    NoForm,             \* a null entry of a form list, no keyword, no filter
    AlwaysShowIcon,     \* default object: the filter of recipes that need no condition
    ListSets,           \* the contents of the lists that are tried
    RecipeSets,         \* the recipes that are tried, as functions from their names
    kMaxFormListDepth,  \* 64 in the code
    kMaxFilters         \* a recipe with more looks corrupt: 32 in the code

FormLists == SubLists \cup {RootList}

ASSUME WorkshopAssumption ==
    /\ RootList \notin SubLists /\ IsFiniteSet(SubLists)
    /\ Keywords \cap FormLists = {} /\ NoForm \notin Keywords
    /\ \A lists \in ListSets : lists \in [FormLists -> Seq(Keywords \cup SubLists \cup {NoForm})]
    /\ \A recipes \in RecipeSets : \A r \in DOMAIN recipes :
         recipes[r].filters \in Seq(Keywords \cup {NoForm, AlwaysShowIcon})
    /\ kMaxFormListDepth \in Nat /\ kMaxFilters \in Nat

VARIABLES
    wsLists, wsRecipes,     \* the game's data
    stored,                 \* recipes whose created item the workshop has stored
    cobjMap,                \* g_cobjMap
    answer                  \* what the patch answered last

fwVars == <<wsLists, wsRecipes, stored, cobjMap, answer>>

NoAnswer == [about |-> "nothing"]

\* The game's data are loaded or are not; nothing has been asked yet.
FwInit ==
    /\ wsLists \in ListSets
    /\ wsRecipes \in RecipeSets \cup {<<>>}
    /\ stored = {} /\ cobjMap = <<>> /\ answer = NoAnswer

-----------------------------------------------------------------------------

Filters(r) == ToSet(wsRecipes[r].filters) \ {NoForm}

\* The engine's function of this name, which the patch calls, is taken to be
\* that of the flat patch.  A recipe that makes a stored item needs no condition.
WorkshopCanShowRecipe(r, filter, items) ==
    /\ filter \in Filters(r) \/ (filter = NoForm /\ Filters(r) = {})
    /\ wsRecipes[r].conditions \/ r \in items \/ AlwaysShowIcon \in Filters(r)
    /\ wsRecipes[r].bench

\* The filters that the map reads: if the count looks corrupt only the first.
MapFilters(r) ==
    IF Len(wsRecipes[r].filters) > kMaxFilters THEN {Head(wsRecipes[r].filters)} \ {NoForm}
    ELSE Filters(r)

\* TryBuildMap, which leaves a map that is not empty alone.  The model calls it
\* as the question begins, the code when it first looks a keyword up.
TryBuildMap ==
    IF cobjMap # <<>> THEN cobjMap
    ELSE [k \in UNION {MapFilters(r) : r \in DOMAIN wsRecipes} |->
            {r \in DOMAIN wsRecipes : k \in MapFilters(r)}]

\* Defect: the search ends at the keyword it started from.
SearchToContext(map, ctx) ==
    LET found[levels \in 0..kMaxFormListDepth] ==
          IF levels = 0 THEN {}
          ELSE {list \in FormLists :
                  \E i \in DOMAIN wsLists[list] :
                    LET form == wsLists[list][i]
                    IN  /\ \A j \in 1..i : wsLists[list][j] # ctx
                        /\ \/ form \in SubLists /\ form \in found[levels - 1]
                           \/ /\ form \in Keywords /\ form \in DOMAIN map
                              /\ \E r \in map[form] : WorkshopCanShowRecipe(r, form, stored)}
    IN  found

\* The lists in which the search finds a child when it may still go that many
\* levels deep, the list's own level included.
CheckForValidChildrenImpl(map, ctx) ==
    LET found[levels \in 0..kMaxFormListDepth] ==
          IF levels = 0 THEN {}
          ELSE {list \in FormLists :
                  \E i \in DOMAIN wsLists[list] :
                    LET form == wsLists[list][i]
                    IN  \/ form \in SubLists /\ form \in found[levels - 1]
                        \/ /\ form \in Keywords /\ form # ctx /\ form \in DOMAIN map
                           /\ \E r \in map[form] : WorkshopCanShowRecipe(r, form, stored)}
    IN  found

CachedCheckForValidChildren(ctx, list) ==
    /\ cobjMap' = TryBuildMap
    /\ answer' = [about |-> "children", ctx |-> ctx, list |-> list,
                  found |-> list \in CheckForValidChildrenImpl(cobjMap', ctx)[kMaxFormListDepth]]
    /\ UNCHANGED <<wsLists, wsRecipes, stored>>

\* The recipes it adds for the keyword of a category.
HandlerLeafNode(keyword) ==
    /\ cobjMap' = TryBuildMap
    /\ answer' = [about |-> "leaves", keyword |-> keyword,
                  recipes |-> IF keyword \in DOMAIN cobjMap' THEN cobjMap'[keyword] ELSE {}]
    /\ UNCHANGED <<wsLists, wsRecipes, stored>>

\* GameDataReady: the data have been loaded, perhaps other ones than before, and
\* the map made of the old ones is cleared.
ClearMap ==
    /\ wsRecipes' \in RecipeSets
    /\ stored' = {}
    /\ cobjMap' = <<>> /\ answer' = NoAnswer
    /\ UNCHANGED wsLists

\* The player moves items into the workshop or out of it, and asks anew.
StoreItems ==
    /\ stored' \in SUBSET DOMAIN wsRecipes
    /\ answer' = NoAnswer
    /\ UNCHANGED <<wsLists, wsRecipes, cobjMap>>

FwNext ==
    \/ ClearMap \/ StoreItems
    \/ \E ctx \in Keywords, list \in FormLists : CachedCheckForValidChildren(ctx, list)
    \/ \E keyword \in Keywords : HandlerLeafNode(keyword)

FwSpec == FwInit /\ [][FwNext]_fwVars

-----------------------------------------------------------------------------

FwTypeOK ==
    /\ wsLists \in [FormLists -> Seq(Keywords \cup SubLists \cup {NoForm})]
    /\ stored \subseteq DOMAIN wsRecipes
    /\ \A k \in DOMAIN cobjMap : cobjMap[k] \subseteq DOMAIN wsRecipes
    /\ answer \in {NoAnswer}
                    \cup [about : {"children"}, ctx : Keywords, list : FormLists, found : BOOLEAN]
                    \cup [about : {"leaves"}, keyword : Keywords, recipes : SUBSET DOMAIN wsRecipes]

SubListsOf(list) == ToSet(wsLists[list]) \cap SubLists

\* The lists that some lists lead to, themselves included.
Reachable(lists) ==
    {l \in FormLists :
        \A closed \in SUBSET FormLists :
            lists \subseteq closed /\ (\A m \in closed : SubListsOf(m) \subseteq closed) => l \in closed}

\* The lists at the end of a path of at most n lists, each an entry of the last.
Within(list, n) ==
    {l \in FormLists :
       \E k \in 1..n : \E p \in [1..k -> FormLists] :
         /\ p[1] = list /\ p[k] = l
         /\ \A i \in 1..(k - 1) : p[i + 1] \in SubListsOf(p[i])}

\* The recipes that name a keyword, corrupt ones only if they name it first.
Naming(k) ==
    {r \in DOMAIN wsRecipes :
        /\ k \in Filters(r)
        /\ Len(wsRecipes[r].filters) > kMaxFilters => k = Head(wsRecipes[r].filters)}

\* A keyword of the list, not the one asked about, has a recipe to show.
HasChild(list, ctx) ==
    \E k \in (ToSet(wsLists[list]) \cap Keywords) \ {ctx} :
      \E r \in Naming(k) : WorkshopCanShowRecipe(r, k, stored)

(***************************************************************************)
(* The VR patch finds something to show under a list exactly if a path of  *)
(* at most kMaxFormListDepth lists leads from it to a list with another    *)
(* keyword than the one asked about that has a recipe to show now.  So     *)
(* where no list is further away than that, lists that contain themselves  *)
(* included, the cap costs no answer; behind it, what there is to show is  *)
(* not found.  To a category it adds all recipes of the loaded data that   *)
(* name its keyword, those with too many filters only under their first    *)
(* (CheckForValidChildrenImpl, TryBuildMap, ClearMap).                     *)
(***************************************************************************)
ChildrenSearchAgrees ==
    /\ answer.about = "children" =>
         LET near == Within(answer.list, kMaxFormListDepth)
         IN  /\ answer.found <=> \E l \in near : HasChild(l, answer.ctx)
             /\ Reachable({answer.list}) \subseteq near =>
                  (answer.found <=> \E l \in Reachable({answer.list}) : HasChild(l, answer.ctx))
    /\ answer.about = "leaves" => answer.recipes = Naming(answer.keyword)
=============================================================================
