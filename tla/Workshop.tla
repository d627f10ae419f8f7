-------------------------------- MODULE Workshop --------------------------------
(***************************************************************************)
(* The workshop menu of the flat patch, which rebuilds the engine's tree   *)
(* of categories and recipes from the root form list each time the menu    *)
(* opens.  The game's data, and what the VR patch does with them instead,  *)
(* are those of FasterWorkshop.                                            *)
(*                                                                         *)
(* The wire node and its endpoint, and the node that is selected again,    *)
(* are left out.                                                           *)
(***************************************************************************)
EXTENDS FasterWorkshop

CONSTANTS
    MiscKeyword,        \* default object: the category of recipes without a filter
    Deletable,          \* bound: the forms that may be deleted
    MaxOpenings         \* bound: how often the menu opens

\* A recipe makes one thing or the forms of a list; form ids differ.
ASSUME MenuAssumption ==
    /\ MaxOpenings \in Nat /\ Deletable \subseteq Keywords \cup SubLists /\ NoForm \notin FormLists
    /\ \A recipes \in RecipeSets :
         /\ IsFiniteSet(DOMAIN recipes) /\ NoForm \notin DOMAIN recipes
         /\ \A r \in DOMAIN recipes :
              /\ recipes[r].created \in Seq(ToSet(recipes[r].created)) /\ recipes[r].createsList \in BOOLEAN
              /\ ~recipes[r].createsList => Len(recipes[r].created) = 1
              /\ recipes[r].priority \in Nat /\ recipes[r].name \in Nat /\ recipes[r].id \in Nat
         /\ \A r, q \in DOMAIN recipes : recipes[r].id = recipes[q].id => r = q

VARIABLES
    deleted,                \* the forms that are deleted
    rootNode,               \* the children of the menu's root
    openings

wsVars == <<fwVars, deleted, rootNode, openings>>

WsInit ==
    /\ FwInit
    /\ deleted \in SUBSET Deletable
    /\ rootNode = <<>> /\ openings = 0

-----------------------------------------------------------------------------
(* What the standard library's algorithms do *)

\* The elements of S by how many of them come before each.
Arranged(S, before) ==
    [i \in 1..Cardinality(S) |-> CHOOSE x \in S : Cardinality(before[x]) = i - 1]

\* The entries of s at the positions of P, in their order.
Kept(s, P) ==
    LET at == Arranged(P, [p \in P |-> {q \in P : q < p}])
    IN  [i \in DOMAIN at |-> s[at[i]]]

-----------------------------------------------------------------------------
(* LookupTable *)

\* What operator() looks for.
Filter(keyword) == IF keyword = MiscKeyword THEN NoForm ELSE keyword

\* The recipes of a keyword, in the order of the data handler's array.  Without
\* a current workshop there are none, as where no recipe has its bench.
Table(keyword, items) ==
    LET shown == {r \in DOMAIN wsRecipes : WorkshopCanShowRecipe(r, Filter(keyword), items)}
    IN  Arranged(shown, [r \in shown |-> {q \in shown : wsRecipes[q].id < wsRecipes[r].id}])

-----------------------------------------------------------------------------
(* The tree *)

Category(keyword, children) ==
    [filterKeyword |-> keyword, recipe |-> NoForm, source |-> NoForm, form |-> NoForm,
     children |-> children, column |-> 0]

Leaf(r, source, form) ==
    [filterKeyword |-> NoForm, recipe |-> r, source |-> source, form |-> form,
     children |-> <<>>, column |-> 0]

\* GetItemIndex.
ItemIndex(r, form) ==
    CHOOSE i \in DOMAIN wsRecipes[r].created :
        wsRecipes[r].created[i] = form /\ \A j \in 1 .. i - 1 : wsRecipes[r].created[j] # form

\* less_t on two items: the list's order, or priority, name and form id.
Less(a, b) ==
    IF a.source # NoForm /\ a.source = b.source
    THEN ItemIndex(a.source, a.form) < ItemIndex(a.source, b.form)
    ELSE LET p == wsRecipes[a.recipe]
             q == wsRecipes[b.recipe]
         IN  \/ p.priority < q.priority
             \/ p.priority = q.priority /\ p.name < q.name
             \/ p.priority = q.priority /\ p.name = q.name /\ p.id < q.id

Same(a, b) ==
    a.filterKeyword = b.filterKeyword /\ a.recipe = b.recipe /\ a.source = b.source /\ a.form = b.form

\* std::stable_sort.
Sorted(nodes) ==
    LET at == Arranged(DOMAIN nodes,
                       [i \in DOMAIN nodes |-> {j \in DOMAIN nodes :
                           Less(nodes[j], nodes[i]) \/ (j < i /\ ~Less(nodes[i], nodes[j]))}])
    IN  [i \in DOMAIN at |-> nodes[at[i]]]

\* std::unique.
Unique(nodes) == Kept(nodes, {i \in DOMAIN nodes : i = 1 \/ ~Same(nodes[i - 1], nodes[i])})

FixupChildren(children) ==
    LET leaves == {i \in DOMAIN children : children[i].children = <<>>}
        nodes == Unique(Kept(children, DOMAIN children \ leaves) \o Sorted(Kept(children, leaves)))
    IN  [i \in DOMAIN nodes |-> [nodes[i] EXCEPT !.column = i - 1]]

\* One leaf, or one for each form of the list that the recipe creates.
MakeLeaf(r) ==
    IF wsRecipes[r].createsList
    THEN [i \in DOMAIN wsRecipes[r].created |-> Leaf(r, r, wsRecipes[r].created[i])]
    ELSE << Leaf(r, NoForm, wsRecipes[r].created[1]) >>

\* The children of a keyword's node.
Leaves(keyword, items) ==
    LET matches == Table(keyword, items)
    IN  FixupChildren(FlattenSeq([i \in DOMAIN matches |-> MakeLeaf(matches[i])]))

\* The nodes, one or none, that a form adds to its parent; nested is what a
\* form list's node gets.
MakeSubMenu(form, nested, items) ==
    IF form \in Keywords /\ Table(form, items) # <<>> THEN << Category(form, Leaves(form, items)) >>
    ELSE IF form \in SubLists /\ wsLists[form] # <<>> /\ Head(wsLists[form]) \in Keywords
    THEN << Category(Head(wsLists[form]), nested) >>
    ELSE <<>>

\* A list and a number of its first entries.
Begun == UNION {{list} \X (0..Len(wsLists[list])) : list \in FormLists}

WholeList(list) == <<list, Len(wsLists[list])>>

\* The children of a form list's node after its first entries: a category
\* without any of its own is taken back.
EnumerateFLST(items) ==
    LET children[x \in Begun] ==
          IF x[2] = 0 THEN <<>>
          ELSE LET form == wsLists[x[1]][x[2]]
                   nested == IF form \in SubLists THEN children[WholeList(form)] ELSE <<>>
                   added == IF form = NoForm \/ form \in deleted THEN <<>> ELSE MakeSubMenu(form, nested, items)
               IN  FixupChildren(children[<<x[1], x[2] - 1>>]
                                   \o Kept(added, {i \in DOMAIN added : added[i].children # <<>>}))
    IN  children

MakeRootMenu(items) == EnumerateFLST(items)[WholeList(RootList)]

\* The flat patch has no cap on its depth, so the menu is only built from lists
\* that do not contain themselves.
Acyclic == \A l \in SubLists : l \notin Reachable(SubListsOf(l))

\* Defect: the old nodes are not cleared.
BuildWithoutClear ==
    /\ openings < MaxOpenings /\ wsRecipes # <<>> /\ Acyclic
    /\ openings' = openings + 1
    /\ StoreItems /\ rootNode' = rootNode \o MakeRootMenu(stored')
    /\ UNCHANGED deleted

\* The workshop's store has changed when the menu opens again; the lookup
\* table, with its caches, lives for one build.
BuildWorkShopMenuNodeTree ==
    /\ openings < MaxOpenings /\ wsRecipes # <<>> /\ Acyclic
    /\ openings' = openings + 1
    /\ StoreItems /\ rootNode' = MakeRootMenu(stored')
    /\ UNCHANGED deleted

\* What FasterWorkshop does, but the tree is of the data and of the store as the
\* menu opened.
WsNext ==
    \/ BuildWorkShopMenuNodeTree
    \/ /\ FwNext /\ (openings > 0 => wsRecipes' = wsRecipes /\ stored' = stored)
       /\ UNCHANGED <<deleted, rootNode, openings>>

WsSpec == WsInit /\ [][WsNext]_wsVars

-----------------------------------------------------------------------------

WsTypeOK == FwTypeOK /\ deleted \subseteq Deletable /\ openings \in 0..MaxOpenings

\* No chain of lists is longer than there are lists; its last one's keywords
\* and their recipes are below.
Depth == Cardinality(SubLists) + 1

\* The nodes at each depth under some nodes, with the keywords that lead to them.
Levels(nodes) ==
    LET at[d \in 0..Depth] ==
          IF d = 0 THEN {<< <<>>, n >> : n \in ToSet(nodes)}
          ELSE UNION {{<<Append(x[1], x[2].filterKeyword), n>> : n \in ToSet(x[2].children)} : x \in at[d - 1]}
    IN  at

\* Every path of categories with the recipe and the form of an item under it.
ItemsUnder(nodes) ==
    UNION {{<<x[1], x[2].recipe, x[2].form>> : x \in {y \in Levels(nodes)[d] : y[2].children = <<>>}} :
           d \in 0..Depth}

\* The lists that make a category: those that begin with its keyword.
Headed == {l \in SubLists \ deleted : wsLists[l] # <<>> /\ Head(wsLists[l]) \in Keywords}

CategoryOf(form) == IF form \in SubLists THEN Head(wsLists[form]) ELSE form

\* The lists that a list leads to by such lists, itself included.
Below(list) ==
    {l \in FormLists :
        \A closed \in SUBSET FormLists :
            list \in closed /\ (\A m \in closed : SubListsOf(m) \cap Headed \subseteq closed) => l \in closed}

\* A keyword has an item to show.
Shows(keyword, items) ==
    /\ keyword \in Keywords \ deleted
    /\ \E r \in DOMAIN wsRecipes :
         wsRecipes[r].created # <<>> /\ WorkshopCanShowRecipe(r, Filter(keyword), items)

\* An entry of a list has something to show, itself or further down.
Fills(form, items) ==
    \/ Shows(form, items)
    \/ form \in Headed /\ \E l \in Below(form) : \E k \in ToSet(wsLists[l]) : Shows(k, items)

\* The entries of a list whose category is in the menu: those with something to
\* show, unless the last such entry before them has the same keyword.
Entries(list, items) ==
    LET entry == wsLists[list]
        filling == {i \in DOMAIN entry : Fills(entry[i], items)}
    IN  {entry[i] : i \in {j \in filling :
            \A h \in filling : h < j /\ CategoryOf(entry[h]) = CategoryOf(entry[j]) =>
                \E m \in filling : h < m /\ m < j}}

\* Chains of lists, each an entry of the one before.
Chains(items) ==
    {c \in SeqOf(SubLists, Cardinality(SubLists)) :
        \A i \in DOMAIN c : c[i] \in Entries(IF i = 1 THEN RootList ELSE c[i - 1], items)}

\* Every path of categories with the recipe and the form of an item under it.
ExpectedItems(items) ==
    UNION {LET path == [i \in DOMAIN c |-> CategoryOf(c[i])]
               list == IF c = <<>> THEN RootList ELSE Last(c)
               shown == {x \in (Entries(list, items) \cap Keywords) \X DOMAIN wsRecipes :
                            WorkshopCanShowRecipe(x[2], Filter(x[1]), items)}
           IN  UNION {{<< Append(path, x[1]), x[2], f >> : f \in ToSet(wsRecipes[x[2]].created)} : x \in shown}
           : c \in Chains(items)}

\* Categories first, then items in the strict order of less_t, numbered.
NumberedInOrder(nodes) ==
    \A i \in DOMAIN nodes :
        /\ nodes[i].column = i - 1
        /\ \A j \in 1 .. i - 1 :
             nodes[j].children = <<>> => nodes[i].children = <<>> /\ Less(nodes[j], nodes[i])

(***************************************************************************)
(* Whenever it is opened, the menu holds exactly the recipes that can be   *)
(* shown now, each under every chain of categories that leads to its       *)
(* keyword, but for one thing: of two entries of a list with something to  *)
(* show and nothing to show between them, std::unique drops the second,    *)
(* with all that is under it, if their keywords are the same.  No category *)
(* is empty, and each is in order, no item twice, numbered from the left:  *)
(* dropping empty categories, sorting and removing duplicates after every  *)
(* entry costs nothing else (EnumerateFLST, FixupChildren).                *)
(***************************************************************************)
MenuAgrees ==
    openings > 0 =>
        /\ ItemsUnder(rootNode) = ExpectedItems(stored)
        /\ NumberedInOrder(rootNode)
        /\ \A d \in 0..Depth : \A x \in Levels(rootNode)[d] : NumberedInOrder(x[2].children)
        /\ \A x \in Levels(rootNode)[Depth] : x[2].children = <<>>
=============================================================================
