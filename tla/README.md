# A verified model of the tree cache

The program shows a tree that is "too large to load": an emulated database on the left, a local cache on the right.  The user loads elements one by one, edits, creates and deletes them in the cache, and writes everything back in one action.  This directory holds TLA+ modules of that program, the TLC configurations that check them on small instances, and TLAPS proofs of what matters most for instances of every size.  Paths of code are relative to the repository's `src/` directory; README.md with a line number is the repository's own.

## 1. Inventory

Everything runs on the thread of the user interface.  A command runs to its end before the next one starts; dialogs and menus are modal.  There is no background work, no persistence and no network: the difficulty is not in interleaved threads but in **long sequences of legal commands** over three copies of the same tree (database, cache, left view) that are allowed to drift apart, and in identifiers that change while the tree is alive.

| component | state | operations | what makes it correct |
|---|---|---|---|
| `infrastructure/InMemoryDatabase` | `records_` (id → parent, text, deleted), `nextId_` | `fetchNode/Roots/Children`, `applyChanges` (insert, modify, mark deleted with descendants), `reset` | records only grow; deletion is final and closed downwards; parents are records; temporary ids never enter |
| `infrastructure/DatabaseRepository`, the interfaces of `domain/` | none | forwards every call | – |
| `application/CacheService`, `domain/TreeNode` | `roots_` (owned forest), `index_` (id → raw pointer), `nextTemporaryId_` | `loadFromDatabase` with adoption of orphans, `addChild`, `editPayload`, `remove`, `clear`, `reassignId` | the forest is the database hierarchy restricted to what is cached; the index finds every live node under its present id; the marks shown are true |
| `application/SyncService` | none of its own | `apply`: walk the forest, hand one change set to the database, replace temporary ids, reset statuses | one call persists everything pending; a repeated call changes nothing |
| `application/ResetService` | none | clear the cache, reseed the database | – |
| `presentation/DatabaseTreeProvider` | a copy of the whole database | `rebuild` | the copy is the database after every command |
| `presentation/CacheTreeProvider`, `TreeModel` | none beyond handles in Qt's indices | `index`, `parent`, `rowCount`, `data`, `flags`, `setData`, `refreshAll`, `indexForId` | parents and rows fit together; editing goes to the right element |
| `presentation/MainWindow` | current items, enabled buttons, the open editor | one handler per command, menus, refreshing | nothing stale is used; buttons are honest; a deleted element keeps its text and mark, and nothing is created under it |
| `presentation/NodeItemDelegate` | none; the screen keeps what it painted | `paint` | the pictures are those of the present data, and the two views do not contradict each other |
| `main.cpp` | none | wiring | not modelled |

**Interactions.**  `MainWindow` calls `CacheService` for each command on an element, `SyncService::apply` for saving, `ResetService::reset` for resetting; after saving and resetting it rebuilds the copy of the left view, after every command it resets the affected item models, which makes Qt drop the current item and paint all rows again, or, after an edit, reports one changed row.  `CacheService` reads the database only in `loadFromDatabase`; `SyncService` writes it only in `apply`, and then calls `CacheService::reassignId` for each created element.  `TreeModel::setData` calls back into `MainWindow`, which calls `CacheService::editPayload`.

**Hard behaviours** (`PROJECT.json`, `hazards`, has each at its line):

- *Order of loading.*  A child loaded before its parent waits among the roots and is adopted later, possibly with others and with a subtree of its own.
- *Identifiers.*  New elements carry temporary ids; nested new elements name each other by them; a synchronisation replaces them in nodes and index, but not in `parentId_` of the children.  Elements created and deleted before any synchronisation keep theirs for good and are sent as deletions each time.
- *Two cascades.*  `remove` marks the *cached* descendants, `applyChanges` the descendants in the *database*.  With gaps in the cache these are different sets, and the cache is not told.
- *Retries.*  Deletions are sent again by every synchronisation, and they have to be (section 5).
- *Stale copies* in the user interface: handles, current items, buttons, the left view, pictures.
- *Loops inside a call.*  Each call is a series of walks and loops over vectors that it changes on the way; what they add up to, and that they end, rests on the shape of the tree at each moment.

Between the calls nothing must eventually happen on its own: every call is a decision of the user.  A call that runs must end.

## 2. Modules

```
Forest            subtrees and paths as least fixed points
  InMemoryDatabase      records, nextId; ApplyChanges, ResetDatabase
    CacheService        nodes, roots, index, nextTemporaryId; Load, Add, Edit, Remove, Clear
      SyncService       Apply = collect, ApplyChanges, reconcile
        TreeCache       Init, Next, Spec, properties;  refines SoftDeleteStore and WorkingCopy
          MainWindow    the window over TreeCache, with NodeItemDelegate
    RunningCalls        the same calls, step by step over the real vectors;  refines TreeCache
      TreeWalks         the recursive walks as the code writes them
        Views           the rows of both views, with TreeModel
TreeModel         the item model over any provider
NodeItemDelegate  the picture of an element
SoftDeleteStore   what the database promises its readers
WorkingCopy       what the cache promises its user
MCTreeCache, MCRunningCalls, MCMainWindow     small instances
TreeCacheProofs     facts about Below and Path, types, what a change set does to the records;
                    ids, index, hierarchy
  ForestProofs      deletions, the refinement of SoftDeleteStore; the forest and its marks
    SyncProofs      what a synchronisation writes, the refinement of WorkingCopy
    WindowProofs    the refinement of TreeCache by the window; left view, items, buttons, pictures
CallsProofs         the vectors and the index inside the calls (over RunningCalls)
  AtomicProofs      how far each call has come; loading, removing, resetting are single steps
    ApplyProofs     the same of a synchronisation; the refinement of TreeCache by the calls;
                    each step leaves less to do
      ViewsProofs   the recursions: markings, walk, rows of both views, search
```

**State.**  `records`/`nextId` are `records_`/`nextId_`; an absent `optional<NodeId>` is `NoId` = 0, the program's own `invalidNodeId`.  A `TreeNode` object is named by its *handle*, its place in the order of construction since the last `clear()`: objects die only in `clear()`, so `nodes` is a sequence.  `index` maps ids to handles, as `index_` maps ids to raw pointers.  `roots_` and `children_` are kept as sets (`children_` of `h` is `{c : nodes[c].parent = h}`): each vector is always in order of handles, so the set determines it.  `RunningCalls` keeps the vectors themselves and shows this (`OwnedOnce`).

**Actions.**  One action per operation, with all it does: `LoadFromDatabase` includes adoption and both refreshes of the ellipsis flag, `Apply` the collection, the three phases of `applyChanges`, the reassignment of ids and the marking.  Refused calls change nothing; `LoadResult`, `ChangeResult` and `RemoveResult` give the result the code returns, and the window's commands use them.

**Recursion.**  What the code's recursive walks reach is stated as a least fixed point (`Below`, and `VisitedBefore` over `Path`), which the provers can use; `Path` serves only to define `VisitedBefore` and stands for no code of its own.  `TreeWalks` writes the walks as recursive functions, over the vectors and the table the code walks, and `TreeModel` the search for a row; the run `walks` shows in every reachable state of its instance, and `ViewsProofs` for every instance, that they compute what the other modules state without recursion; `RunningCalls` executes them with a stack.

**The change set.**  `created` is a sequence, because its order decides how parents are mapped; `CreationOrders` is the set of sequences ordered like the walk and has exactly one member, the one the recursive walk of `TreeWalks` lists (`CreationFollowsWalk`, proved).  `modified` is a function and `deleted` a set: a client lists an element once, and marking commutes.

**Calls, executed.**  `RunningCalls` has the same operations with a place, a stack and the local variables of the functions that run (`call`).  One step is one round of a loop or one visit of a walk: one orphan detached and attached, one node collected, one record inserted, one id replaced.  The children of a record are visited in any order, as the hash table gives them.  The history variable `before` keeps what was there when the call began; `Seen` is `before` while a call runs and the present otherwise, and under that mapping a whole call is one step of `TreeCache` (`AtomicSpec`).  This justifies the single steps everywhere else: for the change set, the three phases of `applyChanges` and the reconciliation, and for the fixed points that stand for recursion.

**What the user is promised.**  `WorkingCopy` knows a table and items with a row, a place, a text and a status.  Loading puts every item below the item of its parent row if there is one; saving makes the table what the items say, under keys of the table's choice.  It knows nothing of temporary ids, the index, `parentId_`, roots, or the order of writing; `TreeCache` implements it (`WorkingCopySpec`).

**The rows.**  `TreeModel` is written over any `ITreeDataProvider`, a record of rows, parents and ids.  `Views` gives it the live vectors of the cache, and the copy of the database with its rows in every order a hash table may choose.

**The window.**  `MainWindow` extends `TreeCache` by `shown` (the copy of the left view), `current` (the current item of each view), `enabled` (the buttons), `editor` and `painted` (the pictures of both views; `NodeItemDelegate` says how one is painted, from the role data of the models).  A picture stays until its model reports a change, for all rows or for one.  Qt in fact paints more often than that; the model asks whether what is reported is enough.  A command with its dialog is one step; a dismissed dialog is no step.  A command may be given by its enabled button or from the menu of the current item (`Offered`).  Qt is modelled from how the code relies on it and marked external in the map: a click selects and reports it, a view that gets the focus by keyboard makes its first item current *without* reporting it, resetting a model drops the current item silently, and an editor in place ends before the focus goes elsewhere.

## 3. Runs

Deadlock is checked everywhere (a reset is always possible).  Every passing run is exhaustive for its instance.

| run | instance | checks | what it shows |
|---|---|---|---|
| `loading` | four elements: a node with two children, below one of them a third level; one creation, one free record | `ForestIsSound`, `HierarchyMatchesDatabase`, `EllipsisIsTruthful`, `DeletionCascades`, `DeletionsAreRemembered` | all orders of loading, with deletions, creations, edits and synchronisations in between; gaps in the cache with a deletion above and a creation below them |
| `creation` | one element; three temporary ids, three free records | `TypeOK`, `IndexIsExact`, `IdsAgreeWithStatus`, `ParentsArePersisted`, `ApplyPersistsEverything`, `WorkingCopySpec` | up to three created elements nested, beside each other, or removed before they were saved |
| `sync` | a chain of two, two texts, one creation | `UnchangedMatchesDatabase`, `ApplyPersistsEverything`, `RepeatedApplyIsIdle`, `StoreSpec`, `WorkingCopySpec` | what a synchronisation leaves behind; the database implements `SoftDeleteStore`, the cache `WorkingCopy` |
| `calls` | a chain of two, two creations, two free records | `CreationFollowsWalk`, `AtomicSpec`, `EveryCallReturns`, `EachStepLeavesLess` | each call, executed, is the one step of `TreeCache`, and ends; each of its steps brings the end nearer |
| `walks` | a node with two children, one creation, one free record | `OwnedOnce`, `IndexNeverDangles`, `RowsFitTogether`, `SearchFollowsIndex`, `EveryRecordHasItsRow`, `WalkVisitsEachNodeOnce`, `MarkingCoversSubtree` | inside the calls, with several orphans: ownership and index; between them: rows of the views, recursion against fixed points |
| `window` | a chain of two, one creation, the empty text and another | `LeftViewIsUpToDate`, `ItemsAreLive`, `ButtonsAreHonest`, `PicturesAreTrue`, `DeletedStaysFrozen` | the whole program as the user drives it: what is on the screen, compared with the data and across the two views; no command or editor on an object that is gone; deleted elements, which loading alone gives children, those of the database |
| `window_refines` | one element, one creation | `CacheSpec` | every step of the window is a step of `TreeCache` or leaves it alone |
| `local_deletion`, `deleted_editing`, `ellipsis`, `lost_edit`, `untouched_editor` | the smallest that shows it | one statement each | the statement does not hold (section 5) |

**Bounds.**  `MaxId` bounds the ids the database may hand out: `Apply` waits when it would pass it.  `MaxTemp` bounds the temporary ids between two clears.  The program has 64-bit counters and starts temporary ids at 10^9; the assumption `MaxId < TempBase` is the program's own (a database of a billion records would break it, and no property here covers that edge).  Elements are distinguished only by id, parent, status and text, and every property relates at most an element, its parent and one more; a chain of three has the smallest gap (cached, not cached, cached), a fork the smallest pair of orphans, and three creations the smallest nest in which the middle one is both parent and child.  The texts are two where a property compares texts and one elsewhere.  No symmetry is used: ids are ordered.

**Fairness.**  Only `RunningCalls` assumes any: `WF_callVars(Step)`, a call that runs goes on running.  There is one thread, a call waits for nothing and nothing interrupts it, so the step it is at is taken.  Nothing forces the user to call (`Call` has no fairness).  Under it every call returns (`EveryCallReturns`), which is about the walks and loops alone: none runs in a circle or stands still.  What would be a liveness property elsewhere ("changes reach the database") is an action property here, because one call does it all (`ApplyPersistsEverything`).

**Mutants.**  Each property of a passing run has a mutant of the definition it guards, kept next to that definition under a name that starts with `Mut`: a dropped refresh, a forgotten erase, phases in another order.

## 4. Proofs

All proofs hold for every `SeedRows`, `Payload`, `MaxId`, `TempBase`, `MaxTemp` and `EmptyText` that satisfy `DatabaseAssumption` (the seed lists parents before children and fits below `MaxId`), `CacheAssumption` (`MaxId < TempBase`), for the calls `CallsAssumption` (the same, of `RunningCalls`), and `WindowAssumption` (the empty text is a text).

| theorem | says |
|---|---|
| `TypeCorrect` (`TreeCacheProofs`) | `Spec => []TypeOK` |
| `IdentityInvariant` (`TreeCacheProofs`) | `Spec => []IInv` |
| `IndexStaysExact`, `HierarchyStaysExact`, `TemporaryIdsStayLocal`, `IdsFollowStatus` | `Spec => []` of `IndexIsExact`, `HierarchyMatchesDatabase`, `ParentsArePersisted`, `IdsAgreeWithStatus` |
| `DeletionsStayRemembered`, `DeletionStaysClosed` (`ForestProofs`) | `Spec => []` of `DeletionsAreRemembered`, `DeletionCascades` |
| `DatabaseImplementsStore` (`ForestProofs`) | `Spec => StoreSpec` |
| `ApplyWritesEverything`, `SecondApplyIsIdle` (`SyncProofs`) | `Spec => ApplyPersistsEverything`, `Spec => RepeatedApplyIsIdle` |
| `UnchangedIsTrue` (`SyncProofs`) | `Spec => []UnchangedMatchesDatabase` |
| `ForestStaysSound`, `EllipsisStaysTruthful` (`ForestProofs`) | `Spec => []` of `ForestIsSound`, `EllipsisIsTruthful` |
| `WindowImplementsCache` (`WindowProofs`) | `WindowSpec => CacheSpec`, which carries all of the above over to the window |
| `LeftViewStaysUpToDate` (`WindowProofs`) | `WindowSpec => []LeftViewIsUpToDate` |
| `ItemsStayLive`, `ButtonsStayHonest`, `PicturesStayTrue` (`WindowProofs`) | `WindowSpec => []` of `ItemsAreLive`, `ButtonsAreHonest`, `PicturesAreTrue` |
| `DeletedAreFrozen` (`WindowProofs`) | `WindowSpec => DeletedStaysFrozen` |
| `CacheImplementsWorkingCopy` (`SyncProofs`) | `Spec => WorkingCopySpec` |
| `CallsStayConsistent` (`CallsProofs`) | `Spec => []CallsInv`, for the calls executed step by step |
| `EachObjectOwnedOnce`, `IndexStaysExact` (`CallsProofs`) | `Spec => []` of `OwnedOnce`, `IndexNeverDangles` |
| `CallsKeepTrack` (`ApplyProofs`) | `Spec => []AtomicInv`, for the calls executed step by step |
| `CallsImplementCache` (`ApplyProofs`) | `Spec => AtomicSpec`: each call is one step of `TreeCache` |
| `StepsLeaveLess` (`ApplyProofs`) | `Spec => EachStepLeavesLess`: what remains of a call falls with each of its steps |
| `MarkingsCoverSubtrees` (`ViewsProofs`) | `Spec => []MarkingCoversSubtree`: the two recursive markings mark what `Below` says |
| `WalkIsComplete`, `CreationIsTheWalk` (`ViewsProofs`) | `Spec => []` of `WalkVisitsEachNodeOnce`, `CreationFollowsWalk` |
| `RowsAlwaysFit`, `EveryRecordIsShown` (`ViewsProofs`) | `Spec => []` of `RowsFitTogether`, `EveryRecordHasItsRow`, in every order of the hash table |
| `SearchEndsAtIndex` (`ViewsProofs`) | `Spec => []SearchFollowsIndex` |

**The inductive invariant.**  None of the identity properties is inductive alone, and they are so only together.  Ids that collide would put a node under the wrong parent; a new node under one that is never created would store a temporary parent; a record with a temporary parent would lose its place in the cache when it is loaded.  `IInv` joins them with `TypeOK` and two additions:

- `KnownIds`: the id of a node is that of a record or a temporary one already handed out, and the status says which;
- `Links`: a root came from the database and still names its parent there; a *new* node hangs under an **older** node that is **not deleted**.  This is the point of the argument: a synchronisation therefore creates the parent of a new node before the node or finds it already in the database, and never meets a parent that was created, deleted and never stored.  It holds because `addChild` refuses deleted parents and `markDeletedRecursively` takes the new children with their parent.

The step of `Apply` rests on two lemmas: `ReconcileEffect` (which id and status each node has afterwards) and `CreatedPlace` (the parent the database gives the i-th created element is the new id of the node it hangs under).  `LeftViewStaysUpToDate` needs `ParentsArePersisted`: the copy starts from the roots, and a record whose parent is no record would be missing from it; `CopyIsComplete` shows by a least counterexample that none is.

**Deletions.**  `ApplyDeletions` says what a synchronisation leaves: a record is deleted *exactly if* it lies below a deleted element of the cache.  Deletions made earlier are among them because the cache keeps its deleted elements under their ids (`DeletedIdsStay`) and a subtree of a forest that has grown has not shrunk (`StillBelow`).  From there, closure downwards is closure of `Below`; it needs no induction over the tree, and it holds whatever has been inserted in between.  `DatabaseImplementsStore` adds that rows keep their place and that deleted rows keep their text (`AppliedRows`).

**Contents.**  `ApplyEffect` puts `CreatedPlace`, `CollectedTexts` (ids tell nodes apart, so the text sent under an id is that of its node) and `AppliedRows` together.  `SecondApplyIsIdle` uses `DeletionCascades`: sending all deletions again marks nothing new because what is marked is already closed.

**Shape.**  That every node lies below a root needs an order along which parents come first.  Handles are none, since a parent may be loaded after its children; ids are one: the id of a parent is smaller, for records because the database is a tree in which parents are older, for elements without a record by `TemporaryIdsGrow`, which survives a synchronisation because every new id is below `TempBase`.  The truth of the mark follows from `MarkedHaveNoChildren`, which speaks of the cache alone where `EllipsisIsTruthful` speaks of ids.

**The window.**  `ItemInv` says what is kept between commands: current items and editor are on what exists (the window forgets the current item whenever a model is reset, and nothing else destroys nodes), an enabled button has its object, and the button that saves is enabled exactly if there are roots.  `ButtonsStayHonest` then needs `ForestIsSound`: something pending is a node, and without roots there are no nodes.  `PaintedNow`, that the screen shows what would be painted now, is kept by an edit because it changes the picture of its node alone (`EditedPictures`).  `PicturesStayTrue` adds what the data say of each other, carried over by `WindowImplementsCache`: `EllipsisIsTruthful` for the ellipsis, `UnchangedMatchesDatabase` for an uncoloured element and its text on the left, `KnownIds` for a green one, which is not there.  The ellipsis is true in this direction only; that it is missing from some elements with children to load is finding `ellipsis`.  `DeletedAreFrozen` compares the children of a deleted element before and after a step.  A new one is the loaded element or an orphan it takes over, both of the database by `Links`, and `HierarchyMatchesDatabase` with `IndexIsExact` says that the database has it there; `addChild` refuses a deleted parent.  That loading does not refuse one is finding `local_deletion`.

**The working copy.**  `CacheImplementsWorkingCopy` maps each command to one step of `WorkingCopy` or to none.  Saving is `ApplyEffect` once more.  For loading, `HierarchyMatchesDatabase` before and after says which items hang below which, so the arrangement need not be computed from the adoption.  `WorkingCopy` bounds its items by `MaxId + MaxTemp` and loading takes a free one: `IndexIsExact` and `KnownIds` map the nodes one-to-one to ids of records and temporary ids handed out, so there is always room.

**The calls.**  In `RunningCalls` an invariant must hold between two rounds of a loop, where nearly everything that `IInv` says of commands is broken.  `CallsInv` consists of

- `OwnedOnce` and `IndexNeverDangles` themselves, with the types;
- what makes ids collide never: no id in the index will be handed out again (`GivenOnce`), and the keys already assigned but not yet written to their nodes are not in it (`Fresh`);
- `AdoptOK`: the ids left to adopt are in the index and lead to objects in the order of construction, each younger than the children the new node has so far; therefore appending keeps the vector in order;
- `WalkOK`: a walk over the vectors has only live objects on its stack;
- `CollectOK`: the walk that collects has visited some objects and holds others on its stack, each once, the owner of each visited before; so it meets no object twice and lists at most as many creations as there are new objects.  `Apply` waits until the database has room for that many, and `InsertOK` keeps the room; therefore a new key is never beyond `MaxId` and never in the range of temporary ids.

`EachObjectOwnedOnce` and `IndexStaysExact` follow.

**The calls are atomic.**  `CallsImplementCache` is the reason why the other proofs may speak of `TreeCache`, where a call is one step and a subtree is a set: what the loops of the program compute is what those sets say.  What the user sees (`Seen`) is `before` while a call runs and the program itself between two calls, so the only steps that matter are those that return; but what a returning call has done must be known from how it went.  `AtomicInv` is the conjunction of

- `Stable`, of what the user sees: types, an exact index, ids handed out once, and ids that *grow from parents to children*, in the database and in the cache.  A walk has no counter to do induction on.  Instead, if some node of the subtree were not visited at the end, take the one with the least id; its parent has a smaller id, was visited, and left it on the stack, which is empty;
- `Progress`, one predicate for each place a call can be at, which compares the objects, the index and the records with `before`:
  - *loading* (`Loading`): the ids on the stack are those of orphans, and an object has a new parent exactly if it is an orphan whose id is no more on the stack;
  - *removing* (`Marking`): marked and stacked objects lie in the subtree, and the children of what is marked are marked or stacked.  At the end what is marked is closed and is therefore `Below`;
  - *collecting* (`Collecting`, `WalkOrder`): every visited object precedes, in the order of `VisitedBefore`, every object on the stack, which is itself in that order, and what has been listed as created is listed in it.  So the sequence the walk makes is one of `CreationOrders` (`OrderIsCreation`), which is what `Apply` takes;
  - *inserting* (`Inserting`, `Maps`): the table holds the ids of the first `nextId - before.nextId` creations, so looking a parent up in it is the search among the earlier creations that `MappedParent` makes;
  - *modifying*, *deleting*, *reassigning* (`Modifying`, `Deleting`, `Reached`, `Renaming`): each row and each object is either as it was or as it will be, and the list or the stack says which; deletion in the database is closed along the rows' `parentId`, whatever order the hash table gives the children in;
  - *synchronising* and *seeding* (`Marked`, `Seeding`): the objects visited so far, the rows inserted so far.

That ids grow is itself proved from the returning steps: of a synchronisation because the parent of a new element is created earlier in the walk or was there before (`NewUnder`, `ParentIsEarlier`).

**The recursions.**  A recursive function of TLA+ is a `CHOOSE` of a function that satisfies its equation: before anything can be said of it, some function must.  For the two markings `Below` is one.  For the walk and the search `ViewsProofs` builds one from the leaves upwards: ids grow from parent to child (`Stable`, `TableDescends`) and there are finitely many, so a node is as deep as its id is large, and the place above the roots has depth 0.  There is a function that satisfies the equation at all nodes at least as deep as some bound; the least such bound (`LeastElement`) is 0, because such a function extends to the next smaller depth.  The running concatenation of a walk's parts is treated alike (`FlattenedExists`).  What a solution computes follows by contradiction, from a node of greatest depth at which it computes something else:

- *markings*: `Below` of a node is the node and the `Below` of its children, in the vectors as in the table, so the marked set is `Below`;
- *walk*: what the walk lists below a node is what lies below it, each once, and in the order of `VisitedBefore`, since what is listed under an earlier child parts from what is listed under a later one at these two children (`Path`).  `VisitedBefore` holds one way only between two nodes, so at most one sequence of the new nodes is in that order, and the walk, with the other nodes left out, is one;
- *rows and search*: a provider is a tree of rows (`TreeOfRows`) if every handle is in one vector, that of its parent, at one place, and ids grow downwards.  The vectors of the cache are (from `OwnedOnce` in `CallsInv`), and so is the copy of the database for every order in which the table is scanned, because a scan finds each child of a record once.  In a tree of rows every index has a row that leads back to it, and the search, which goes from row to row and down each before the next, ends at the handle with the id exactly if there is one.

**Termination.**  `Remaining` is what a call has still to do: the loops from the present one on, the rounds of the present loop, and the nodes the present walk has still to visit, which are those on its stack and all below them.  `StepsLeaveLess` needs beside `CallsInv` and `AtomicInv` one more invariant, `WalksApart`: nothing on the stack of a walk lies below something else on it.  It holds when a walk begins, with one node or with the roots, and when a node makes place for its children, because parents during a walk over objects are those from before the call and parents of records are never changed, and ids grow downwards in both.  So a visit takes its node out of what is ahead and puts nothing there (`VisitLeavesLess`).  A round shortens the list of its loop, and `Proceed` goes on to a loop further down.  The lexicographic order of triples of naturals is well-founded; so with a next step wherever a call runs, which the deadlock check shows, a call returns.

**Only model-checked.**  `EveryCallReturns` itself: it is liveness under fairness, and needs `ENABLED` of `Step`, which is beyond these provers.  Everything else that a passing run checks is proved.

## 5. What the checks show

The hierarchy, the index, the ids and the written data are right in every order of commands.  Some of it is less obvious than it looks:

- `reassignId` leaves `parentId_` of the children stale.  That is harmless: a child still to be created never has a stale `parentId_` when it is sent (`HierarchyMatchesDatabase`, last conjunct), because all new elements are created in the same call.
- A child can be added under an element the database has already deleted (below a gap the cascade crossed).  It is inserted undeleted, and the cascade is closed only because the deletion phase follows the insertions *and* every deletion is sent again; a cache that forgot its deleted elements would leave the cascade open (`DeletionCascades`, `DeletionsAreRemembered`).

Five statements of the documentation do not hold; each is the subject of a run whose counterexample is short:

1. `local_deletion` – a child loaded under a parent deleted only in the cache is attached as unchanged and stays editable (README.md:9 promises the mark to descendants).
2. `deleted_editing` – elements the database deletes by cascade across a gap stay editable in the cache (README.md:9).
3. `lost_edit` – such an edit is then dropped by the database and the element is shown as unchanged, with a text the database does not have (README.md:16).
4. `ellipsis` – the mark of unloaded children disappears with the first of several children (README.md:9, README.md:24).
5. `untouched_editor` – `TreeModel::data` has no case for `Qt::EditRole`, so the editor in place opens empty; leaving it without typing empties the element and marks it modified (README.md:24).

**Not modelled.**  Pixels and sizes (an ellipsis is told apart from a text that ends in one, which on the screen it is not), layout, titles, the texts of the status bar and the counters of `SyncService::Result` that only it shows; `main.cpp`; exhaustion of memory and of 64-bit ids; Qt itself beyond what section 2 names.

## 6. State of the plan

All of the plan is done: the core (database, cache, synchronisation, reset), the window with its item models and pictures, the calls executed step by step, the two abstract specifications; and a proof of every invariant, every action property and every refinement (`StoreSpec`, `WorkingCopySpec`, `CacheSpec`, `AtomicSpec`) that a passing run checks.  What remains with TLC is the liveness property `EveryCallReturns`.
