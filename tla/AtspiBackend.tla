---------------------------- MODULE AtspiBackend ----------------------------
(***************************************************************************)
(* The observations of accessibility/: the providers' trees as walked by   *)
(* Snapshot (snapshot.go), by FindApplicationFresh (backend_dbus.go) and by *)
(* ResolveWindowFresh (window_scope.go), the signals that the dispatcher   *)
(* applies to the backend (events.go), the copy of a provider's cache      *)
(* (cache.go) and the incarnations that guard handles (backend_dbus.go).   *)
(*                                                                         *)
(* A walk reads a live tree, object by object, while the tree changes and  *)
(* while the signals of those changes wait to be dispatched; the backend   *)
(* accepts what was read when no signal dispatched since the start of the  *)
(* walk intersects it.                                                     *)
(*                                                                         *)
(* The fields of dbusBackend that b.mu guards are one record, and its      *)
(* "Locked" methods are operators from such records to such records.       *)
(***************************************************************************)
EXTENDS Naturals, Sequences, FiniteSets, SequencesExt, FiniteSetsExt

CONSTANTS
    Null,
    Desk,          \* the desktop object of the registry
    AppRoots,      \* application objects, children of Desk
    Inner,         \* the other objects
    Bus,           \* the bus name of each object
    Worlds,        \* records of edges <<child, parent>> a tree may have, the
                   \* edges of the first tree, the handles held at first, the
                   \* kinds of calls and of signals, the objects snapshots are
                   \* taken of, and the bounds: calls, changes of the trees,
                   \* observationHistoryLimit, and whether faults happen
    Readers,
    MaxTracked,    \* maxTrackedObjects
    MaxNodes,      \* opts.MaxNodes
    MaxDepth       \* opts.MaxDepth

Objects == {Desk} \cup AppRoots \cup Inner
Buses == {Bus[o] : o \in Objects}
Registry == Bus[Desk]

VARIABLES
    world,      \* one of Worlds
    tree,       \* the parent of each object, Null when there is no such object
    ver,        \* what its properties read, changed by the provider
    inst,       \* how many objects have had this path
    wire,       \* signals not dispatched yet
    listening,  \* whether a dispatcher runs
    b,          \* dbusBackend, under b.mu
    call,       \* each caller's call in progress, Null when there is none
    result,     \* what its last call returned
    held,       \* handles that have been returned, with the path's count
    calls, changes,
    lost,       \* history: signals that no dispatcher has seen
    unsound     \* history: buses whose cache copy met one of its races

provider == <<world, tree, ver, inst>>
counters == <<calls, changes>>
vars == <<provider, wire, listening, b, call, result, held, counters, lost, unsound>>

-----------------------------------------------------------------------------
(* The providers.                                                           *)

Exists(o) == o = Desk \/ tree[o] # Null
Kids(t, p) == {o \in Objects : t[o] = p}
Below(t, root) ==
    LET down[n \in Nat] ==
            IF n = 0 THEN {root}
            ELSE down[n - 1] \cup UNION {Kids(t, p) : p \in down[n - 1]}
    IN  down[Cardinality(Objects)]

\* What a provider says of an object, in GetItems and AddAccessible.
Item(o) == [parent |-> tree[o], count |-> Cardinality(Kids(tree, o)), ver |-> ver[o]]

Sig(kind, node, parent, child, item) ==
    [kind |-> kind, node |-> node, parent |-> parent, child |-> child, item |-> item]
CacheKinds == {"add", "remove", "garbledAdd", "garbledRemove"}
Removals(o) ==
    {Sig("remove", o, Null, Null, Null), Sig("garbledRemove", o, Null, Null, Null),
     Sig("childRemove", tree[o], Null, o, Null),
     Sig("destroy", o, Null, Null, Null)}    \* Window:Destroy, or the state defunct

Emit(s) ==
    /\ changes < world.changes /\ s.kind \in world.signals
    /\ changes' = changes + 1
    /\ IF listening THEN wire' = Append(wire, s) /\ UNCHANGED <<lost, unsound>>
       ELSE lost' = lost + 1 /\ unsound' = Buses /\ UNCHANGED wire

\* An object appears.  An application that has gone never comes back: its bus
\* name is unique.
Appear(o, p) ==
    /\ <<o, p>> \in world.edges /\ ~Exists(o) /\ Exists(p)
    /\ o \in AppRoots => inst[o] = 0
    /\ tree' = [tree EXCEPT ![o] = p]
    /\ inst' = [inst EXCEPT ![o] = @ + 1]
    /\ \E s \in {Sig("add", o, p, Null, [parent |-> p, count |-> 0, ver |-> ver[o]]),
                 Sig("garbledAdd", o, Null, Null, Null), Sig("changed", p, Null, Null, Null)}
                \cup {Sig("create", o, Null, Null, Null) : q \in {p} \cap AppRoots} :
          Emit(s)
    /\ UNCHANGED <<world, ver, listening, b, call, result, held, calls>>

\* An object goes, with everything below it.
Vanish(o) ==
    /\ o # Desk /\ Exists(o)
    /\ \E s \in Removals(o) : Emit(s)
    /\ LET gone == Below(tree, o)
       IN  tree' = [x \in Objects |-> IF x \in gone THEN Null ELSE tree[x]]
    /\ UNCHANGED <<world, ver, inst, listening, b, call, result, held, calls>>

\* An object moves to another parent.
Move(o, p) ==
    /\ <<o, p>> \in world.edges /\ Exists(o) /\ Exists(p) /\ tree[o] # p
    /\ p \notin Below(tree, o)
    /\ tree' = [tree EXCEPT ![o] = p]
    /\ Emit(Sig("add", o, p, Null, [Item(o) EXCEPT !.parent = p]))
    /\ UNCHANGED <<world, ver, inst, listening, b, call, result, held, calls>>

\* A property, state or text changes.
Change(o) ==
    /\ Exists(o)
    /\ ver' = [ver EXCEPT ![o] = @ + 1]
    /\ Emit(Sig("changed", o, Null, Null, Null))
    /\ UNCHANGED <<world, tree, inst, listening, b, call, result, held, calls>>

-----------------------------------------------------------------------------
(* Handles.                                                                 *)

None == [o \in Objects |-> Null]
Seen(bs) == {o \in Objects : bs.inc[o] # 0}
Known(bs) == {o \in Objects : bs.par[o] # Null}
Inc(bs, o) == IF bs.inc[o] = 0 THEN 1 ELSE bs.inc[o]
Handle(bs, o) == [obj |-> o, gen |-> bs.gen, inc |-> Inc(bs, o)]
Current(bs, h) == h.gen = bs.gen /\ h.inc = Inc(bs, h.obj) /\ ~bs.down

\* incarnationLocked
Track(bs, o) ==
    IF bs.inc[o] # 0 THEN bs
    ELSE IF Cardinality(Seen(bs)) >= MaxTracked THEN [bs EXCEPT !.incomplete = TRUE]
    ELSE [bs EXCEPT !.inc[o] = 1]

\* recordParentLocked
Adopt(bs, child, parent) ==
    IF parent = Null \/ bs.down THEN bs
    ELSE IF bs.par[child] = Null /\ Cardinality(Known(bs)) >= MaxTracked
         THEN [bs EXCEPT !.incomplete = TRUE]
    ELSE [bs EXCEPT !.par[child] = parent]

\* recordObjectParent
RecordParent(bs, child, parent) ==
    IF Current(bs, child) /\ Current(bs, parent)
    THEN Adopt(Track(Track(bs, child.obj), parent.obj), child.obj, parent.obj)
    ELSE bs

\* invalidateAllHandlesLocked
InvalidateAll(bs) ==
    [bs EXCEPT !.gen = @ + 1, !.cache = None, !.items = None, !.apps = {},
               !.inc = [o \in Objects |-> 0], !.par = None, !.incomplete = FALSE]

\* invalidateCacheApplicationLocked
DropApp(bs, bus) ==
    [bs EXCEPT !.apps = @ \ {bus}, !.cache = None,
               !.items = [o \in Objects |-> IF Bus[o] = bus THEN Null ELSE @[o]]]

\* adjustCachedChildCountLocked
AdjustCount(bs, parent, plus, minus) ==
    IF parent = Null \/ Bus[parent] \notin bs.apps THEN bs
    ELSE IF bs.items[parent] = Null \/ bs.items[parent].count + plus < minus
         THEN [bs EXCEPT !.apps = @ \ {Bus[parent]}, !.items[parent] = Null]
    ELSE [bs EXCEPT !.items[parent].count = @ + plus - minus]

\* The observed parent of an object decides, the cache's only where none has
\* been observed.
EdgeOf(bs, o) ==
    IF bs.par[o] # Null THEN bs.par[o]
    ELSE IF bs.items[o] # Null THEN bs.items[o].parent ELSE Null
\* Mutant of RemovedTree: only the object itself is revoked.
RemovedRoot(bs, root) == {root}

\* removedObjectTreeLocked
RemovedTree(bs, root) ==
    Below([o \in Objects |-> IF EdgeOf(bs, o) # Null /\ Bus[EdgeOf(bs, o)] = Bus[o]
                             THEN EdgeOf(bs, o) ELSE Null], root)

\* detachForeignParentEdgesLocked
DetachForeign(bs, removed) ==
    LET foreign(o, p) == p \in removed /\ Bus[p] # Bus[o]
        cut == {o \in Objects : foreign(o, bs.par[o])}
        apps == {Bus[o] : o \in cut}
                \cup {Bus[o] : o \in {x \in Objects :
                                 bs.items[x] # Null /\ foreign(x, bs.items[x].parent)}}
    IN  FoldSet(LAMBDA bus, acc : DropApp(acc, bus),
                [bs EXCEPT !.par = [o \in Objects |-> IF o \in cut THEN Null ELSE @[o]]],
                apps)

\* adjustCachedChildrenForRevocationLocked
AdjustForRevocation(bs, removed) ==
    LET torn == {Bus[o] : o \in {x \in Objects : /\ bs.items[x] # Null
                                                 /\ bs.par[x] # Null
                                                 /\ bs.par[x] # bs.items[x].parent}}
        gone(p) == {o \in removed : EdgeOf(bs, o) = p}
        dropped == FoldSet(LAMBDA bus, acc : DropApp(acc, bus), bs, torn)
    IN  FoldSet(LAMBDA p, acc : AdjustCount(acc, p, 0, Cardinality(gone(p))),
                dropped, {EdgeOf(bs, o) : o \in removed} \ (removed \cup {Null}))

\* revokeOrInvalidateLocked and revokeObjectLocked
Revoke(bs, root) ==
    LET removed == RemovedTree(bs, root)
        adjusted == AdjustForRevocation(DetachForeign(bs, removed), removed)
    IN  IF bs.incomplete \/ Cardinality(Seen(bs) \cup removed) > MaxTracked
        THEN InvalidateAll(bs)
        ELSE [adjusted EXCEPT
                !.inc = [o \in Objects |-> IF o \in removed THEN Inc(adjusted, o) + 1
                                           ELSE @[o]],
                !.par = [o \in Objects |-> IF o \in removed THEN Null ELSE @[o]],
                !.items = [o \in Objects |-> IF o \in removed THEN Null ELSE @[o]],
                !.cache = None]

-----------------------------------------------------------------------------
(* The dispatcher's transition for one signal (prepareEventTransition).     *)

\* cacheItemFromSignal and cacheObjectRefFromSignal refuse the body.
Garbled(s) == s.kind \in {"garbledAdd", "garbledRemove"}

\* A removal whose child is not the sender's own cannot be identified.
Unidentified(s) ==
    \/ Garbled(s)
    \/ s.kind = "childRemove" /\ Bus[s.child] # Bus[s.node]

\* recordObservationLocked: the history is bounded, and its floor tells which
\* revisions it is still complete for.
Observe(bs, s) ==
    LET rev == bs.rev + 1
        change == [s EXCEPT !.parent = IF s.kind = "remove" /\ bs.items[s.node] # Null
                                       THEN bs.items[s.node].parent ELSE @]
        full == Len(bs.history) = world.history
        noted == [rev |-> rev, sig |-> change, unknown |-> Unidentified(s)]
    IN  [bs EXCEPT
            !.rev = rev,
            !.floor = IF full THEN Head(bs.history).rev ELSE @,
            !.history = Append(IF full THEN Tail(@) ELSE @, noted)]

\* transitionObjectHandlesLocked
Transition(bs, s) ==
    CASE s.kind \in {"remove", "destroy"} -> Revoke(bs, s.node)
      [] s.kind = "childRemove" /\ ~Unidentified(s) -> Revoke(bs, s.child)
      [] s.kind = "garbledRemove" \/ (s.kind = "childRemove" /\ Unidentified(s)) -> InvalidateAll(bs)
      [] OTHER -> bs

\* applyCacheAddLocked
CacheAdd(bs, o, item) ==
    LET old == bs.items[o]
        moved == old = Null \/ old.parent # item.parent
        away == IF old # Null /\ moved THEN AdjustCount(bs, old.parent, 0, 1) ELSE bs
        counted == IF Bus[o] \notin bs.apps \/ ~moved THEN bs
                   ELSE AdjustCount(away, item.parent, 1, 0)
    IN  Adopt([Track(counted, o) EXCEPT !.items[o] = item], o, item.parent)

\* applyCacheSignalLocked: cache signals keep the copy of the provider's cache,
\* every other signal drops it.
ApplyToCache(bs, s) ==
    CASE s.kind = "add" -> CacheAdd(bs, s.node, s.item)
      [] s.kind = "remove" -> [bs EXCEPT !.items[s.node] = Null]
      [] OTHER -> [bs EXCEPT !.items = None, !.apps = {}]

\* Mutant of Prepare: snapshots that have been kept stay.
PrepareKeepsSnapshots(bs, s) == ApplyToCache(Transition(Observe(bs, s), s), s)

\* prepareEventTransition.  A cache signal has the path of the cache, which no
\* handle denotes.
Prepare(bs, s) ==
    LET applied == ApplyToCache([Transition(Observe(bs, s), s) EXCEPT !.cache = None], s)
    IN  IF s.kind \in CacheKinds THEN applied ELSE Track(applied, s.node)

Dispatch ==
    /\ listening /\ wire # <<>> /\ ~b.down
    /\ b' = Prepare(b, Head(wire))
    /\ wire' = Tail(wire)
    /\ UNCHANGED <<provider, listening, call, result, held, counters, lost, unsound>>

\* The last subscriber leaves, or a first one arrives: the signals that nobody
\* took are gone, and the caches stay as they are.
Unlisten ==
    /\ world.faults /\ listening /\ ~b.down /\ lost = 0
    /\ listening' = FALSE /\ wire' = <<>>
    /\ lost' = lost + Len(wire)
    /\ unsound' = IF wire = <<>> THEN unsound ELSE Buses
    /\ UNCHANGED <<provider, b, call, result, held, counters>>

Listen ==
    /\ ~listening /\ ~b.down /\ listening' = TRUE
    /\ UNCHANGED <<provider, wire, b, call, result, held, counters, lost, unsound>>

\* markDisconnected and invalidateDisconnectedEventConnection
Disconnect ==
    /\ world.faults /\ ~b.down
    /\ b' = [b EXCEPT !.down = TRUE, !.gen = @ + 1, !.rev = @ + 1,
                      !.cache = None, !.items = None, !.apps = {}]
    /\ UNCHANGED <<provider, wire, listening, call, result, held, counters, lost, unsound>>

\* Invalidate
Invalidate ==
    /\ world.faults /\ calls < world.calls /\ calls' = calls + 1
    /\ b' = [InvalidateAll(b) EXCEPT !.rev = @ + 1]
    /\ UNCHANGED <<provider, wire, listening, call, result, held, changes, lost, unsound>>

-----------------------------------------------------------------------------
(* Calls.  A walk visits objects in the order of the tree: todo holds the   *)
(* references still to be visited, cur the object being visited.            *)

Node(h, parent, v, count) ==
    [id |-> h, parent |-> parent, ver |-> v, count |-> count, kids |-> {}]
Ref(o, parent, depth) == [obj |-> o, parent |-> parent, depth |-> depth]
Visited(k) == {o \in Objects : k.nodes[o] # Null}

\* The walks of the three calls go this deep.
Reach(kind) ==
    CASE kind = "application" -> 1 [] kind = "window" -> 2 [] OTHER -> MaxDepth

Attempt(bs, kind, root, fresh, try) ==
    [kind |-> kind, root |-> root, fresh |-> fresh, try |-> try,
     pc |-> IF fresh THEN "read" ELSE IF Bus[root.obj] = Registry THEN "start" ELSE "load",
     gen |-> bs.gen, rev |-> bs.rev, loadRev |-> 0, reply |-> Null,
     todo |-> <<>>, cur |-> [id |-> root, parent |-> Null, depth |-> 0],
     nodes |-> None, seen |-> {root.obj},
     truncated |-> FALSE, warned |-> FALSE, lost |-> lost]

\* Snapshot, FindApplicationFresh and ResolveWindowFresh begin with the
\* revision and the generation they will be checked against.
Begin(c, kind, root, fresh) ==
    /\ calls < world.calls /\ call[c] = Null
    /\ kind \in world.kinds
    /\ kind # "snapshot" => fresh
    /\ Current(b, root)
    /\ calls' = calls + 1
    /\ call' = [call EXCEPT ![c] = Attempt(b, kind, root, fresh, 1)]
    /\ result' = [result EXCEPT ![c] = Null]
    /\ UNCHANGED <<provider, wire, listening, b, held, changes, lost, unsound>>

SetCall(c, k) == call' = [call EXCEPT ![c] = k]

\* An error ends the call.  The desktop's walks are tried a second time when
\* the error is a stale generation or a changed observation.
Fail(c, retryable) ==
    LET k == call[c]
        again == retryable /\ k.root.obj = Desk /\ k.try = 1
    IN  SetCall(c, IF again THEN Attempt(b, k.kind, Handle(b, Desk), k.fresh, 2) ELSE Null)

\* The context of the call ends.
Abandon(c) ==
    /\ world.faults /\ call[c] # Null /\ SetCall(c, Null)
    /\ UNCHANGED <<provider, wire, listening, b, result, held, counters, lost, unsound>>

\* loadCache: the revision is read, GetItems asked, and its reply published
\* unless a signal has been dispatched in between.
LoadBegin(c) ==
    /\ call[c] # Null /\ call[c].pc = "load"
    /\ SetCall(c, IF Bus[call[c].root.obj] \in b.apps
              THEN [call[c] EXCEPT !.pc = "start"]
              ELSE [call[c] EXCEPT !.pc = "fetch", !.loadRev = b.rev])
    /\ UNCHANGED <<provider, wire, listening, b, result, held, counters, lost, unsound>>

GetItems(c) ==
    /\ call[c] # Null /\ call[c].pc = "fetch"
    /\ LET bus == Bus[call[c].root.obj]
           answer == [o \in Objects |-> IF Bus[o] = bus /\ Exists(o) THEN Item(o) ELSE Null]
       IN  SetCall(c, [call[c] EXCEPT !.pc = "fetched", !.reply = answer])
    /\ UNCHANGED <<provider, wire, listening, b, result, held, counters, lost, unsound>>

\* No answer, or one that validateLoadedCacheItems refuses: direct reads.
GetItemsFails(c) ==
    /\ call[c] # Null /\ call[c].pc = "fetch"
    /\ SetCall(c, [call[c] EXCEPT !.pc = "start"])
    /\ unsound' = unsound \cup {Bus[call[c].root.obj]}
    /\ UNCHANGED <<provider, wire, listening, b, result, held, counters, lost>>

\* replaceCompleteCacheLocked
ReplaceCache(bs, bus, reply) ==
    LET mine(o) == Bus[o] = bus
        cleared == [bs EXCEPT !.par = [o \in Objects |-> IF mine(o) THEN Null ELSE @[o]],
                              !.items = [o \in Objects |-> IF mine(o) THEN reply[o] ELSE @[o]],
                              !.apps = @ \cup {bus}]
    IN  FoldSet(LAMBDA o, acc : Adopt(Track(acc, o), o, reply[o].parent), cleared,
                {o \in Objects : reply[o] # Null})

\* publishLoadedCache
PublishLoaded(c) ==
    /\ call[c] # Null /\ call[c].pc = "fetched"
    /\ LET k == call[c]
           bus == Bus[k.root.obj]
           stale == b.gen # k.gen \/ b.down
       IN  /\ b' = IF stale \/ b.rev # k.loadRev THEN b ELSE ReplaceCache(b, bus, k.reply)
           /\ IF stale THEN Fail(c, TRUE)
              ELSE SetCall(c, [k EXCEPT !.pc = "start", !.reply = Null])
           /\ unsound' = IF b' # b /\ wire # <<>> THEN unsound \cup {bus} ELSE unsound
    /\ UNCHANGED <<provider, wire, listening, result, held, counters, lost>>

Answer(k, nodes, complete) ==
    [kind |-> k.kind, root |-> k.root, fresh |-> k.fresh, nodes |-> nodes,
     complete |-> complete, rev |-> b.rev, lost |-> k.lost]

Issue(nodes) ==
    held \cup {[h |-> nodes[o].id, inst |-> inst[o]] : o \in {x \in Objects : nodes[x] # Null}}

\* A cached snapshot that has not expired answers the call.
CacheHit(c) ==
    /\ call[c] # Null /\ call[c].pc = "start" /\ ~call[c].fresh
    /\ LET k == call[c]
           entry == b.cache[k.root.obj]
       IN  /\ entry # Null /\ entry.gen = k.gen
           /\ result' = [result EXCEPT ![c] = Answer(k, entry.nodes, entry.complete)]
           /\ held' = Issue(entry.nodes)
    /\ SetCall(c, Null)
    /\ UNCHANGED <<provider, wire, listening, b, counters, lost, unsound>>

\* walk, up to the read: limits, the objects already seen, and the edge.  The
\* reference becomes a handle of the incarnation known now (refID).
Enter(c) ==
    /\ call[c] # Null /\ call[c].pc = "walk" /\ call[c].todo # <<>>
    /\ LET k == call[c]
           ref == Head(k.todo)
           tracked == Track(b, ref.obj)
           h == Handle(tracked, ref.obj)
           rest == [k EXCEPT !.todo = Tail(@)]
       IN  IF k.kind = "snapshot" /\ Cardinality(Visited(k)) >= MaxNodes
           THEN SetCall(c, [rest EXCEPT !.truncated = TRUE]) /\ UNCHANGED b
           ELSE IF ref.depth > Reach(k.kind)
           THEN SetCall(c, [rest EXCEPT !.truncated = TRUE, !.warned = TRUE]) /\ UNCHANGED b
           ELSE IF ref.obj \in k.seen
           THEN SetCall(c, rest) /\ b' = tracked
           ELSE /\ b' = IF k.kind = "snapshot" THEN RecordParent(tracked, h, ref.parent)
                        ELSE tracked
                /\ SetCall(c, [rest EXCEPT !.pc = "read", !.seen = @ \cup {ref.obj},
                             !.cur = [id |-> h, parent |-> ref.parent, depth |-> ref.depth]])
    /\ UNCHANGED <<provider, wire, listening, result, held, counters, lost, unsound>>

\* readNodeWithCache: what the cache or the provider says of the object, and
\* empty properties when neither knows it.
NodeRead(k) ==
    LET o == k.cur.id.obj
        parent == IF k.cur.parent = Null THEN Null ELSE k.cur.parent.obj
    IN  IF ~k.fresh /\ b.items[o] # Null
        THEN Node(k.cur.id, parent, b.items[o].ver, b.items[o].count)
        ELSE Node(k.cur.id, parent, IF Exists(o) THEN ver[o] ELSE Null, Cardinality(Kids(tree, o)))

\* Where a fresh read fails, a snapshot has a warning and a resolution fails
\* (windowCandidatesFresh, FindApplicationFresh).
Tolerated(k, node) == k.kind = "snapshot" \/ node.ver # Null

Read(c) ==
    /\ call[c] # Null /\ call[c].pc \in {"start", "read"}
    /\ LET k == call[c]
           o == k.cur.id.obj
           node == NodeRead(k)
           linked == IF k.cur.parent = Null \/ k.nodes[k.cur.parent.obj] = Null THEN k.nodes
                     ELSE [k.nodes EXCEPT ![k.cur.parent.obj].kids = @ \cup {o}]
           deeper == IF k.kind = "snapshot" THEN node.count > 0 ELSE k.cur.depth < Reach(k.kind)
           took == [k EXCEPT !.nodes = [linked EXCEPT ![o] = node],
                             !.warned = @ \/ (k.fresh /\ node.ver = Null),
                             !.pc = IF deeper THEN "children" ELSE "walk"]
       IN  IF Current(b, k.cur.id) /\ Tolerated(k, node) THEN SetCall(c, took)
           ELSE IF k.cur.parent = Null \/ k.kind # "snapshot" \/ b.gen # k.cur.id.gen
           THEN Fail(c, b.gen # k.cur.id.gen)
           ELSE SetCall(c, [k EXCEPT !.pc = "walk", !.warned = TRUE])
    /\ UNCHANGED <<provider, wire, listening, b, result, held, counters, lost, unsound>>

\* cachedChildren
CachedKids(o) ==
    IF Bus[o] \notin b.apps THEN {}
    ELSE {x \in Objects : b.items[x] # Null /\ b.items[x].parent = o}

\* childrenWithCache, Null when the object is stale or gone
ChildrenOf(k) ==
    LET h == k.cur.id
        cached == IF k.fresh \/ ~Current(b, h) THEN {} ELSE CachedKids(h.obj)
    IN  IF cached # {} THEN cached
        ELSE IF Current(b, h) /\ Exists(h.obj) THEN Kids(tree, h.obj) ELSE Null

Children(c) ==
    /\ call[c] # Null /\ call[c].pc = "children"
    /\ LET k == call[c]
           h == k.cur.id
           kids == ChildrenOf(k)
           refs == [i \in 1..Cardinality(kids) |->
                       Ref(SetToSeq(kids)[i], h, k.cur.depth + 1)]
       IN  IF kids # Null
           THEN SetCall(c, [k EXCEPT !.pc = "walk", !.todo = refs \o @,
                                 !.truncated = @ \/ Len(refs) # k.nodes[h.obj].count])
           ELSE IF b.gen # h.gen \/ k.kind # "snapshot" THEN Fail(c, b.gen # h.gen)
           ELSE SetCall(c, [k EXCEPT !.pc = "walk", !.warned = TRUE])
    /\ UNCHANGED <<provider, wire, listening, b, result, held, counters, lost, unsound>>

-----------------------------------------------------------------------------
(* Whether a dispatched signal intersects what was read.                    *)

\* Mutant of AdditionIntersects: what a fresh snapshot has read of the object or
\* of its parent is taken to be current.
AdditionIntersectsOthers(s, root, nodes, fresh) ==
    IF nodes[s.node] = Null /\ nodes[s.parent] = Null
    THEN Bus[root] = Registry \/ Bus[s.node] = Bus[root]
    ELSE ~fresh

\* cacheAdditionError
AdditionIntersects(s, root, nodes, fresh) ==
    LET in(o) == o # Null /\ nodes[o] # Null
    IN  IF ~in(s.node) /\ ~in(s.parent)
        THEN Bus[root] = Registry \/ Bus[s.node] = Bus[root]
        ELSE \/ ~fresh \/ ~in(s.node) \/ ~in(s.parent)
             \/ nodes[s.node].parent # s.parent
             \/ s.node \notin nodes[s.parent].kids
             \/ nodes[s.node].ver # s.item.ver \/ nodes[s.node].count # s.item.count

\* cacheRemovalError
RemovalIntersects(s, root, nodes) ==
    \/ \E o \in {s.node, s.parent, s.child} \ {Null} : nodes[o] # Null
    \/ s.parent = Null /\ Bus[s.node] = Bus[root]

\* observationChangeError
Intersects(change, root, isApp, nodes, fresh) ==
    LET s == change.sig
        in(o) == o # Null /\ nodes[o] # Null
    IN  \/ change.unknown
        \/ CASE s.kind = "add" -> AdditionIntersects(s, root, nodes, fresh)
             [] s.kind \in {"remove", "childRemove"} -> RemovalIntersects(s, root, nodes)
             [] OTHER ->
                   \/ in(s.node)
                   \/ s.kind = "create" /\ (Bus[root] = Registry \/ (isApp /\ Bus[s.node] = Bus[root]))

\* applicationResolutionChangesError
ApplicationIntersects(change, nodes) ==
    LET s == change.sig
        apps == {o \in Objects \ {Desk} : nodes[o] # Null}
    IN  \/ change.unknown
        \/ Desk \in {s.node, s.parent}
        \/ s.node \in apps \/ s.child \in apps
        \/ s.kind = "remove" /\ s.parent = Null /\ \E o \in apps : Bus[o] = Bus[s.node]

\* windowResolutionChangeError
WindowIntersects(change, nodes) ==
    LET s == change.sig
        seen == [nodes EXCEPT ![Desk] = Null]
    IN  \/ change.unknown
        \/ Desk \in {s.node, s.parent}
        \/ \E app \in AppRoots : seen[app] # Null /\ Intersects(change, app, TRUE, seen, TRUE)
        \/ s.kind = "childRemove" /\ seen[s.child] # Null

\* observationChangesErrorLocked and its two siblings
ObservationChanged(k) ==
    /\ b.rev # k.rev
    /\ \/ k.rev < b.floor
       \/ \E i \in DOMAIN b.history :
            LET change == b.history[i]
                root == k.root.obj
            IN  /\ change.rev > k.rev
                /\ CASE k.kind = "application" -> ApplicationIntersects(change, k.nodes)
                     [] k.kind = "window" -> WindowIntersects(change, k.nodes)
                     [] OTHER -> Intersects(change, root,
                                            root \in AppRoots /\ k.nodes[root].ver # Null,
                                            k.nodes, k.fresh)

\* A call ends with what it read, unless it may not be what there is.
Acceptable(k) ==
    ~b.down /\ b.gen = k.gen /\ Current(b, k.root) /\ ~ObservationChanged(k)

Conclude(c, kind, complete) ==
    LET k == call[c]
    IN  /\ k # Null /\ k.kind = kind /\ k.pc = "walk" /\ k.todo = <<>>
        /\ IF Acceptable(k)
           THEN /\ SetCall(c, Null)
                /\ result' = [result EXCEPT ![c] = Answer(k, k.nodes, complete)]
                /\ held' = Issue(k.nodes)
           ELSE /\ Fail(c, ~b.down /\ (b.gen # k.gen \/ ObservationChanged(k)))
                /\ UNCHANGED <<result, held>>
        /\ UNCHANGED <<provider, wire, listening, counters, lost, unsound>>

Whole(k) == ~k.truncated /\ ~k.warned

PublishSnapshot(c) ==
    /\ Conclude(c, "snapshot", Whole(call[c]))
    /\ b' = IF Acceptable(call[c])
            THEN [b EXCEPT !.cache[call[c].root.obj] =
                     [gen |-> call[c].gen, nodes |-> call[c].nodes, complete |-> Whole(call[c])]]
            ELSE b

FindApplicationFresh(c) == Conclude(c, "application", TRUE) /\ UNCHANGED b
ResolveWindowFresh(c) == Conclude(c, "window", TRUE) /\ UNCHANGED b

-----------------------------------------------------------------------------
Init ==
    /\ world \in Worlds
    /\ tree = [o \in Objects |-> IF \E e \in world.start : e[1] = o
                                  THEN (CHOOSE e \in world.start : e[1] = o)[2] ELSE Null]
    /\ ver = [o \in Objects |-> 0]
    /\ inst = [o \in Objects |-> IF Exists(o) THEN 1 ELSE 0]
    /\ wire = <<>> /\ listening = TRUE
    /\ b = [gen |-> 1, rev |-> 0, down |-> FALSE, incomplete |-> FALSE,
            inc |-> [o \in Objects |-> IF o \in world.held THEN 1 ELSE 0],
            par |-> None, items |-> None, apps |-> {}, cache |-> None, history |-> <<>>, floor |-> 0]
    /\ call = [c \in Readers |-> Null] /\ result = [c \in Readers |-> Null]
    /\ held = {[h |-> [obj |-> o, gen |-> 1, inc |-> 1], inst |-> 1] : o \in world.held}
    /\ calls = 0 /\ changes = 0 /\ lost = 0 /\ unsound = {}

\* Calls without a root are about the desktop.
Roots == IF world.held = {} THEN {Handle(b, Desk)}
         ELSE {x.h : x \in {y \in held : y.h.obj \in world.roots}}

Caller(c) ==
    \/ \E kind \in {"snapshot", "application", "window"}, root \in Roots, fresh \in BOOLEAN :
          Begin(c, kind, root, fresh)
    \/ Abandon(c) \/ LoadBegin(c) \/ GetItems(c) \/ GetItemsFails(c) \/ PublishLoaded(c)
    \/ CacheHit(c) \/ Enter(c) \/ Read(c) \/ Children(c)
    \/ PublishSnapshot(c) \/ FindApplicationFresh(c) \/ ResolveWindowFresh(c)

Next ==
    \/ \E o \in Objects : Vanish(o) \/ Change(o)
    \/ \E e \in world.edges : Appear(e[1], e[2]) \/ Move(e[1], e[2])
    \/ Dispatch \/ Unlisten \/ Listen \/ Disconnect \/ Invalidate
    \/ \E c \in Readers : Caller(c)

Spec == Init /\ [][Next]_vars

-----------------------------------------------------------------------------
(* Properties.                                                              *)

\* Nothing has changed since the call returned, and every signal of a change
\* since it began has been dispatched.
CaughtUp(r) == wire = <<>> /\ r.rev = b.rev /\ r.lost = lost /\ ~b.down

Mirrors(r) ==
    LET root == r.root.obj
        scope == CASE r.kind = "application" -> {Desk} \cup Kids(tree, Desk)
                   [] r.kind = "window" -> {Desk} \cup Kids(tree, Desk)
                          \cup UNION {Kids(tree, o) : o \in Kids(tree, Desk)}
                   [] OTHER -> Below(tree, root)
    IN  /\ {o \in Objects : r.nodes[o] # Null} = scope
        /\ \A o \in scope : /\ r.nodes[o].ver = ver[o]
                            /\ o # root => r.nodes[o].parent = tree[o]

\* A fresh snapshot or resolution that reports itself complete is the tree as
\* it is, once every signal since its start has been dispatched, whatever
\* changed between its reads (observationChangeError, PublishSnapshot).
FreshIsCurrent ==
    \A c \in Readers :
        LET r == result[c] IN r # Null /\ r.fresh /\ r.complete /\ CaughtUp(r) => Mirrors(r)

\* A snapshot answered from the caches is the tree as well, unless a signal was
\* lost, GetItems failed or its reply overtook signals (loadCache).
CachedIsCurrent ==
    \A c \in Readers :
        LET r == result[c]
        IN  r # Null /\ ~r.fresh /\ r.complete /\ CaughtUp(r) /\ unsound = {} => Mirrors(r)

\* A handle that is current denotes the object it was returned for: neither a
\* removed object, nor another one that has its path since
\* (revokeObjectLocked).
HandlesKeepTheirObject ==
    wire = <<>> /\ lost = 0 /\ unsound = {} =>
        \A x \in held :
            Current(b, x.h) =>
                \/ inst[x.h.obj] = x.inst /\ Exists(x.h.obj)
                \/ \E a \in AppRoots : Bus[a] = Bus[x.h.obj] /\ ~Exists(a)

\* The copy of a provider's cache is what the provider would answer, once every
\* signal has been dispatched (publishLoadedCache, applyCacheAddLocked).
CopyIsRefreshed ==
    wire = <<>> /\ lost = 0 =>
        \A o \in Objects :
            Bus[o] \in b.apps =>
                b.items[o] = IF Exists(o) THEN Item(o) ELSE Null
=============================================================================
