------------------------ MODULE AccessibilityOwnerProofs ------------------------
(***************************************************************************)
(* Proofs about AccessibilityOwner for any finite set of calls and any     *)
(* number of backends.                                                     *)
(*                                                                         *)
(* A backend is closed by whoever returns the last lease of its retired    *)
(* generation, so that nobody uses it afterwards depends on active being   *)
(* the number of leases exactly (CountInv), over calls, refreshes of the   *)
(* capability and the holds of Close, and on every lease being one of a    *)
(* generation that nobody has begun to close (PinInv).                     *)
(***************************************************************************)
EXTENDS AccessibilityOwner, FiniteSetTheorems, TLAPS

-----------------------------------------------------------------------------
(* Where the calls are.                                                    *)

Refreshing == {"refresh", "write", "unpin"}
Pinning == {"write", "unpin"}

\* A reopen between opening its backend and publishing or closing it.
Opened == {"retire", "retired", "epoch", "check", "advance", "publish",
           "abandon", "capability", "unepoch", "drop"}

ReopenPlaces ==
    Opened \cup Refreshing
       \cup {"absent", "idle", "acquire", "open", "bind", "finish", "unlock",
             "release", "returned"}

SubPlaces ==
    Refreshing
       \cup {"absent", "idle", "open", "events", "unlease", "verify",
             "complete", "forward", "event", "deliver", "next", "finish",
             "end", "returned"}

Places ==
    ReopenPlaces \cup SubPlaces
       \cup {"precheck", "call", "postcheck", "bump"}

\* Where a refresh of the capability can go on.
Rets == {"none", "retired", "finish", "complete", "next"}

\* The places of the code at which a call of a's kind can be.
AtPlace(a, p) ==
    /\ a \in Queries \cup Streamers =>
          p \in {"absent", "idle", "precheck", "call", "postcheck", "release",
                 "returned"}
    /\ a \in Invalidators =>
          p \in {"absent", "idle", "acquire", "bump", "release", "unlock",
                 "returned"}
    /\ a \in Reopeners => p \in ReopenPlaces
    /\ a \in Closers => p \in {"absent", "idle", "retire", "returned"}
    /\ a \in Subs => p \in SubPlaces

\* Where a refresh of the capability goes on.
RetFits(a, p, t) ==
    p \in Refreshing =>
        /\ a \in Reopeners => t \in {"retired", "finish"}
        /\ a \in Subs => t \in {"complete", "next"}

\* The places at which a call holds the lease it was admitted with.
Leased(a, p) ==
    \/ a \in Queries \cup Streamers
       /\ p \in {"precheck", "call", "postcheck", "release"}
    \/ a \in Invalidators /\ p \in {"bump", "release"}
    \/ a \in Reopeners /\ p \notin {"absent", "idle", "acquire", "returned"}
    \/ a \in Subs /\ p \in {"events", "unlease"}

\* A reopen has a backend that is not published yet.
Unpublished(p, t) == p \in Opened \/ (p \in Refreshing /\ t = "retired")
Unpub(r) == Unpublished(pc[r], ret[r])

PlaceOK(a) ==
    /\ AtPlace(a, pc[a])
    /\ RetFits(a, pc[a], ret[a])
    /\ lease[a] # 0 <=> Leased(a, pc[a])
    /\ refLease[a] # 0 <=> pc[a] \in Pinning

PlaceInv == \A a \in Actors : PlaceOK(a)

-----------------------------------------------------------------------------
(* The invariant of leases and generations.                                *)

Known == 0..MaxGens

TypeOK ==
    /\ current \in Known /\ born \in Gens
    /\ retired \subseteq Gens /\ closeStarted \subseteq Gens
    /\ generations \subseteq Gens /\ genDone \subseteq Gens
    /\ active \in [Gens -> Nat] /\ backendCloses \in [Gens -> {0, 1}]
    /\ closed \in BOOLEAN /\ ownerDone \in {"nil", "open", "closed"}
    /\ pc \in [Actors -> Places] /\ ret \in [Actors -> Rets]
    /\ lease \in [Actors -> Known] /\ refLease \in [Actors -> Known]
    /\ closing \in [Actors -> Known]
    /\ fresh \in [Reopeners -> Known]
    /\ holds \in [Closers -> SUBSET Gens]
    /\ awaited \in [Closers -> SUBSET Gens]

\* Everything that keeps a generation's backend open: the leases of calls, the
\* leases of refreshes, and the holds of Close.
Users(f, g) == {a \in Actors : f[a] = g}
Leases(g) == Users(lease, g)
Refreshes(g) == Users(refLease, g)
Holders(g) == {c \in Closers : g \in holds[c]}

\* gen.active is the number of leases, and a retired generation that nobody
\* has begun to close has one.
CountInv ==
    \A g \in Gens :
        active[g] = Cardinality(Leases(g)) + Cardinality(Refreshes(g))
                       + Cardinality(Holders(g))
HeldInv == \A g \in retired \ closeStarted : active[g] >= 1

\* A lease is one of a generation that nobody has begun to close.
Open == generations \ closeStarted
PinInv ==
    /\ \A a \in Actors : /\ lease[a] # 0 => lease[a] \in Open
                         /\ refLease[a] # 0 => refLease[a] \in Open
    /\ \A c \in Closers : holds[c] \subseteq Open

\* A generation is retired, begun to be closed and done, in this order.
GenInv ==
    /\ genDone \subseteq closeStarted
    /\ closeStarted \subseteq retired
    /\ retired \subseteq generations \cup genDone
    /\ generations \cap genDone = {}
    /\ generations \cup genDone \subseteq 1..born
    /\ current # 0 => current \in generations \ retired /\ ~closed

\* One goroutine closes a generation, and it is not done before that.
ClosingInv ==
    \A a \in Actors : closing[a] # 0 =>
        /\ closing[a] \in closeStarted \cap generations
        /\ \A b \in Actors : closing[b] = closing[a] => a = b

\* A backend has been closed when its generation is begun to be closed, or
\* because it was never published.
BackendInv ==
    \A g \in Gens :
        /\ g \in closeStarted => backendCloses[g] = 1
        /\ g \in Open => backendCloses[g] = 0
        /\ g > born => backendCloses[g] = 0
        /\ g <= born =>
              \/ g \in generations \cup genDone
              \/ backendCloses[g] = 1
              \/ \E r \in Reopeners : Unpub(r) /\ fresh[r] = g

\* A backend that is not published belongs to one reopen.
FreshInv ==
    \A r \in Reopeners : Unpub(r) =>
        /\ fresh[r] \in 1..born
        /\ fresh[r] \notin generations \cup genDone
        /\ backendCloses[fresh[r]] = 0
        /\ \A q \in Reopeners :
              Unpub(q) /\ fresh[q] = fresh[r] => q = r

\* One call of Close leads; it waits for every generation there is, and when
\* it has ended there is none.
CloserInv ==
    /\ closed <=> ownerDone # "nil"
    /\ ownerDone = "closed" => generations = {} /\ closeErr = closeErrors
    /\ \A c \in Closers :
          /\ pc[c] = "retire" => ownerDone = "open" /\ generations \subseteq awaited[c]
          /\ pc[c] = "returned" => ownerDone = "closed"
          /\ pc[c] # "retire" => holds[c] = {}
          /\ \A d \in Closers : pc[c] = "retire" /\ pc[d] = "retire" => c = d

IInv ==
    /\ TypeOK /\ PlaceInv /\ CountInv /\ HeldInv /\ PinInv /\ GenInv
    /\ ClosingInv /\ BackendInv /\ FreshInv /\ CloserInv

-----------------------------------------------------------------------------
(* Counting leases.                                                        *)

\* The sets of users are finite, so their sizes are numbers.
LEMMA UsersFinite ==
    ASSUME NEW f, NEW g
    PROVE  IsFiniteSet(Users(f, g)) /\ Cardinality(Users(f, g)) \in Nat
  BY ActorsFinite, FS_Subset, FS_CardinalityType DEF Users

\* The holds of Close on a generation are finitely many.
LEMMA HoldersFinite ==
    ASSUME NEW g
    PROVE  IsFiniteSet(Holders(g)) /\ Cardinality(Holders(g)) \in Nat
  BY ActorsFinite, FS_Subset, FS_CardinalityType DEF Holders, Actors

\* A call that had no lease takes one: its generation has one user more.
LEMMA UserAdded ==
    ASSUME NEW f \in [Actors -> Known], NEW a \in Actors, NEW g \in Gens, f[a] = 0,
           NEW e, e = [f EXCEPT ![a] = g]
    PROVE  /\ Cardinality(Users(e, g)) = Cardinality(Users(f, g)) + 1
           /\ \A h \in Gens \ {g} : Users(e, h) = Users(f, h)
  <1>1. Users(e, g) = Users(f, g) \cup {a} /\ a \notin Users(f, g)
    BY DEF Users, Gens, Known
  <1>2. \A h \in Gens \ {g} : Users(e, h) = Users(f, h)
    BY DEF Users, Gens, Known
  <1> QED BY <1>1, <1>2, UsersFinite, FS_AddElement, ZenonT(30)

\* The count of a generation that has a user is positive, and if it is one
\* there is no other user.
LEMMA LastUser ==
    ASSUME CountInv, NEW g \in Gens
    PROVE  /\ \A a \in Actors : lease[a] = g =>
                 active[g] >= 1 /\ (active[g] = 1 => /\ Leases(g) = {a}
                                                     /\ Refreshes(g) = {} /\ Holders(g) = {})
           /\ \A a \in Actors : refLease[a] = g =>
                 active[g] >= 1 /\ (active[g] = 1 => /\ Refreshes(g) = {a}
                                                     /\ Leases(g) = {} /\ Holders(g) = {})
           /\ \A c \in Closers : g \in holds[c] =>
                 active[g] >= 1 /\ (active[g] = 1 => /\ Holders(g) = {c}
                                                     /\ Leases(g) = {} /\ Refreshes(g) = {})
  <1> DEFINE L == Cardinality(Leases(g))
             R == Cardinality(Refreshes(g))
             H == Cardinality(Holders(g))
  <1>1. /\ L \in Nat /\ R \in Nat /\ H \in Nat
        /\ IsFiniteSet(Leases(g)) /\ IsFiniteSet(Refreshes(g)) /\ IsFiniteSet(Holders(g))
    BY UsersFinite, HoldersFinite DEF Leases, Refreshes
  <1>2. /\ L = 0 <=> Leases(g) = {}
        /\ R = 0 <=> Refreshes(g) = {}
        /\ H = 0 <=> Holders(g) = {}
    BY <1>1, FS_EmptySet
  <1>3. /\ L = 1 => \E x : Leases(g) = {x}
        /\ R = 1 => \E x : Refreshes(g) = {x}
        /\ H = 1 => \E x : Holders(g) = {x}
    BY <1>1, FS_Singleton
  <1>4. active[g] = L + R + H
    BY DEF CountInv
  <1> HIDE DEF L, R, H
  <1>5. /\ \A a \in Actors : lease[a] = g => a \in Leases(g)
        /\ \A a \in Actors : refLease[a] = g => a \in Refreshes(g)
        /\ \A c \in Closers : g \in holds[c] => c \in Holders(g)
    BY DEF Leases, Refreshes, Holders, Users
  <1>6. ASSUME L >= 1 PROVE active[g] >= 1 /\ (active[g] = 1 => L = 1 /\ R = 0 /\ H = 0)
    BY <1>1, <1>4, <1>6
  <1>7. ASSUME R >= 1 PROVE active[g] >= 1 /\ (active[g] = 1 => R = 1 /\ L = 0 /\ H = 0)
    BY <1>1, <1>4, <1>7
  <1>8. ASSUME H >= 1 PROVE active[g] >= 1 /\ (active[g] = 1 => H = 1 /\ R = 0 /\ L = 0)
    BY <1>1, <1>4, <1>8
  <1>9. ASSUME NEW a \in Actors, lease[a] = g
        PROVE  active[g] >= 1 /\ (active[g] = 1 => /\ Leases(g) = {a}
                                                   /\ Refreshes(g) = {} /\ Holders(g) = {})
    <2>1. a \in Leases(g) /\ L >= 1
      BY <1>1, <1>2, <1>5, <1>9
    <2> QED BY <2>1, <1>6, <1>2, <1>3
  <1>10. ASSUME NEW a \in Actors, refLease[a] = g
         PROVE  active[g] >= 1 /\ (active[g] = 1 => /\ Refreshes(g) = {a}
                                                    /\ Leases(g) = {} /\ Holders(g) = {})
    <2>1. a \in Refreshes(g) /\ R >= 1
      BY <1>1, <1>2, <1>5, <1>10
    <2> QED BY <2>1, <1>7, <1>2, <1>3
  <1>11. ASSUME NEW c \in Closers, g \in holds[c]
         PROVE  active[g] >= 1 /\ (active[g] = 1 => /\ Holders(g) = {c}
                                                    /\ Leases(g) = {} /\ Refreshes(g) = {})
    <2>1. c \in Holders(g) /\ H >= 1
      BY <1>1, <1>2, <1>5, <1>11
    <2> QED BY <2>1, <1>8, <1>2, <1>3
  <1> QED BY <1>9, <1>10, <1>11

\* A generation gains n users (n = -1: it loses one), and the count follows.
LEMMA CountFollows ==
    ASSUME TypeOK, CountInv, NEW g \in Gens, NEW n \in {1, -1},
           active' = [active EXCEPT ![g] = @ + n],
           \A h \in Gens \ {g} : /\ Leases(h)' = Leases(h) /\ Refreshes(h)' = Refreshes(h)
                                 /\ Holders(h)' = Holders(h),
           Cardinality(Leases(g)') + Cardinality(Refreshes(g)') + Cardinality(Holders(g)')
             = Cardinality(Leases(g)) + Cardinality(Refreshes(g)) + Cardinality(Holders(g)) + n
    PROVE  CountInv'
  <1>1. \A h \in Gens \ {g} : active'[h] = Cardinality(Leases(h)') + Cardinality(Refreshes(h)')
                                              + Cardinality(Holders(h)')
    BY DEF CountInv, TypeOK
  <1>2. active[g] = Cardinality(Leases(g)) + Cardinality(Refreshes(g)) + Cardinality(Holders(g))
    BY DEF CountInv
  <1>3. active'[g] = active[g] + n
    BY DEF TypeOK
  <1>4. active'[g] = Cardinality(Leases(g)') + Cardinality(Refreshes(g)')
                        + Cardinality(Holders(g)')
    BY <1>2, <1>3
  <1> QED BY <1>1, <1>4 DEF CountInv

\* The three sizes are numbers.
LEMMA SizesAreNumbers ==
    ASSUME NEW g
    PROVE  /\ Cardinality(Leases(g)) \in Nat /\ Cardinality(Refreshes(g)) \in Nat
           /\ Cardinality(Holders(g)) \in Nat
  BY UsersFinite, HoldersFinite DEF Leases, Refreshes

\* The count when a call takes its lease.
LEMMA LeaseCounted ==
    ASSUME TypeOK, CountInv, NEW a \in Actors, NEW g \in Gens, lease[a] = 0,
           lease' = [lease EXCEPT ![a] = g], active' = [active EXCEPT ![g] = @ + 1],
           UNCHANGED <<refLease, holds>>
    PROVE  CountInv'
  <1>1. lease \in [Actors -> Known]
    BY DEF TypeOK
  <1>2. \A e : e = [lease EXCEPT ![a] = g] =>
           /\ Cardinality(Users(e, g)) = Cardinality(Users(lease, g)) + 1
           /\ \A h \in Gens \ {g} : Users(e, h) = Users(lease, h)
    BY <1>1, UserAdded
  <1>3. /\ Cardinality(Leases(g)') = Cardinality(Leases(g)) + 1
        /\ \A h \in Gens \ {g} : Leases(h)' = Leases(h)
    BY <1>2 DEF Leases
  <1>4. \A h \in Gens : Refreshes(h)' = Refreshes(h) /\ Holders(h)' = Holders(h)
    BY DEF Refreshes, Holders, Users
  <1>5. Cardinality(Leases(g)') + Cardinality(Refreshes(g)') + Cardinality(Holders(g)')
          = Cardinality(Leases(g)) + Cardinality(Refreshes(g)) + Cardinality(Holders(g)) + 1
    <2>1. Refreshes(g)' = Refreshes(g) /\ Holders(g)' = Holders(g)
      BY <1>4
    <2> QED BY <1>3, <2>1, SizesAreNumbers
  <1> QED BY <1>3, <1>4, <1>5, CountFollows

\* The count when a refresh of the capability takes its lease.
LEMMA RefreshCounted ==
    ASSUME TypeOK, CountInv, NEW a \in Actors, NEW g \in Gens, refLease[a] = 0,
           refLease' = [refLease EXCEPT ![a] = g], active' = [active EXCEPT ![g] = @ + 1],
           UNCHANGED <<lease, holds>>
    PROVE  CountInv'
  <1>1. refLease \in [Actors -> Known]
    BY DEF TypeOK
  <1>2. \A e : e = [refLease EXCEPT ![a] = g] =>
           /\ Cardinality(Users(e, g)) = Cardinality(Users(refLease, g)) + 1
           /\ \A h \in Gens \ {g} : Users(e, h) = Users(refLease, h)
    BY <1>1, UserAdded
  <1>3. /\ Cardinality(Refreshes(g)') = Cardinality(Refreshes(g)) + 1
        /\ \A h \in Gens \ {g} : Refreshes(h)' = Refreshes(h)
    BY <1>2 DEF Refreshes
  <1>4. \A h \in Gens : Leases(h)' = Leases(h) /\ Holders(h)' = Holders(h)
    BY DEF Leases, Holders, Users
  <1>5. Cardinality(Leases(g)') + Cardinality(Refreshes(g)') + Cardinality(Holders(g)')
          = Cardinality(Leases(g)) + Cardinality(Refreshes(g)) + Cardinality(Holders(g)) + 1
    <2>1. Leases(g)' = Leases(g) /\ Holders(g)' = Holders(g)
      BY <1>4
    <2> QED BY <1>3, <2>1, SizesAreNumbers
  <1> QED BY <1>3, <1>4, <1>5, CountFollows

\* The count when a call gives its lease back.
LEMMA LeaseUncounted ==
    ASSUME TypeOK, CountInv, NEW a \in Actors, NEW g \in Gens, lease[a] = g,
           lease' = [lease EXCEPT ![a] = 0], active' = [active EXCEPT ![g] = @ - 1],
           UNCHANGED <<refLease, holds>>
    PROVE  /\ CountInv' /\ active[g] >= 1
           /\ active[g] = 1 =>
                 Leases(g)' = {} /\ Refreshes(g)' = {} /\ Holders(g)' = {}
  <1>1. lease \in [Actors -> Known]
    BY DEF TypeOK
  <1>2. /\ Leases(g)' = Leases(g) \ {a} /\ a \in Leases(g)
        /\ \A h \in Gens \ {g} : Leases(h)' = Leases(h)
    BY <1>1 DEF Leases, Users, Gens, Known
  <1>3. /\ Cardinality(Leases(g)') = Cardinality(Leases(g)) - 1
        /\ \A h \in Gens \ {g} : Leases(h)' = Leases(h)
    <2>1. IsFiniteSet(Leases(g))
      BY UsersFinite DEF Leases
    <2> QED BY <1>2, <2>1, FS_RemoveElement
  <1>4. \A h \in Gens : Refreshes(h)' = Refreshes(h) /\ Holders(h)' = Holders(h)
    BY DEF Refreshes, Holders, Users
  <1>5. Cardinality(Leases(g)') + Cardinality(Refreshes(g)') + Cardinality(Holders(g)')
          = Cardinality(Leases(g)) + Cardinality(Refreshes(g)) + Cardinality(Holders(g)) + (-1)
    <2>1. Refreshes(g)' = Refreshes(g) /\ Holders(g)' = Holders(g)
      BY <1>4
    <2> QED BY <1>3, <2>1, SizesAreNumbers
  <1>6. active' = [active EXCEPT ![g] = @ + (-1)]
    <2>1. active[g] \in Nat
      BY DEF TypeOK
    <2>2. active[g] - 1 = active[g] + (-1)
      BY <2>1
    <2> QED BY <2>2
  <1>7. CountInv'
    BY <1>3, <1>4, <1>5, <1>6, CountFollows
  <1>8. active[g] >= 1 /\ (active[g] = 1 => Leases(g) = {a} /\ Refreshes(g) = {} /\ Holders(g) = {})
    BY LastUser
  <1>9. Leases(g) = {a} => Leases(g)' = {}
    BY <1>1 DEF Leases, Users, Gens
  <1> QED BY <1>4, <1>7, <1>8, <1>9

\* The count when a refresh gives its lease back.
LEMMA RefreshUncounted ==
    ASSUME TypeOK, CountInv, NEW a \in Actors, NEW g \in Gens, refLease[a] = g,
           refLease' = [refLease EXCEPT ![a] = 0], active' = [active EXCEPT ![g] = @ - 1],
           UNCHANGED <<lease, holds>>
    PROVE  /\ CountInv' /\ active[g] >= 1
           /\ active[g] = 1 =>
                 Leases(g)' = {} /\ Refreshes(g)' = {} /\ Holders(g)' = {}
  <1>1. refLease \in [Actors -> Known]
    BY DEF TypeOK
  <1>2. /\ Refreshes(g)' = Refreshes(g) \ {a} /\ a \in Refreshes(g)
        /\ \A h \in Gens \ {g} : Refreshes(h)' = Refreshes(h)
    BY <1>1 DEF Refreshes, Users, Gens, Known
  <1>3. /\ Cardinality(Refreshes(g)') = Cardinality(Refreshes(g)) - 1
        /\ \A h \in Gens \ {g} : Refreshes(h)' = Refreshes(h)
    <2>1. IsFiniteSet(Refreshes(g))
      BY UsersFinite DEF Refreshes
    <2> QED BY <1>2, <2>1, FS_RemoveElement
  <1>4. \A h \in Gens : Leases(h)' = Leases(h) /\ Holders(h)' = Holders(h)
    BY DEF Leases, Holders, Users
  <1>5. Cardinality(Leases(g)') + Cardinality(Refreshes(g)') + Cardinality(Holders(g)')
          = Cardinality(Leases(g)) + Cardinality(Refreshes(g)) + Cardinality(Holders(g)) + (-1)
    <2>1. Leases(g)' = Leases(g) /\ Holders(g)' = Holders(g)
      BY <1>4
    <2> QED BY <1>3, <2>1, SizesAreNumbers
  <1>6. active' = [active EXCEPT ![g] = @ + (-1)]
    <2>1. active[g] \in Nat
      BY DEF TypeOK
    <2>2. active[g] - 1 = active[g] + (-1)
      BY <2>1
    <2> QED BY <2>2
  <1>7. CountInv'
    BY <1>3, <1>4, <1>5, <1>6, CountFollows
  <1>8. active[g] >= 1 /\ (active[g] = 1 => Refreshes(g) = {a} /\ Leases(g) = {} /\ Holders(g) = {})
    BY LastUser
  <1>9. Refreshes(g) = {a} => Refreshes(g)' = {}
    BY <1>1 DEF Refreshes, Users, Gens
  <1> QED BY <1>4, <1>7, <1>8, <1>9

\* The count when Close gives back one of its holds.
LEMMA HoldUncounted ==
    ASSUME TypeOK, CountInv, NEW c \in Closers, NEW g \in Gens, g \in holds[c],
           holds' = [holds EXCEPT ![c] = @ \ {g}], active' = [active EXCEPT ![g] = @ - 1],
           UNCHANGED <<lease, refLease>>
    PROVE  /\ CountInv' /\ active[g] >= 1
           /\ active[g] = 1 =>
                 Leases(g)' = {} /\ Refreshes(g)' = {} /\ Holders(g)' = {}
  <1>1. /\ holds'[c] = holds[c] \ {g}
        /\ \A d \in Closers \ {c} : holds'[d] = holds[d]
    BY DEF TypeOK
  <1>2. /\ Holders(g)' = Holders(g) \ {c} /\ c \in Holders(g)
        /\ \A h \in Gens \ {g} : Holders(h)' = Holders(h)
    BY <1>1 DEF Holders
  <1>3. Cardinality(Holders(g)') = Cardinality(Holders(g)) - 1
    BY <1>2, HoldersFinite, FS_RemoveElement
  <1>4. \A h \in Gens : Leases(h)' = Leases(h) /\ Refreshes(h)' = Refreshes(h)
    BY DEF Leases, Refreshes, Users
  <1>5. Cardinality(Leases(g)') + Cardinality(Refreshes(g)') + Cardinality(Holders(g)')
          = Cardinality(Leases(g)) + Cardinality(Refreshes(g)) + Cardinality(Holders(g)) + (-1)
    <2>1. Leases(g)' = Leases(g) /\ Refreshes(g)' = Refreshes(g)
      BY <1>4
    <2> QED BY <1>3, <2>1, SizesAreNumbers
  <1>6. active' = [active EXCEPT ![g] = @ + (-1)]
    <2>1. active[g] \in Nat
      BY DEF TypeOK
    <2>2. active[g] - 1 = active[g] + (-1)
      BY <2>1
    <2> QED BY <2>2
  <1>7. CountInv'
    BY <1>2, <1>4, <1>5, <1>6, CountFollows
  <1>8. active[g] >= 1 /\ (active[g] = 1 => Holders(g) = {c} /\ Leases(g) = {} /\ Refreshes(g) = {})
    BY LastUser
  <1> QED BY <1>2, <1>4, <1>7, <1>8

-----------------------------------------------------------------------------
(* Moving from place to place.                                             *)

\* What the invariant of leases and generations speaks of, but for places.
coreVars == <<current, retired, active, closeStarted, generations, genDone,
              closeErrors, closed, ownerDone, closeErr, born, backendCloses,
              lease, closing, refLease, fresh, holds, awaited>>

\* Only a moves, and only its ret may change.
Goes(a, to) ==
    /\ pc' = [pc EXCEPT ![a] = to] /\ to \in Places
    /\ ret' \in [Actors -> Rets]
    /\ \A b \in Actors \ {a} : ret'[b] = ret[b]

\* For the invariant the place q is as good as the place p.
SameRole(a, p, t, q, u) ==
    /\ AtPlace(a, q) /\ RetFits(a, q, u)
    /\ Leased(a, q) <=> Leased(a, p)
    /\ q \in Pinning <=> p \in Pinning
    /\ a \in Reopeners => (Unpublished(q, u) <=> Unpublished(p, t))
    /\ a \in Closers => q = p

\* The others stay where they are.
LEMMA OthersStay ==
    ASSUME TypeOK, PlaceInv, NEW a \in Actors, NEW to, Goes(a, to), PlaceOK(a)',
           \A b \in Actors \ {a} : lease'[b] = lease[b] /\ refLease'[b] = refLease[b]
    PROVE  /\ PlaceInv'
           /\ pc' \in [Actors -> Places]
           /\ pc'[a] = to
           /\ \A b \in Actors \ {a} : pc'[b] = pc[b] /\ Unpub(b)' = Unpub(b)
  <1>1. /\ pc' \in [Actors -> Places] /\ pc'[a] = to
        /\ \A b \in Actors \ {a} : pc'[b] = pc[b] /\ ret'[b] = ret[b]
    BY DEF TypeOK, Goes
  <1>2. \A b \in Actors \ {a} : PlaceOK(b)' = PlaceOK(b) /\ Unpub(b)' = Unpub(b)
    BY <1>1 DEF PlaceOK, Unpub
  <1> QED BY <1>1, <1>2 DEF PlaceInv

\* Unless a's role changes, what is said of reopens and closers stays true.
LEMMA RolesStay ==
    ASSUME TypeOK, PlaceInv, NEW a \in Actors, NEW to, Goes(a, to),
           SameRole(a, pc[a], ret[a], to, ret'[a])
    PROVE  /\ \A r \in Reopeners : Unpub(r)' = Unpub(r)
           /\ \A c \in Closers : pc'[c] = pc[c]
  <1>1. Reopeners \subseteq Actors /\ Closers \subseteq Actors
    BY DEF Actors
  <1>2. pc'[a] = to /\ \A b \in Actors \ {a} : pc'[b] = pc[b] /\ ret'[b] = ret[b]
    BY DEF TypeOK, Goes
  <1>3. a \in Reopeners => Unpub(a)' = Unpub(a)
    BY <1>2 DEF SameRole, Unpub, Unpublished
  <1> QED BY <1>1, <1>2, <1>3 DEF SameRole, Unpub

\* The parts of the invariant that see places only through roles.
LEMMA PartsKept ==
    ASSUME BackendInv, FreshInv, CloserInv, GenInv, HeldInv, ClosingInv,
           \A r \in Reopeners : Unpub(r)' = Unpub(r),
           \A c \in Closers : pc'[c] = pc[c],
           UNCHANGED <<current, retired, closeStarted, generations, genDone,
                       closeErrors, closed, ownerDone, closeErr, born,
                       backendCloses, closing, fresh, awaited>>
    PROVE  /\ BackendInv' /\ FreshInv' /\ GenInv' /\ ClosingInv'
           /\ (\A c \in Closers : holds'[c] = holds[c]) => CloserInv'
           /\ active' = active => HeldInv'
  <1>1. BackendInv'
    BY DEF BackendInv, Open
  <1>2. FreshInv'
    BY DEF FreshInv
  <1>3. GenInv' /\ ClosingInv'
    BY DEF GenInv, ClosingInv
  <1>4. (\A c \in Closers : holds'[c] = holds[c]) => CloserInv'
    BY DEF CloserInv
  <1>5. active' = active => HeldInv'
    BY DEF HeldInv
  <1> QED BY <1>1, <1>2, <1>3, <1>4, <1>5

\* A step that changes nothing but a's place, and not its role.
LEMMA QuietInv ==
    ASSUME IInv, NEW a \in Actors, NEW to, Goes(a, to), UNCHANGED coreVars,
           SameRole(a, pc[a], ret[a], to, ret'[a])
    PROVE  IInv'
  <1> USE DEF IInv, coreVars
  <1>1. PlaceOK(a)'
    <2>1. pc'[a] = to
      BY DEF TypeOK, Goes
    <2>2. PlaceOK(a)
      BY DEF PlaceInv
    <2> QED BY <2>1, <2>2 DEF PlaceOK, SameRole
  <1>2. PlaceInv' /\ pc' \in [Actors -> Places]
    BY <1>1, OthersStay
  <1>3. TypeOK'
    BY <1>2 DEF TypeOK, Goes
  <1>4. CountInv' /\ PinInv'
    BY DEF CountInv, Leases, Refreshes, Holders, Users, PinInv, Open
  <1>5. BackendInv' /\ FreshInv' /\ GenInv' /\ ClosingInv' /\ CloserInv' /\ HeldInv'
    BY RolesStay, PartsKept
  <1> QED BY <1>2, <1>3, <1>4, <1>5

-----------------------------------------------------------------------------
(* Leases are taken on the current generation.                             *)

\* What a lease leaves alone.
restVars == <<current, retired, closeStarted, generations, genDone,
              closeErrors, closed, ownerDone, closeErr, born, backendCloses,
              closing, fresh, holds, awaited>>

\* CanAcquire: what can be acquired is open, and counts of others stay.
LEMMA Acquirable ==
    ASSUME TypeOK, GenInv, CanAcquire
    PROVE  current \in Gens /\ current \in Open /\ current # 0
  BY DEF TypeOK, GenInv, CanAcquire, Open, Gens, Known

\* acquire and acquireGeneration: a call is admitted.
LEMMA LeaseTaken ==
    ASSUME IInv, NEW a \in Actors, NEW to, Goes(a, to), CanAcquire,
           lease[a] = 0, Pin(current), lease' = [lease EXCEPT ![a] = current],
           UNCHANGED restVars, refLease' = refLease,
           AtPlace(a, to), RetFits(a, to, ret'[a]), Leased(a, to),
           to \in Pinning <=> pc[a] \in Pinning,
           a \in Reopeners => Unpub(a)' = Unpub(a),
           a \notin Closers
    PROVE  IInv'
  <1> USE DEF IInv, restVars
  <1>1. PICK g \in Gens : g = current /\ g \in Open /\ g # 0
    BY Acquirable
  <1>2. /\ lease' \in [Actors -> Known] /\ lease'[a] = g
        /\ \A b \in Actors \ {a} : lease'[b] = lease[b]
    BY <1>1 DEF TypeOK, Gens, Known
  <1>3. PlaceOK(a)'
    <2>1. pc'[a] = to
      BY DEF TypeOK, Goes
    <2>2. PlaceOK(a)
      BY DEF PlaceInv
    <2> QED BY <1>1, <1>2, <2>1, <2>2 DEF PlaceOK
  <1>4. /\ PlaceInv' /\ pc' \in [Actors -> Places]
        /\ \A b \in Actors \ {a} : pc'[b] = pc[b] /\ Unpub(b)' = Unpub(b)
    BY <1>2, <1>3, OthersStay
  <1>5. /\ active' \in [Gens -> Nat] /\ active'[g] = active[g] + 1
        /\ \A h \in Gens \ {g} : active'[h] = active[h]
    BY <1>1 DEF TypeOK, Pin
  <1>6. TypeOK'
    BY <1>2, <1>4, <1>5 DEF TypeOK, Goes
  <1>7. CountInv'
    BY <1>1, LeaseCounted DEF Pin
  <1>8. PinInv'
    BY <1>1, <1>2 DEF PinInv, Open
  <1>9. HeldInv'
    <2>1. \A h \in Gens : active'[h] >= active[h]
      BY <1>5 DEF TypeOK
    <2> QED BY <2>1, <1>5 DEF HeldInv, TypeOK
  <1>10. BackendInv' /\ FreshInv' /\ GenInv' /\ ClosingInv' /\ CloserInv'
    <2>1. Reopeners \subseteq Actors /\ Closers \subseteq Actors
      BY DEF Actors
    <2>2. \A r \in Reopeners : Unpub(r)' = Unpub(r)
      BY <1>4, <2>1
    <2>3. \A c \in Closers : pc'[c] = pc[c]
      BY <1>4, <2>1
    <2> QED BY <2>2, <2>3, PartsKept
  <1> QED BY <1>4, <1>6, <1>7, <1>8, <1>9, <1>10

\* refreshCapabilities takes a lease of its own.
LEMMA RefreshTaken ==
    ASSUME IInv, NEW a \in Actors, NEW to, Goes(a, to), CanAcquire,
           refLease[a] = 0, Pin(current), refLease' = [refLease EXCEPT ![a] = current],
           UNCHANGED restVars, lease' = lease,
           AtPlace(a, to), RetFits(a, to, ret'[a]), Leased(a, to) <=> Leased(a, pc[a]),
           to \in Pinning,
           a \in Reopeners => Unpub(a)' = Unpub(a),
           a \notin Closers
    PROVE  IInv'
  <1> USE DEF IInv, restVars
  <1>1. PICK g \in Gens : g = current /\ g \in Open /\ g # 0
    BY Acquirable
  <1>2. /\ refLease' \in [Actors -> Known] /\ refLease'[a] = g
        /\ \A b \in Actors \ {a} : refLease'[b] = refLease[b]
    BY <1>1 DEF TypeOK, Gens, Known
  <1>3. PlaceOK(a)'
    <2>1. pc'[a] = to
      BY DEF TypeOK, Goes
    <2>2. PlaceOK(a)
      BY DEF PlaceInv
    <2> QED BY <1>1, <1>2, <2>1, <2>2 DEF PlaceOK
  <1>4. /\ PlaceInv' /\ pc' \in [Actors -> Places]
        /\ \A b \in Actors \ {a} : pc'[b] = pc[b] /\ Unpub(b)' = Unpub(b)
    BY <1>2, <1>3, OthersStay
  <1>5. /\ active' \in [Gens -> Nat] /\ active'[g] = active[g] + 1
        /\ \A h \in Gens \ {g} : active'[h] = active[h]
    BY <1>1 DEF TypeOK, Pin
  <1>6. TypeOK'
    BY <1>2, <1>4, <1>5 DEF TypeOK, Goes
  <1>7. CountInv'
    BY <1>1, RefreshCounted DEF Pin
  <1>8. PinInv'
    BY <1>1, <1>2 DEF PinInv, Open
  <1>9. HeldInv'
    <2>1. \A h \in Gens : active'[h] >= active[h]
      BY <1>5 DEF TypeOK
    <2> QED BY <2>1, <1>5 DEF HeldInv, TypeOK
  <1>10. BackendInv' /\ FreshInv' /\ GenInv' /\ ClosingInv' /\ CloserInv'
    <2>1. Reopeners \subseteq Actors /\ Closers \subseteq Actors
      BY DEF Actors
    <2>2. \A r \in Reopeners : Unpub(r)' = Unpub(r)
      BY <1>4, <2>1
    <2>3. \A c \in Closers : pc'[c] = pc[c]
      BY <1>4, <2>1
    <2> QED BY <2>2, <2>3, PartsKept
  <1> QED BY <1>4, <1>6, <1>7, <1>8, <1>9, <1>10

-----------------------------------------------------------------------------
(* Leases are returned.                                                    *)

\* releaseGeneration: the generation stays as open as before, or nobody has
\* it any more and its close begins.
LEMMA GenReleased ==
    ASSUME TypeOK, HeldInv, GenInv, ClosingInv, BackendInv, FreshInv,
           NEW a \in Actors, NEW g \in Gens, g \in Open, active[g] >= 1,
           closing[a] = 0, ReleaseGen(a, g),
           \A r \in Reopeners : Unpub(r)' = Unpub(r),
           UNCHANGED <<closed, born, fresh>>
    PROVE  /\ HeldInv' /\ GenInv' /\ ClosingInv' /\ BackendInv' /\ FreshInv'
           /\ active' \in [Gens -> Nat] /\ closeStarted' \subseteq Gens
           /\ backendCloses' \in [Gens -> {0, 1}] /\ closing' \in [Actors -> Known]
           /\ UNCHANGED <<current, retired, generations, genDone, closeErrors>>
           /\ closeStarted' = closeStarted \/ (closeStarted' = closeStarted \cup {g} /\ active[g] = 1)
  <1>1. /\ UNCHANGED <<current, retired, generations, genDone, closeErrors>>
        /\ active' = [active EXCEPT ![g] = @ - 1]
    BY DEF ReleaseGen
  <1>2. /\ active' \in [Gens -> Nat] /\ active'[g] = active[g] - 1
        /\ \A h \in Gens \ {g} : active'[h] = active[h]
    BY <1>1 DEF TypeOK
  <1>3. CASE ~LastLease(g)
    <2>1. UNCHANGED <<closeStarted, backendCloses, closing>>
      BY <1>3 DEF ReleaseGen
    <2>2. g \in retired => active[g] # 1
      BY <1>3 DEF LastLease, Open
    <2>3. HeldInv'
      <3> SUFFICES ASSUME NEW h \in retired \ closeStarted PROVE active'[h] >= 1
        BY <1>1, <2>1 DEF HeldInv
      <3>1. h \in Gens /\ active[h] >= 1
        BY DEF HeldInv, TypeOK
      <3>2. CASE h = g
        BY <3>1, <3>2, <1>2, <2>2 DEF TypeOK
      <3> QED BY <3>1, <3>2, <1>2
    <2>4. GenInv' /\ ClosingInv' /\ BackendInv' /\ FreshInv'
      BY <1>1, <2>1 DEF GenInv, ClosingInv, BackendInv, FreshInv, Open
    <2> QED BY <1>1, <1>2, <2>1, <2>3, <2>4 DEF TypeOK
  <1>4. CASE LastLease(g)
    <2>1. /\ closeStarted' = closeStarted \cup {g}
          /\ backendCloses' = [backendCloses EXCEPT ![g] = @ + 1]
          /\ closing' = [closing EXCEPT ![a] = g]
      BY <1>4 DEF ReleaseGen
    <2>2. g \in retired /\ g \notin closeStarted /\ g \in generations /\ active[g] = 1
      BY <1>4 DEF LastLease, Open
    <2>3. backendCloses[g] = 0
      BY DEF BackendInv
    <2>4. /\ backendCloses'[g] = 1 /\ backendCloses' \in [Gens -> {0, 1}]
          /\ \A h \in Gens \ {g} : backendCloses'[h] = backendCloses[h]
      BY <2>1, <2>3 DEF TypeOK
    <2>5. /\ closing'[a] = g /\ closing' \in [Actors -> Known]
          /\ \A b \in Actors \ {a} : closing'[b] = closing[b]
      BY <2>1 DEF TypeOK, Gens, Known
    <2>6. HeldInv'
      BY <1>1, <1>2, <2>1 DEF HeldInv, TypeOK
    <2>7. GenInv'
      BY <1>1, <2>1, <2>2 DEF GenInv
    <2>8. ClosingInv'
      <3>1. \A b \in Actors \ {a} : closing[b] # 0 => closing[b] # g
        BY <2>2 DEF ClosingInv
      <3> QED BY <1>1, <2>1, <2>2, <2>5, <3>1 DEF ClosingInv
    <2>9. BackendInv'
      <3> SUFFICES ASSUME NEW h \in Gens
                   PROVE  /\ h \in closeStarted' => backendCloses'[h] = 1
                          /\ h \in Open' => backendCloses'[h] = 0
                          /\ h > born => backendCloses'[h] = 0
                          /\ h <= born =>
                                \/ h \in generations \cup genDone
                                \/ backendCloses'[h] = 1
                                \/ \E r \in Reopeners : Unpub(r) /\ fresh[r] = h
        BY <1>1 DEF BackendInv
      <3>1. CASE h # g
        <4>1. backendCloses'[h] = backendCloses[h] /\ h \in closeStarted' => h \in closeStarted
          BY <3>1, <2>1, <2>4
        <4>2. h \in Open' => h \in Open
          BY <1>1, <2>1 DEF Open
        <4> QED BY <4>1, <4>2, <3>1, <2>1 , <2>4 DEF BackendInv
      <3>2. CASE h = g
        <4>1. g \in 1..born /\ born \in Gens
          BY <2>2 DEF GenInv, TypeOK
        <4>2. ~(g > born)
          BY <4>1, MaxGensPositive DEF Gens
        <4>3. g \notin Open'
          BY <2>1 DEF Open
        <4> QED BY <3>2, <4>2, <4>3, <2>2, <2>4
      <3> QED BY <3>1, <3>2
    <2>10. FreshInv'
      <3>1. \A r \in Reopeners : Unpub(r) => fresh[r] # g /\ fresh[r] \in 1..born
        BY <2>2 DEF FreshInv
      <3>2. born \in Gens
        BY DEF TypeOK
      <3>3. \A r \in Reopeners : Unpub(r) => fresh[r] # g /\ fresh[r] \in Gens
        BY <3>1, <3>2, MaxGensPositive DEF Gens
      <3> QED BY <1>1, <2>4, <3>3 DEF FreshInv
    <2> QED BY <1>1, <1>2, <2>1, <2>2, <2>4, <2>5, <2>6, <2>7, <2>8, <2>9, <2>10 DEF TypeOK
  <1> QED BY <1>3, <1>4

\* Users that stay have a generation that stays open.
LEMMA PinsStay ==
    ASSUME PinInv, NEW g \in Gens, generations' = generations,
           \/ closeStarted' = closeStarted
           \/ /\ closeStarted' = closeStarted \cup {g}
              /\ Leases(g)' = {} /\ Refreshes(g)' = {} /\ Holders(g)' = {},
           \A b \in Actors : lease'[b] \in {0, lease[b]} /\ refLease'[b] \in {0, refLease[b]},
           \A c \in Closers : holds'[c] \subseteq holds[c]
    PROVE  PinInv'
  <1>1. CASE closeStarted' = closeStarted
    BY <1>1 DEF PinInv, Open
  <1>2. CASE /\ closeStarted' = closeStarted \cup {g}
             /\ Leases(g)' = {} /\ Refreshes(g)' = {} /\ Holders(g)' = {}
    <2>1. Open' = Open \ {g}
      BY <1>2 DEF Open
    <2>2. \A b \in Actors : lease'[b] # g /\ refLease'[b] # g
      BY <1>2 DEF Leases, Refreshes, Users
    <2>3. \A c \in Closers : g \notin holds'[c]
      BY <1>2 DEF Holders
    <2> QED BY <2>1, <2>2, <2>3 DEF PinInv
  <1> QED BY <1>1, <1>2

\* The deferred lease.release() of a call.
LEMMA LeaseReturned ==
    ASSUME IInv, NEW a \in Actors, NEW to, Goes(a, to), closing[a] = 0,
           lease[a] # 0, ReleaseGen(a, lease[a]), lease' = [lease EXCEPT ![a] = 0],
           UNCHANGED <<refLease, holds, closed, ownerDone, closeErr, born, fresh, awaited>>,
           AtPlace(a, to), RetFits(a, to, ret'[a]), ~Leased(a, to),
           to \in Pinning <=> pc[a] \in Pinning,
           a \in Reopeners => Unpub(a)' = Unpub(a),
           a \notin Closers
    PROVE  IInv'
  <1> USE DEF IInv
  <1>1. PICK g \in Gens : g = lease[a] /\ g \in Open
    BY DEF TypeOK, PinInv, Open
  <1>2. /\ lease' \in [Actors -> Known] /\ lease'[a] = 0
        /\ \A b \in Actors \ {a} : lease'[b] = lease[b]
    BY DEF TypeOK, Known
  <1>3. PlaceOK(a)'
    <2>1. pc'[a] = to
      BY DEF TypeOK, Goes
    <2>2. PlaceOK(a)
      BY DEF PlaceInv
    <2> QED BY <1>2, <2>1, <2>2 DEF PlaceOK
  <1>4. /\ PlaceInv' /\ pc' \in [Actors -> Places]
        /\ \A b \in Actors \ {a} : pc'[b] = pc[b] /\ Unpub(b)' = Unpub(b)
    BY <1>2, <1>3, OthersStay
  <1>5. /\ \A r \in Reopeners : Unpub(r)' = Unpub(r)
        /\ \A c \in Closers : pc'[c] = pc[c]
    BY <1>4 DEF Actors
  <1>6. active' = [active EXCEPT ![g] = @ - 1]
    BY <1>1 DEF ReleaseGen
  <1>7. /\ CountInv' /\ active[g] >= 1
        /\ active[g] = 1 => Leases(g)' = {} /\ Refreshes(g)' = {} /\ Holders(g)' = {}
    BY <1>1, <1>6, LeaseUncounted
  <1>8. /\ HeldInv' /\ GenInv' /\ ClosingInv' /\ BackendInv' /\ FreshInv'
        /\ active' \in [Gens -> Nat] /\ closeStarted' \subseteq Gens
        /\ backendCloses' \in [Gens -> {0, 1}] /\ closing' \in [Actors -> Known]
        /\ UNCHANGED <<current, retired, generations, genDone, closeErrors>>
        /\ closeStarted' = closeStarted \/ (closeStarted' = closeStarted \cup {g} /\ active[g] = 1)
    BY <1>1, <1>5, <1>7, GenReleased
  <1>9. PinInv'
    BY <1>1, <1>2, <1>7, <1>8, PinsStay
  <1>10. CloserInv'
    BY <1>5, <1>8 DEF CloserInv
  <1>11. TypeOK'
    BY <1>2, <1>4, <1>8 DEF TypeOK, Goes
  <1> QED BY <1>4, <1>7, <1>8, <1>9, <1>10, <1>11

\* refreshCapabilities gives its lease back.
LEMMA RefreshReturned ==
    ASSUME IInv, NEW a \in Actors, NEW to, Goes(a, to), closing[a] = 0,
           refLease[a] # 0, ReleaseGen(a, refLease[a]), refLease' = [refLease EXCEPT ![a] = 0],
           UNCHANGED <<lease, holds, closed, ownerDone, closeErr, born, fresh, awaited>>,
           AtPlace(a, to), RetFits(a, to, ret'[a]), Leased(a, to) <=> Leased(a, pc[a]),
           to \notin Pinning,
           a \in Reopeners => Unpub(a)' = Unpub(a),
           a \notin Closers
    PROVE  IInv'
  <1> USE DEF IInv
  <1>1. PICK g \in Gens : g = refLease[a] /\ g \in Open
    BY DEF TypeOK, PinInv, Open
  <1>2. /\ refLease' \in [Actors -> Known] /\ refLease'[a] = 0
        /\ \A b \in Actors \ {a} : refLease'[b] = refLease[b]
    BY DEF TypeOK, Known
  <1>3. PlaceOK(a)'
    <2>1. pc'[a] = to
      BY DEF TypeOK, Goes
    <2>2. PlaceOK(a)
      BY DEF PlaceInv
    <2> QED BY <1>2, <2>1, <2>2 DEF PlaceOK
  <1>4. /\ PlaceInv' /\ pc' \in [Actors -> Places]
        /\ \A b \in Actors \ {a} : pc'[b] = pc[b] /\ Unpub(b)' = Unpub(b)
    BY <1>2, <1>3, OthersStay
  <1>5. /\ \A r \in Reopeners : Unpub(r)' = Unpub(r)
        /\ \A c \in Closers : pc'[c] = pc[c]
    BY <1>4 DEF Actors
  <1>6. active' = [active EXCEPT ![g] = @ - 1]
    BY <1>1 DEF ReleaseGen
  <1>7. /\ CountInv' /\ active[g] >= 1
        /\ active[g] = 1 => Leases(g)' = {} /\ Refreshes(g)' = {} /\ Holders(g)' = {}
    BY <1>1, <1>6, RefreshUncounted
  <1>8. /\ HeldInv' /\ GenInv' /\ ClosingInv' /\ BackendInv' /\ FreshInv'
        /\ active' \in [Gens -> Nat] /\ closeStarted' \subseteq Gens
        /\ backendCloses' \in [Gens -> {0, 1}] /\ closing' \in [Actors -> Known]
        /\ UNCHANGED <<current, retired, generations, genDone, closeErrors>>
        /\ closeStarted' = closeStarted \/ (closeStarted' = closeStarted \cup {g} /\ active[g] = 1)
    BY <1>1, <1>5, <1>7, GenReleased
  <1>9. PinInv'
    BY <1>1, <1>2, <1>7, <1>8, PinsStay
  <1>10. CloserInv'
    BY <1>5, <1>8 DEF CloserInv
  <1>11. TypeOK'
    BY <1>2, <1>4, <1>8 DEF TypeOK, Goes
  <1> QED BY <1>4, <1>7, <1>8, <1>9, <1>10, <1>11

\* Close gives back the hold of a generation whose events it has retired.
LEMMA CloseRetiresInv ==
    ASSUME IInv, NEW c \in Closers, NEW g \in Gens, CloseRetires(c, g)
    PROVE  IInv'
  <1> USE DEF IInv
  <1>1. /\ c \in Actors /\ closing[c] = 0 /\ pc[c] = "retire" /\ g \in holds[c] /\ g \in Open
        /\ ReleaseGen(c, g) /\ holds' = [holds EXCEPT ![c] = @ \ {g}]
        /\ UNCHANGED <<lease, refLease, closed, ownerDone, closeErr, born, fresh, awaited, ret>>
        /\ pc' = [pc EXCEPT ![c] = "retire"]
    BY DEF CloseRetires, Moves, Actors, PinInv, closeVars, refVars, reopenVars
  <1>2. pc' = pc
    BY <1>1 DEF TypeOK
  <1>3. /\ PlaceInv' /\ \A r \in Reopeners : Unpub(r)' = Unpub(r)
    BY <1>1, <1>2 DEF PlaceInv, PlaceOK, Unpub
  <1>4. /\ holds' \in [Closers -> SUBSET Gens]
        /\ \A d \in Closers : holds'[d] \subseteq holds[d]
    BY <1>1 DEF TypeOK
  <1>5. active' = [active EXCEPT ![g] = @ - 1]
    BY <1>1 DEF ReleaseGen
  <1>6. /\ CountInv' /\ active[g] >= 1
        /\ active[g] = 1 => Leases(g)' = {} /\ Refreshes(g)' = {} /\ Holders(g)' = {}
    BY <1>1, <1>5, HoldUncounted
  <1>7. /\ HeldInv' /\ GenInv' /\ ClosingInv' /\ BackendInv' /\ FreshInv'
        /\ active' \in [Gens -> Nat] /\ closeStarted' \subseteq Gens
        /\ backendCloses' \in [Gens -> {0, 1}] /\ closing' \in [Actors -> Known]
        /\ UNCHANGED <<current, retired, generations, genDone, closeErrors>>
        /\ closeStarted' = closeStarted \/ (closeStarted' = closeStarted \cup {g} /\ active[g] = 1)
    BY <1>1, <1>3, <1>6, GenReleased
  <1>8. PinInv'
    BY <1>1, <1>4, <1>6, <1>7, PinsStay
  <1>9. CloserInv'
    <2>1. \A d \in Closers : pc[d] # "retire" => holds'[d] = {}
      BY <1>4 DEF CloserInv
    <2> QED BY <1>1, <1>2, <1>7, <2>1 DEF CloserInv
  <1>10. TypeOK'
    BY <1>1, <1>2, <1>4, <1>7 DEF TypeOK
  <1> QED BY <1>3, <1>6, <1>7, <1>8, <1>9, <1>10

-----------------------------------------------------------------------------
(* Generations come and go.                                                *)

\* closeGeneration: the generation is done once its backend is closed.
LEMMA CloseGenerationInv ==
    ASSUME IInv, NEW a \in Actors, CloseGeneration(a)
    PROVE  IInv'
  <1> USE DEF IInv
  <1>1. PICK g \in Gens : g = closing[a] /\ g \in closeStarted /\ g \in generations
    BY DEF CloseGeneration, ClosingInv, TypeOK
  <1>2. /\ generations' = generations \ {g} /\ genDone' = genDone \cup {g}
        /\ closing' = [closing EXCEPT ![a] = 0] /\ closing[a] = g
        /\ UNCHANGED <<current, retired, active, closeStarted, closed, ownerDone,
                       closeErr, born, backendCloses, pc, lease, refLease, ret,
                       fresh, holds, awaited>>
    BY <1>1 DEF CloseGeneration, DoneWith, closeVars, backendVars, refVars,
                reopenVars, closerVars
  <1>3. generations' \cup genDone' = generations \cup genDone /\ Open' = Open
    BY <1>1, <1>2 DEF Open
  <1>4. TypeOK'
    <2>1. closing' \in [Actors -> Known]
      BY <1>2, MaxGensPositive DEF TypeOK, Known
    <2> QED BY <1>2, <2>1 DEF TypeOK
  <1>5. PlaceInv' /\ CountInv' /\ HeldInv'
    BY <1>2 DEF PlaceInv, PlaceOK, CountInv, Leases, Refreshes, Holders, Users, HeldInv
  <1>6. PinInv'
    BY <1>2, <1>3 DEF PinInv
  <1>7. GenInv'
    BY <1>1, <1>2 DEF GenInv
  <1>8. ClosingInv'
    <2>1. closing'[a] = 0 /\ \A b \in Actors \ {a} : closing'[b] = closing[b]
      BY <1>2 DEF TypeOK
    <2>2. \A b \in Actors \ {a} : closing[b] # 0 => closing[b] # g
      BY <1>1, <1>2 DEF ClosingInv
    <2>3. \A b \in Actors \ {a} : closing[b] # 0 =>
             closing[b] \in closeStarted' /\ closing[b] \in generations'
      BY <1>2, <2>2 DEF ClosingInv
    <2> QED BY <2>1, <2>3 DEF ClosingInv
  <1>9. \A r : Unpub(r)' = Unpub(r)
    BY <1>2 DEF Unpub
  <1>10. BackendInv'
    BY <1>2, <1>3, <1>9 DEF BackendInv
  <1>11. FreshInv'
    BY <1>2, <1>3, <1>9 DEF FreshInv
  <1>12. CloserInv'
    <2>1. ownerDone # "closed"
      BY <1>1 DEF CloserInv
    <2> QED BY <1>2, <2>1 DEF CloserInv
  <1> QED BY <1>4, <1>5, <1>6, <1>7, <1>8, <1>10, <1>11, <1>12

\* The places of a reopen while its backend is being opened.
LEMMA Opening ==
    ASSUME IInv, NEW r \in Reopeners, NEW to, Goes(r, to), pc[r] = "open",
           to \in {"retire", "unlock"},
           UNCHANGED <<lease, refLease, active, holds, ret>>
    PROVE  /\ PlaceInv' /\ pc' \in [Actors -> Places] /\ r \in Actors
           /\ ~Unpub(r) /\ (Unpub(r)' <=> to = "retire")
           /\ \A q \in Reopeners \ {r} : Unpub(q)' = Unpub(q)
           /\ \A c \in Closers : pc'[c] = pc[c]
           /\ CountInv'
  <1> USE DEF IInv
  <1>1. r \in Actors /\ r \notin Queries \cup Streamers \cup Invalidators \cup Closers \cup Subs
    BY KindsDiffer DEF Actors
  <1>2. pc'[r] = to
    BY <1>1 DEF TypeOK, Goes
  <1>3. PlaceOK(r)'
    <2>1. PlaceOK(r)
      BY <1>1 DEF PlaceInv
    <2> QED BY <1>1, <1>2, <2>1 DEF PlaceOK, AtPlace, RetFits, Leased, Pinning,
                                   Refreshing, ReopenPlaces, Opened
  <1>4. PlaceInv' /\ pc' \in [Actors -> Places]
        /\ \A b \in Actors \ {r} : pc'[b] = pc[b] /\ Unpub(b)' = Unpub(b)
    BY <1>1, <1>3, OthersStay
  <1>5. ~Unpub(r) /\ (Unpub(r)' <=> to = "retire")
    BY <1>2 DEF Unpub, Unpublished, Opened, Refreshing
  <1>6. CountInv'
    BY DEF CountInv, Leases, Refreshes, Holders, Users
  <1> QED BY <1>1, <1>4, <1>5, <1>6 DEF Actors

\* openFreshBackend: a backend is opened for a reopen.
LEMMA OpenFreshInv ==
    ASSUME IInv, NEW r \in Reopeners, OpenFresh(r)
    PROVE  IInv'
  <1> USE DEF IInv
  <1>1. PICK n \in Gens : n = born + 1 /\ n > born /\ \A m \in Gens : m <= n <=> m <= born \/ m = n
    <2>1. born + 1 \in Gens
      BY MaxGensPositive DEF OpenFresh, TypeOK, Gens
    <2>2. \A m \in Gens : m <= born + 1 <=> m <= born \/ m = born + 1
      BY MaxGensPositive DEF TypeOK, Gens
    <2> QED BY <2>1, <2>2, MaxGensPositive DEF TypeOK, Gens
  <1>2. /\ born' = n /\ fresh' = [fresh EXCEPT ![r] = n] /\ pc[r] = "open"
        /\ pc' = [pc EXCEPT ![r] = "retire"]
        /\ UNCHANGED <<current, retired, active, closeStarted, generations, genDone,
                       closeErrors, closed, ownerDone, closeErr, backendCloses,
                       lease, closing, refLease, ret, holds, awaited>>
    BY <1>1 DEF OpenFresh, Moves, ownerVars, closeVars, refVars, closerVars
  <1>3. Goes(r, "retire")
    <2>1. ret' = ret /\ ret \in [Actors -> Rets]
      BY <1>2 DEF TypeOK
    <2> QED BY <1>2, <2>1 DEF Goes, Places, ReopenPlaces, Opened
  <1>4. /\ PlaceInv' /\ pc' \in [Actors -> Places] /\ r \in Actors
        /\ ~Unpub(r) /\ Unpub(r)'
        /\ \A q \in Reopeners \ {r} : Unpub(q)' = Unpub(q)
        /\ \A c \in Closers : pc'[c] = pc[c]
        /\ CountInv'
    BY <1>2, <1>3, Opening
  <1>5. /\ fresh'[r] = n /\ fresh' \in [Reopeners -> Known]
        /\ \A q \in Reopeners \ {r} : fresh'[q] = fresh[q]
    BY <1>2 DEF TypeOK, Known, Gens
  <1>6. TypeOK'
    BY <1>2, <1>4, <1>5 DEF TypeOK
  <1>7. 1..born \subseteq 1..n /\ n \in 1..n /\ n \notin 1..born
    BY <1>1, MaxGensPositive DEF TypeOK, Gens
  <1>8. GenInv' /\ HeldInv' /\ PinInv' /\ ClosingInv'
    BY <1>2, <1>7 DEF GenInv, HeldInv, PinInv, ClosingInv, Open
  <1>9. n \notin generations \cup genDone /\ backendCloses[n] = 0
    BY <1>1, <1>7 DEF GenInv, BackendInv
  <1>10. BackendInv'
    <2> SUFFICES ASSUME NEW h \in Gens
                 PROVE  /\ h \in closeStarted => backendCloses[h] = 1
                        /\ h \in Open => backendCloses[h] = 0
                        /\ h > n => backendCloses[h] = 0
                        /\ h <= n =>
                              \/ h \in generations \cup genDone
                              \/ backendCloses[h] = 1
                              \/ \E q \in Reopeners : Unpub(q)' /\ fresh'[q] = h
      BY <1>2 DEF BackendInv, Open
    <2>1. h > n => h > born
      BY <1>1, MaxGensPositive DEF TypeOK, Gens
    <2>2. h <= n => h <= born \/ h = n
      BY <1>1
    <2>3. (\E q \in Reopeners : Unpub(q) /\ fresh[q] = h)
             => \E q \in Reopeners : Unpub(q)' /\ fresh'[q] = h
      BY <1>4, <1>5
    <2>4. h = n => \E q \in Reopeners : Unpub(q)' /\ fresh'[q] = h
      BY <1>4, <1>5
    <2> QED BY <2>1, <2>2, <2>3, <2>4 DEF BackendInv
  <1>11. FreshInv'
    <2>1. \A q \in Reopeners \ {r} : Unpub(q) => fresh[q] \in 1..n /\ fresh[q] # n
      BY <1>7 DEF FreshInv
    <2> QED BY <1>2, <1>4, <1>5, <1>7, <1>9, <2>1 DEF FreshInv
  <1>12. CloserInv'
    BY <1>2, <1>4 DEF CloserInv
  <1> QED BY <1>4, <1>6, <1>8, <1>10, <1>11, <1>12

\* openFreshBackend: a backend that came with an error is closed.
LEMMA OpenFailsWithBackendInv ==
    ASSUME IInv, NEW r \in Reopeners, OpenFailsWithBackend(r)
    PROVE  IInv'
  <1> USE DEF IInv
  <1>1. PICK n \in Gens : n = born + 1 /\ n > born /\ \A m \in Gens : m <= n <=> m <= born \/ m = n
    <2>1. born + 1 \in Gens
      BY MaxGensPositive DEF OpenFailsWithBackend, TypeOK, Gens
    <2>2. \A m \in Gens : m <= born + 1 <=> m <= born \/ m = born + 1
      BY MaxGensPositive DEF TypeOK, Gens
    <2> QED BY <2>1, <2>2, MaxGensPositive DEF TypeOK, Gens
  <1>2. /\ born' = n /\ backendCloses' = [backendCloses EXCEPT ![n] = @ + 1]
        /\ pc[r] = "open" /\ pc' = [pc EXCEPT ![r] = "unlock"]
        /\ UNCHANGED <<current, retired, active, closeStarted, generations, genDone,
                       closeErrors, closed, ownerDone, closeErr, fresh,
                       lease, closing, refLease, ret, holds, awaited>>
    BY <1>1 DEF OpenFailsWithBackend, Moves, ownerVars, closeVars, refVars, reopenVars,
                closerVars
  <1>3. Goes(r, "unlock")
    <2>1. ret' = ret /\ ret \in [Actors -> Rets]
      BY <1>2 DEF TypeOK
    <2> QED BY <1>2, <2>1 DEF Goes, Places, ReopenPlaces, Opened
  <1>4. /\ PlaceInv' /\ pc' \in [Actors -> Places] /\ r \in Actors
        /\ ~Unpub(r) /\ ~Unpub(r)'
        /\ \A q \in Reopeners \ {r} : Unpub(q)' = Unpub(q)
        /\ \A c \in Closers : pc'[c] = pc[c]
        /\ CountInv'
    <2>1. UNCHANGED <<lease, refLease, active, holds, ret>> /\ pc[r] = "open"
      BY <1>2
    <2> QED BY <1>3, <2>1, Opening
  <1>5. 1..born \subseteq 1..n /\ n \in 1..n /\ n \notin 1..born
    BY <1>1, MaxGensPositive DEF TypeOK, Gens
  <1>6. n \notin generations \cup genDone /\ backendCloses[n] = 0
    BY <1>1, <1>5 DEF GenInv, BackendInv
  <1>7. /\ backendCloses'[n] = 1 /\ backendCloses' \in [Gens -> {0, 1}]
        /\ \A h \in Gens \ {n} : backendCloses'[h] = backendCloses[h]
    BY <1>2, <1>6 DEF TypeOK
  <1>8. TypeOK'
    BY <1>2, <1>4, <1>7 DEF TypeOK
  <1>9. GenInv' /\ HeldInv' /\ PinInv' /\ ClosingInv'
    BY <1>2, <1>5 DEF GenInv, HeldInv, PinInv, ClosingInv, Open
  <1>10. BackendInv'
    <2> SUFFICES ASSUME NEW h \in Gens
                 PROVE  /\ h \in closeStarted => backendCloses'[h] = 1
                        /\ h \in Open => backendCloses'[h] = 0
                        /\ h > n => backendCloses'[h] = 0
                        /\ h <= n =>
                              \/ h \in generations \cup genDone
                              \/ backendCloses'[h] = 1
                              \/ \E q \in Reopeners : Unpub(q)' /\ fresh[q] = h
      BY <1>2 DEF BackendInv, Open
    <2>1. h > n => h > born /\ h # n
      BY <1>1, MaxGensPositive DEF TypeOK, Gens
    <2>2. h <= n => h <= born \/ h = n
      BY <1>1
    <2>3. (\E q \in Reopeners : Unpub(q) /\ fresh[q] = h)
             => \E q \in Reopeners : Unpub(q)' /\ fresh[q] = h
      BY <1>4
    <2>4. n \notin Open /\ n \notin closeStarted
      BY <1>6 DEF Open, GenInv
    <2> QED BY <2>1, <2>2, <2>3, <2>4, <1>1, <1>7 DEF BackendInv
  <1>11. FreshInv'
    <2>1. \A q \in Reopeners : Unpub(q) => fresh[q] \in 1..n /\ fresh[q] # n /\ fresh[q] \in Gens
      <3>1. \A q \in Reopeners : Unpub(q) => fresh[q] \in 1..born
        BY DEF FreshInv
      <3>2. 1..born \subseteq Gens
        BY MaxGensPositive DEF TypeOK, Gens
      <3> QED BY <1>5, <3>1, <3>2
    <2>2. \A q \in Reopeners : Unpub(q)' => Unpub(q)
      BY <1>4
    <2>3. \A q \in Reopeners : Unpub(q) => backendCloses'[fresh[q]] = 0
      BY <1>7, <2>1 DEF FreshInv
    <2> QED BY <1>2, <2>1, <2>2, <2>3 DEF FreshInv
  <1>12. CloserInv'
    BY <1>2, <1>4 DEF CloserInv
  <1> QED BY <1>4, <1>8, <1>9, <1>10, <1>11, <1>12

\* DropFresh: the backend that was not published is closed.
LEMMA DropFreshInv ==
    ASSUME IInv, NEW r \in Reopeners, DropFresh(r)
    PROVE  IInv'
  <1> USE DEF IInv
  <1>1. r \in Actors /\ r \notin Queries \cup Streamers \cup Invalidators \cup Closers \cup Subs
    BY KindsDiffer DEF Actors
  <1>2. /\ pc[r] = "drop" /\ pc' = [pc EXCEPT ![r] = "unlock"]
        /\ backendCloses' = [backendCloses EXCEPT ![fresh[r]] = @ + 1]
        /\ fresh' = [fresh EXCEPT ![r] = 0]
        /\ UNCHANGED <<current, retired, active, closeStarted, generations, genDone,
                       closeErrors, closed, ownerDone, closeErr, born,
                       lease, closing, refLease, ret, holds, awaited>>
    BY DEF DropFresh, Moves, ownerVars, closeVars, refVars, closerVars
  <1>3. Goes(r, "unlock")
    <2>1. ret' = ret /\ ret \in [Actors -> Rets]
      BY <1>2 DEF TypeOK
    <2> QED BY <1>2, <2>1 DEF Goes, Places, ReopenPlaces
  <1>4. pc'[r] = "unlock" /\ Unpub(r) /\ ~Unpub(r)'
    BY <1>1, <1>2 DEF TypeOK, Unpub, Unpublished, Opened, Refreshing
  <1>5. PlaceOK(r)'
    <2>1. PlaceOK(r)
      BY <1>1 DEF PlaceInv
    <2> QED BY <1>1, <1>2, <1>4, <2>1 DEF PlaceOK, AtPlace, RetFits, Leased, Pinning,
                                   Refreshing, ReopenPlaces, Opened
  <1>6. PlaceInv' /\ pc' \in [Actors -> Places]
        /\ \A b \in Actors \ {r} : pc'[b] = pc[b] /\ Unpub(b)' = Unpub(b)
    <2>1. UNCHANGED <<lease, refLease>>
      BY <1>2
    <2> QED BY <1>1, <1>3, <1>5, <2>1, OthersStay
  <1>7. \A q \in Reopeners \ {r} : Unpub(q)' = Unpub(q)
    BY <1>6 DEF Actors
  <1>8. PICK n \in Gens : /\ n = fresh[r] /\ n \in 1..born /\ n \notin generations \cup genDone
                          /\ backendCloses[n] = 0
    <2>1. 1..born \subseteq Gens
      BY MaxGensPositive DEF TypeOK, Gens
    <2> QED BY <1>4, <2>1 DEF FreshInv
  <1>9. /\ backendCloses'[n] = 1 /\ backendCloses' \in [Gens -> {0, 1}]
        /\ \A h \in Gens \ {n} : backendCloses'[h] = backendCloses[h]
    BY <1>2, <1>8 DEF TypeOK
  <1>10. /\ fresh' \in [Reopeners -> Known]
         /\ \A q \in Reopeners \ {r} : fresh'[q] = fresh[q]
    BY <1>2, MaxGensPositive DEF TypeOK, Known
  <1>11. TypeOK'
    BY <1>2, <1>6, <1>9, <1>10 DEF TypeOK
  <1>12. CountInv' /\ GenInv' /\ HeldInv' /\ PinInv' /\ ClosingInv'
    BY <1>2 DEF CountInv, Leases, Refreshes, Holders, Users, GenInv, HeldInv, PinInv,
                ClosingInv, Open
  <1>13. BackendInv'
    <2>1. n \notin Open /\ n \notin closeStarted /\ ~(n > born)
      <3>1. n \notin Open /\ n \notin closeStarted
        BY <1>8 DEF Open, GenInv
      <3>2. ~(n > born)
        BY <1>8, MaxGensPositive DEF TypeOK, Gens
      <3> QED BY <3>1, <3>2
    <2>2. \A h \in Gens \ {n} : (\E q \in Reopeners : Unpub(q) /\ fresh[q] = h)
             => \E q \in Reopeners : Unpub(q)' /\ fresh'[q] = h
      BY <1>7, <1>8, <1>10
    <2> QED BY <1>2, <1>9, <2>1, <2>2 DEF BackendInv, Open
  <1>14. FreshInv'
    <2>1. \A q \in Reopeners : Unpub(q)' => q # r /\ Unpub(q) /\ fresh[q] # n
      BY <1>4, <1>7, <1>8 DEF FreshInv
    <2>2. \A q \in Reopeners : Unpub(q) => fresh[q] \in Gens
      <3>1. 1..born \subseteq Gens
        BY MaxGensPositive DEF TypeOK, Gens
      <3> QED BY <3>1 DEF FreshInv
    <2>3. \A q \in Reopeners : Unpub(q)' =>
             backendCloses'[fresh'[q]] = 0 /\ fresh'[q] = fresh[q]
      BY <1>9, <1>10, <2>1, <2>2 DEF FreshInv
    <2> QED BY <1>2, <2>1, <2>3 DEF FreshInv
  <1>15. CloserInv'
    <2>1. \A c \in Closers : pc'[c] = pc[c]
      BY <1>1, <1>6 DEF Actors
    <2> QED BY <1>2, <2>1 DEF CloserInv
  <1> QED BY <1>6, <1>11, <1>12, <1>13, <1>14, <1>15

\* Whoever has a lease on a generation keeps its count positive, so that it
\* may be retired.
LEMMA LeaseHolds ==
    ASSUME TypeOK, CountInv, PinInv, NEW a \in Actors, lease[a] # 0
    PROVE  lease[a] \in Gens /\ lease[a] \in Open /\ active[lease[a]] >= 1
  BY LastUser DEF TypeOK, PinInv, Open

\* abandonCurrentGeneration: the session is left without a backend.
LEMMA AbandonInv ==
    ASSUME IInv, NEW r \in Reopeners, Abandon(r), current = lease[r]
    PROVE  IInv'
  <1> USE DEF IInv
  <1>1. r \in Actors /\ r \notin Queries \cup Streamers \cup Invalidators \cup Closers \cup Subs
    BY KindsDiffer DEF Actors
  <1>2. /\ pc[r] = "abandon" /\ pc' = [pc EXCEPT ![r] = "capability"]
        /\ current' = 0 /\ retired' = retired \cup {lease[r]}
        /\ UNCHANGED <<active, closeStarted, generations, genDone,
                       closeErrors, closed, ownerDone, closeErr, born, backendCloses,
                       lease, closing, refLease, ret, fresh, holds, awaited>>
    BY DEF Abandon, Moves, RetirePinned, closeVars, backendVars, refVars, reopenVars,
           closerVars
  <1>3. Goes(r, "capability")
    <2>1. ret' = ret /\ ret \in [Actors -> Rets]
      BY <1>2 DEF TypeOK
    <2> QED BY <1>2, <2>1 DEF Goes, Places, ReopenPlaces, Opened
  <1>4. pc'[r] = "capability" /\ Unpub(r) /\ Unpub(r)'
    BY <1>1, <1>2 DEF TypeOK, Unpub, Unpublished, Opened, Refreshing
  <1>5. PlaceOK(r)' /\ lease[r] # 0
    <2>1. PlaceOK(r)
      BY <1>1 DEF PlaceInv
    <2> QED BY <1>1, <1>2, <1>4, <2>1 DEF PlaceOK, AtPlace, RetFits, Leased, Pinning,
                                   Refreshing, ReopenPlaces, Opened
  <1>6. PlaceInv' /\ pc' \in [Actors -> Places]
        /\ \A b \in Actors \ {r} : pc'[b] = pc[b] /\ Unpub(b)' = Unpub(b)
    <2>1. UNCHANGED <<lease, refLease>>
      BY <1>2
    <2> QED BY <1>1, <1>3, <1>5, <2>1, OthersStay
  <1>7. \A q \in Reopeners : Unpub(q)' <=> Unpub(q)
    BY <1>4, <1>6 DEF Actors
  <1>8. lease[r] \in Gens /\ lease[r] \in Open /\ active[lease[r]] >= 1
    BY <1>1, <1>5, LeaseHolds
  <1>9. TypeOK'
    BY <1>2, <1>6, <1>8, MaxGensPositive DEF TypeOK, Known
  <1>10. CountInv' /\ PinInv' /\ ClosingInv'
    BY <1>2 DEF CountInv, Leases, Refreshes, Holders, Users, PinInv, ClosingInv, Open
  <1>11. HeldInv' /\ GenInv'
    BY <1>2, <1>8 DEF HeldInv, GenInv, Open
  <1>12. BackendInv'
    BY <1>2, <1>7 DEF BackendInv, Open
  <1>13. FreshInv'
    BY <1>2, <1>7 DEF FreshInv
  <1>14. CloserInv'
    <2>1. \A c \in Closers : pc'[c] = pc[c]
      BY <1>1, <1>6 DEF Actors
    <2> QED BY <1>2, <2>1 DEF CloserInv
  <1> QED BY <1>6, <1>9, <1>10, <1>11, <1>12, <1>13, <1>14

\* publishReopenedBackend: the fresh backend becomes the current generation.
LEMMA PublishInv ==
    ASSUME IInv, NEW r \in Reopeners, Publish(r)
    PROVE  IInv'
  <1> USE DEF IInv
  <1>1. r \in Actors /\ r \notin Queries \cup Streamers \cup Invalidators \cup Closers \cup Subs
    BY KindsDiffer DEF Actors
  <1>2. /\ pc[r] = "publish" /\ pc' = [pc EXCEPT ![r] = "bind"]
        /\ ~closed
        /\ current' = fresh[r] /\ retired' = retired \cup {lease[r]}
        /\ generations' = generations \cup {fresh[r]}
        /\ UNCHANGED <<active, closeStarted, genDone,
                       closeErrors, closed, ownerDone, closeErr, born, backendCloses,
                       lease, closing, refLease, ret, fresh, holds, awaited>>
    BY DEF Publish, Moves, RetirePinned, MayPublish, StillCurrent, closeVars, backendVars,
           refVars, closerVars
  <1>3. Goes(r, "bind")
    <2>1. ret' = ret /\ ret \in [Actors -> Rets]
      BY <1>2 DEF TypeOK
    <2> QED BY <1>2, <2>1 DEF Goes, Places, ReopenPlaces
  <1>4. pc'[r] = "bind" /\ Unpub(r) /\ ~Unpub(r)'
    BY <1>1, <1>2 DEF TypeOK, Unpub, Unpublished, Opened, Refreshing
  <1>5. PlaceOK(r)' /\ lease[r] # 0
    <2>1. PlaceOK(r)
      BY <1>1 DEF PlaceInv
    <2> QED BY <1>1, <1>2, <1>4, <2>1 DEF PlaceOK, AtPlace, RetFits, Leased, Pinning,
                                   Refreshing, ReopenPlaces, Opened
  <1>6. PlaceInv' /\ pc' \in [Actors -> Places]
        /\ \A b \in Actors \ {r} : pc'[b] = pc[b] /\ Unpub(b)' = Unpub(b)
    <2>1. UNCHANGED <<lease, refLease>>
      BY <1>2
    <2> QED BY <1>1, <1>3, <1>5, <2>1, OthersStay
  <1>7. \A q \in Reopeners \ {r} : Unpub(q)' <=> Unpub(q)
    BY <1>6 DEF Actors
  <1>8. lease[r] \in Gens /\ lease[r] \in Open /\ active[lease[r]] >= 1
    BY <1>1, <1>5, LeaseHolds
  <1>9. PICK n \in Gens : /\ n = fresh[r] /\ n \in 1..born /\ n \notin generations \cup genDone
                          /\ backendCloses[n] = 0
    <2>1. 1..born \subseteq Gens
      BY MaxGensPositive DEF TypeOK, Gens
    <2> QED BY <1>4, <2>1 DEF FreshInv
  <1>10. n # 0 /\ n \in Known /\ n \notin retired' /\ n \notin closeStarted
    <2>1. n # 0 /\ n \in Known
      BY MaxGensPositive DEF Gens, Known
    <2>2. n \notin retired /\ n \notin closeStarted
      BY <1>9 DEF GenInv
    <2>3. n # lease[r]
      BY <1>8, <1>9 DEF Open
    <2> QED BY <1>2, <2>1, <2>2, <2>3
  <1>11. Open' = Open \cup {n}
    BY <1>2, <1>9, <1>10 DEF Open
  <1>12. TypeOK'
    BY <1>2, <1>6, <1>8, <1>9, <1>10 DEF TypeOK
  <1>13. CountInv' /\ PinInv' /\ ClosingInv'
    <2>1. CountInv' /\ ClosingInv'
      BY <1>2 DEF CountInv, Leases, Refreshes, Holders, Users, ClosingInv
    <2>2. PinInv'
      BY <1>2, <1>11 DEF PinInv
    <2> QED BY <2>1, <2>2
  <1>14. HeldInv'
    BY <1>2, <1>8 DEF HeldInv
  <1>15. GenInv'
    BY <1>2, <1>8, <1>9, <1>10 DEF GenInv, Open
  <1>16. BackendInv'
    <2>1. \A h \in Gens \ {n} : (\E q \in Reopeners : Unpub(q) /\ fresh[q] = h)
             => \E q \in Reopeners : Unpub(q)' /\ fresh[q] = h
      BY <1>7, <1>9
    <2>2. \A h \in Gens \ {n} : h \in generations' \cup genDone <=> h \in generations \cup genDone
      BY <1>2, <1>9
    <2>3. n \in generations' \cup genDone /\ n \notin closeStarted /\ ~(n > born)
      <3>1. ~(n > born)
        BY <1>9, MaxGensPositive DEF TypeOK, Gens
      <3> QED BY <1>2, <1>9, <1>10, <3>1
    <2> QED BY <1>2, <1>9, <1>11, <2>1, <2>2, <2>3 DEF BackendInv
  <1>17. FreshInv'
    <2>1. \A q \in Reopeners : Unpub(q)' => q # r /\ Unpub(q) /\ fresh[q] # n
      BY <1>4, <1>7, <1>9 DEF FreshInv
    <2> QED BY <1>2, <1>9, <2>1 DEF FreshInv
  <1>18. CloserInv'
    <2>1. \A c \in Closers : pc'[c] = pc[c]
      BY <1>1, <1>6 DEF Actors
    <2> QED BY <1>2, <2>1 DEF CloserInv
  <1> QED BY <1>6, <1>12, <1>13, <1>14, <1>15, <1>16, <1>17, <1>18

-----------------------------------------------------------------------------
(* Close.                                                                  *)

\* A call of Close moves; it has no lease and is no reopen.
LEMMA CloserMoves ==
    ASSUME TypeOK, PlaceInv, NEW c \in Closers, NEW to \in {"retire", "returned"},
           pc' = [pc EXCEPT ![c] = to], pc[c] \in {"idle", "retire"},
           UNCHANGED <<ret, lease, refLease>>
    PROVE  /\ PlaceInv' /\ pc' \in [Actors -> Places] /\ c \in Actors /\ pc'[c] = to
           /\ \A d \in Closers \ {c} : pc'[d] = pc[d]
           /\ \A r \in Reopeners : Unpub(r)' = Unpub(r)
  <1>1. c \in Actors /\ c \notin Queries \cup Streamers \cup Invalidators \cup Reopeners \cup Subs
    BY KindsDiffer DEF Actors
  <1>2. Goes(c, to)
    <2>1. ret' = ret /\ ret \in [Actors -> Rets]
      BY DEF TypeOK
    <2> QED BY <2>1 DEF Goes, Places, ReopenPlaces, Opened
  <1>3. pc'[c] = to
    BY <1>1 DEF TypeOK
  <1>4. PlaceOK(c)'
    <2>1. PlaceOK(c)
      BY <1>1 DEF PlaceInv
    <2> QED BY <1>1, <1>3, <2>1 DEF PlaceOK, AtPlace, RetFits, Leased, Pinning, Refreshing
  <1>5. PlaceInv' /\ pc' \in [Actors -> Places]
        /\ \A b \in Actors \ {c} : pc'[b] = pc[b] /\ Unpub(b)' = Unpub(b)
    BY <1>1, <1>2, <1>4, OthersStay
  <1> QED BY <1>1, <1>3, <1>5 DEF Actors

\* The count of a generation Close takes a hold on, and of the others.
LEMMA HoldsCounted ==
    ASSUME TypeOK, CountInv, NEW c \in Closers, NEW hs \in SUBSET Gens, holds[c] = {},
           holds' = [holds EXCEPT ![c] = hs],
           active' = [g \in Gens |-> IF g \in hs THEN active[g] + 1 ELSE active[g]],
           UNCHANGED <<lease, refLease>>
    PROVE  CountInv'
  <1>1. holds'[c] = hs /\ \A d \in Closers \ {c} : holds'[d] = holds[d]
    BY DEF TypeOK
  <1>2. SUFFICES ASSUME NEW g \in Gens
                 PROVE  active'[g] = Cardinality(Leases(g)') + Cardinality(Refreshes(g)')
                                        + Cardinality(Holders(g)')
    BY DEF CountInv
  <1>3. Leases(g)' = Leases(g) /\ Refreshes(g)' = Refreshes(g)
    BY DEF Leases, Refreshes, Users
  <1>4. active[g] = Cardinality(Leases(g)) + Cardinality(Refreshes(g)) + Cardinality(Holders(g))
    BY DEF CountInv
  <1>5. CASE g \in hs
    <2>1. Holders(g)' = Holders(g) \cup {c} /\ c \notin Holders(g)
      BY <1>1, <1>5 DEF Holders
    <2>2. Cardinality(Holders(g)') = Cardinality(Holders(g)) + 1
      BY <2>1, HoldersFinite, FS_AddElement
    <2>3. active'[g] = active[g] + 1
      BY <1>5
    <2> QED BY <1>3, <1>4, <2>2, <2>3, SizesAreNumbers
  <1>6. CASE g \notin hs
    <2>1. Holders(g)' = Holders(g)
      BY <1>1, <1>6 DEF Holders
    <2> QED BY <1>3, <1>4, <1>6, <2>1
  <1> QED BY <1>5, <1>6

\* The first critical section of Close: every generation nobody has begun to
\* close is retired and held.
LEMMA CloseBeginsInv ==
    ASSUME IInv, NEW c \in Closers, CloseBegins(c)
    PROVE  IInv'
  <1> USE DEF IInv
  <1>1. /\ ~closed /\ pc[c] = "idle" /\ pc' = [pc EXCEPT ![c] = "retire"]
        /\ closed' = TRUE /\ ownerDone' = "open" /\ current' = 0
        /\ active' = [g \in Gens |-> IF g \in Open THEN active[g] + 1 ELSE active[g]]
        /\ retired' = retired \cup Open
        /\ holds' = [holds EXCEPT ![c] = Open]
        /\ awaited' = [awaited EXCEPT ![c] = generations]
        /\ UNCHANGED <<closeStarted, generations, genDone,
                       closeErrors, closeErr, born, backendCloses,
                       lease, closing, refLease, ret, fresh>>
    BY DEF CloseBegins, Moves, RetirePinned, HeldOnClose, AwaitedOnClose, Open, backendVars,
           refVars, reopenVars
  <1>2. /\ PlaceInv' /\ pc' \in [Actors -> Places] /\ c \in Actors /\ pc'[c] = "retire"
        /\ \A d \in Closers \ {c} : pc'[d] = pc[d]
        /\ \A r \in Reopeners : Unpub(r)' = Unpub(r)
    BY <1>1, CloserMoves
  <1>3. Open \in SUBSET Gens /\ holds[c] = {}
    BY <1>1 DEF TypeOK, Open, CloserInv
  <1>4. CountInv'
    BY <1>1, <1>3, HoldsCounted
  <1>5. /\ \A g \in Open : active'[g] = active[g] + 1
        /\ \A g \in Gens \ Open : active'[g] = active[g]
        /\ active' \in [Gens -> Nat]
    BY <1>1, <1>3 DEF TypeOK
  <1>6. /\ holds' \in [Closers -> SUBSET Gens] /\ awaited' \in [Closers -> SUBSET Gens]
        /\ holds'[c] = Open /\ \A d \in Closers \ {c} : holds'[d] = holds[d]
        /\ awaited'[c] = generations /\ \A d \in Closers \ {c} : awaited'[d] = awaited[d]
    BY <1>1, <1>3 DEF TypeOK
  <1>7. TypeOK'
    BY <1>1, <1>2, <1>3, <1>5, <1>6, MaxGensPositive DEF TypeOK, Known
  <1>8. HeldInv'
    <2> SUFFICES ASSUME NEW h \in retired' \ closeStarted PROVE active'[h] >= 1
      BY <1>1 DEF HeldInv
    <2>1. CASE h \in Open
      <3>1. active[h] \in Nat
        BY <1>3, <2>1 DEF TypeOK
      <3> QED BY <1>5, <2>1, <3>1
    <2>2. CASE h \notin Open
      <3>1. h \in retired /\ h \in Gens
        BY <1>1, <2>2 DEF TypeOK
      <3> QED BY <1>5, <2>2, <3>1 DEF HeldInv
    <2> QED BY <2>1, <2>2
  <1>9. PinInv'
    BY <1>1, <1>6 DEF PinInv, Open
  <1>10. GenInv' /\ ClosingInv'
    BY <1>1 DEF GenInv, ClosingInv, Open
  <1>11. BackendInv'
    BY <1>1, <1>2 DEF BackendInv, Open
  <1>12. FreshInv'
    BY <1>1, <1>2 DEF FreshInv
  <1>13. CloserInv'
    <2>1. ownerDone = "nil" /\ \A d \in Closers : pc[d] # "retire" /\ pc[d] # "returned"
      BY <1>1 DEF CloserInv, TypeOK
    <2> QED BY <1>1, <1>2, <1>6, <2>1 DEF CloserInv
  <1> QED BY <1>2, <1>4, <1>7, <1>8, <1>9, <1>10, <1>11, <1>12, <1>13

\* The parts that Close does not touch once it has retired everything.
LEMMA ClosingKeeps ==
    ASSUME IInv, PlaceInv', \A r \in Reopeners : Unpub(r)' = Unpub(r),
           UNCHANGED <<current, retired, active, closeStarted, generations, genDone,
                       closeErrors, closed, born, backendCloses, lease, closing,
                       refLease, ret, fresh, holds, awaited>>
    PROVE  /\ CountInv' /\ HeldInv' /\ PinInv' /\ GenInv' /\ ClosingInv'
           /\ BackendInv' /\ FreshInv'
  <1> USE DEF IInv
  <1>1. CountInv' /\ HeldInv' /\ PinInv'
    BY DEF CountInv, Leases, Refreshes, Holders, Users, HeldInv, PinInv, Open
  <1>2. GenInv' /\ ClosingInv'
    BY DEF GenInv, ClosingInv
  <1>3. BackendInv'
    BY DEF BackendInv, Open
  <1>4. FreshInv'
    BY DEF FreshInv
  <1> QED BY <1>1, <1>2, <1>3, <1>4

\* The last critical section of Close.
LEMMA CloseEndsInv ==
    ASSUME IInv, NEW c \in Closers, CloseEnds(c)
    PROVE  IInv'
  <1> USE DEF IInv
  <1>1. /\ pc[c] = "retire" /\ pc' = [pc EXCEPT ![c] = "returned"]
        /\ holds[c] = {} /\ awaited[c] \subseteq genDone
        /\ closeErr' = closeErrors /\ ownerDone' = "closed"
        /\ UNCHANGED <<current, retired, active, closeStarted, generations, genDone,
                       closeErrors, closed, born, backendCloses, lease, closing,
                       refLease, ret, fresh, holds, awaited>>
    BY DEF CloseEnds, Moves, GensClosed, ownerVars, backendVars, refVars, reopenVars,
           closerVars
  <1>2. /\ PlaceInv' /\ pc' \in [Actors -> Places] /\ c \in Actors /\ pc'[c] = "returned"
        /\ \A d \in Closers \ {c} : pc'[d] = pc[d]
        /\ \A r \in Reopeners : Unpub(r)' = Unpub(r)
    BY <1>1, CloserMoves
  <1>3. TypeOK'
    BY <1>1, <1>2 DEF TypeOK
  <1>4. generations = {}
    BY <1>1 DEF CloserInv, GenInv
  <1>5. CloserInv'
    <2>1. closed
      BY <1>1 DEF CloserInv
    <2>2. \A d \in Closers \ {c} : pc[d] # "retire"
      BY <1>1 DEF CloserInv
    <2>3. \A d \in Closers : holds[d] = {}
      BY <1>1, <2>2 DEF CloserInv
    <2> QED BY <1>1, <1>2, <1>4, <2>1, <2>2, <2>3 DEF CloserInv
  <1> QED BY <1>1, <1>2, <1>3, <1>5, ClosingKeeps

\* A later Close returns with the first one.
LEMMA CloseJoinsInv ==
    ASSUME IInv, NEW c \in Closers, CloseJoins(c)
    PROVE  IInv'
  <1> USE DEF IInv
  <1>1. /\ pc[c] = "idle" /\ pc' = [pc EXCEPT ![c] = "returned"]
        /\ ownerDone = "closed" /\ UNCHANGED <<ownerDone, closeErr>>
        /\ UNCHANGED <<current, retired, active, closeStarted, generations, genDone,
                       closeErrors, closed, born, backendCloses, lease, closing,
                       refLease, ret, fresh, holds, awaited>>
    BY DEF CloseJoins, Moves, ownerVars, closeVars, backendVars, refVars, reopenVars,
           closerVars
  <1>2. /\ PlaceInv' /\ pc' \in [Actors -> Places] /\ c \in Actors /\ pc'[c] = "returned"
        /\ \A d \in Closers \ {c} : pc'[d] = pc[d]
        /\ \A r \in Reopeners : Unpub(r)' = Unpub(r)
    BY <1>1, CloserMoves
  <1>3. TypeOK'
    BY <1>1, <1>2 DEF TypeOK
  <1>4. CloserInv'
    <2>1. holds[c] = {}
      BY <1>1 DEF CloserInv
    <2> QED BY <1>1, <1>2, <2>1 DEF CloserInv
  <1> QED BY <1>1, <1>2, <1>3, <1>4, ClosingKeeps

-----------------------------------------------------------------------------
(* The steps of each kind of call.                                         *)

\* A quiet step, with the place it goes to.
LEMMA Quietly ==
    ASSUME IInv, NEW a \in Actors, NEW to \in Places, pc' = [pc EXCEPT ![a] = to],
           \/ ret' = ret
           \/ \E t \in Rets : ret' = [ret EXCEPT ![a] = t],
           UNCHANGED coreVars,
           SameRole(a, pc[a], ret[a], to, ret'[a])
    PROVE  IInv'
  <1>1. ret \in [Actors -> Rets]
    BY DEF IInv, TypeOK
  <1>2. Goes(a, to)
    BY <1>1 DEF Goes
  <1> QED BY <1>2, QuietInv

\* Steps of the callers' contexts, of the session and of the dispatchers.
LEMMA NothingMoves ==
    ASSUME IInv, UNCHANGED <<coreVars, pc, ret>>
    PROVE  IInv'
  <1> USE DEF IInv, coreVars
  <1>1. TypeOK' /\ PlaceInv'
    BY DEF TypeOK, PlaceInv, PlaceOK
  <1>2. CountInv' /\ HeldInv' /\ PinInv'
    BY DEF CountInv, Leases, Refreshes, Holders, Users, HeldInv, PinInv, Open
  <1>3. GenInv' /\ ClosingInv' /\ CloserInv'
    BY DEF GenInv, ClosingInv, CloserInv
  <1>4. BackendInv' /\ FreshInv'
    BY DEF BackendInv, FreshInv, Open, Unpub
  <1> QED BY <1>1, <1>2, <1>3, <1>4

\* The places of a query or a stream.
LEMMA CallRole ==
    ASSUME NEW a \in Queries \cup Streamers, NEW p, NEW q, NEW t,
           \/ p \in {"precheck", "call", "postcheck"} /\ q \in {"call", "postcheck", "release"}
           \/ p = "idle" /\ q = "returned"
    PROVE  a \in Actors /\ SameRole(a, p, t, q, t) /\ q \in Places
  <1>1. a \notin Invalidators \cup Reopeners \cup Closers \cup Subs /\ a \in Actors
    BY KindsDiffer DEF Actors
  <1> QED BY <1>1 DEF SameRole, AtPlace, RetFits, Leased, Pinning, Refreshing, Places,
                      ReopenPlaces

\* What is true of every place of a query or a stream.
LEMMA CallPlace ==
    ASSUME IInv, NEW a \in Queries \cup Streamers
    PROVE  /\ a \in Actors /\ a \notin Reopeners \cup Closers \cup Subs \cup Invalidators
           /\ lease[a] # 0 <=> pc[a] \in {"precheck", "call", "postcheck", "release"}
           /\ pc[a] \notin Refreshing
  <1>1. a \notin Invalidators \cup Reopeners \cup Closers \cup Subs /\ a \in Actors
    BY KindsDiffer DEF Actors
  <1>2. PlaceOK(a)
    BY <1>1 DEF IInv, PlaceInv
  <1> QED BY <1>1, <1>2 DEF PlaceOK, AtPlace, Leased, Refreshing

\* A query or a stream takes its step.
LEMMA CallSteps ==
    ASSUME IInv, NEW a \in Queries \cup Streamers,
           Acquire(a) \/ CallReturns(a) \/ CallStep(a)
    PROVE  IInv'
  <1>1. /\ a \in Actors /\ a \notin Reopeners \cup Closers \cup Subs \cup Invalidators
        /\ lease[a] # 0 <=> pc[a] \in {"precheck", "call", "postcheck", "release"}
        /\ pc[a] \notin Refreshing
    BY CallPlace
  <1>2. ASSUME Acquire(a) PROVE IInv'
    <2>1. CASE CanAcquire
      <3> DEFINE to == IF a \in Queries THEN "precheck" ELSE "call"
      <3>1. /\ pc[a] = "idle" /\ pc' = [pc EXCEPT ![a] = to] /\ ret' = ret
            /\ Pin(current) /\ lease' = [lease EXCEPT ![a] = current]
            /\ UNCHANGED restVars /\ refLease' = refLease
        BY <1>2, <2>1 DEF Acquire, Moves, restVars, closeVars, backendVars, refVars,
                          reopenVars, closerVars
      <3>2. to \in {"precheck", "call"}
        OBVIOUS
      <3> HIDE DEF to
      <3>3. Goes(a, to)
        <4>1. ret \in [Actors -> Rets]
          BY DEF IInv, TypeOK
        <4> QED BY <3>1, <3>2, <4>1 DEF Goes, Places
      <3>4. lease[a] = 0 /\ AtPlace(a, to) /\ RetFits(a, to, ret'[a]) /\ Leased(a, to)
            /\ (to \in Pinning <=> pc[a] \in Pinning)
        BY <1>1, <3>1, <3>2 DEF AtPlace, RetFits, Leased, Pinning, Refreshing
      <3> QED BY <1>1, <2>1, <3>1, <3>3, <3>4, LeaseTaken
    <2>2. CASE ~CanAcquire
      <3>1. /\ pc[a] = "idle" /\ pc' = [pc EXCEPT ![a] = "returned"] /\ ret' = ret
            /\ UNCHANGED coreVars
        BY <1>2, <2>2 DEF Acquire, Moves, coreVars, closeVars, backendVars, refVars,
                          reopenVars, closerVars
      <3>2. SameRole(a, pc[a], ret[a], "returned", ret[a]) /\ "returned" \in Places
        BY <3>1, CallRole
      <3> QED BY <1>1, <3>1, <3>2, Quietly
    <2> QED BY <2>1, <2>2
  <1>3. ASSUME CallReturns(a) \/ Precheck(a) \/ QueryPostcheck(a) \/ StreamPostcheck(a)
        PROVE  IInv'
    <2>1. /\ UNCHANGED coreVars /\ ret' = ret
          /\ pc[a] \in {"precheck", "call", "postcheck"}
          /\ \E to \in {"call", "postcheck", "release"} : pc' = [pc EXCEPT ![a] = to]
      BY <1>3 DEF CallReturns, Precheck, QueryPostcheck, StreamPostcheck, Moves, coreVars,
                  ownerVars, closeVars, backendVars, refVars, reopenVars, closerVars
    <2>2. PICK to \in {"call", "postcheck", "release"} : pc' = [pc EXCEPT ![a] = to]
      BY <2>1
    <2>3. SameRole(a, pc[a], ret[a], to, ret[a]) /\ to \in Places
      BY <2>1, CallRole
    <2> QED BY <1>1, <2>1, <2>2, <2>3, Quietly
  <1>4. ASSUME Release(a, "release", "returned") PROVE IInv'
    <2>1. /\ pc[a] = "release" /\ pc' = [pc EXCEPT ![a] = "returned"] /\ ret' = ret
          /\ closing[a] = 0 /\ ReleaseGen(a, lease[a]) /\ lease' = [lease EXCEPT ![a] = 0]
          /\ UNCHANGED <<refLease, holds, closed, ownerDone, closeErr, born, fresh, awaited>>
      BY <1>4 DEF Release, Moves, closeVars, refVars, reopenVars, closerVars
    <2>2. Goes(a, "returned")
      <3>1. ret \in [Actors -> Rets]
        BY DEF IInv, TypeOK
      <3> QED BY <2>1, <3>1 DEF Goes, Places, ReopenPlaces
    <2>3. /\ lease[a] # 0 /\ AtPlace(a, "returned") /\ RetFits(a, "returned", ret'[a])
          /\ ~Leased(a, "returned") /\ ("returned" \in Pinning <=> pc[a] \in Pinning)
      BY <1>1, <2>1 DEF AtPlace, RetFits, Leased, Pinning, Refreshing
    <2> QED BY <1>1, <2>1, <2>2, <2>3, LeaseReturned
  <1> QED BY <1>2, <1>3, <1>4 DEF CallStep

\* What is true of every place of an invalidation.
LEMMA InvalidatePlace ==
    ASSUME IInv, NEW a \in Invalidators
    PROVE  /\ a \in Actors
           /\ a \notin Queries \cup Streamers \cup Reopeners \cup Closers \cup Subs
           /\ lease[a] # 0 <=> pc[a] \in {"bump", "release"}
           /\ pc[a] \notin Refreshing
           /\ ret \in [Actors -> Rets]
  <1>1. a \notin Queries \cup Streamers \cup Reopeners \cup Closers \cup Subs /\ a \in Actors
    BY KindsDiffer DEF Actors
  <1>2. PlaceOK(a)
    BY <1>1 DEF IInv, PlaceInv
  <1> QED BY <1>1, <1>2 DEF PlaceOK, AtPlace, Leased, Refreshing, IInv, TypeOK

\* An invalidation takes its step.
LEMMA InvalidatorSteps ==
    ASSUME IInv, NEW a \in Invalidators, InvalidateLock(a) \/ InvalidateStep(a)
    PROVE  IInv'
  <1>1. /\ a \in Actors
        /\ a \notin Queries \cup Streamers \cup Reopeners \cup Closers \cup Subs
        /\ lease[a] # 0 <=> pc[a] \in {"bump", "release"}
        /\ pc[a] \notin Refreshing
        /\ ret \in [Actors -> Rets]
    BY InvalidatePlace
  <1>2. ASSUME NEW p, NEW to, pc[a] = p, pc' = [pc EXCEPT ![a] = to], ret' = ret,
               UNCHANGED coreVars,
               \/ p \in {"idle", "acquire", "unlock"} /\ to \in {"acquire", "unlock", "returned"}
               \/ p = "bump" /\ to = "release"
        PROVE  IInv'
    <2>1. SameRole(a, pc[a], ret[a], to, ret[a]) /\ to \in Places
      BY <1>1, <1>2 DEF SameRole, AtPlace, RetFits, Leased, Pinning, Refreshing, Places,
                        ReopenPlaces
    <2> QED BY <1>1, <1>2, <2>1, Quietly
  <1>3. ASSUME InvalidateLock(a) \/ InvalidateCall(a) \/ InvalidateUnlock(a)
               \/ (InvalidateAcquire(a) /\ ~CanAcquire)
        PROVE  IInv'
    <2>1. /\ UNCHANGED coreVars /\ ret' = ret
          /\ \/ pc[a] = "idle" /\ pc' = [pc EXCEPT ![a] = "acquire"]
             \/ pc[a] = "acquire" /\ pc' = [pc EXCEPT ![a] = "unlock"]
             \/ pc[a] = "unlock" /\ pc' = [pc EXCEPT ![a] = "returned"]
             \/ pc[a] = "bump" /\ pc' = [pc EXCEPT ![a] = "release"]
      BY <1>3 DEF InvalidateLock, InvalidateCall, InvalidateUnlock, InvalidateAcquire, Moves,
                  coreVars, ownerVars, closeVars, backendVars, refVars, reopenVars, closerVars
    <2> QED BY <1>2, <2>1
  <1>4. ASSUME InvalidateAcquire(a), CanAcquire PROVE IInv'
    <2>1. /\ pc[a] = "acquire" /\ pc' = [pc EXCEPT ![a] = "bump"] /\ ret' = ret
          /\ Pin(current) /\ lease' = [lease EXCEPT ![a] = current]
          /\ UNCHANGED restVars /\ refLease' = refLease
      BY <1>4 DEF InvalidateAcquire, Moves, restVars, closeVars, backendVars, refVars,
                  reopenVars, closerVars
    <2>2. Goes(a, "bump")
      BY <1>1, <2>1 DEF Goes, Places
    <2>3. /\ lease[a] = 0 /\ AtPlace(a, "bump") /\ RetFits(a, "bump", ret'[a])
          /\ Leased(a, "bump") /\ ("bump" \in Pinning <=> pc[a] \in Pinning)
      BY <1>1, <2>1 DEF AtPlace, RetFits, Leased, Pinning, Refreshing
    <2> QED BY <1>1, <1>4, <2>1, <2>2, <2>3, LeaseTaken
  <1>5. ASSUME Release(a, "release", "unlock") PROVE IInv'
    <2>1. /\ pc[a] = "release" /\ pc' = [pc EXCEPT ![a] = "unlock"] /\ ret' = ret
          /\ closing[a] = 0 /\ ReleaseGen(a, lease[a]) /\ lease' = [lease EXCEPT ![a] = 0]
          /\ UNCHANGED <<refLease, holds, closed, ownerDone, closeErr, born, fresh, awaited>>
      BY <1>5 DEF Release, Moves, closeVars, refVars, reopenVars, closerVars
    <2>2. Goes(a, "unlock")
      BY <1>1, <2>1 DEF Goes, Places, ReopenPlaces
    <2>3. /\ lease[a] # 0 /\ AtPlace(a, "unlock") /\ RetFits(a, "unlock", ret'[a])
          /\ ~Leased(a, "unlock") /\ ("unlock" \in Pinning <=> pc[a] \in Pinning)
      BY <1>1, <2>1 DEF AtPlace, RetFits, Leased, Pinning, Refreshing
    <2> QED BY <1>1, <2>1, <2>2, <2>3, LeaseReturned
  <1> QED BY <1>3, <1>4, <1>5 DEF InvalidateStep

\* What is true of every place of a reopen.
LEMMA ReopenPlace ==
    ASSUME IInv, NEW r \in Reopeners
    PROVE  /\ r \in Actors
           /\ r \notin Queries \cup Streamers \cup Invalidators \cup Closers \cup Subs
           /\ pc[r] \in ReopenPlaces
           /\ lease[r] # 0 <=> pc[r] \notin {"absent", "idle", "acquire", "returned"}
           /\ pc[r] \in Refreshing => ret[r] \in {"retired", "finish"}
           /\ ret \in [Actors -> Rets] /\ pc \in [Actors -> Places]
  <1>1. r \notin Queries \cup Streamers \cup Invalidators \cup Closers \cup Subs /\ r \in Actors
    BY KindsDiffer DEF Actors
  <1>2. PlaceOK(r)
    BY <1>1 DEF IInv, PlaceInv
  <1> QED BY <1>1, <1>2 DEF PlaceOK, AtPlace, RetFits, Leased, IInv, TypeOK

\* The quiet steps of a reopen that keep its ret.
LEMMA ReopenQuiet ==
    ASSUME IInv, NEW r \in Reopeners, NEW p, NEW to,
           pc[r] = p, pc' = [pc EXCEPT ![r] = to], ret' = ret, UNCHANGED coreVars,
           \/ p \in {"idle", "acquire"} /\ to \in {"acquire", "returned"}
           \/ p \in Opened /\ to \in Opened
           \/ /\ p \in {"open", "bind", "finish", "unlock"}
              /\ to \in {"bind", "unlock", "release"}
    PROVE  IInv'
  <1>1. /\ r \in Actors
        /\ r \notin Queries \cup Streamers \cup Invalidators \cup Closers \cup Subs
    BY ReopenPlace
  <1>2. SameRole(r, p, ret[r], to, ret[r]) /\ to \in Places
    BY <1>1 DEF SameRole, AtPlace, RetFits, Leased, Unpublished, Pinning, Refreshing, Places,
                ReopenPlaces, Opened
  <1> QED BY <1>1, <1>2, Quietly

\* The steps of a reopen that lead into a refresh of the capability.
LEMMA ReopenRefreshes ==
    ASSUME IInv, NEW r \in Reopeners, NEW p, NEW t,
           pc[r] = p, pc' = [pc EXCEPT ![r] = "refresh"], ret' = [ret EXCEPT ![r] = t],
           UNCHANGED coreVars,
           (p = "retire" /\ t = "retired") \/ (p = "bind" /\ t = "finish")
    PROVE  IInv'
  <1>1. /\ r \in Actors
        /\ r \notin Queries \cup Streamers \cup Invalidators \cup Closers \cup Subs
        /\ ret \in [Actors -> Rets]
    BY ReopenPlace
  <1>2. ret'[r] = t /\ t \in Rets
    BY <1>1 DEF Rets
  <1>3. SameRole(r, p, ret[r], "refresh", t) /\ "refresh" \in Places
    BY <1>1 DEF SameRole, AtPlace, RetFits, Leased, Unpublished, Pinning, Refreshing, Places,
                ReopenPlaces, Opened
  <1> QED BY <1>1, <1>2, <1>3, Quietly

\* A reopen takes its step.
LEMMA ReopenSteps ==
    ASSUME IInv, NEW r \in Reopeners,
           ReopenLock(r) \/ ReopenCallReturns(r) \/ ReopenStep(r)
    PROVE  IInv'
  <1>1. /\ r \in Actors
        /\ r \notin Queries \cup Streamers \cup Invalidators \cup Closers \cup Subs
        /\ pc[r] \in ReopenPlaces
        /\ lease[r] # 0 <=> pc[r] \notin {"absent", "idle", "acquire", "returned"}
        /\ ret \in [Actors -> Rets]
    BY ReopenPlace
  <1>2. ASSUME ReopenLock(r) \/ (ReopenAcquire(r) /\ ~CanAcquire)
        PROVE  IInv'
    <2>1. /\ UNCHANGED coreVars /\ ret' = ret
          /\ pc[r] \in {"idle", "acquire"}
          /\ \E to \in {"acquire", "returned"} : pc' = [pc EXCEPT ![r] = to]
      BY <1>2 DEF ReopenLock, ReopenAcquire, Moves, coreVars, ownerVars, closeVars,
                  backendVars, refVars, reopenVars, closerVars
    <2> QED BY <2>1, ReopenQuiet
  <1>3. ASSUME ReopenAcquire(r), CanAcquire PROVE IInv'
    <2>1. /\ pc[r] = "acquire" /\ pc' = [pc EXCEPT ![r] = "open"] /\ ret' = ret
          /\ Pin(current) /\ lease' = [lease EXCEPT ![r] = current]
          /\ UNCHANGED restVars /\ refLease' = refLease
      BY <1>3 DEF ReopenAcquire, Moves, restVars, closeVars, backendVars, refVars,
                  reopenVars, closerVars
    <2>2. Goes(r, "open")
      BY <1>1, <2>1 DEF Goes, Places, ReopenPlaces
    <2>3. /\ lease[r] = 0 /\ AtPlace(r, "open") /\ RetFits(r, "open", ret'[r])
          /\ Leased(r, "open") /\ ("open" \in Pinning <=> pc[r] \in Pinning)
      BY <1>1, <2>1 DEF AtPlace, RetFits, Leased, Pinning, Refreshing, ReopenPlaces
    <2>4. pc'[r] = "open"
      BY <1>1, <2>1, ReopenPlace
    <2>5. Unpub(r)' = Unpub(r)
      BY <2>1, <2>4 DEF Unpub, Unpublished, Opened, Refreshing
    <2> QED BY <1>1, <1>3, <2>1, <2>2, <2>3, <2>5, LeaseTaken
  <1>4. ASSUME OpenFails(r) \/ FinishReopen(r) \/ ReopenUnlock(r)
               \/ \E s \in Subs : AwaitBinding(r, s)
        PROVE  IInv'
    <2>1. /\ UNCHANGED coreVars /\ ret' = ret
          /\ pc[r] \in {"open", "bind", "finish", "unlock"}
          /\ \E to \in {"bind", "unlock", "release"} : pc' = [pc EXCEPT ![r] = to]
      BY <1>4 DEF OpenFails, FinishReopen, ReopenUnlock, AwaitBinding, Moves, coreVars,
                  ownerVars, closeVars, backendVars, refVars, reopenVars, closerVars
    <2> QED BY <2>1, ReopenQuiet
  <1>5. ASSUME \/ RetireStops(r) \/ RetireChecked(r) \/ PublishLock(r) \/ PublishCheck(r)
               \/ Advance(r) \/ AbandonReported(r) \/ PublishRefused(r) \/ PublishUnlock(r)
               \/ (Abandon(r) /\ current # lease[r])
               \/ (RetireFails(r) /\ (r \in cancelled \/ sessionClosed))
        PROVE  IInv'
    <2>1. /\ UNCHANGED coreVars /\ ret' = ret
          /\ pc[r] \in Opened
          /\ \E to \in Opened : pc' = [pc EXCEPT ![r] = to]
      <3>1. CASE RetireStops(r)
        BY <3>1 DEF RetireStops, Moves, coreVars, ownerVars, closeVars, refVars, reopenVars,
                    closerVars, Opened
      <3>2. CASE RetireChecked(r) \/ PublishLock(r) \/ PublishCheck(r)
        BY <3>2 DEF RetireChecked, PublishLock, PublishCheck, Moves, coreVars, ownerVars,
                    closeVars, backendVars, refVars, reopenVars, closerVars, Opened
      <3>3. CASE Advance(r)
        BY <3>3 DEF Advance, Moves, coreVars, ownerVars, closeVars, refVars, reopenVars,
                    closerVars, Opened
      <3>4. CASE AbandonReported(r) \/ PublishRefused(r) \/ PublishUnlock(r)
        BY <3>4 DEF AbandonReported, PublishRefused, PublishUnlock, Moves, coreVars, ownerVars,
                    closeVars, backendVars, refVars, reopenVars, closerVars, Opened
      <3>5. CASE Abandon(r) /\ current # lease[r]
        BY <3>5 DEF Abandon, Moves, coreVars, closeVars, backendVars, refVars, reopenVars,
                    closerVars, Opened
      <3>6. CASE RetireFails(r) /\ (r \in cancelled \/ sessionClosed)
        BY <3>6 DEF RetireFails, Moves, coreVars, ownerVars, closeVars, reopenVars,
                    closerVars, Opened
      <3> QED BY <1>5, <3>1, <3>2, <3>3, <3>4, <3>5, <3>6
    <2> QED BY <2>1, ReopenQuiet
  <1>6. ASSUME RetireFails(r), ~(r \in cancelled \/ sessionClosed) PROVE IInv'
    <2>1. /\ pc[r] = "retire" /\ pc' = [pc EXCEPT ![r] = "refresh"]
          /\ ret' = [ret EXCEPT ![r] = "retired"] /\ UNCHANGED coreVars
      BY <1>6 DEF RetireFails, Moves, coreVars, ownerVars, closeVars, reopenVars, closerVars
    <2> QED BY <2>1, ReopenRefreshes
  <1>7. ASSUME BindingsAwaited(r) PROVE IInv'
    <2>1. /\ pc[r] = "bind" /\ pc' = [pc EXCEPT ![r] = "refresh"]
          /\ ret' = [ret EXCEPT ![r] = "finish"] /\ UNCHANGED coreVars
      BY <1>7 DEF BindingsAwaited, Moves, coreVars, ownerVars, closeVars, backendVars,
                  reopenVars, closerVars
    <2> QED BY <2>1, ReopenRefreshes
  <1>8. ASSUME Release(r, "release", "returned") PROVE IInv'
    <2>1. /\ pc[r] = "release" /\ pc' = [pc EXCEPT ![r] = "returned"] /\ ret' = ret
          /\ closing[r] = 0 /\ ReleaseGen(r, lease[r]) /\ lease' = [lease EXCEPT ![r] = 0]
          /\ UNCHANGED <<refLease, holds, closed, ownerDone, closeErr, born, fresh, awaited>>
      BY <1>8 DEF Release, Moves, closeVars, refVars, reopenVars, closerVars
    <2>2. Goes(r, "returned")
      BY <1>1, <2>1 DEF Goes, Places, ReopenPlaces
    <2>3. /\ lease[r] # 0 /\ AtPlace(r, "returned") /\ RetFits(r, "returned", ret'[r])
          /\ ~Leased(r, "returned") /\ ("returned" \in Pinning <=> pc[r] \in Pinning)
      BY <1>1, <2>1 DEF AtPlace, RetFits, Leased, Pinning, Refreshing, ReopenPlaces
    <2>4. pc'[r] = "returned"
      BY <1>1, <2>1, ReopenPlace
    <2>5. Unpub(r)' = Unpub(r)
      BY <2>1, <2>4 DEF Unpub, Unpublished, Opened, Refreshing
    <2> QED BY <1>1, <2>1, <2>2, <2>3, <2>5, LeaseReturned
  <1> QED BY <1>2, <1>3, <1>4, <1>5, <1>6, <1>7, <1>8, OpenFreshInv, OpenFailsWithBackendInv,
             DropFreshInv, AbandonInv, PublishInv DEF ReopenCallReturns, ReopenStep

\* What is true of every place of a subscription.
LEMMA SubPlace ==
    ASSUME IInv, NEW s \in Subs
    PROVE  /\ s \in Actors
           /\ s \notin Queries \cup Streamers \cup Invalidators \cup Reopeners \cup Closers
           /\ pc[s] \in SubPlaces
           /\ lease[s] # 0 <=> pc[s] \in {"events", "unlease"}
           /\ pc[s] \in Refreshing => ret[s] \in {"complete", "next"}
           /\ ret \in [Actors -> Rets]
  <1>1. s \notin Queries \cup Streamers \cup Invalidators \cup Reopeners \cup Closers /\ s \in Actors
    BY KindsDiffer DEF Actors
  <1>2. PlaceOK(s)
    BY <1>1 DEF IInv, PlaceInv
  <1> QED BY <1>1, <1>2 DEF PlaceOK, AtPlace, RetFits, Leased, IInv, TypeOK

\* The places of a subscription without a lease.
Unleased == {"idle", "open", "verify", "complete", "forward", "event", "deliver", "next",
             "finish", "end", "returned"}

\* The quiet steps of a subscription that keep its ret.
LEMMA SubQuiet ==
    ASSUME IInv, NEW s \in Subs, NEW p, NEW to,
           pc[s] = p, pc' = [pc EXCEPT ![s] = to], ret' = ret, UNCHANGED coreVars,
           (p \in Unleased /\ to \in Unleased) \/ (p = "events" /\ to = "unlease")
    PROVE  IInv'
  <1>1. /\ s \in Actors
        /\ s \notin Queries \cup Streamers \cup Invalidators \cup Reopeners \cup Closers
    BY SubPlace
  <1>2. SameRole(s, p, ret[s], to, ret[s]) /\ to \in Places
    BY <1>1 DEF SameRole, AtPlace, RetFits, Leased, Pinning, Refreshing, Places, SubPlaces,
                Unleased
  <1> QED BY <1>1, <1>2, Quietly

\* A subscription takes its step.
LEMMA PumpSteps ==
    ASSUME IInv, NEW s \in Subs,
           Subscribe(s) \/ EventsReturn(s) \/ StreamEnds(s) \/ TakeEvent(s) \/ PumpStep(s)
    PROVE  IInv'
  <1>1. /\ s \in Actors
        /\ s \notin Queries \cup Streamers \cup Invalidators \cup Reopeners \cup Closers
        /\ pc[s] \in SubPlaces
        /\ lease[s] # 0 <=> pc[s] \in {"events", "unlease"}
        /\ ret \in [Actors -> Rets]
    BY SubPlace
  <1>2. ASSUME \/ Subscribe(s) \/ TakeEvent(s) \/ CompleteBinding(s) \/ ForwardEnds(s)
               \/ CheckEvent(s) \/ DeliverEvent(s) \/ NextBinding(s) \/ FinishStream(s)
               \/ EndStream(s)
        PROVE  IInv'
    <2>1. /\ UNCHANGED coreVars /\ ret' = ret
          /\ pc[s] \in Unleased
          /\ \E to \in Unleased : pc' = [pc EXCEPT ![s] = to]
      <3>1. CASE Subscribe(s) \/ TakeEvent(s) \/ CompleteBinding(s)
        BY <3>1 DEF Subscribe, TakeEvent, CompleteBinding, Moves, coreVars, ownerVars,
                    closeVars, backendVars, refVars, reopenVars, closerVars, Unleased
      <3>2. CASE ForwardEnds(s) \/ CheckEvent(s) \/ DeliverEvent(s)
        BY <3>2 DEF ForwardEnds, CheckEvent, DeliverEvent, Moves, coreVars, ownerVars,
                    closeVars, backendVars, refVars, reopenVars, closerVars, Unleased
      <3>3. CASE NextBinding(s) \/ FinishStream(s) \/ EndStream(s)
        BY <3>3 DEF NextBinding, FinishStream, EndStream, Moves, coreVars, ownerVars,
                    closeVars, backendVars, refVars, reopenVars, closerVars, Unleased
      <3> QED BY <1>2, <3>1, <3>2, <3>3
    <2> QED BY <2>1, SubQuiet
  <1>3. ASSUME EventsReturn(s) PROVE IInv'
    <2>1. /\ pc[s] = "events" /\ pc' = [pc EXCEPT ![s] = "unlease"] /\ ret' = ret
          /\ UNCHANGED coreVars
      BY <1>3 DEF EventsReturn, Moves, coreVars, ownerVars, closeVars, backendVars, refVars,
                  reopenVars, closerVars
    <2> QED BY <2>1, SubQuiet
  <1>4. ASSUME OpenBinding(s), CanAcquireGen(mine[s]) PROVE IInv'
    <2>1. /\ pc[s] = "open" /\ pc' = [pc EXCEPT ![s] = "events"] /\ ret' = ret
          /\ CanAcquire
          /\ Pin(current) /\ lease' = [lease EXCEPT ![s] = current]
          /\ UNCHANGED restVars /\ refLease' = refLease
      BY <1>4 DEF OpenBinding, CanAcquireGen, Moves, restVars, closeVars, backendVars,
                  reopenVars, closerVars
    <2>2. Goes(s, "events")
      BY <1>1, <2>1 DEF Goes, Places, SubPlaces
    <2>3. /\ lease[s] = 0 /\ AtPlace(s, "events") /\ RetFits(s, "events", ret'[s])
          /\ Leased(s, "events") /\ ("events" \in Pinning <=> pc[s] \in Pinning)
      BY <1>1, <2>1 DEF AtPlace, RetFits, Leased, Pinning, Refreshing, SubPlaces
    <2> QED BY <1>1, <2>1, <2>2, <2>3, LeaseTaken
  <1>5. ASSUME \/ OpenBinding(s) /\ ~CanAcquireGen(mine[s])
               \/ VerifyBinding(s) \/ StreamEnds(s)
        PROVE  IInv'
    <2>1. /\ pc[s] \in Unleased /\ pc' = [pc EXCEPT ![s] = "refresh"]
          /\ UNCHANGED coreVars
          /\ \E t \in {"complete", "next"} : ret' = [ret EXCEPT ![s] = t]
      BY <1>5 DEF OpenBinding, VerifyBinding, StreamEnds, Moves, coreVars, ownerVars,
                  closeVars, backendVars, reopenVars, closerVars, Unleased
    <2>2. PICK t \in {"complete", "next"} : ret' = [ret EXCEPT ![s] = t]
      BY <2>1
    <2>3. ret'[s] = t /\ t \in Rets
      BY <1>1, <2>2 DEF Rets
    <2>4. SameRole(s, pc[s], ret[s], "refresh", t) /\ "refresh" \in Places
      BY <1>1, <2>1 DEF SameRole, AtPlace, RetFits, Leased, Pinning, Refreshing, Places,
                        SubPlaces, Unleased
    <2> QED BY <1>1, <2>1, <2>2, <2>3, <2>4, Quietly
  <1>6. ASSUME Release(s, "unlease", "verify") PROVE IInv'
    <2>1. /\ pc[s] = "unlease" /\ pc' = [pc EXCEPT ![s] = "verify"] /\ ret' = ret
          /\ closing[s] = 0 /\ ReleaseGen(s, lease[s]) /\ lease' = [lease EXCEPT ![s] = 0]
          /\ UNCHANGED <<refLease, holds, closed, ownerDone, closeErr, born, fresh, awaited>>
      BY <1>6 DEF Release, Moves, closeVars, refVars, reopenVars, closerVars
    <2>2. Goes(s, "verify")
      BY <1>1, <2>1 DEF Goes, Places, SubPlaces
    <2>3. /\ lease[s] # 0 /\ AtPlace(s, "verify") /\ RetFits(s, "verify", ret'[s])
          /\ ~Leased(s, "verify") /\ ("verify" \in Pinning <=> pc[s] \in Pinning)
      BY <1>1, <2>1 DEF AtPlace, RetFits, Leased, Pinning, Refreshing, SubPlaces
    <2> QED BY <1>1, <2>1, <2>2, <2>3, LeaseReturned
  <1> QED BY <1>2, <1>3, <1>4, <1>5, <1>6 DEF PumpStep

\* A call that refreshes the capability is a reopen or a subscription, and
\* where it goes on it has the same role.
LEMMA RefreshRole ==
    ASSUME IInv, NEW a \in Actors, pc[a] \in Refreshing
    PROVE  /\ a \in Reopeners \cup Subs /\ a \notin Closers
           /\ \A q \in Refreshing \cup {ret[a]} :
                 /\ q \in Places /\ AtPlace(a, q) /\ RetFits(a, q, ret[a])
                 /\ Leased(a, q) <=> Leased(a, pc[a])
                 /\ a \in Reopeners => (Unpublished(q, ret[a]) <=> Unpublished(pc[a], ret[a]))
           /\ ret[a] \notin Refreshing /\ ret \in [Actors -> Rets]
           /\ refLease[a] # 0 <=> pc[a] \in Pinning
  <1>1. PlaceOK(a) /\ ret \in [Actors -> Rets]
    BY DEF IInv, PlaceInv, TypeOK
  <1>2. a \in Reopeners \cup Subs
    BY <1>1 DEF PlaceOK, AtPlace, Refreshing, Actors
  <1>3. CASE a \in Reopeners
    <2>1. a \notin Queries \cup Streamers \cup Invalidators \cup Closers \cup Subs
      BY <1>3, KindsDiffer
    <2>2. ret[a] \in {"retired", "finish"}
      BY <1>1, <1>3 DEF PlaceOK, RetFits
    <2> QED BY <1>1, <1>3, <2>1, <2>2 DEF PlaceOK, AtPlace, RetFits, Leased, Unpublished,
                  Refreshing, Places, ReopenPlaces, Opened
  <1>4. CASE a \in Subs
    <2>1. a \notin Queries \cup Streamers \cup Invalidators \cup Closers \cup Reopeners
      BY <1>4, KindsDiffer
    <2>2. ret[a] \in {"complete", "next"}
      BY <1>1, <1>4 DEF PlaceOK, RetFits
    <2> QED BY <1>1, <1>4, <2>1, <2>2 DEF PlaceOK, AtPlace, RetFits, Leased,
                  Refreshing, Places, SubPlaces
  <1> QED BY <1>2, <1>3, <1>4

\* The steps every call shares.
LEMMA SharedSteps ==
    ASSUME IInv, NEW a \in Actors, SharedStep(a)
    PROVE  IInv'
  <1>1. ASSUME NEW to, pc[a] \in Refreshing, to \in Refreshing \cup {ret[a]},
               pc' = [pc EXCEPT ![a] = to], ret' = ret
        PROVE  /\ Goes(a, to) /\ to \in Places /\ AtPlace(a, to) /\ RetFits(a, to, ret'[a])
               /\ Leased(a, to) <=> Leased(a, pc[a])
               /\ a \in Reopeners => (Unpublished(to, ret[a]) <=> Unpublished(pc[a], ret[a]))
               /\ a \notin Closers
               /\ a \in Reopeners => Unpub(a)' = Unpub(a)
    <2>1. pc'[a] = to
      BY <1>1 DEF IInv, TypeOK
    <2>2. a \in Reopeners => (Unpublished(to, ret[a]) <=> Unpublished(pc[a], ret[a]))
      BY <1>1, RefreshRole
    <2>3. a \in Reopeners => Unpub(a)' = Unpub(a)
      BY <1>1, <2>1, <2>2 DEF Unpub, Unpublished
    <2> QED BY <1>1, <2>1, <2>3, RefreshRole DEF Goes
  <1>2. ASSUME RefreshAcquire(a), CanAcquire PROVE IInv'
    <2>1. /\ pc[a] = "refresh" /\ pc' = [pc EXCEPT ![a] = "write"] /\ ret' = ret
          /\ Pin(current) /\ refLease' = [refLease EXCEPT ![a] = current]
          /\ UNCHANGED restVars /\ lease' = lease
      BY <1>2 DEF RefreshAcquire, Moves, restVars, closeVars, backendVars, reopenVars,
                  closerVars
    <2>2. refLease[a] = 0 /\ "write" \in Pinning
      BY <2>1, RefreshRole DEF Refreshing, Pinning
    <2>3. /\ Goes(a, "write") /\ AtPlace(a, "write") /\ RetFits(a, "write", ret'[a])
          /\ Leased(a, "write") <=> Leased(a, pc[a])
          /\ a \notin Closers
          /\ a \in Reopeners => Unpub(a)' = Unpub(a)
      BY <1>1, <2>1 DEF Refreshing
    <2> QED BY <1>2, <2>1, <2>2, <2>3, RefreshTaken
  <1>3. ASSUME (RefreshAcquire(a) /\ ~CanAcquire) \/ RefreshWrite(a) PROVE IInv'
    <2>1. /\ UNCHANGED coreVars /\ ret' = ret
          /\ \/ pc[a] = "refresh" /\ pc' = [pc EXCEPT ![a] = ret[a]]
             \/ pc[a] = "write" /\ pc' = [pc EXCEPT ![a] = "unpin"]
      BY <1>3 DEF RefreshAcquire, RefreshWrite, Moves, coreVars, ownerVars, closeVars,
                  backendVars, refVars, reopenVars, closerVars
    <2>2. CASE pc[a] = "refresh" /\ pc' = [pc EXCEPT ![a] = ret[a]]
      <3>1. pc[a] \in Refreshing /\ pc[a] \notin Pinning /\ ret[a] \notin Pinning
        BY <2>2, RefreshRole DEF Refreshing, Pinning
      <3>2. SameRole(a, pc[a], ret[a], ret[a], ret'[a]) /\ ret[a] \in Places
        BY <1>1, <2>1, <2>2, <3>1 DEF SameRole
      <3> QED BY <2>1, <2>2, <3>2, Quietly
    <2>3. CASE pc[a] = "write" /\ pc' = [pc EXCEPT ![a] = "unpin"]
      <3>1. pc[a] \in Refreshing /\ pc[a] \in Pinning /\ "unpin" \in Pinning /\ "unpin" \in Refreshing
        BY <2>3 DEF Refreshing, Pinning
      <3>2. SameRole(a, pc[a], ret[a], "unpin", ret'[a]) /\ "unpin" \in Places
        BY <1>1, <2>1, <2>3, <3>1 DEF SameRole
      <3> QED BY <2>1, <2>3, <3>2, Quietly
    <2> QED BY <2>1, <2>2, <2>3
  <1>4. ASSUME RefreshRelease(a) PROVE IInv'
    <2>1. /\ pc[a] = "unpin" /\ pc' = [pc EXCEPT ![a] = ret[a]] /\ ret' = ret
          /\ closing[a] = 0 /\ ReleaseGen(a, refLease[a])
          /\ refLease' = [refLease EXCEPT ![a] = 0]
          /\ UNCHANGED <<lease, holds, closed, ownerDone, closeErr, born, fresh, awaited>>
      BY <1>4 DEF RefreshRelease, Moves, closeVars, reopenVars, closerVars
    <2>2. refLease[a] # 0 /\ pc[a] \in Refreshing /\ ret[a] \notin Pinning
      BY <2>1, RefreshRole DEF Refreshing, Pinning
    <2>3. /\ Goes(a, ret[a]) /\ AtPlace(a, ret[a]) /\ RetFits(a, ret[a], ret'[a])
          /\ Leased(a, ret[a]) <=> Leased(a, pc[a])
          /\ a \notin Closers
          /\ a \in Reopeners => Unpub(a)' = Unpub(a)
      BY <1>1, <2>1, <2>2
    <2> QED BY <2>1, <2>2, <2>3, RefreshReturned
  <1> QED BY <1>2, <1>3, <1>4, CloseGenerationInv DEF SharedStep

\* Close takes its step.
LEMMA CloserSteps ==
    ASSUME IInv, NEW c \in Closers,
           CloseBegins(c) \/ CloseStep(c) \/ CloseEnds(c) \/ CloseJoins(c)
    PROVE  IInv'
  BY CloseBeginsInv, CloseRetiresInv, CloseEndsInv, CloseJoinsInv DEF CloseStep

-----------------------------------------------------------------------------
(* The theorems.                                                           *)

\* Nothing has a lease when the owner is made.
LEMMA InitInv ==
    ASSUME Init
    PROVE  IInv
  <1> USE DEF Init
  <1>1. PICK cast \in Casts : pc = [a \in Actors |-> IF a \in cast THEN "idle" ELSE "absent"]
    OBVIOUS
  <1>2. 1 \in Gens /\ 0 \in Known /\ 1 \in Known /\ 0 \notin Gens
    BY MaxGensPositive DEF Gens, Known
  <1>3. TypeOK
    <2>1. pc \in [Actors -> Places]
      BY <1>1 DEF Places, ReopenPlaces
    <2> QED BY <1>2, <2>1 DEF TypeOK, Rets
  <1>4. \A a \in Actors : pc[a] \in {"idle", "absent"} /\ lease[a] = 0 /\ refLease[a] = 0
    BY <1>1
  <1>5. PlaceInv
    BY <1>4, KindsDiffer DEF PlaceInv, PlaceOK, AtPlace, RetFits, Leased, Pinning, Refreshing,
                             ReopenPlaces, SubPlaces, Actors
  <1>6. CountInv
    <2> SUFFICES ASSUME NEW g \in Gens
                 PROVE  active[g] = Cardinality(Leases(g)) + Cardinality(Refreshes(g))
                                       + Cardinality(Holders(g))
      BY DEF CountInv
    <2>1. Leases(g) = {} /\ Refreshes(g) = {} /\ Holders(g) = {}
      BY <1>2, <1>4 DEF Leases, Refreshes, Holders, Users
    <2>2. Cardinality({}) = 0
      BY FS_EmptySet
    <2> QED BY <2>1, <2>2
  <1>7. HeldInv /\ PinInv /\ ClosingInv
    BY DEF HeldInv, PinInv, ClosingInv
  <1>8. GenInv
    BY DEF GenInv
  <1>9. \A r \in Reopeners : ~Unpub(r)
    BY <1>4 DEF Unpub, Unpublished, Opened, Refreshing, Actors
  <1>10. BackendInv /\ FreshInv
    <2>1. \A g \in Gens : g <= born => g \in generations \cup genDone
      BY MaxGensPositive DEF Gens
    <2> QED BY <1>9, <2>1 DEF BackendInv, FreshInv, Open
  <1>11. CloserInv
    <2>1. \A c \in Closers : pc[c] # "retire" /\ pc[c] # "returned"
      BY <1>4 DEF Actors
    <2> QED BY <2>1 DEF CloserInv
  <1> QED BY <1>3, <1>5, <1>6, <1>7, <1>8, <1>10, <1>11 DEF IInv

\* Every step keeps the invariant.
LEMMA NextInv ==
    ASSUME IInv, [Next]_vars
    PROVE  IInv'
  <1>1. CASE UNCHANGED vars
    BY <1>1, NothingMoves DEF vars, coreVars, ownerVars, closeVars, backendVars, refVars,
                              reopenVars, closerVars
  <1>2. ASSUME NEW a \in Actors, Cancel(a) \/ SharedStep(a) PROVE IInv'
    <2>1. CASE Cancel(a)
      BY <2>1, NothingMoves DEF Cancel, coreVars, ownerVars, closeVars, backendVars, refVars,
                                reopenVars, closerVars
    <2> QED BY <1>2, <2>1, SharedSteps
  <1>3. CASE SessionCloses \/ SessionCancels
    BY <1>3, NothingMoves DEF SessionCloses, SessionCancels, coreVars, ownerVars, closeVars,
                              backendVars, refVars, reopenVars, closerVars
  <1>4. ASSUME NEW g \in Gens, DispatcherInvalidates(g) PROVE IInv'
    BY <1>4, NothingMoves DEF DispatcherInvalidates, coreVars, ownerVars, closeVars, refVars,
                              reopenVars, closerVars
  <1> QED BY <1>1, <1>2, <1>3, <1>4, CallSteps, InvalidatorSteps, ReopenSteps, CloserSteps,
             PumpSteps DEF Next

\* gen.active is exact and whatever has a lease is open (IInv), whatever the
\* calls do (acquire, releaseGeneration, reopen, Close).
THEOREM LeasesAreExact == Spec => []IInv
  <1>1. Init => IInv
    BY InitInv
  <1>2. IInv /\ [Next]_vars => IInv'
    BY NextInv
  <1> QED BY <1>1, <1>2, PTL DEF Spec

\* retireLocked is only called where somebody holds the generation, so that
\* whoever returns the last lease will close it: no retired generation is
\* left without a lease and with nobody who has begun to close it
\* (retireLocked, releaseGeneration).
THEOREM RetiredIsClosed == Spec => []HeldInv
  <1>1. IInv => HeldInv
    BY DEF IInv
  <1> QED BY <1>1, LeasesAreExact, PTL

\* Nobody is inside a call of a backend, refreshes the capability from it or
\* retires its events after it was closed (releaseGeneration, Close).
THEOREM BackendsAreOpenWhenUsed == Spec => []NoUseAfterClose
  <1>1. IInv => NoUseAfterClose
    <2> SUFFICES ASSUME IInv PROVE NoUseAfterClose
      OBVIOUS
    <2>1. \A g \in Open : backendCloses[g] = 0
      BY DEF IInv, BackendInv, TypeOK, Open
    <2>2. current # 0 => current \in Open
      BY DEF IInv, GenInv, Open
    <2> QED BY <2>1, <2>2 DEF IInv, PinInv, NoUseAfterClose
  <1> QED BY <1>1, LeasesAreExact, PTL

\* No backend is closed twice or forgotten (openFreshBackend, reopen,
\* releaseGeneration).
THEOREM BackendsAreAccountedFor == Spec => []ClosedOnceOrOwned
  <1>1. IInv => ClosedOnceOrOwned
    <2> SUFFICES ASSUME IInv, NEW g \in 1..born
                 PROVE  \/ backendCloses[g] = 1
                        \/ /\ backendCloses[g] = 0
                           /\ g \in generations \/ \E r \in Reopeners : fresh[r] = g
      BY DEF ClosedOnceOrOwned
    <2>1. g \in Gens /\ g <= born
      BY MaxGensPositive DEF IInv, TypeOK, Gens
    <2>2. backendCloses[g] \in {0, 1}
      BY <2>1 DEF IInv, TypeOK
    <2>3. g \in genDone => backendCloses[g] = 1
      BY <2>1 DEF IInv, GenInv, BackendInv
    <2> QED BY <2>1, <2>2, <2>3 DEF IInv, BackendInv
  <1> QED BY <1>1, LeasesAreExact, PTL

\* Close returns only when every generation is closed, and with every error
\* of doing so (Close).
THEOREM CloseReturnsLast == Spec => []CloseIsComplete
  <1>1. IInv => CloseIsComplete
    <2> SUFFICES ASSUME IInv, NEW c \in Closers, pc[c] = "returned"
                 PROVE  /\ generations = {}
                        /\ closeErr = closeErrors
                        /\ \A g \in retired : g \in genDone /\ backendCloses[g] = 1
      BY DEF CloseIsComplete
    <2>1. generations = {} /\ closeErr = closeErrors
      BY DEF IInv, CloserInv
    <2>2. \A g \in retired : g \in genDone /\ g \in Gens /\ g \in closeStarted
      BY <2>1 DEF IInv, GenInv, TypeOK
    <2> QED BY <2>1, <2>2 DEF IInv, BackendInv
  <1> QED BY <1>1, LeasesAreExact, PTL

-----------------------------------------------------------------------------
(***************************************************************************)
(* Proofs about what AccessibilityOwner's reopen promises: that nothing of *)
(* a backend that was replaced or abandoned revives, and that subscribers  *)
(* see no event of a replaced backend once the reopen has returned.        *)
(*                                                                         *)
(* The first rests on the numbers of backends (NumInv): the current one    *)
(* leads, because a replaced backend's dispatcher is stopped and epochMu   *)
(* keeps Invalidate out while a successor is published (EpochInv).  The    *)
(* second rests on the bindings (BindInv): a reopen waits for every pump   *)
(* that runs, and a pump completes no binding beyond its own.              *)
(***************************************************************************)

(* The numbers of backends.                                                *)

\* Where a call holds epochMu.
Holding(a, p) ==
    \/ a \in Invalidators /\ p \in {"acquire", "bump", "release", "unlock"}
    \/ /\ a \in Reopeners
       /\ p \in {"check", "advance", "publish", "abandon", "capability", "unepoch"}

EpochInv == \A a \in Actors : Holding(a, pc[a]) => epochMu = a

\* The generations that are or were current.
Pub == generations \cup genDone

\* Where a reopen has stopped the old dispatcher and may publish.
StoppedAt(p, t) ==
    \/ p \in {"retired", "epoch", "check", "advance", "publish"}
    \/ p \in Refreshing /\ t = "retired"

\* The current backend's number is above the numbers of all it replaced, and
\* those do not change any more.
NumberOK ==
    /\ number \in [Gens -> Nat]
    /\ \A h \in handles : h[1] \in Pub /\ h[2] \in Nat /\ h[2] <= number[h[1]]
CurrentLeads ==
    current # 0 =>
        /\ \A g \in Pub \ {current} : number[g] < number[current] /\ g \notin dispatching
        /\ \A a \in Invalidators : pc[a] = "bump" => lease[a] = current
ReopenStopped ==
    \A r \in Reopeners :
        /\ StoppedAt(pc[r], ret[r]) => lease[r] \notin dispatching
        /\ pc[r] = "publish" => number[lease[r]] < number[fresh[r]]
NumInv == NumberOK /\ CurrentLeads /\ ReopenStopped

-----------------------------------------------------------------------------
(* The bindings of subscriptions.                                          *)

Unborn(p) == p \in {"absent", "idle"}
Active(p) == p \notin {"absent", "idle", "end", "returned"}

\* A reopen has published its backend and has not returned yet; it waits for
\* bindings no more.
PublishedAt(p, t) == p \in {"bind", "finish"} \/ (p \in Refreshing /\ t = "finish")
SettlingAt(p, t) == PublishedAt(p, t) /\ p # "bind"

BindTypeOK ==
    /\ waits \in [Reopeners -> SUBSET Subs] /\ mine \in [Subs -> Known]
    /\ settled \in Known /\ eventSubs \subseteq Subs

\* A subscription is listed while its pump runs, and it completes only
\* bindings to its own generation or to one before.
SubsOK ==
    \A s \in Subs :
        /\ Active(pc[s]) => /\ s \in eventSubs /\ s \notin subDone
                            /\ settled <= mine[s]
                            /\ current # 0 => mine[s] <= current
                            /\ \A g \in Known : <<s, g>> \in bindDone => g <= mine[s]
        /\ Unborn(pc[s]) => s \notin subDone /\ \A g \in Known : <<s, g>> \notin bindDone

\* A reopen waits for every subscription that is not past its backend yet.
WaitsOK ==
    \A r \in Reopeners :
        /\ PublishedAt(pc[r], ret[r]) =>
              /\ current # 0 => fresh[r] <= current
              /\ \A s \in Subs : Active(pc[s]) => s \in waits[r] \/ fresh[r] <= mine[s]
        /\ SettlingAt(pc[r], ret[r]) /\ r \notin cancelled => waits[r] = {}
        /\ Unpub(r) => lease[r] < fresh[r]

BindInv == BindTypeOK /\ SubsOK /\ WaitsOK /\ (current # 0 => settled <= current)

RInv == EpochInv /\ NumInv /\ BindInv /\ AbandonedStaysUnavailable

-----------------------------------------------------------------------------
(* What a step of one call leaves alone.                                   *)

\* Only a moves.
OthersKept(a) ==
    \A b \in Actors \ {a} : pc'[b] = pc[b] /\ ret'[b] = ret[b] /\ lease'[b] = lease[b]

\* epochMu is left alone.
LEMMA EpochKept ==
    ASSUME EpochInv, NEW a \in Actors, OthersKept(a), epochMu' = epochMu,
           Holding(a, pc'[a]) => Holding(a, pc[a])
    PROVE  EpochInv'
  BY DEF EpochInv, OthersKept

\* The numbers are left alone.
LEMMA NumKept ==
    ASSUME NumInv, NEW a \in Actors, OthersKept(a),
           UNCHANGED <<number, dispatching, handles, current>>, Pub' = Pub,
           \A r \in Reopeners \ {a} : fresh'[r] = fresh[r],
           a \in Invalidators /\ pc'[a] = "bump" => pc[a] = "bump" /\ lease'[a] = lease[a],
           a \in Reopeners =>
              /\ pc'[a] # "publish"
              /\ StoppedAt(pc'[a], ret'[a]) => StoppedAt(pc[a], ret[a]) /\ lease'[a] = lease[a]
    PROVE  NumInv'
  <1>1. Invalidators \subseteq Actors /\ Reopeners \subseteq Actors
    BY DEF Actors
  <1>2. NumberOK'
    BY DEF NumInv, NumberOK
  <1>3. CurrentLeads'
    <2>1. \A i \in Invalidators : pc'[i] = "bump" => pc[i] = "bump" /\ lease'[i] = lease[i]
      BY <1>1 DEF OthersKept
    <2> QED BY <2>1 DEF NumInv, CurrentLeads
  <1>4. ReopenStopped'
    <2>1. \A r \in Reopeners : StoppedAt(pc'[r], ret'[r]) =>
             StoppedAt(pc[r], ret[r]) /\ lease'[r] = lease[r]
      BY <1>1 DEF OthersKept
    <2>2. \A r \in Reopeners : pc'[r] = "publish" =>
             pc[r] = "publish" /\ lease'[r] = lease[r] /\ fresh'[r] = fresh[r]
      BY <1>1 DEF OthersKept
    <2> QED BY <2>1, <2>2 DEF NumInv, ReopenStopped
  <1> QED BY <1>2, <1>3, <1>4 DEF NumInv

\* The bindings are left alone.
LEMMA BindKept ==
    ASSUME BindInv, NEW a \in Actors, OthersKept(a),
           UNCHANGED <<current, mine, settled, eventSubs, subDone, bindDone, waits>>,
           cancelled \subseteq cancelled',
           \A r \in Reopeners \ {a} : fresh'[r] = fresh[r],
           a \in Subs => (Active(pc'[a]) => Active(pc[a])) /\ (Unborn(pc'[a]) => Unborn(pc[a])),
           a \in Reopeners =>
              /\ PublishedAt(pc'[a], ret'[a]) => PublishedAt(pc[a], ret[a]) /\ fresh'[a] = fresh[a]
              /\ SettlingAt(pc'[a], ret'[a]) => SettlingAt(pc[a], ret[a])
              /\ Unpub(a)' => Unpub(a) /\ fresh'[a] = fresh[a] /\ lease'[a] = lease[a]
    PROVE  BindInv'
  <1>1. Subs \subseteq Actors /\ Reopeners \subseteq Actors
    BY DEF Actors
  <1>2. \A s \in Subs : /\ Active(pc'[s]) => Active(pc[s])
                        /\ Unborn(pc'[s]) => Unborn(pc[s])
    BY <1>1 DEF OthersKept
  <1>3. BindTypeOK'
    BY DEF BindInv, BindTypeOK
  <1>4. SubsOK'
    BY <1>2 DEF BindInv, SubsOK
  <1>5. WaitsOK'
    <2>1. \A r \in Reopeners :
             PublishedAt(pc'[r], ret'[r]) => PublishedAt(pc[r], ret[r]) /\ fresh'[r] = fresh[r]
      BY <1>1 DEF OthersKept
    <2>2. \A r \in Reopeners : SettlingAt(pc'[r], ret'[r]) => SettlingAt(pc[r], ret[r])
      BY <1>1 DEF OthersKept
    <2>3. \A r \in Reopeners :
             Unpub(r)' => Unpub(r) /\ fresh'[r] = fresh[r] /\ lease'[r] = lease[r]
      BY <1>1 DEF OthersKept, Unpub
    <2>4. SUFFICES ASSUME NEW r \in Reopeners
                   PROVE  /\ PublishedAt(pc'[r], ret'[r]) =>
                                /\ current # 0 => fresh'[r] <= current
                                /\ \A s \in Subs :
                                      Active(pc'[s]) => s \in waits[r] \/ fresh'[r] <= mine[s]
                          /\ SettlingAt(pc'[r], ret'[r]) /\ r \notin cancelled' => waits[r] = {}
                          /\ Unpub(r)' => lease'[r] < fresh'[r]
      BY DEF WaitsOK
    <2>5. PublishedAt(pc'[r], ret'[r]) =>
             /\ current # 0 => fresh'[r] <= current
             /\ \A s \in Subs : Active(pc'[s]) => s \in waits[r] \/ fresh'[r] <= mine[s]
      BY <1>2, <2>1 DEF BindInv, WaitsOK
    <2>6. SettlingAt(pc'[r], ret'[r]) /\ r \notin cancelled' => waits[r] = {}
      BY <2>2 DEF BindInv, WaitsOK
    <2>7. Unpub(r)' => lease'[r] < fresh'[r]
      BY <2>3 DEF BindInv, WaitsOK
    <2> QED BY <2>5, <2>6, <2>7
  <1>6. current' # 0 => settled' <= current'
    BY DEF BindInv
  <1> QED BY <1>3, <1>4, <1>5, <1>6 DEF BindInv

\* Whether the session has a backend is left alone.
LEMMA AbandonKept ==
    ASSUME AbandonedStaysUnavailable, NEW a \in Actors, OthersKept(a),
           UNCHANGED <<current, closed, capability>>,
           a \in Reopeners => pc[a] # "capability"
    PROVE  AbandonedStaysUnavailable'
  BY DEF AbandonedStaysUnavailable, OthersKept, Actors

\* A step that nothing of this depends on, but for where a is.
LEMMA RKept ==
    ASSUME RInv, NEW a \in Actors, OthersKept(a),
           UNCHANGED <<number, dispatching, handles, current, fresh, mine, settled, eventSubs,
                       subDone, bindDone, waits, closed, capability, epochMu>>,
           cancelled \subseteq cancelled', Pub' = Pub,
           Holding(a, pc'[a]) => Holding(a, pc[a]),
           a \in Invalidators => pc'[a] # "bump",
           a \in Subs => (Active(pc'[a]) => Active(pc[a])) /\ (Unborn(pc'[a]) => Unborn(pc[a])),
           a \in Reopeners =>
              /\ pc'[a] # "publish" /\ pc[a] # "capability"
              /\ StoppedAt(pc'[a], ret'[a]) => StoppedAt(pc[a], ret[a]) /\ lease'[a] = lease[a]
              /\ PublishedAt(pc'[a], ret'[a]) => PublishedAt(pc[a], ret[a])
              /\ SettlingAt(pc'[a], ret'[a]) => SettlingAt(pc[a], ret[a])
              /\ Unpub(a)' => Unpub(a) /\ lease'[a] = lease[a]
    PROVE  RInv'
  <1>1. EpochInv'
    BY EpochKept DEF RInv
  <1>2. NumInv'
    BY NumKept DEF RInv
  <1>3. BindInv'
    BY BindKept DEF RInv
  <1>4. AbandonedStaysUnavailable'
    BY AbandonKept DEF RInv
  <1> QED BY <1>1, <1>2, <1>3, <1>4 DEF RInv

\* A step at which nobody moves.
LEMMA RestKept ==
    ASSUME RInv,
           UNCHANGED <<number, dispatching, handles, current, fresh, mine, settled, eventSubs,
                       subDone, bindDone, waits, closed, capability, epochMu, pc, ret, lease>>,
           cancelled \subseteq cancelled', Pub' = Pub
    PROVE  RInv'
  <1>1. EpochInv' /\ AbandonedStaysUnavailable'
    BY DEF RInv, EpochInv, AbandonedStaysUnavailable
  <1>2. NumInv'
    BY DEF RInv, NumInv, NumberOK, CurrentLeads, ReopenStopped
  <1>3. BindInv'
    <2>1. BindTypeOK' /\ SubsOK' /\ (current' # 0 => settled' <= current')
      BY DEF RInv, BindInv, BindTypeOK, SubsOK
    <2>2. WaitsOK'
      BY DEF RInv, BindInv, WaitsOK, Unpub
    <2> QED BY <2>1, <2>2 DEF BindInv
  <1> QED BY <1>1, <1>2, <1>3 DEF RInv

\* How a moves.
LEMMA Moved ==
    ASSUME IInv, NEW a \in Actors, NEW to, pc' = [pc EXCEPT ![a] = to],
           \/ ret' = ret
           \/ \E t : ret' = [ret EXCEPT ![a] = t],
           \/ lease' = lease
           \/ \E g : lease' = [lease EXCEPT ![a] = g]
    PROVE  OthersKept(a) /\ pc'[a] = to
  BY DEF IInv, TypeOK, OthersKept

-----------------------------------------------------------------------------
(* Calls and invalidations.                                                *)

\* A query or a stream takes its step; a handle it is given has the number
\* that its backend has then.
LEMMA CallKeeps ==
    ASSUME IInv, RInv, NEW a \in Queries \cup Streamers,
           Acquire(a) \/ CallReturns(a) \/ CallStep(a)
    PROVE  RInv'
  <1>1. /\ a \in Actors /\ a \notin Reopeners \cup Closers \cup Subs \cup Invalidators
        /\ lease[a] # 0 <=> pc[a] \in {"precheck", "call", "postcheck", "release"}
    BY CallPlace
  <1>2. UNCHANGED <<number, dispatching, current, fresh, mine, settled, eventSubs, subDone,
                    bindDone, waits, closed, capability, epochMu, cancelled, generations,
                    genDone, ret>>
    <2>1. CASE Acquire(a)
      BY <2>1 DEF Acquire, Moves, closeVars, muVars, backendVars, refVars, reopenVars, subVars
    <2>2. CASE CallReturns(a)
      BY <2>2 DEF CallReturns, Moves, ownerVars, closeVars, muVars, refVars, reopenVars, subVars
    <2>3. CASE Precheck(a) \/ QueryPostcheck(a) \/ StreamPostcheck(a)
      BY <2>3 DEF Precheck, QueryPostcheck, StreamPostcheck, Moves, ownerVars, closeVars,
                  muVars, backendVars, refVars, reopenVars, subVars
    <2>4. CASE Release(a, "release", "returned")
      BY <2>4 DEF Release, ReleaseGen, Moves, closeVars, muVars, refVars, reopenVars, subVars
    <2> QED BY <2>1, <2>2, <2>3, <2>4 DEF CallStep
  <1>3. OthersKept(a)
    <2>1. /\ \E to : pc' = [pc EXCEPT ![a] = to]
          /\ lease' = lease \/ \E g : lease' = [lease EXCEPT ![a] = g]
      <3>1. CASE Acquire(a)
        BY <3>1 DEF Acquire, Moves
      <3>2. CASE CallReturns(a)
        BY <3>2 DEF CallReturns, Moves
      <3>3. CASE Precheck(a) \/ QueryPostcheck(a) \/ StreamPostcheck(a)
        BY <3>3 DEF Precheck, QueryPostcheck, StreamPostcheck, Moves
      <3>4. CASE Release(a, "release", "returned")
        BY <3>4 DEF Release, Moves
      <3> QED BY <3>1, <3>2, <3>3, <3>4 DEF CallStep
    <2> QED BY <1>1, <1>2, <2>1, Moved
  <1>4. Pub' = Pub
    BY <1>2 DEF Pub
  <1>5. CASE handles' = handles
    BY <1>1, <1>2, <1>3, <1>4, <1>5, RKept DEF Holding
  <1>6. CASE handles' # handles
    <2>1. pc[a] = "call" /\ handles' = handles \cup {<<lease[a], number[lease[a]]>>}
      <3>1. CASE CallReturns(a)
        BY <3>1, <1>6 DEF CallReturns, Moves
      <3>2. CASE Acquire(a)
        BY <3>2, <1>6 DEF Acquire, backendVars
      <3>3. CASE Precheck(a) \/ QueryPostcheck(a) \/ StreamPostcheck(a)
        BY <3>3, <1>6 DEF Precheck, QueryPostcheck, StreamPostcheck, backendVars
      <3>4. CASE Release(a, "release", "returned")
        BY <3>4, <1>6 DEF Release
      <3> QED BY <3>1, <3>2, <3>3, <3>4 DEF CallStep
    <2>2. PICK g \in Gens : g = lease[a] /\ g \in Pub
      BY <1>1, <2>1 DEF IInv, PinInv, TypeOK, Open, Pub
    <2>3. number[g] \in Nat
      BY DEF RInv, NumInv, NumberOK
    <2>4. NumberOK'
      <3> SUFFICES ASSUME NEW h \in handles'
                   PROVE  h[1] \in Pub /\ h[2] \in Nat /\ h[2] <= number[h[1]]
        BY <1>2, <1>4 DEF NumberOK, RInv, NumInv
      <3>1. CASE h \in handles
        BY <3>1 DEF RInv, NumInv, NumberOK
      <3>2. CASE h = <<g, number[g]>>
        <4>1. h[1] = g /\ h[2] = number[g]
          BY <3>2
        <4> QED BY <4>1, <2>2, <2>3
      <3> QED BY <2>1, <2>2, <3>1, <3>2
    <2>5. CurrentLeads'
      <3>1. \A i \in Invalidators : pc'[i] = pc[i] /\ lease'[i] = lease[i]
        BY <1>1, <1>3 DEF OthersKept, Actors
      <3> QED BY <1>2, <1>4, <3>1 DEF RInv, NumInv, CurrentLeads
    <2>6. ReopenStopped'
      <3>1. \A r \in Reopeners : pc'[r] = pc[r] /\ ret'[r] = ret[r] /\ lease'[r] = lease[r]
        BY <1>1, <1>3 DEF OthersKept, Actors
      <3> QED BY <1>2, <3>1 DEF RInv, NumInv, ReopenStopped
    <2>7. EpochInv'
      BY <1>1, <1>2, <1>3, EpochKept DEF RInv, Holding
    <2>8. BindInv'
      BY <1>1, <1>2, <1>3, BindKept DEF RInv
    <2>9. AbandonedStaysUnavailable'
      BY <1>1, <1>2, <1>3, AbandonKept DEF RInv
    <2> QED BY <2>4, <2>5, <2>6, <2>7, <2>8, <2>9 DEF RInv, NumInv
  <1> QED BY <1>5, <1>6

\* Nobody else holds epochMu.
LEMMA EpochAlone ==
    ASSUME EpochInv, NEW a \in Actors, OthersKept(a),
           epochMu = "free" \/ epochMu = a, epochMu' = a \/ ~Holding(a, pc'[a])
    PROVE  EpochInv'
  <1>1. \A b \in Actors \ {a} : ~Holding(b, pc[b])
    BY FreeIsNobody DEF EpochInv
  <1> QED BY <1>1 DEF EpochInv, OthersKept

\* A backend's number grows: that of the current one, or of one that is not
\* or no longer a generation in use.
LEMMA NumberGrows ==
    ASSUME IInv, NumInv, NEW g \in Gens, number' = [number EXCEPT ![g] = @ + 1],
           UNCHANGED <<dispatching, handles, current, fresh, lease>>, Pub' = Pub,
           current # 0 => g = current \/ g \notin Pub,
           \A i \in Invalidators : pc'[i] = "bump" => pc[i] = "bump",
           \A r \in Reopeners : StoppedAt(pc'[r], ret'[r]) => StoppedAt(pc[r], ret[r]),
           \A r \in Reopeners : pc'[r] = "publish" =>
              \/ pc[r] = "publish" /\ g # lease[r]
              \/ number'[lease[r]] < number'[fresh[r]]
    PROVE  NumInv'
  <1>1. /\ number \in [Gens -> Nat] /\ number' \in [Gens -> Nat] /\ number'[g] = number[g] + 1
        /\ \A h \in Gens \ {g} : number'[h] = number[h]
    BY DEF NumInv, NumberOK
  <1>2. \A h \in Gens : number'[h] >= number[h] /\ number[h] \in Nat /\ number'[h] \in Nat
    BY <1>1
  <1>3. Pub \subseteq Gens /\ (current # 0 => current \in Gens)
    BY DEF IInv, TypeOK, Pub, Gens, Known
  <1>4. NumberOK'
    <2> SUFFICES ASSUME NEW h \in handles
                 PROVE  h[1] \in Pub /\ h[2] \in Nat /\ h[2] <= number'[h[1]]
      BY <1>1 DEF NumberOK
    <2>1. h[1] \in Pub /\ h[2] \in Nat /\ h[2] <= number[h[1]]
      BY DEF NumInv, NumberOK
    <2>2. h[1] \in Gens
      BY <2>1, <1>3
    <2>3. number'[h[1]] >= number[h[1]] /\ number[h[1]] \in Nat /\ number'[h[1]] \in Nat
      BY <2>2, <1>2
    <2> QED BY <2>1, <2>3
  <1>5. CurrentLeads'
    <2> SUFFICES ASSUME current # 0, NEW h \in Pub \ {current}
                 PROVE  number'[h] < number'[current]
      BY DEF NumInv, CurrentLeads
    <2>1. number[h] < number[current] /\ number'[h] = number[h]
      BY <1>1, <1>3 DEF NumInv, CurrentLeads
    <2> QED BY <1>2, <1>3, <2>1
  <1>6. ReopenStopped'
    <2> SUFFICES ASSUME NEW r \in Reopeners, pc[r] = "publish", g # lease[r]
                 PROVE  number'[lease[r]] < number'[fresh[r]]
      BY DEF NumInv, ReopenStopped
    <2>1. r \in Actors /\ lease[r] # 0
      BY ReopenPlace
    <2>2. lease[r] \in Gens /\ fresh[r] \in Gens
      <3>1. lease[r] \in Gens
        BY <2>1 DEF IInv, PinInv, TypeOK, Open
      <3>2. Unpub(r)
        BY DEF Unpub, Unpublished, Opened
      <3>3. fresh[r] \in 1..born /\ 1..born \subseteq Gens
        BY <3>2, MaxGensPositive DEF IInv, FreshInv, TypeOK, Gens
      <3> QED BY <3>1, <3>3
    <2>3. number[lease[r]] < number[fresh[r]] /\ number'[lease[r]] = number[lease[r]]
      BY <1>1, <2>2 DEF NumInv, ReopenStopped
    <2> QED BY <1>2, <2>2, <2>3
  <1> QED BY <1>4, <1>5, <1>6 DEF NumInv

\* An invalidation takes its step; it holds epochMu until its call has
\* returned, so that the backend whose number it raises is still current.
LEMMA InvalidateKeeps ==
    ASSUME IInv, RInv, NEW a \in Invalidators, InvalidateLock(a) \/ InvalidateStep(a)
    PROVE  RInv'
  <1>1. /\ a \in Actors
        /\ a \notin Queries \cup Streamers \cup Reopeners \cup Closers \cup Subs
        /\ lease[a] # 0 <=> pc[a] \in {"bump", "release"}
    BY InvalidatePlace
  <1>2. /\ UNCHANGED <<dispatching, handles, current, fresh, mine, settled, eventSubs, subDone,
                       bindDone, waits, closed, capability, cancelled, generations,
                       genDone, ret>>
        /\ \E to : pc' = [pc EXCEPT ![a] = to]
        /\ lease' = lease \/ \E g : lease' = [lease EXCEPT ![a] = g]
    <2>1. CASE InvalidateLock(a) \/ InvalidateUnlock(a)
      BY <2>1 DEF InvalidateLock, InvalidateUnlock, Moves, ownerVars, closeVars, backendVars,
                  refVars, reopenVars, subVars
    <2>2. CASE InvalidateAcquire(a)
      BY <2>2 DEF InvalidateAcquire, Moves, closeVars, backendVars, refVars, reopenVars, subVars
    <2>3. CASE InvalidateCall(a)
      BY <2>3 DEF InvalidateCall, Moves, ownerVars, closeVars, refVars, reopenVars, subVars
    <2>4. CASE Release(a, "release", "unlock")
      BY <2>4 DEF Release, ReleaseGen, Moves, closeVars, refVars, reopenVars, subVars
    <2> QED BY <2>1, <2>2, <2>3, <2>4 DEF InvalidateStep
  <1>3. OthersKept(a) /\ \A to : pc' = [pc EXCEPT ![a] = to] => pc'[a] = to
    BY <1>1, <1>2, Moved
  <1>4. Pub' = Pub
    BY <1>2 DEF Pub
  <1>5. BindInv' /\ AbandonedStaysUnavailable'
    BY <1>1, <1>2, <1>3, BindKept, AbandonKept DEF RInv
  <1>6. CASE InvalidateLock(a) \/ InvalidateUnlock(a)
    <2>1. /\ number' = number /\ pc'[a] # "bump"
          /\ \/ epochMu = "free" /\ epochMu' = a
             \/ Holding(a, pc[a]) /\ ~Holding(a, pc'[a])
      BY <1>1, <1>3, <1>6 DEF InvalidateLock, InvalidateUnlock, Moves, backendVars, Holding
    <2>2. EpochInv'
      BY <1>1, <1>3, <2>1, EpochAlone DEF RInv, EpochInv
    <2>3. NumInv'
      BY <1>1, <1>2, <1>3, <1>4, <2>1, NumKept DEF RInv
    <2> QED BY <1>5, <2>2, <2>3 DEF RInv
  <1>7. CASE InvalidateAcquire(a) \/ Release(a, "release", "unlock")
    <2>1. /\ UNCHANGED <<number, epochMu>> /\ Holding(a, pc[a])
          /\ pc'[a] = "bump" => lease' = [lease EXCEPT ![a] = current]
      BY <1>1, <1>3, <1>7 DEF InvalidateAcquire, Release, Moves, backendVars, muVars, Holding
    <2>2. EpochInv'
      BY <1>1, <1>3, <2>1, EpochKept DEF RInv
    <2>3. NumberOK'
      BY <1>2, <1>4, <2>1 DEF RInv, NumInv, NumberOK
    <2>4. CurrentLeads'
      <3>1. pc'[a] = "bump" => lease'[a] = current
        BY <1>1, <2>1 DEF IInv, TypeOK
      <3>2. \A i \in Invalidators \ {a} : pc'[i] = pc[i] /\ lease'[i] = lease[i]
        BY <1>3 DEF OthersKept, Actors
      <3> QED BY <1>2, <1>4, <2>1, <3>1, <3>2 DEF RInv, NumInv, CurrentLeads
    <2>5. ReopenStopped'
      <3>1. \A r \in Reopeners : pc'[r] = pc[r] /\ ret'[r] = ret[r] /\ lease'[r] = lease[r]
        BY <1>1, <1>3 DEF OthersKept, Actors
      <3> QED BY <1>2, <2>1, <3>1 DEF RInv, NumInv, ReopenStopped
    <2> QED BY <1>5, <2>2, <2>3, <2>4, <2>5 DEF RInv, NumInv
  <1>8. CASE InvalidateCall(a)
    <2>1. /\ pc[a] = "bump" /\ pc' = [pc EXCEPT ![a] = "release"]
          /\ number' = [number EXCEPT ![lease[a]] = @ + 1] /\ UNCHANGED <<lease, epochMu>>
      BY <1>8 DEF InvalidateCall, Moves, muVars
    <2>2. pc'[a] = "release"
      BY <1>3, <2>1
    <2>3. EpochInv'
      BY <1>1, <1>3, <2>1, <2>2, EpochKept DEF RInv, Holding
    <2>4. PICK g \in Gens : g = lease[a]
      BY <1>1, <2>1 DEF IInv, PinInv, TypeOK, Open
    <2>5. current # 0 => g = current
      BY <2>1, <2>4 DEF RInv, NumInv, CurrentLeads
    <2>6. \A r \in Reopeners : pc'[r] = pc[r] /\ ret'[r] = ret[r] /\ pc[r] # "publish"
      <3>1. Holding(a, pc[a]) /\ \A r \in Reopeners : pc[r] = "publish" => Holding(r, pc[r])
        BY <2>1 DEF Holding
      <3>2. \A r \in Reopeners : r \in Actors /\ r # a
        BY <1>1 DEF Actors
      <3>3. \A r \in Reopeners : pc[r] # "publish"
        BY <1>1, <3>1, <3>2 DEF RInv, EpochInv
      <3> QED BY <1>3, <3>2, <3>3 DEF OthersKept
    <2>7. \A i \in Invalidators : pc'[i] = "bump" => pc[i] = "bump"
      BY <1>3, <2>1 DEF OthersKept, Actors
    <2>8. NumInv'
      <3>1. \A r \in Reopeners : StoppedAt(pc'[r], ret'[r]) => StoppedAt(pc[r], ret[r])
        BY <2>6
      <3>2. \A r \in Reopeners : pc'[r] = "publish" =>
               \/ pc[r] = "publish" /\ g # lease[r]
               \/ number'[lease[r]] < number'[fresh[r]]
        BY <2>6
      <3>3. number' = [number EXCEPT ![g] = @ + 1]
        BY <2>1, <2>4
      <3> QED BY <1>2, <1>4, <2>1, <2>5, <2>7, <3>1, <3>2, <3>3, NumberGrows DEF RInv
    <2> QED BY <1>5, <2>3, <2>8 DEF RInv
  <1> QED BY <1>6, <1>7, <1>8 DEF InvalidateStep

\* The dispatcher of a backend raises its number; that of a replaced backend
\* has been stopped.
LEMMA DispatcherKeeps ==
    ASSUME IInv, RInv, NEW g \in Gens, DispatcherInvalidates(g)
    PROVE  RInv'
  <1>1. /\ g \in dispatching /\ number' = [number EXCEPT ![g] = @ + 1]
        /\ UNCHANGED <<dispatching, handles, current, fresh, mine, settled, eventSubs, subDone,
                       bindDone, waits, closed, capability, cancelled, generations,
                       genDone, pc, ret, lease, epochMu>>
    BY DEF DispatcherInvalidates, ownerVars, closeVars, muVars, refVars, reopenVars, subVars
  <1>2. Pub' = Pub
    BY <1>1 DEF Pub
  <1>3. current # 0 => g = current \/ g \notin Pub
    BY <1>1 DEF RInv, NumInv, CurrentLeads
  <1>4. \A r \in Reopeners : pc[r] = "publish" => g # lease[r]
    BY <1>1 DEF RInv, NumInv, ReopenStopped, StoppedAt
  <1>5. NumInv'
    <2>1. \A r \in Reopeners : StoppedAt(pc'[r], ret'[r]) => StoppedAt(pc[r], ret[r])
      BY <1>1
    <2>2. \A r \in Reopeners : pc'[r] = "publish" =>
              \/ pc[r] = "publish" /\ g # lease[r]
              \/ number'[lease[r]] < number'[fresh[r]]
      BY <1>1, <1>4
    <2>3. \A i \in Invalidators : pc'[i] = "bump" => pc[i] = "bump"
      BY <1>1
    <2> QED BY <1>1, <1>2, <1>3, <2>1, <2>2, <2>3, NumberGrows DEF RInv
  <1>6. EpochInv' /\ AbandonedStaysUnavailable'
    BY <1>1 DEF RInv, EpochInv, AbandonedStaysUnavailable
  <1>7. BindInv'
    <2>1. BindTypeOK' /\ SubsOK' /\ (current' # 0 => settled' <= current')
      BY <1>1 DEF RInv, BindInv, BindTypeOK, SubsOK
    <2>2. WaitsOK'
      BY <1>1 DEF RInv, BindInv, WaitsOK, Unpub
    <2> QED BY <2>1, <2>2 DEF BindInv
  <1> QED BY <1>5, <1>6, <1>7 DEF RInv

-----------------------------------------------------------------------------
(* Reopens.                                                                *)

\* The quiet steps of a reopen.
LEMMA ReopenRests ==
    ASSUME IInv, RInv, NEW r \in Reopeners,
           ReopenLock(r) \/ ReopenAcquire(r) \/ OpenFails(r) \/ OpenFailsWithBackend(r)
             \/ RetireChecked(r) \/ PublishCheck(r) \/ PublishRefused(r) \/ ReopenUnlock(r)
             \/ Release(r, "release", "returned") \/ (Abandon(r) /\ current # lease[r])
             \/ (RetireFails(r) /\ (r \in cancelled \/ sessionClosed))
    PROVE  RInv'
  <1>1. /\ r \in Actors
        /\ r \notin Queries \cup Streamers \cup Invalidators \cup Closers \cup Subs
    BY ReopenPlace
  <1>2. /\ UNCHANGED <<number, dispatching, handles, current, fresh, mine, settled, eventSubs,
                       subDone, bindDone, waits, closed, capability, epochMu, cancelled,
                       generations, genDone, ret>>
        /\ \E p, q : /\ pc[r] = p /\ pc' = [pc EXCEPT ![r] = q]
                     /\ \/ p \in {"idle", "acquire"} /\ q \in {"acquire", "open", "returned"}
                        \/ p = "release" /\ q = "returned"
                        \/ /\ lease' = lease
                           /\ \/ p = "open" /\ q = "unlock"
                              \/ p = "unlock" /\ q = "release"
                              \/ p = "retire" /\ q = "drop"
                              \/ p = "retired" /\ q \in {"drop", "epoch"}
                              \/ p = "check" /\ q \in {"advance", "unepoch"}
                              \/ p \in {"publish", "abandon"} /\ q = "unepoch"
        /\ lease' = lease \/ \E g : lease' = [lease EXCEPT ![r] = g]
    <2>1. CASE ReopenLock(r) \/ OpenFails(r) \/ RetireChecked(r) \/ PublishCheck(r)
      BY <2>1 DEF ReopenLock, OpenFails, RetireChecked, PublishCheck, Moves, ownerVars, closeVars,
                  muVars, backendVars, refVars, reopenVars, subVars
    <2>2. CASE PublishRefused(r) \/ ReopenUnlock(r)
      BY <2>2 DEF PublishRefused, ReopenUnlock, Moves, ownerVars, closeVars,
                  muVars, backendVars, refVars, reopenVars, subVars
    <2>3. CASE ReopenAcquire(r)
      BY <2>3 DEF ReopenAcquire, Moves, closeVars, backendVars, refVars, reopenVars, subVars
    <2>4. CASE OpenFailsWithBackend(r)
      BY <2>4 DEF OpenFailsWithBackend, Moves, ownerVars, closeVars, muVars, refVars,
                  reopenVars, subVars
    <2>5. CASE Release(r, "release", "returned")
      BY <2>5 DEF Release, ReleaseGen, Moves, closeVars, muVars, refVars, reopenVars, subVars
    <2>6. CASE Abandon(r) /\ current # lease[r]
      BY <2>6 DEF Abandon, Moves, closeVars, muVars, backendVars, refVars, reopenVars, subVars
    <2>7. CASE RetireFails(r) /\ (r \in cancelled \/ sessionClosed)
      BY <2>7 DEF RetireFails, Moves, ownerVars, closeVars, muVars, reopenVars, subVars
    <2> QED BY <2>1, <2>2, <2>3, <2>4, <2>5, <2>6, <2>7
  <1>3. PICK p, q : /\ pc[r] = p /\ pc' = [pc EXCEPT ![r] = q]
                    /\ \/ p \in {"idle", "acquire"} /\ q \in {"acquire", "open", "returned"}
                       \/ p = "release" /\ q = "returned"
                       \/ /\ lease' = lease
                          /\ \/ p = "open" /\ q = "unlock"
                             \/ p = "unlock" /\ q = "release"
                             \/ p = "retire" /\ q = "drop"
                             \/ p = "retired" /\ q \in {"drop", "epoch"}
                             \/ p = "check" /\ q \in {"advance", "unepoch"}
                             \/ p \in {"publish", "abandon"} /\ q = "unepoch"
    BY <1>2
  <1>4. OthersKept(r) /\ pc'[r] = q
    BY <1>1, <1>2, <1>3, Moved
  <1>5. Pub' = Pub
    BY <1>2 DEF Pub
  <1>6. /\ Holding(r, q) => Holding(r, p)
        /\ q # "publish" /\ p # "capability"
        /\ StoppedAt(q, ret[r]) => StoppedAt(p, ret[r]) /\ lease'[r] = lease[r]
        /\ ~PublishedAt(q, ret[r])
        /\ Unpublished(q, ret[r]) => Unpublished(p, ret[r]) /\ lease'[r] = lease[r]
    BY <1>1, <1>3 DEF Holding, StoppedAt, PublishedAt, Unpublished, Opened, Refreshing
  <1>7. ~SettlingAt(q, ret[r]) /\ (Unpub(r)' => Unpub(r) /\ lease'[r] = lease[r])
    BY <1>2, <1>3, <1>4, <1>6 DEF SettlingAt, Unpub
  <1> QED BY <1>1, <1>2, <1>3, <1>4, <1>5, <1>6, <1>7, RKept

\* What a reopen between opening its backend and publishing it knows: its
\* backend is nobody else's and its lease is on a generation.
LEMMA FreshApart ==
    ASSUME IInv, NEW r \in Reopeners, Unpub(r)
    PROVE  /\ lease[r] \in Gens /\ lease[r] \in Pub
           /\ fresh[r] \in Gens /\ fresh[r] \notin Pub /\ fresh[r] # 0
           /\ \A q \in Reopeners \ {r} : Unpub(q) => fresh[q] # fresh[r]
           /\ current # fresh[r]
  <1>1. r \in Actors /\ lease[r] # 0
    <2>1. /\ r \in Actors
          /\ lease[r] # 0 <=> pc[r] \notin {"absent", "idle", "acquire", "returned"}
      BY ReopenPlace
    <2> QED BY <2>1 DEF Unpub, Unpublished, Opened, Refreshing
  <1>2. lease[r] \in Gens /\ lease[r] \in Pub
    BY <1>1 DEF IInv, PinInv, TypeOK, Open, Pub
  <1>3. fresh[r] \in 1..born /\ 1..born \subseteq Gens
    BY MaxGensPositive DEF IInv, FreshInv, TypeOK, Gens
  <1>4. fresh[r] \in Gens /\ fresh[r] # 0
    BY <1>3, MaxGensPositive DEF Gens
  <1>5. fresh[r] \notin Pub
    BY DEF IInv, FreshInv, Pub
  <1>6. \A q \in Reopeners \ {r} : Unpub(q) => fresh[q] # fresh[r]
    BY DEF IInv, FreshInv
  <1>7. current # fresh[r]
    BY <1>4, <1>5 DEF IInv, GenInv, Pub
  <1> QED BY <1>2, <1>4, <1>5, <1>6, <1>7

\* A dispatcher is stopped.
LEMMA RetireKeeps ==
    ASSUME IInv, RInv, NEW r \in Reopeners,
           RetireStops(r) \/ (RetireFails(r) /\ ~(r \in cancelled \/ sessionClosed))
    PROVE  RInv'
  <1>1. /\ r \in Actors
        /\ r \notin Queries \cup Streamers \cup Invalidators \cup Closers \cup Subs
        /\ ret \in [Actors -> Rets]
    BY ReopenPlace
  <1>2. /\ UNCHANGED <<number, handles, current, fresh, mine, settled, eventSubs,
                       subDone, bindDone, waits, closed, capability, epochMu, cancelled,
                       generations, genDone, lease>>
        /\ dispatching' = dispatching \ {lease[r]} /\ pc[r] = "retire"
        /\ \/ pc' = [pc EXCEPT ![r] = "retired"] /\ ret' = ret
           \/ pc' = [pc EXCEPT ![r] = "refresh"] /\ ret' = [ret EXCEPT ![r] = "retired"]
    <2>1. CASE RetireStops(r)
      BY <2>1 DEF RetireStops, Moves, ownerVars, closeVars, muVars, refVars, reopenVars, subVars
    <2>2. CASE RetireFails(r) /\ ~(r \in cancelled \/ sessionClosed)
      BY <2>2 DEF RetireFails, Moves, ownerVars, closeVars, muVars, reopenVars, subVars
    <2> QED BY <2>1, <2>2
  <1>3. /\ OthersKept(r)
        /\ pc'[r] = "retired" \/ (pc'[r] = "refresh" /\ ret'[r] = "retired")
    <2>1. OthersKept(r) /\ pc'[r] \in {"retired", "refresh"}
      BY <1>1, <1>2, Moved
    <2>2. pc'[r] = "refresh" => ret'[r] = "retired"
      <3>1. CASE pc' = [pc EXCEPT ![r] = "retired"]
        <4>1. pc'[r] = "retired"
          BY <1>1, <1>2, <3>1, Moved
        <4> QED BY <4>1
      <3>2. CASE ret' = [ret EXCEPT ![r] = "retired"]
        BY <1>1, <3>2
      <3> QED BY <1>2, <3>1, <3>2
    <2> QED BY <2>1, <2>2
  <1>4. Pub' = Pub
    BY <1>2 DEF Pub
  <1>5. EpochInv' /\ AbandonedStaysUnavailable'
    BY <1>1, <1>2, <1>3, EpochKept, AbandonKept DEF RInv, Holding
  <1>6. BindInv'
    <2>1. Unpub(r) /\ ~PublishedAt(pc'[r], ret'[r]) /\ ~SettlingAt(pc'[r], ret'[r])
      BY <1>2, <1>3 DEF Unpub, Unpublished, Opened, PublishedAt, SettlingAt, Refreshing
    <2> QED BY <1>1, <1>2, <1>3, <2>1, BindKept DEF RInv
  <1>7. NumInv'
    <2>1. NumberOK'
      BY <1>2, <1>4 DEF RInv, NumInv, NumberOK
    <2>2. CurrentLeads'
      <3>1. \A i \in Invalidators : pc'[i] = pc[i]
        BY <1>1, <1>3 DEF OthersKept, Actors
      <3> QED BY <1>2, <1>4, <3>1 DEF RInv, NumInv, CurrentLeads
    <2>3. ReopenStopped'
      <3>1. \A q \in Reopeners \ {r} : pc'[q] = pc[q] /\ ret'[q] = ret[q]
        BY <1>3 DEF OthersKept, Actors
      <3>2. pc'[r] # "publish" /\ lease[r] \notin dispatching'
        BY <1>2, <1>3
      <3> QED BY <1>2, <3>1, <3>2 DEF RInv, NumInv, ReopenStopped
    <2> QED BY <2>1, <2>2, <2>3 DEF NumInv
  <1> QED BY <1>5, <1>6, <1>7 DEF RInv

\* openFreshBackend: the number of a backend that is not a generation is set.
LEMMA OpenFreshKeeps ==
    ASSUME IInv, RInv, NEW r \in Reopeners, OpenFresh(r)
    PROVE  RInv'
  <1>1. /\ r \in Actors
        /\ r \notin Queries \cup Streamers \cup Invalidators \cup Closers \cup Subs
        /\ lease[r] # 0 <=> pc[r] \notin {"absent", "idle", "acquire", "returned"}
    BY ReopenPlace
  <1>2. PICK n \in Gens : n = born + 1
    BY MaxGensPositive DEF OpenFresh, IInv, TypeOK, Gens
  <1>3. /\ UNCHANGED <<handles, current, mine, settled, eventSubs,
                       subDone, bindDone, waits, closed, capability, epochMu, cancelled,
                       generations, genDone, lease, ret>>
        /\ pc[r] = "open" /\ pc' = [pc EXCEPT ![r] = "retire"]
        /\ number' = [number EXCEPT ![n] = number[lease[r]] + 1]
        /\ dispatching' = dispatching \cup {n} /\ fresh' = [fresh EXCEPT ![r] = n]
    BY <1>2 DEF OpenFresh, Moves, ownerVars, closeVars, muVars, refVars, subVars
  <1>4. OthersKept(r) /\ pc'[r] = "retire"
    BY <1>1, <1>3, Moved
  <1>5. Pub' = Pub
    BY <1>3 DEF Pub
  <1>6. /\ n \notin Pub /\ \A g \in Pub : g < n /\ g \in Gens
    <2>1. Pub \subseteq 1..born /\ born \in Gens
      BY DEF IInv, GenInv, TypeOK, Pub
    <2> QED BY <1>2, <2>1, MaxGensPositive DEF Gens
  <1>7. lease[r] \in Pub /\ lease[r] \in Gens
    BY <1>1, <1>3 DEF IInv, PinInv, TypeOK, Open, Pub
  <1>8. /\ fresh'[r] = n /\ \A q \in Reopeners \ {r} : fresh'[q] = fresh[q]
    BY <1>3 DEF IInv, TypeOK
  <1>9. /\ number' \in [Gens -> Nat] /\ \A g \in Gens \ {n} : number'[g] = number[g]
    <2>1. number \in [Gens -> Nat]
      BY DEF RInv, NumInv, NumberOK
    <2>2. number[lease[r]] + 1 \in Nat
      BY <1>7, <2>1
    <2> QED BY <1>3, <2>1, <2>2
  <1>10. EpochInv' /\ AbandonedStaysUnavailable'
    BY <1>1, <1>3, <1>4, EpochKept, AbandonKept DEF RInv, Holding
  <1>11. BindInv'
    <2>1. BindTypeOK' /\ (current' # 0 => settled' <= current')
      BY <1>3 DEF RInv, BindInv, BindTypeOK
    <2>2. \A s \in Subs : pc'[s] = pc[s]
      BY <1>1, <1>4 DEF OthersKept, Actors
    <2>3. SubsOK'
      BY <1>3, <2>2 DEF RInv, BindInv, SubsOK
    <2>4. \A q \in Reopeners \ {r} : pc'[q] = pc[q] /\ ret'[q] = ret[q] /\ Unpub(q)' = Unpub(q)
      BY <1>4 DEF OthersKept, Actors, Unpub
    <2>5. ~PublishedAt(pc'[r], ret'[r]) /\ ~SettlingAt(pc'[r], ret'[r]) /\ lease[r] < n
      BY <1>4, <1>6, <1>7 DEF PublishedAt, SettlingAt, Refreshing
    <2>6. WaitsOK'
      BY <1>3, <1>8, <2>2, <2>4, <2>5 DEF RInv, BindInv, WaitsOK
    <2> QED BY <2>1, <2>3, <2>6 DEF BindInv
  <1>12. NumberOK'
    <2>1. \A h \in handles : h[1] \in Pub /\ h[1] # n /\ h[1] \in Gens
      BY <1>6 DEF RInv, NumInv, NumberOK
    <2> QED BY <1>3, <1>5, <1>9, <2>1 DEF RInv, NumInv, NumberOK
  <1>13. CurrentLeads'
    <2>1. \A i \in Invalidators : pc'[i] = pc[i]
      BY <1>1, <1>4 DEF OthersKept, Actors
    <2>2. current # 0 => current \in Pub
      BY DEF IInv, GenInv, Pub
    <2>3. \A g \in Pub : number'[g] = number[g] /\ g # n
      BY <1>6, <1>9
    <2> QED BY <1>3, <1>5, <2>1, <2>2, <2>3 DEF RInv, NumInv, CurrentLeads
  <1>14. ReopenStopped'
    <2>1. \A q \in Reopeners \ {r} : pc'[q] = pc[q] /\ ret'[q] = ret[q]
      BY <1>4 DEF OthersKept, Actors
    <2>2. ~StoppedAt(pc'[r], ret'[r]) /\ pc'[r] # "publish"
      BY <1>4 DEF StoppedAt, Refreshing
    <2>3. \A q \in Reopeners : Unpub(q) => lease[q] \in Gens /\ lease[q] # n
                                           /\ fresh[q] \in Gens /\ fresh[q] # n
      <3> SUFFICES ASSUME NEW q \in Reopeners, Unpub(q)
                   PROVE  lease[q] \in Gens /\ lease[q] # n /\ fresh[q] \in Gens /\ fresh[q] # n
        OBVIOUS
      <3>1. fresh[q] \in 1..born /\ born \in Gens
        BY DEF IInv, FreshInv, TypeOK
      <3>2. fresh[q] # n
        BY <1>2, <3>1, MaxGensPositive DEF Gens
      <3> QED BY <1>6, <3>2, FreshApart
    <2>4. \A q \in Reopeners : StoppedAt(pc[q], ret[q]) \/ pc[q] = "publish" => Unpub(q)
      BY DEF StoppedAt, Unpub, Unpublished, Opened
    <2>5. \A q \in Reopeners \ {r} : pc[q] = "publish" => number'[lease[q]] < number'[fresh[q]]
      BY <1>9, <2>3, <2>4 DEF RInv, NumInv, ReopenStopped
    <2>6. \A q \in Reopeners \ {r} : StoppedAt(pc[q], ret[q]) => lease[q] \notin dispatching'
      BY <1>3, <2>3, <2>4 DEF RInv, NumInv, ReopenStopped
    <2> QED BY <1>3, <1>8, <2>1, <2>2, <2>5, <2>6 DEF ReopenStopped
  <1> QED BY <1>10, <1>11, <1>12, <1>13, <1>14 DEF RInv, NumInv

\* epochMu is taken for the publication, and given back when it failed.
LEMMA EpochKeeps ==
    ASSUME IInv, RInv, NEW r \in Reopeners, PublishLock(r) \/ PublishUnlock(r)
    PROVE  RInv'
  <1>1. /\ r \in Actors
        /\ r \notin Queries \cup Streamers \cup Invalidators \cup Closers \cup Subs
    BY ReopenPlace
  <1>2. /\ UNCHANGED <<number, dispatching, handles, current, fresh, mine, settled, eventSubs,
                       subDone, bindDone, waits, closed, capability, cancelled,
                       generations, genDone, lease, ret>>
        /\ \/ pc[r] = "epoch" /\ pc' = [pc EXCEPT ![r] = "check"]
              /\ epochMu = "free" /\ epochMu' = r
           \/ pc[r] = "unepoch" /\ pc' = [pc EXCEPT ![r] = "drop"] /\ epochMu' = "free"
    BY DEF PublishLock, PublishUnlock, Moves, ownerVars, closeVars, backendVars, refVars,
           reopenVars, subVars
  <1>3. /\ OthersKept(r)
        /\ \/ pc[r] = "epoch" /\ pc'[r] = "check" /\ epochMu = "free" /\ epochMu' = r
           \/ pc[r] = "unepoch" /\ pc'[r] = "drop" /\ epochMu' = "free"
    BY <1>1, <1>2, Moved
  <1>4. Pub' = Pub
    BY <1>2 DEF Pub
  <1>5. EpochInv'
    <2>1. pc[r] = "unepoch" => epochMu = r
      BY <1>1 DEF RInv, EpochInv, Holding
    <2>2. pc'[r] = "drop" => ~Holding(r, pc'[r])
      BY <1>1 DEF Holding
    <2> QED BY <1>1, <1>3, <2>1, <2>2, EpochAlone DEF RInv
  <1>6. NumInv'
    <2>1. pc'[r] # "publish" /\ (StoppedAt(pc'[r], ret'[r]) => StoppedAt(pc[r], ret[r]))
      BY <1>3 DEF StoppedAt, Refreshing
    <2> QED BY <1>1, <1>2, <1>3, <1>4, <2>1, NumKept DEF RInv
  <1>7. BindInv'
    <2>1. Unpub(r) /\ ~PublishedAt(pc'[r], ret'[r]) /\ ~SettlingAt(pc'[r], ret'[r])
      BY <1>3 DEF Unpub, Unpublished, Opened, PublishedAt, SettlingAt, Refreshing
    <2> QED BY <1>1, <1>2, <1>3, <2>1, BindKept DEF RInv
  <1>8. AbandonedStaysUnavailable'
    BY <1>1, <1>2, <1>3, AbandonKept DEF RInv
  <1> QED BY <1>5, <1>6, <1>7, <1>8 DEF RInv

\* advanceReopenedGeneration: a backend goes on to be published only with a
\* number above the old one's.
LEMMA AdvanceKeeps ==
    ASSUME IInv, RInv, NEW r \in Reopeners, Advance(r)
    PROVE  RInv'
  <1>1. /\ r \in Actors
        /\ r \notin Queries \cup Streamers \cup Invalidators \cup Closers \cup Subs
    BY ReopenPlace
  <1>2. pc[r] = "advance" /\ Unpub(r)
    BY DEF Advance, Unpub, Unpublished, Opened
  <1>3. /\ lease[r] \in Gens /\ lease[r] \in Pub
        /\ fresh[r] \in Gens /\ fresh[r] \notin Pub
        /\ \A q \in Reopeners \ {r} : Unpub(q) => fresh[q] # fresh[r]
        /\ current # fresh[r]
    BY <1>2, FreshApart
  <1>4. PICK g \in Gens : g = fresh[r]
    BY <1>3
  <1>5. /\ UNCHANGED <<dispatching, handles, current, fresh, mine, settled, eventSubs,
                       subDone, bindDone, waits, closed, capability, epochMu, cancelled,
                       generations, genDone, lease, ret>>
        /\ \E to \in {"publish", "abandon"} : pc' = [pc EXCEPT ![r] = to]
        /\ \/ number' = number /\ number[g] > number[lease[r]]
           \/ /\ number' = [number EXCEPT ![g] = @ + 1]
              /\ number[g] + 1 > number[lease[r]] \/ pc' = [pc EXCEPT ![r] = "abandon"]
    BY <1>4 DEF Advance, Advanced, Moves, ownerVars, closeVars, muVars, refVars, reopenVars,
                subVars
  <1>6. OthersKept(r) /\ \A to : pc' = [pc EXCEPT ![r] = to] => pc'[r] = to
    BY <1>1, <1>5, Moved
  <1>7. Pub' = Pub
    BY <1>5 DEF Pub
  <1>8. pc'[r] \in {"publish", "abandon"}
    BY <1>5, <1>6
  <1>9. EpochInv' /\ AbandonedStaysUnavailable'
    <2>1. Holding(r, pc[r])
      BY <1>1, <1>2 DEF Holding
    <2> QED BY <1>1, <1>2, <1>5, <1>6, <2>1, EpochKept, AbandonKept DEF RInv
  <1>10. BindInv'
    <2>1. ~PublishedAt(pc'[r], ret'[r]) /\ ~SettlingAt(pc'[r], ret'[r])
      BY <1>8 DEF PublishedAt, SettlingAt, Refreshing
    <2> QED BY <1>1, <1>2, <1>5, <1>6, <2>1, BindKept DEF RInv
  <1>11. /\ number \in [Gens -> Nat] /\ number[lease[r]] \in Nat /\ number[g] \in Nat
         /\ g # lease[r]
    BY <1>3, <1>4 DEF RInv, NumInv, NumberOK
  <1>12. \A i \in Invalidators : pc'[i] = pc[i]
    BY <1>1, <1>6 DEF OthersKept, Actors
  <1>13. \A q \in Reopeners \ {r} : pc'[q] = pc[q] /\ ret'[q] = ret[q]
    BY <1>6 DEF OthersKept, Actors
  <1>14. StoppedAt(pc[r], ret[r])
    BY <1>2 DEF StoppedAt
  <1>15. CASE number' = number /\ number[g] > number[lease[r]]
    <2>1. NumberOK' /\ CurrentLeads'
      BY <1>5, <1>7, <1>12, <1>15 DEF RInv, NumInv, NumberOK, CurrentLeads
    <2>2. ReopenStopped'
      <3>1. number[lease[r]] < number[g]
        BY <1>11, <1>15
      <3> QED BY <1>4, <1>5, <1>13, <1>14, <1>15, <3>1 DEF RInv, NumInv, ReopenStopped
    <2> QED BY <1>9, <1>10, <2>1, <2>2 DEF RInv, NumInv
  <1>16. CASE /\ number' = [number EXCEPT ![g] = @ + 1]
              /\ number[g] + 1 > number[lease[r]] \/ pc' = [pc EXCEPT ![r] = "abandon"]
    <2>1. number'[g] = number[g] + 1 /\ number'[lease[r]] = number[lease[r]]
      BY <1>3, <1>11, <1>16
    <2>2. pc'[r] = "publish" => number'[lease[r]] < number'[fresh[r]]
      <3>1. pc'[r] = "publish" => number[g] + 1 > number[lease[r]]
        BY <1>6, <1>16
      <3> QED BY <1>4, <1>11, <2>1, <3>1
    <2>3. \A q \in Reopeners : pc'[q] = "publish" =>
              \/ pc[q] = "publish" /\ g # lease[q]
              \/ number'[lease[q]] < number'[fresh[q]]
      <3>1. \A q \in Reopeners \ {r} : pc[q] # "publish"
        <4>1. Holding(r, pc[r]) /\ \A q \in Reopeners : pc[q] = "publish" => Holding(q, pc[q])
          BY <1>2 DEF Holding
        <4> QED BY <1>1, <4>1 DEF RInv, EpochInv, Actors
      <3> QED BY <1>13, <2>2, <3>1
    <2>4. \A q \in Reopeners : StoppedAt(pc'[q], ret'[q]) => StoppedAt(pc[q], ret[q])
      BY <1>13, <1>14
    <2>5. current # 0 => g = current \/ g \notin Pub
      BY <1>3, <1>4
    <2>6. NumInv'
      BY <1>5, <1>7, <1>12, <1>16, <2>3, <2>4, <2>5, NumberGrows DEF RInv
    <2> QED BY <1>9, <1>10, <2>6 DEF RInv
  <1> QED BY <1>5, <1>15, <1>16

\* abandonCurrentGeneration: the session has no backend from here on, and the
\* capability goes with the next step of this reopen.
LEMMA AbandonKeeps ==
    ASSUME IInv, RInv, NEW r \in Reopeners, Abandon(r), current = lease[r]
    PROVE  RInv'
  <1>1. /\ r \in Actors
        /\ r \notin Queries \cup Streamers \cup Invalidators \cup Closers \cup Subs
    BY ReopenPlace
  <1>2. /\ UNCHANGED <<number, dispatching, handles, fresh, mine, settled, eventSubs,
                       subDone, bindDone, waits, closed, capability, epochMu, cancelled,
                       generations, genDone, lease, ret>>
        /\ pc[r] = "abandon" /\ pc' = [pc EXCEPT ![r] = "capability"] /\ current' = 0
    BY DEF Abandon, Moves, closeVars, muVars, backendVars, refVars, reopenVars, subVars
  <1>3. OthersKept(r) /\ pc'[r] = "capability"
    BY <1>1, <1>2, Moved
  <1>4. Pub' = Pub
    BY <1>2 DEF Pub
  <1>5. EpochInv'
    <2>1. Holding(r, pc[r])
      BY <1>1, <1>2 DEF Holding
    <2> QED BY <1>1, <1>2, <1>3, <2>1, EpochKept DEF RInv
  <1>6. NumInv'
    <2>1. NumberOK' /\ CurrentLeads'
      BY <1>2, <1>4 DEF RInv, NumInv, NumberOK, CurrentLeads
    <2>2. ReopenStopped'
      <3>1. ~StoppedAt(pc'[r], ret'[r]) /\ pc'[r] # "publish"
        BY <1>3 DEF StoppedAt, Refreshing
      <3>2. \A q \in Reopeners \ {r} : pc'[q] = pc[q] /\ ret'[q] = ret[q]
        BY <1>3 DEF OthersKept, Actors
      <3> QED BY <1>2, <3>1, <3>2 DEF RInv, NumInv, ReopenStopped
    <2> QED BY <2>1, <2>2 DEF NumInv
  <1>7. BindInv'
    <2>1. \A s \in Subs : pc'[s] = pc[s]
      BY <1>1, <1>3 DEF OthersKept, Actors
    <2>2. SubsOK' /\ BindTypeOK'
      BY <1>2, <2>1 DEF RInv, BindInv, SubsOK, BindTypeOK
    <2>3. Unpub(r) /\ ~PublishedAt(pc'[r], ret'[r]) /\ ~SettlingAt(pc'[r], ret'[r])
      BY <1>2, <1>3 DEF Unpub, Unpublished, Opened, PublishedAt, SettlingAt, Refreshing
    <2>4. \A q \in Reopeners \ {r} : pc'[q] = pc[q] /\ ret'[q] = ret[q] /\ Unpub(q)' = Unpub(q)
      BY <1>3 DEF OthersKept, Actors, Unpub
    <2>5. WaitsOK'
      BY <1>2, <2>1, <2>3, <2>4 DEF RInv, BindInv, WaitsOK
    <2> QED BY <1>2, <2>2, <2>5 DEF BindInv
  <1>8. AbandonedStaysUnavailable'
    BY <1>3 DEF AbandonedStaysUnavailable
  <1> QED BY <1>5, <1>6, <1>7, <1>8 DEF RInv

\* ... which reports it.
LEMMA AbandonReportedKeeps ==
    ASSUME IInv, RInv, NEW r \in Reopeners, AbandonReported(r)
    PROVE  RInv'
  <1>1. /\ r \in Actors
        /\ r \notin Queries \cup Streamers \cup Invalidators \cup Closers \cup Subs
    BY ReopenPlace
  <1>2. /\ UNCHANGED <<number, dispatching, handles, current, fresh, mine, settled, eventSubs,
                       subDone, bindDone, waits, closed, epochMu, cancelled,
                       generations, genDone, lease, ret>>
        /\ pc[r] = "capability" /\ pc' = [pc EXCEPT ![r] = "unepoch"] /\ capability' = FALSE
    BY DEF AbandonReported, Moves, ownerVars, closeVars, muVars, backendVars, refVars,
           reopenVars, subVars
  <1>3. OthersKept(r) /\ pc'[r] = "unepoch"
    BY <1>1, <1>2, Moved
  <1>4. Pub' = Pub
    BY <1>2 DEF Pub
  <1>5. EpochInv'
    <2>1. Holding(r, pc[r])
      BY <1>1, <1>2 DEF Holding
    <2> QED BY <1>1, <1>2, <1>3, <2>1, EpochKept DEF RInv
  <1>6. NumInv'
    <2>1. pc'[r] # "publish" /\ ~StoppedAt(pc'[r], ret'[r])
      BY <1>3 DEF StoppedAt, Refreshing
    <2> QED BY <1>1, <1>2, <1>3, <1>4, <2>1, NumKept DEF RInv
  <1>7. BindInv'
    <2>1. Unpub(r) /\ ~PublishedAt(pc'[r], ret'[r]) /\ ~SettlingAt(pc'[r], ret'[r])
      BY <1>2, <1>3 DEF Unpub, Unpublished, Opened, PublishedAt, SettlingAt, Refreshing
    <2> QED BY <1>1, <1>2, <1>3, <2>1, BindKept DEF RInv
  <1>8. AbandonedStaysUnavailable'
    BY <1>2 DEF AbandonedStaysUnavailable
  <1> QED BY <1>5, <1>6, <1>7, <1>8 DEF RInv

\* publishReopenedBackend: the new current generation has a number above all
\* others, nobody invalidates an old one, and every subscription is waited for.
LEMMA PublishKeeps ==
    ASSUME IInv, RInv, NEW r \in Reopeners, Publish(r)
    PROVE  RInv'
  <1>1. /\ r \in Actors
        /\ r \notin Queries \cup Streamers \cup Invalidators \cup Closers \cup Subs
    BY ReopenPlace
  <1>2. PICK n \in Gens : n = fresh[r] /\ n \notin Pub /\ n # 0 /\ n \in Known
    <2>1. Unpub(r)
      BY DEF Publish, Moves, Unpub, Unpublished, Opened
    <2> QED BY <2>1, FreshApart, MaxGensPositive DEF Gens, Known
  <1>3. PICK old \in Gens : old = lease[r] /\ old \in Pub /\ old = current /\ current # 0
    <2>1. Unpub(r)
      BY DEF Publish, Moves, Unpub, Unpublished, Opened
    <2>2. lease[r] = current
      BY DEF Publish, MayPublish, StillCurrent
    <2> QED BY <2>1, <2>2, FreshApart, MaxGensPositive DEF Gens
  <1>4. /\ UNCHANGED <<number, dispatching, handles, fresh, mine, settled, eventSubs,
                       subDone, bindDone, closed, capability, cancelled,
                       genDone, lease, ret>>
        /\ pc[r] = "publish" /\ pc' = [pc EXCEPT ![r] = "bind"] /\ current' = n
        /\ generations' = generations \cup {n} /\ epochMu' = "free"
        /\ waits' = [waits EXCEPT ![r] = eventSubs \ subDone]
    BY <1>2 DEF Publish, Moves, closeVars, backendVars, refVars
  <1>5. OthersKept(r) /\ pc'[r] = "bind"
    BY <1>1, <1>4, Moved
  <1>6. Pub' = Pub \cup {n} /\ Pub \subseteq Gens
    BY <1>4 DEF Pub, IInv, TypeOK
  <1>7. EpochInv'
    <2>1. Holding(r, pc[r]) /\ ~Holding(r, pc'[r])
      BY <1>1, <1>4, <1>5 DEF Holding
    <2> QED BY <1>1, <1>5, <2>1, EpochAlone DEF RInv, EpochInv
  <1>8. number \in [Gens -> Nat] /\ number[old] < number[n]
    BY <1>2, <1>3, <1>4 DEF RInv, NumInv, NumberOK, ReopenStopped
  <1>9. old \notin dispatching
    BY <1>3, <1>4 DEF RInv, NumInv, ReopenStopped, StoppedAt
  <1>10. \A g \in Pub : number[g] < number[n] /\ g \notin dispatching
    <2> SUFFICES ASSUME NEW g \in Pub PROVE number[g] < number[n] /\ g \notin dispatching
      OBVIOUS
    <2>1. CASE g = old
      BY <2>1, <1>8, <1>9
    <2>2. CASE g # old
      <3>1. number[g] < number[old] /\ g \notin dispatching
        BY <2>2, <1>3 DEF RInv, NumInv, CurrentLeads
      <3>2. number[g] \in Nat /\ number[old] \in Nat /\ number[n] \in Nat
        BY <1>6, <1>8
      <3> QED BY <3>1, <3>2, <1>8
    <2> QED BY <2>1, <2>2
  <1>11. NumInv'
    <2>1. NumberOK'
      BY <1>4, <1>6 DEF RInv, NumInv, NumberOK
    <2>2. CurrentLeads'
      <3>1. \A i \in Invalidators : pc'[i] # "bump"
        <4>1. \A i \in Invalidators : i \in Actors /\ i # r /\ (pc[i] = "bump" => Holding(i, pc[i]))
          BY <1>1 DEF Actors, Holding
        <4>2. Holding(r, pc[r])
          BY <1>1, <1>4 DEF Holding
        <4>3. \A i \in Invalidators : pc[i] # "bump"
          BY <1>1, <4>1, <4>2 DEF RInv, EpochInv
        <4> QED BY <1>5, <4>1, <4>3 DEF OthersKept
      <3>2. \A g \in Pub' \ {n} : number[g] < number[n] /\ g \notin dispatching
        BY <1>6, <1>10
      <3> QED BY <1>4, <3>1, <3>2 DEF CurrentLeads
    <2>3. ReopenStopped'
      <3>1. \A q \in Reopeners \ {r} : pc'[q] = pc[q] /\ ret'[q] = ret[q]
        BY <1>5 DEF OthersKept, Actors
      <3>2. pc'[r] # "publish" /\ ~StoppedAt(pc'[r], ret'[r])
        BY <1>5 DEF StoppedAt, Refreshing
      <3> QED BY <1>4, <3>1, <3>2 DEF RInv, NumInv, ReopenStopped
    <2> QED BY <2>1, <2>2, <2>3 DEF NumInv
  <1>12. old < n
    <2>1. Unpub(r)
      BY <1>4 DEF Unpub, Unpublished, Opened
    <2> QED BY <1>2, <1>3, <2>1 DEF RInv, BindInv, WaitsOK
  <1>13. BindInv'
    <2>1. \A s \in Subs : pc'[s] = pc[s]
      BY <1>1, <1>5 DEF OthersKept, Actors
    <2>2. /\ BindTypeOK'
          /\ waits'[r] = eventSubs \ subDone
          /\ \A q \in Reopeners \ {r} : waits'[q] = waits[q]
      <3>1. eventSubs \subseteq Subs
        BY DEF RInv, BindInv, BindTypeOK
      <3> QED BY <1>4, <3>1 DEF RInv, BindInv, BindTypeOK
    <2>3. settled \in Nat /\ settled <= old /\ \A s \in Subs : mine[s] \in Nat
      BY <1>3, MaxGensPositive DEF RInv, BindInv, BindTypeOK, Known
    <2>4. old \in Nat /\ n \in Nat
      BY MaxGensPositive DEF Gens
    <2>5. settled <= n
      BY <1>12, <2>3, <2>4
    <2>6. SubsOK'
      <3>1. \A s \in Subs : Active(pc[s]) => mine[s] <= n
        <4>1. \A s \in Subs : Active(pc[s]) => mine[s] <= old
          BY <1>3 DEF RInv, BindInv, SubsOK
        <4> QED BY <1>12, <2>3, <2>4, <4>1
      <3> QED BY <1>4, <2>1, <3>1 DEF RInv, BindInv, SubsOK
    <2>7. WaitsOK'
      <3>1. \A s \in Subs : Active(pc[s]) => s \in eventSubs \ subDone
        BY DEF RInv, BindInv, SubsOK
      <3>2. ~SettlingAt(pc'[r], ret'[r]) /\ ~Unpub(r)'
        BY <1>5 DEF SettlingAt, Unpub, Unpublished, Opened, Refreshing
      <3>3. \A q \in Reopeners \ {r} : pc'[q] = pc[q] /\ ret'[q] = ret[q] /\ Unpub(q)' = Unpub(q)
        BY <1>5 DEF OthersKept, Actors, Unpub
      <3>4. \A q \in Reopeners : PublishedAt(pc[q], ret[q]) => fresh[q] <= n
        <4>1. \A q \in Reopeners : PublishedAt(pc[q], ret[q]) => fresh[q] <= old
          BY <1>3 DEF RInv, BindInv, WaitsOK
        <4>2. \A q \in Reopeners : fresh[q] \in Nat
          BY MaxGensPositive DEF IInv, TypeOK, Known
        <4> QED BY <1>12, <2>4, <4>1, <4>2
      <3>5. fresh[r] <= n
        BY <1>2, <2>4
      <3> QED BY <1>4, <2>1, <2>2, <3>1, <3>2, <3>3, <3>4, <3>5 DEF RInv, BindInv, WaitsOK
    <2> QED BY <1>4, <2>2, <2>5, <2>6, <2>7 DEF BindInv
  <1>14. AbandonedStaysUnavailable'
    BY <1>2, <1>4 DEF AbandonedStaysUnavailable
  <1> QED BY <1>7, <1>11, <1>13, <1>14 DEF RInv

\* A dispatcher that stops, and a backend that is nobody's any more.
LEMMA DropFreshKeeps ==
    ASSUME IInv, RInv, NEW r \in Reopeners, DropFresh(r)
    PROVE  RInv'
  <1>1. /\ r \in Actors
        /\ r \notin Queries \cup Streamers \cup Invalidators \cup Closers \cup Subs
    BY ReopenPlace
  <1>2. /\ UNCHANGED <<number, handles, current, mine, settled, eventSubs,
                       subDone, bindDone, waits, closed, capability, epochMu, cancelled,
                       generations, genDone, lease, ret>>
        /\ pc[r] = "drop" /\ pc' = [pc EXCEPT ![r] = "unlock"]
        /\ dispatching' \subseteq dispatching /\ fresh' = [fresh EXCEPT ![r] = 0]
    BY DEF DropFresh, Moves, ownerVars, closeVars, muVars, refVars, subVars
  <1>3. OthersKept(r) /\ pc'[r] = "unlock"
    BY <1>1, <1>2, Moved
  <1>4. Pub' = Pub
    BY <1>2 DEF Pub
  <1>5. \A q \in Reopeners \ {r} : fresh'[q] = fresh[q]
    BY <1>2 DEF IInv, TypeOK
  <1>6. EpochInv' /\ AbandonedStaysUnavailable'
    BY <1>1, <1>2, <1>3, EpochKept, AbandonKept DEF RInv, Holding
  <1>7. BindInv'
    <2>1. ~PublishedAt(pc'[r], ret'[r]) /\ ~SettlingAt(pc'[r], ret'[r]) /\ ~Unpub(r)'
      BY <1>3 DEF PublishedAt, SettlingAt, Refreshing, Unpub, Unpublished, Opened
    <2> QED BY <1>1, <1>2, <1>3, <1>5, <2>1, BindKept DEF RInv
  <1>8. NumInv'
    <2>1. NumberOK'
      BY <1>2, <1>4 DEF RInv, NumInv, NumberOK
    <2>2. CurrentLeads'
      <3>1. \A i \in Invalidators : pc'[i] = pc[i]
        BY <1>1, <1>3 DEF OthersKept, Actors
      <3> QED BY <1>2, <1>4, <3>1 DEF RInv, NumInv, CurrentLeads
    <2>3. ReopenStopped'
      <3>1. \A q \in Reopeners \ {r} : pc'[q] = pc[q] /\ ret'[q] = ret[q]
        BY <1>3 DEF OthersKept, Actors
      <3>2. pc'[r] # "publish" /\ ~StoppedAt(pc'[r], ret'[r])
        BY <1>3 DEF StoppedAt, Refreshing
      <3> QED BY <1>2, <1>5, <3>1, <3>2 DEF RInv, NumInv, ReopenStopped
    <2> QED BY <2>1, <2>2, <2>3 DEF NumInv
  <1> QED BY <1>6, <1>7, <1>8 DEF RInv

\* finishReopen waits for one binding after the other, and for none when it
\* has settled.
LEMMA FinishKeeps ==
    ASSUME IInv, RInv, NEW r \in Reopeners,
           (\E s \in Subs : AwaitBinding(r, s)) \/ BindingsAwaited(r) \/ FinishReopen(r)
    PROVE  RInv'
  <1>1. /\ r \in Actors
        /\ r \notin Queries \cup Streamers \cup Invalidators \cup Closers \cup Subs
        /\ ret \in [Actors -> Rets]
    BY ReopenPlace
  <1>2. /\ UNCHANGED <<number, dispatching, handles, current, fresh, mine, eventSubs,
                       subDone, bindDone, closed, capability, epochMu, cancelled,
                       generations, genDone, lease>>
        /\ \/ /\ pc[r] = "bind" /\ pc' = [pc EXCEPT ![r] = "bind"] /\ ret' = ret
              /\ settled' = settled
              /\ \E s \in Subs : /\ BindingDone(r, s) /\ waits' = [waits EXCEPT ![r] = @ \ {s}]
           \/ /\ pc[r] = "bind" /\ pc' = [pc EXCEPT ![r] = "refresh"]
              /\ ret' = [ret EXCEPT ![r] = "finish"]
              /\ UNCHANGED <<waits, settled>>
              /\ AllBound(r) \/ r \in cancelled
           \/ /\ pc[r] = "finish" /\ pc' = [pc EXCEPT ![r] = "unlock"] /\ ret' = ret
              /\ waits' = waits
              /\ settled' = settled \/ (settled' = fresh[r] /\ r \notin cancelled)
    <2>1. CASE \E s \in Subs : AwaitBinding(r, s)
      BY <2>1 DEF AwaitBinding, Moves, ownerVars, closeVars, muVars, backendVars, refVars, subVars
    <2>2. CASE BindingsAwaited(r)
      BY <2>2 DEF BindingsAwaited, Moves, ownerVars, closeVars, muVars, backendVars, reopenVars,
                  subVars
    <2>3. CASE FinishReopen(r)
      BY <2>3 DEF FinishReopen, Moves, ownerVars, closeVars, muVars, backendVars, refVars, subVars
    <2> QED BY <2>1, <2>2, <2>3
  <1>3. OthersKept(r) /\ \A to : pc' = [pc EXCEPT ![r] = to] => pc'[r] = to
    BY <1>1, <1>2, Moved
  <1>4. Pub' = Pub
    BY <1>2 DEF Pub
  <1>5. /\ pc'[r] \in {"bind", "refresh", "unlock"} /\ pc[r] \in {"bind", "finish"}
        /\ pc'[r] = "refresh" => ret'[r] = "finish"
    BY <1>1, <1>2, <1>3
  <1>6. EpochInv' /\ AbandonedStaysUnavailable'
    BY <1>1, <1>2, <1>3, <1>5, EpochKept, AbandonKept DEF RInv, Holding
  <1>7. NumInv'
    <2>1. pc'[r] # "publish" /\ ~StoppedAt(pc'[r], ret'[r])
      BY <1>5 DEF StoppedAt, Refreshing
    <2> QED BY <1>1, <1>2, <1>3, <1>4, <2>1, NumKept DEF RInv
  <1>8. \A s \in Subs : pc'[s] = pc[s]
    BY <1>1, <1>3 DEF OthersKept, Actors
  <1>9. \A q \in Reopeners \ {r} : pc'[q] = pc[q] /\ ret'[q] = ret[q] /\ Unpub(q)' = Unpub(q)
    BY <1>3 DEF OthersKept, Actors, Unpub
  <1>10. PublishedAt(pc[r], ret[r]) /\ ~Unpub(r)'
    BY <1>5 DEF PublishedAt, Unpub, Unpublished, Opened, Refreshing
  <1>11. fresh[r] \in Known
    BY DEF IInv, TypeOK
  <1>12. CASE /\ pc[r] = "bind" /\ pc' = [pc EXCEPT ![r] = "bind"] /\ ret' = ret
              /\ settled' = settled
              /\ \E s \in Subs : /\ BindingDone(r, s) /\ waits' = [waits EXCEPT ![r] = @ \ {s}]
    <2>1. PICK s \in Subs : /\ BindingDone(r, s) /\ waits' = [waits EXCEPT ![r] = @ \ {s}]
      BY <1>12
    <2>2. /\ waits'[r] = waits[r] \ {s} /\ waits' \in [Reopeners -> SUBSET Subs]
          /\ \A q \in Reopeners \ {r} : waits'[q] = waits[q]
      BY <2>1 DEF RInv, BindInv, BindTypeOK
    <2>3. Active(pc[s]) => fresh[r] <= mine[s]
      BY <1>11, <2>1 DEF BindingDone, RInv, BindInv, SubsOK
    <2>4. pc'[r] = "bind"
      BY <1>3, <1>12
    <2>5. WaitsOK'
      <3>1. \A x \in Subs : Active(pc[x]) => x \in waits'[r] \/ fresh[r] <= mine[x]
        BY <1>10, <2>2, <2>3 DEF RInv, BindInv, WaitsOK
      <3>2. ~SettlingAt(pc'[r], ret'[r])
        BY <2>4 DEF SettlingAt
      <3> QED BY <1>2, <1>8, <1>9, <1>10, <2>2, <3>1, <3>2 DEF RInv, BindInv, WaitsOK
    <2>6. SubsOK' /\ BindTypeOK' /\ (current' # 0 => settled' <= current')
      BY <1>2, <1>8, <1>12, <2>2 DEF RInv, BindInv, SubsOK, BindTypeOK
    <2> QED BY <1>6, <1>7, <2>5, <2>6 DEF RInv, BindInv
  <1>13. CASE /\ pc[r] = "bind" /\ pc' = [pc EXCEPT ![r] = "refresh"]
              /\ ret' = [ret EXCEPT ![r] = "finish"]
              /\ UNCHANGED <<waits, settled>>
              /\ AllBound(r) \/ r \in cancelled
    <2>1. waits[r] = {} \/ r \in cancelled
      BY <1>13 DEF AllBound
    <2>2. WaitsOK'
      BY <1>2, <1>8, <1>9, <1>10, <1>13, <2>1 DEF RInv, BindInv, WaitsOK
    <2>3. SubsOK' /\ BindTypeOK' /\ (current' # 0 => settled' <= current')
      BY <1>2, <1>8, <1>13 DEF RInv, BindInv, SubsOK, BindTypeOK
    <2> QED BY <1>6, <1>7, <2>2, <2>3 DEF RInv, BindInv
  <1>14. CASE /\ pc[r] = "finish" /\ pc' = [pc EXCEPT ![r] = "unlock"] /\ ret' = ret
              /\ waits' = waits
              /\ settled' = settled \/ (settled' = fresh[r] /\ r \notin cancelled)
    <2>1. pc'[r] = "unlock"
      BY <1>3, <1>14
    <2>2. ~PublishedAt(pc'[r], ret'[r]) /\ ~SettlingAt(pc'[r], ret'[r])
      BY <2>1 DEF PublishedAt, SettlingAt, Refreshing
    <2>3. WaitsOK'
      BY <1>2, <1>8, <1>9, <1>10, <1>14, <2>2 DEF RInv, BindInv, WaitsOK
    <2>4. /\ settled' \in Known /\ (current # 0 => settled' <= current)
          /\ \A s \in Subs : Active(pc[s]) => settled' <= mine[s]
      <3>1. CASE settled' = settled
        BY <3>1 DEF RInv, BindInv, BindTypeOK, SubsOK
      <3>2. CASE settled' = fresh[r] /\ r \notin cancelled
        <4>1. SettlingAt(pc[r], ret[r])
          BY <1>10, <1>14 DEF SettlingAt
        <4>2. waits[r] = {}
          BY <3>2, <4>1 DEF RInv, BindInv, WaitsOK
        <4> QED BY <1>10, <1>11, <3>2, <4>2 DEF RInv, BindInv, WaitsOK
      <3> QED BY <1>14, <3>1, <3>2
    <2>5. SubsOK' /\ BindTypeOK' /\ (current' # 0 => settled' <= current')
      BY <1>2, <1>8, <1>14, <2>4 DEF RInv, BindInv, SubsOK, BindTypeOK
    <2> QED BY <1>6, <1>7, <2>3, <2>5 DEF RInv, BindInv
  <1> QED BY <1>2, <1>12, <1>13, <1>14

-----------------------------------------------------------------------------
(* Close.                                                                  *)

\* Close takes its step: dispatchers stop, and there is no backend any more.
LEMMA CloseKeeps ==
    ASSUME IInv, RInv, NEW c \in Closers,
           CloseBegins(c) \/ CloseStep(c) \/ CloseEnds(c) \/ CloseJoins(c)
    PROVE  RInv'
  <1>1. c \in Actors /\ c \notin Queries \cup Streamers \cup Invalidators \cup Reopeners \cup Subs
    BY KindsDiffer DEF Actors
  <1>2. /\ UNCHANGED <<number, handles, fresh, mine, settled, eventSubs,
                       subDone, bindDone, waits, capability, epochMu, cancelled,
                       generations, genDone, lease, ret>>
        /\ \E to : pc' = [pc EXCEPT ![c] = to]
        /\ dispatching' \subseteq dispatching
        /\ UNCHANGED <<current, closed>> \/ (current' = 0 /\ closed')
    <2>1. CASE CloseBegins(c)
      BY <2>1 DEF CloseBegins, Moves, muVars, backendVars, refVars, reopenVars, subVars
    <2>2. CASE \E g \in Gens : CloseRetires(c, g)
      BY <2>2 DEF CloseRetires, ReleaseGen, Moves, closeVars, muVars, refVars, reopenVars, subVars
    <2>3. CASE CloseEnds(c) \/ CloseJoins(c)
      BY <2>3 DEF CloseEnds, CloseJoins, Moves, ownerVars, closeVars, muVars, backendVars,
                  refVars, reopenVars, subVars
    <2> QED BY <2>1, <2>2, <2>3 DEF CloseStep
  <1>3. OthersKept(c)
    BY <1>1, <1>2, Moved
  <1>4. Pub' = Pub
    BY <1>2 DEF Pub
  <1>5. \A b \in Invalidators \cup Reopeners \cup Subs : pc'[b] = pc[b] /\ ret'[b] = ret[b]
    BY <1>1, <1>3 DEF OthersKept, Actors
  <1>6. EpochInv'
    BY <1>1, <1>2, <1>3, EpochKept DEF RInv, Holding
  <1>7. NumInv'
    <2>1. NumberOK'
      BY <1>2, <1>4 DEF RInv, NumInv, NumberOK
    <2>2. CurrentLeads'
      BY <1>2, <1>4, <1>5 DEF RInv, NumInv, CurrentLeads
    <2>3. ReopenStopped'
      BY <1>2, <1>5 DEF RInv, NumInv, ReopenStopped
    <2> QED BY <2>1, <2>2, <2>3 DEF NumInv
  <1>8. BindInv'
    <2>1. BindTypeOK' /\ (current' # 0 => settled' <= current')
      BY <1>2 DEF RInv, BindInv, BindTypeOK
    <2>2. SubsOK'
      BY <1>2, <1>5 DEF RInv, BindInv, SubsOK
    <2>3. WaitsOK'
      BY <1>2, <1>5 DEF RInv, BindInv, WaitsOK, Unpub
    <2> QED BY <2>1, <2>2, <2>3 DEF BindInv
  <1>9. AbandonedStaysUnavailable'
    BY <1>2, <1>5 DEF RInv, AbandonedStaysUnavailable
  <1> QED BY <1>6, <1>7, <1>8, <1>9 DEF RInv

-----------------------------------------------------------------------------
(* Subscriptions.                                                          *)

\* A subscription moves while its pump runs.
LEMMA PumpRests ==
    ASSUME IInv, RInv, NEW s \in Subs,
           \/ OpenBinding(s) \/ EventsReturn(s) \/ Release(s, "unlease", "verify")
           \/ VerifyBinding(s) \/ StreamEnds(s) \/ TakeEvent(s) \/ CheckEvent(s)
           \/ DeliverEvent(s) \/ ForwardEnds(s)
    PROVE  RInv'
  <1>1. /\ s \in Actors
        /\ s \notin Queries \cup Streamers \cup Invalidators \cup Reopeners \cup Closers
    BY SubPlace
  <1>2. /\ UNCHANGED <<number, dispatching, handles, current, fresh, mine, settled, eventSubs,
                       subDone, bindDone, waits, closed, capability, epochMu, cancelled,
                       generations, genDone>>
        /\ Active(pc[s]) /\ \E to : pc' = [pc EXCEPT ![s] = to] /\ ~Unborn(to)
        /\ ret' = ret \/ \E t : ret' = [ret EXCEPT ![s] = t]
        /\ lease' = lease \/ \E g : lease' = [lease EXCEPT ![s] = g]
    <2>1. CASE OpenBinding(s)
      BY <2>1 DEF OpenBinding, Moves, closeVars, muVars, backendVars, reopenVars, subVars,
                  Active, Unborn
    <2>2. CASE Release(s, "unlease", "verify")
      <3>1. /\ pc[s] = "unlease" /\ pc' = [pc EXCEPT ![s] = "verify"]
            /\ lease' = [lease EXCEPT ![s] = 0]
            /\ UNCHANGED <<number, dispatching, handles, current, fresh, mine, settled,
                           eventSubs, subDone, bindDone, waits, closed, capability, epochMu,
                           cancelled, generations, genDone, ret>>
        BY <2>2 DEF Release, ReleaseGen, Moves, closeVars, muVars, refVars, reopenVars, subVars
      <3>2. Active(pc[s]) /\ ~Unborn("verify")
        BY <3>1 DEF Active, Unborn
      <3> QED BY <3>1, <3>2
    <2>3. CASE EventsReturn(s) \/ VerifyBinding(s) \/ StreamEnds(s)
      BY <2>3 DEF EventsReturn, VerifyBinding, StreamEnds, Moves, ownerVars, closeVars, muVars,
                  backendVars, refVars, reopenVars, subVars, Active, Unborn
    <2>4. CASE TakeEvent(s) \/ CheckEvent(s)
      BY <2>4 DEF TakeEvent, CheckEvent, Moves, ownerVars, closeVars, muVars,
                  backendVars, refVars, reopenVars, subVars, Active, Unborn
    <2>5. CASE DeliverEvent(s) \/ ForwardEnds(s)
      BY <2>5 DEF DeliverEvent, ForwardEnds, Moves, ownerVars, closeVars, muVars,
                  backendVars, refVars, reopenVars, subVars, Active, Unborn
    <2> QED BY <2>1, <2>2, <2>3, <2>4, <2>5
  <1>3. OthersKept(s) /\ ~Unborn(pc'[s])
    BY <1>1, <1>2, Moved
  <1>4. Pub' = Pub
    BY <1>2 DEF Pub
  <1> QED BY <1>1, <1>2, <1>3, <1>4, RKept DEF Holding

\* What a subscription's own steps leave alone.
LEMMA SubFrame ==
    ASSUME IInv, RInv, NEW s \in Subs, OthersKept(s),
           UNCHANGED <<number, dispatching, handles, current, fresh, settled, waits, closed,
                       capability, epochMu, cancelled, generations, genDone, ret, lease>>,
           mine' \in [Subs -> Known], \A x \in Subs \ {s} : mine'[x] = mine[x],
           eventSubs' \subseteq Subs,
           \A x \in Subs \ {s} :
              /\ x \in eventSubs' <=> x \in eventSubs
              /\ x \in subDone' <=> x \in subDone
              /\ \A g \in Known : <<x, g>> \in bindDone' <=> <<x, g>> \in bindDone,
           Active(pc'[s]) =>
              /\ s \in eventSubs' /\ s \notin subDone' /\ settled <= mine'[s]
              /\ current # 0 => mine'[s] <= current
              /\ \A g \in Known : <<s, g>> \in bindDone' => g <= mine'[s]
              /\ \A r \in Reopeners : PublishedAt(pc[r], ret[r]) =>
                    s \in waits[r] \/ fresh[r] <= mine'[s],
           ~Unborn(pc'[s])
    PROVE  RInv'
  <1>1. /\ s \in Actors
        /\ s \notin Queries \cup Streamers \cup Invalidators \cup Reopeners \cup Closers
    BY SubPlace
  <1>2. Pub' = Pub
    BY DEF Pub
  <1>3. EpochInv' /\ NumInv' /\ AbandonedStaysUnavailable'
    BY <1>1, <1>2, EpochKept, NumKept, AbandonKept DEF RInv, Holding
  <1>4. \A x \in Subs \ {s} : pc'[x] = pc[x]
    BY DEF OthersKept, Actors
  <1>5. \A r \in Reopeners : pc'[r] = pc[r] /\ ret'[r] = ret[r]
    BY <1>1 DEF OthersKept, Actors
  <1>6. BindTypeOK' /\ (current' # 0 => settled' <= current')
    BY DEF RInv, BindInv, BindTypeOK
  <1>7. SubsOK'
    <2> SUFFICES ASSUME NEW x \in Subs
                 PROVE  /\ Active(pc'[x]) =>
                              /\ x \in eventSubs' /\ x \notin subDone' /\ settled <= mine'[x]
                              /\ current # 0 => mine'[x] <= current
                              /\ \A g \in Known : <<x, g>> \in bindDone' => g <= mine'[x]
                        /\ Unborn(pc'[x]) =>
                              x \notin subDone' /\ \A g \in Known : <<x, g>> \notin bindDone'
      BY DEF SubsOK
    <2>1. CASE x = s
      BY <2>1
    <2>2. CASE x # s
      BY <2>2, <1>4 DEF RInv, BindInv, SubsOK
    <2> QED BY <2>1, <2>2
  <1>8. WaitsOK'
    <2>1. \A r \in Reopeners : PublishedAt(pc[r], ret[r]) =>
             \A x \in Subs : Active(pc'[x]) => x \in waits[r] \/ fresh[r] <= mine'[x]
      BY <1>4 DEF RInv, BindInv, WaitsOK
    <2> QED BY <1>5, <2>1 DEF RInv, BindInv, WaitsOK, Unpub
  <1> QED BY <1>3, <1>6, <1>7, <1>8 DEF RInv, BindInv

\* A subscription is made, rebinds, completes a binding or ends.
LEMMA SubKeeps ==
    ASSUME IInv, RInv, NEW s \in Subs,
           Subscribe(s) \/ CompleteBinding(s) \/ NextBinding(s) \/ FinishStream(s) \/ EndStream(s)
    PROVE  RInv'
  <1>1. /\ s \in Actors
        /\ s \notin Queries \cup Streamers \cup Invalidators \cup Reopeners \cup Closers
    BY SubPlace
  <1>2. UNCHANGED <<number, dispatching, handles, current, fresh, settled, waits, closed,
                    capability, epochMu, cancelled, generations, genDone, ret, lease>>
    <2>1. CASE Subscribe(s) \/ CompleteBinding(s)
      BY <2>1 DEF Subscribe, CompleteBinding, ownerVars, closeVars, muVars, backendVars, refVars,
                  reopenVars
    <2>2. CASE NextBinding(s) \/ FinishStream(s) \/ EndStream(s)
      BY <2>2 DEF NextBinding, FinishStream, EndStream, ownerVars, closeVars, muVars, backendVars,
                  refVars, reopenVars
    <2> QED BY <2>1, <2>2
  <1>3. \A to : pc' = [pc EXCEPT ![s] = to] => OthersKept(s) /\ pc'[s] = to
    BY <1>1, <1>2, Moved
  <1>4. /\ mine \in [Subs -> Known] /\ eventSubs \subseteq Subs
        /\ current # 0 => current \in Known
        /\ \A k \in Known : k \in Nat
    BY MaxGensPositive DEF RInv, BindInv, BindTypeOK, IInv, TypeOK, Known
  <1>5. /\ current # 0 => settled <= current
        /\ \A r \in Reopeners : PublishedAt(pc[r], ret[r]) => (current # 0 => fresh[r] <= current)
    BY DEF RInv, BindInv, WaitsOK
  <1>6. /\ Active(pc[s]) =>
              /\ s \in eventSubs /\ s \notin subDone /\ settled <= mine[s]
              /\ current # 0 => mine[s] <= current
              /\ \A g \in Known : <<s, g>> \in bindDone => g <= mine[s]
              /\ \A r \in Reopeners : PublishedAt(pc[r], ret[r]) =>
                    s \in waits[r] \/ fresh[r] <= mine[s]
        /\ Unborn(pc[s]) => s \notin subDone /\ \A g \in Known : <<s, g>> \notin bindDone
    BY DEF RInv, BindInv, SubsOK, WaitsOK
  <1>7. CASE Subscribe(s)
    <2>1. /\ pc[s] = "idle" /\ UNCHANGED <<bindDone, subDone>>
          /\ \/ pc' = [pc EXCEPT ![s] = "returned"] /\ UNCHANGED <<eventSubs, mine>>
             \/ /\ pc' = [pc EXCEPT ![s] = "open"] /\ current # 0
                /\ eventSubs' = eventSubs \cup {s} /\ mine' = [mine EXCEPT ![s] = current]
      BY <1>7 DEF Subscribe, Moves
    <2>2. CASE pc' = [pc EXCEPT ![s] = "returned"] /\ UNCHANGED <<eventSubs, mine>>
      <3>a. OthersKept(s) /\ pc'[s] = "returned"
        BY <1>3, <2>2
      <3>1. OthersKept(s) /\ ~Active(pc'[s]) /\ ~Unborn(pc'[s])
        BY <3>a DEF Active, Unborn
      <3> QED BY <1>2, <1>4, <2>1, <2>2, <3>1, SubFrame
    <2>3. CASE /\ pc' = [pc EXCEPT ![s] = "open"] /\ current # 0
               /\ eventSubs' = eventSubs \cup {s} /\ mine' = [mine EXCEPT ![s] = current]
      <3>a. OthersKept(s) /\ pc'[s] = "open"
        BY <1>3, <2>3
      <3>1. OthersKept(s) /\ ~Unborn(pc'[s])
        BY <3>a DEF Unborn
      <3>2. /\ mine' \in [Subs -> Known] /\ mine'[s] = current /\ eventSubs' \subseteq Subs
            /\ \A x \in Subs \ {s} : mine'[x] = mine[x]
        BY <1>4, <2>3
      <3>3. s \notin subDone /\ \A g \in Known : <<s, g>> \notin bindDone
        BY <1>6, <2>1 DEF Unborn
      <3>4. mine'[s] <= current
        BY <1>4, <2>3, <3>2
      <3> QED BY <1>2, <1>5, <2>1, <2>3, <3>1, <3>2, <3>3, <3>4, SubFrame
    <2> QED BY <2>1, <2>2, <2>3
  <1>8. CASE CompleteBinding(s)
    <2>1. /\ pc[s] = "complete" /\ UNCHANGED <<eventSubs, mine, subDone>>
          /\ pc' = [pc EXCEPT ![s] = "forward"] \/ pc' = [pc EXCEPT ![s] = "next"]
          /\ bindDone' = bindDone \cup {<<s, mine[s]>>}
      BY <1>8 DEF CompleteBinding, Moves
    <2>a. OthersKept(s) /\ pc'[s] \in {"forward", "next"}
      BY <1>3, <2>1
    <2>2. OthersKept(s) /\ ~Unborn(pc'[s]) /\ Active(pc[s])
      BY <2>1, <2>a DEF Active, Unborn
    <2>3. \A x \in Subs \ {s} : \A g \in Known : <<x, g>> \in bindDone' <=> <<x, g>> \in bindDone
      BY <2>1
    <2>4. \A g \in Known : <<s, g>> \in bindDone' => g <= mine[s]
      BY <1>4, <1>6, <2>1, <2>2
    <2> QED BY <1>2, <1>4, <1>6, <2>1, <2>2, <2>3, <2>4, SubFrame
  <1>9. CASE NextBinding(s)
    <2>1. /\ pc[s] = "next" /\ UNCHANGED <<eventSubs, subDone, bindDone>>
          /\ \/ pc' = [pc EXCEPT ![s] = "finish"] /\ mine' = mine
             \/ /\ pc' = [pc EXCEPT ![s] = "open"] /\ mine' = [mine EXCEPT ![s] = current]
                /\ current # 0
      BY <1>9 DEF NextBinding, NoSuccessor, Moves
    <2>2. Active(pc[s])
      BY <2>1 DEF Active
    <2>3. CASE pc' = [pc EXCEPT ![s] = "finish"] /\ mine' = mine
      <3>a. OthersKept(s) /\ pc'[s] = "finish"
        BY <1>3, <2>3
      <3>1. OthersKept(s) /\ ~Unborn(pc'[s])
        BY <3>a DEF Unborn
      <3> QED BY <1>2, <1>4, <1>6, <2>1, <2>2, <2>3, <3>1, SubFrame
    <2>4. CASE /\ pc' = [pc EXCEPT ![s] = "open"] /\ mine' = [mine EXCEPT ![s] = current]
               /\ current # 0
      <3>a. OthersKept(s) /\ pc'[s] = "open"
        BY <1>3, <2>4
      <3>1. OthersKept(s) /\ ~Unborn(pc'[s])
        BY <3>a DEF Unborn
      <3>2. /\ mine' \in [Subs -> Known] /\ mine'[s] = current
            /\ \A x \in Subs \ {s} : mine'[x] = mine[x]
        BY <1>4, <2>4
      <3>3. mine'[s] <= current /\ \A g \in Known : <<s, g>> \in bindDone => g <= mine'[s]
        BY <1>4, <1>6, <2>2, <2>4, <3>2
      <3> QED BY <1>2, <1>4, <1>5, <1>6, <2>1, <2>2, <2>4, <3>1, <3>2, <3>3, SubFrame
    <2> QED BY <2>1, <2>3, <2>4
  <1>10. CASE FinishStream(s) \/ EndStream(s)
    <2>1. /\ mine' = mine /\ eventSubs' \subseteq eventSubs
          /\ pc' = [pc EXCEPT ![s] = "end"] \/ pc' = [pc EXCEPT ![s] = "returned"]
          /\ \A x \in Subs \ {s} :
                /\ x \in eventSubs' <=> x \in eventSubs
                /\ x \in subDone' <=> x \in subDone
                /\ \A g \in Known : <<x, g>> \in bindDone' <=> <<x, g>> \in bindDone
      BY <1>10 DEF FinishStream, EndStream, Moves
    <2>a. OthersKept(s) /\ pc'[s] \in {"end", "returned"}
      BY <1>3, <2>1
    <2>2. OthersKept(s) /\ ~Active(pc'[s]) /\ ~Unborn(pc'[s])
      BY <2>a DEF Active, Unborn
    <2> QED BY <1>2, <1>4, <2>1, <2>2, SubFrame
  <1> QED BY <1>7, <1>8, <1>9, <1>10

-----------------------------------------------------------------------------
(* Steps every call can take.                                              *)

\* A refresh of the capability goes on, or returns to where it was begun.
LEMMA RefreshKeeps ==
    ASSUME IInv, RInv, NEW a \in Actors, pc[a] \in Refreshing,
           NEW to \in Refreshing \cup {ret[a]}, pc' = [pc EXCEPT ![a] = to],
           UNCHANGED <<number, dispatching, handles, current, fresh, mine, settled, eventSubs,
                       subDone, bindDone, waits, closed, epochMu, cancelled, generations,
                       genDone, ret, lease>>,
           capability' = capability \/ current # 0
    PROVE  RInv'
  <1>1. OthersKept(a) /\ pc'[a] = to /\ ret'[a] = ret[a] /\ lease'[a] = lease[a]
    BY Moved
  <1>2. a \in Reopeners \cup Subs /\ a \notin Invalidators /\ Pub' = Pub
    BY RefreshRole, KindsDiffer DEF Pub
  <1>3. CASE a \in Subs
    <2>1. a \notin Reopeners /\ ret[a] \in {"complete", "next"}
      BY <1>3, SubPlace
    <2>2. Active(pc[a]) /\ ~Unborn(pc'[a])
      BY <1>1, <2>1 DEF Active, Unborn, Refreshing
    <2>3. ~Holding(a, pc'[a])
      BY <1>2, <2>1 DEF Holding
    <2>4. EpochInv' /\ NumInv' /\ BindInv'
      BY <1>1, <1>2, <2>1, <2>2, <2>3, EpochKept, NumKept, BindKept DEF RInv
    <2>5. \A r \in Reopeners : pc'[r] = pc[r]
      BY <1>1, <2>1 DEF OthersKept, Actors
    <2> QED BY <2>4, <2>5 DEF RInv, AbandonedStaysUnavailable
  <1>4. CASE a \in Reopeners
    <2>1. a \notin Subs /\ ret[a] \in {"retired", "finish"}
      BY <1>4, ReopenPlace
    <2>2. ~Holding(a, pc'[a]) /\ pc'[a] # "publish" /\ pc'[a] # "capability" /\ pc[a] # "capability"
      BY <1>1, <1>2, <2>1 DEF Holding, Refreshing
    <2>3. /\ StoppedAt(pc'[a], ret'[a]) => StoppedAt(pc[a], ret[a])
          /\ PublishedAt(pc'[a], ret'[a]) => PublishedAt(pc[a], ret[a])
          /\ SettlingAt(pc'[a], ret'[a]) => SettlingAt(pc[a], ret[a])
      BY <1>1, <2>1 DEF StoppedAt, PublishedAt, SettlingAt, Refreshing
    <2>4. Unpub(a)' => Unpub(a)
      BY <1>1, <2>1 DEF Unpub, Unpublished, Refreshing, Opened
    <2>5. EpochInv' /\ NumInv' /\ BindInv'
      BY <1>1, <1>2, <2>1, <2>2, <2>3, <2>4, EpochKept, NumKept, BindKept DEF RInv
    <2>6. \A r \in Reopeners : pc'[r] = "capability" <=> pc[r] = "capability"
      BY <1>1, <2>2 DEF OthersKept, Actors
    <2> QED BY <2>5, <2>6 DEF RInv, AbandonedStaysUnavailable
  <1> QED BY <1>2, <1>3, <1>4

\* A generation has been closed, or the capability is refreshed.  What was
\* retired meanwhile is not made available again.
LEMMA SharedKeeps ==
    ASSUME IInv, RInv, NEW a \in Actors, SharedStep(a)
    PROVE  RInv'
  <1>1. CASE CloseGeneration(a)
    <2>1. /\ UNCHANGED <<number, dispatching, handles, current, fresh, mine, settled, eventSubs,
                         subDone, bindDone, waits, closed, capability, epochMu, cancelled, pc,
                         ret, lease>>
          /\ closing[a] # 0 /\ generations' = generations \ {closing[a]}
          /\ genDone' = genDone \cup {closing[a]}
      BY <1>1 DEF CloseGeneration, DoneWith, closeVars, muVars, backendVars, refVars, reopenVars,
                  subVars
    <2>2. closing[a] \in generations
      BY <2>1 DEF IInv, ClosingInv
    <2>3. Pub' = Pub
      BY <2>1, <2>2 DEF Pub
    <2> QED BY <2>1, <2>3, RestKept
  <1>2. CASE RefreshAcquire(a)
    <2>1. /\ pc[a] = "refresh"
          /\ \E to \in Refreshing \cup {ret[a]} : pc' = [pc EXCEPT ![a] = to]
      BY <1>2 DEF RefreshAcquire, Moves, Refreshing
    <2>2. UNCHANGED <<number, dispatching, handles, current, fresh, mine, settled, eventSubs,
                      subDone, bindDone, waits, closed, epochMu, cancelled, generations,
                      genDone, ret, lease, capability>>
      BY <1>2 DEF RefreshAcquire, closeVars, muVars, backendVars, reopenVars, subVars
    <2>3. pc[a] \in Refreshing
      BY <2>1 DEF Refreshing
    <2> QED BY <2>1, <2>2, <2>3, RefreshKeeps
  <1>3. CASE RefreshWrite(a)
    <2>1. /\ pc[a] = "write" /\ pc' = [pc EXCEPT ![a] = "unpin"]
          /\ capability' = capability \/ current = refLease[a]
      BY <1>3 DEF RefreshWrite, RefreshValid, StillCurrent, Moves
    <2>2. UNCHANGED <<number, dispatching, handles, current, fresh, mine, settled, eventSubs,
                      subDone, bindDone, waits, closed, epochMu, cancelled, generations,
                      genDone, ret, lease>>
      BY <1>3 DEF RefreshWrite, ownerVars, closeVars, muVars, backendVars, refVars, reopenVars,
                  subVars
    <2>3. pc[a] \in Refreshing /\ "unpin" \in Refreshing /\ pc[a] \in Pinning
      BY <2>1 DEF Refreshing, Pinning
    <2>4. refLease[a] # 0
      BY <2>3, RefreshRole
    <2> QED BY <2>1, <2>2, <2>3, <2>4, RefreshKeeps
  <1>4. CASE RefreshRelease(a)
    <2>1. pc[a] = "unpin" /\ pc' = [pc EXCEPT ![a] = ret[a]]
      BY <1>4 DEF RefreshRelease, Moves
    <2>2. UNCHANGED <<number, dispatching, handles, current, fresh, mine, settled, eventSubs,
                      subDone, bindDone, waits, closed, epochMu, cancelled, generations,
                      genDone, ret, lease, capability>>
      BY <1>4 DEF RefreshRelease, ReleaseGen, closeVars, muVars, reopenVars, subVars
    <2>3. pc[a] \in Refreshing
      BY <2>1 DEF Refreshing
    <2> QED BY <2>1, <2>2, <2>3, RefreshKeeps
  <1> QED BY <1>1, <1>2, <1>3, <1>4 DEF SharedStep

\* A caller gives up, or the session closes.
LEMMA OutsideKeeps ==
    ASSUME RInv, (\E a \in Actors : Cancel(a)) \/ SessionCloses \/ SessionCancels
    PROVE  RInv'
  <1>1. /\ UNCHANGED <<number, dispatching, handles, current, fresh, mine, settled, eventSubs,
                       subDone, bindDone, waits, closed, capability, epochMu, pc, ret, lease,
                       generations, genDone>>
        /\ cancelled \subseteq cancelled'
    BY DEF Cancel, SessionCloses, SessionCancels, ownerVars, closeVars, muVars, backendVars,
           refVars, reopenVars, subVars
  <1> QED BY <1>1, RestKept DEF Pub

\* A reopen takes its step.
LEMMA ReopenKeeps ==
    ASSUME IInv, RInv, NEW r \in Reopeners,
           ReopenLock(r) \/ ReopenCallReturns(r) \/ ReopenStep(r)
    PROVE  RInv'
  <1>1. CASE RetireFails(r)
    BY <1>1, ReopenRests, RetireKeeps
  <1>2. CASE Abandon(r)
    BY <1>2, ReopenRests, AbandonKeeps
  <1> QED BY <1>1, <1>2, ReopenRests, RetireKeeps, OpenFreshKeeps, EpochKeeps, AdvanceKeeps,
             AbandonReportedKeeps, PublishKeeps, DropFreshKeeps, FinishKeeps
          DEF ReopenStep, ReopenCallReturns

\* A subscription takes its step.
LEMMA PumpKeeps ==
    ASSUME IInv, RInv, NEW s \in Subs,
           Subscribe(s) \/ EventsReturn(s) \/ StreamEnds(s) \/ TakeEvent(s) \/ PumpStep(s)
    PROVE  RInv'
  BY PumpRests, SubKeeps DEF PumpStep

-----------------------------------------------------------------------------
(* The theorems.                                                           *)

\* Nothing was replaced, and nobody has subscribed, when the owner is made.
LEMMA InitReopen ==
    ASSUME Init
    PROVE  RInv
  <1>1. PICK cast \in Casts : pc = [a \in Actors |-> IF a \in cast THEN "idle" ELSE "absent"]
    BY DEF Init
  <1>2. \A a \in Actors : pc[a] \in {"idle", "absent"}
    BY <1>1
  <1>3. Subs \subseteq Actors /\ Reopeners \subseteq Actors /\ Invalidators \subseteq Actors
    BY DEF Actors
  <1>4. 0 \in Known /\ 1 \in Gens
    BY MaxGensPositive DEF Known, Gens
  <1>5. EpochInv
    BY <1>2 DEF EpochInv, Holding
  <1>6. NumInv
    <2>1. NumberOK
      BY DEF Init, NumberOK
    <2>2. CurrentLeads
      <3>1. Pub = {1} /\ current = 1
        BY DEF Init, Pub
      <3>2. \A a \in Invalidators : pc[a] # "bump"
        BY <1>2, <1>3
      <3> QED BY <3>1, <3>2 DEF CurrentLeads
    <2>3. ReopenStopped
      BY <1>2, <1>3 DEF ReopenStopped, StoppedAt, Refreshing
    <2> QED BY <2>1, <2>2, <2>3 DEF NumInv
  <1>7. BindInv
    <2>1. BindTypeOK /\ (current # 0 => settled <= current)
      BY <1>4 DEF Init, BindTypeOK
    <2>2. SubsOK
      <3>1. \A s \in Subs : ~Active(pc[s])
        BY <1>2, <1>3 DEF Active
      <3>2. subDone = {} /\ bindDone = {}
        BY DEF Init
      <3> QED BY <3>1, <3>2 DEF SubsOK
    <2>3. WaitsOK
      BY <1>2, <1>3 DEF WaitsOK, PublishedAt, SettlingAt, Unpub, Unpublished, Opened, Refreshing
    <2> QED BY <2>1, <2>2, <2>3 DEF BindInv
  <1>8. AbandonedStaysUnavailable
    BY DEF Init, AbandonedStaysUnavailable
  <1> QED BY <1>5, <1>6, <1>7, <1>8 DEF RInv

\* Every step keeps the invariant.
LEMMA NextReopen ==
    ASSUME IInv, RInv, [Next]_vars
    PROVE  RInv'
  <1>1. CASE UNCHANGED vars
    <2>1. UNCHANGED <<number, dispatching, handles, current, fresh, mine, settled, eventSubs,
                      subDone, bindDone, waits, closed, capability, epochMu, pc, ret, lease,
                      generations, genDone, cancelled>>
      BY <1>1 DEF vars, ownerVars, closeVars, muVars, backendVars, refVars, reopenVars, subVars
    <2> QED BY <2>1, RestKept DEF Pub
  <1>2. ASSUME NEW g \in Gens, DispatcherInvalidates(g) PROVE RInv'
    BY <1>2, DispatcherKeeps
  <1> QED BY <1>1, <1>2, SharedKeeps, OutsideKeeps, CallKeeps, InvalidateKeeps, ReopenKeeps,
             CloseKeeps, PumpKeeps DEF Next

\* The numbers of backends and the bindings of subscriptions (RInv), however
\* many reopens there are (advanceReopenedGeneration, publishReopenedBackend,
\* nextBinding, finishReopen).
THEOREM ReopensAreOrdered == Spec => []RInv
  <1>1. Init => RInv
    BY InitReopen
  <1>2. IInv /\ RInv /\ [Next]_vars => RInv'
    BY NextReopen
  <1> QED BY <1>1, <1>2, LeasesAreExact, PTL DEF Spec

\* No handle of a replaced backend becomes valid under its successor, and a
\* refresh that was under way brings no abandoned backend back
\* (advanceReopenedGeneration, refreshCapabilities).
THEOREM TheDeadStayDead == Spec => []NothingRevives
  <1>1. IInv /\ RInv => NothingRevives
    <2> SUFFICES ASSUME IInv, RInv, NEW h \in handles, current # 0, h[1] # current
                 PROVE  h[2] # number[current]
      BY DEF NothingRevives, HandlesStayDead, RInv
    <2>1. h[1] \in Pub /\ h[2] \in Nat /\ h[2] <= number[h[1]]
      BY DEF RInv, NumInv, NumberOK
    <2>2. number[h[1]] < number[current]
      BY <2>1 DEF RInv, NumInv, CurrentLeads
    <2>3. h[1] \in Gens /\ current \in Gens
      <3>1. Pub \subseteq Gens
        BY DEF IInv, TypeOK, Pub
      <3>2. current \in Known
        BY DEF IInv, TypeOK
      <3>3. current \in Gens
        BY <3>2, MaxGensPositive DEF Known, Gens
      <3> QED BY <2>1, <3>1, <3>3
    <2>4. number[h[1]] \in Nat /\ number[current] \in Nat
      BY <2>3 DEF RInv, NumInv, NumberOK
    <2> QED BY <2>1, <2>2, <2>4
  <1> QED BY <1>1, LeasesAreExact, ReopensAreOrdered, PTL

\* Once a reopen has returned successfully, no subscriber is handed an event
\* of a backend before the one it installed (forwardGeneration, finishReopen).
THEOREM OldEventsEnd == Spec => []StaleEventsEnd
  <1>1. RInv => StaleEventsEnd
    <2> SUFFICES ASSUME RInv, NEW s \in Subs, pc[s] = "deliver"
                 PROVE  mine[s] >= settled
      BY DEF StaleEventsEnd
    <2>1. settled <= mine[s]
      BY DEF RInv, BindInv, SubsOK, Active
    <2> QED BY <2>1
  <1> QED BY <1>1, ReopensAreOrdered, PTL
=============================================================================
