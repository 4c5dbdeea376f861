---------------------------- MODULE AtspiEventsProofs ---------------------------
(***************************************************************************)
(* Proofs about AtspiEvents for any finite set of callers, any families    *)
(* and any number of setups and dispatchers.                               *)
(*                                                                         *)
(* One caller at a time sets up (SetupInv) and one dispatcher at a time is *)
(* not over (RunInv), never both, so that what the registry sends is known *)
(* at every place of either (RemoteInv).  Where a stream is closed follows *)
(* from where its caller is and whether it is listed (SubInv).  That       *)
(* nobody is canceled in another's stead counts the setups that failed     *)
(* because their callers were (FailureInv).                                *)
(***************************************************************************)
EXTENDS AtspiEvents, FiniteSetTheorems, SequenceTheorems, TLAPS

-----------------------------------------------------------------------------
(* Types.                                                                  *)

\* Where a caller is before it has set up, while it does, before it is
\* listed, and when it is no more.
Early == {"idle", "admit", "waitRun", "check", "start", "waitStart"}
Setting == {"register", "publish", "undo", "finish"}
Outside == {"idle", "admit", "waitRun"}
Gone == {"last", "left", "refused"}
Places == Early \cup Setting \cup Gone \cup {"failed", "stream"}

Errors == {"canceled", "disconnected", "unsupported", "timeout", "failed", Nil}
Index == Nat \cup {Nil}
Waits == [run : Index, start : Index] \cup {Nil}

Records ==
    [pc : Places, canceled : BOOLEAN, err : Errors, on : Waits, linked : BOOLEAN, mine : Index,
     next : Nat \ {0}, families : SUBSET {Families[i] : i \in DOMAIN Families}, retries : Nat,
     closed : Nat, buf : Seq(Nat), dropped : Nat, told : Nat, due : Nat]

Setups == [done : BOOLEAN, err : Errors, byCaller : BOOLEAN, stopped : BOOLEAN, late : BOOLEAN]
Dispatchers ==
    [phase : {"live", "cleanup", "finish", "over"}, stopped : BOOLEAN,
     families : SUBSET {Families[i] : i \in DOMAIN Families}]

TypeOK ==
    /\ ev \in [retired : BOOLEAN, starting : Index, cancel : Index, subs : SUBSET Callers,
               registered : SUBSET {Families[i] : i \in DOMAIN Families}]
    /\ link \in [open : BOOLEAN, down : BOOLEAN, gone : BOOLEAN]
    /\ starts \in Seq(Setups) /\ runs \in Seq(Dispatchers)
    /\ caller \in [Callers -> Records]
    /\ stopper \in [kind : {"close", "watch", "retire", Nil},
                    pc : {"idle", "look", "cancel", "wait", "returned"},
                    start : Index, run : Index, clean : BOOLEAN]

-----------------------------------------------------------------------------
(* The invariant.                                                          *)

SetupOK(c) ==
    /\ caller[c].pc \in Early => caller[c].mine = Nil /\ caller[c].families = {}
    /\ caller[c].pc \in Setting => caller[c].mine # Nil /\ ev.starting = caller[c].mine
    /\ caller[c].mine # Nil => caller[c].mine \in DOMAIN starts
    /\ \A d \in Callers : caller[c].mine # Nil /\ caller[d].mine = caller[c].mine => d = c

SetupInv ==
    /\ \A c \in Callers : SetupOK(c)
    /\ ev.starting # Nil =>
          /\ ev.cancel = Nil /\ ev.starting \in DOMAIN starts
          /\ ~starts[ev.starting].done /\ ~starts[ev.starting].byCaller
          /\ \E c \in Callers : caller[c].pc \in Setting

RunInv ==
    /\ \A r \in DOMAIN runs : runs[r].phase # "over" <=> ev.cancel = r
    /\ ev.cancel # Nil => ev.cancel \in DOMAIN runs

\* What the registry sends, while the connection lasts.
Registered(c) ==
    /\ caller[c].pc \in {"register", "publish"} => remote = caller[c].families
    /\ caller[c].pc = "undo" => remote \subseteq caller[c].families
    /\ caller[c].pc = "finish" => remote = {}
RemoteInv ==
    link.open =>
        /\ \A c \in Callers : Registered(c)
        /\ \A r \in DOMAIN runs :
              /\ runs[r].phase = "live" => remote = runs[r].families
              /\ runs[r].phase = "cleanup" => remote \subseteq runs[r].families
              /\ runs[r].phase = "finish" => remote = {}
        /\ ev.cancel = Nil /\ ev.starting = Nil => remote = {}

\* Who is listed, and whose stream is closed.
SubOK(c) ==
    /\ caller[c].pc \in Outside => c \notin ev.subs /\ caller[c].closed = 0
    /\ caller[c].pc \in Gone => c \notin ev.subs /\ caller[c].closed = 1
    /\ caller[c].pc \notin Outside \cup Gone =>
          caller[c].closed = IF c \in ev.subs THEN 0 ELSE 1
    /\ caller[c].pc = "stream" /\ c \in ev.subs => ev.cancel # Nil
    /\ caller[c].pc = "last" => caller[c].on.start = Nil
SubInv ==
    /\ \A c \in Callers : SubOK(c)
    /\ \A r \in DOMAIN runs : runs[r].phase \in {"cleanup", "finish"} => ev.subs = {}

\* The setups that failed because their callers were canceled.
Failed == {i \in DOMAIN starts : starts[i].byCaller}
CanceledCallers == {c \in Callers : caller[c].canceled}

RetriesOK(c) ==
    /\ caller[c].retries <= Cardinality(Failed)
    /\ caller[c].pc = "waitStart" =>
          /\ caller[c].on.start \in DOMAIN starts
          /\ caller[c].retries <= Cardinality(Failed \ {caller[c].on.start})
BlamedOK(c) ==
    /\ caller[c].pc \in {"undo", "finish", "failed"} /\ caller[c].err = "canceled" =>
          caller[c].canceled
    /\ caller[c].pc = "refused" /\ caller[c].err = "canceled" =>
          caller[c].canceled \/ Cardinality(Failed) > RetryLimit
FailureInv ==
    /\ \A i \in Failed : \E c \in Callers : caller[c].mine = i /\ caller[c].canceled
    /\ \A c \in Callers : RetriesOK(c)
    /\ stopper.pc = "idle" =>
          /\ \A i \in DOMAIN starts :
                ~starts[i].stopped /\ (starts[i].err = "canceled" => starts[i].byCaller)
          /\ \A c \in Callers : BlamedOK(c)

\* The running totals of DropsAreCounted.
DropsOK(r) ==
    \E total \in [0..Len(r.buf) -> 0..r.due] :
        /\ total[0] = r.told
        /\ \A i \in 1..Len(r.buf) : total[i] = total[i - 1] + 1 + r.buf[i]
        /\ r.due = total[Len(r.buf)] + r.dropped
DropsInv == \A c \in Callers : DropsOK(caller[c])

IInv == TypeOK /\ SetupInv /\ RunInv /\ RemoteInv /\ SubInv /\ FailureInv /\ DropsInv

-----------------------------------------------------------------------------
(* Steps of a caller that begin and end no setup.                          *)

\* Only c moves.
Others(c) == \A d \in Callers \ {c} : caller'[d] = caller[d]

\* Only whether c is listed changes.
OnlyLists(c) ==
    \E s \in SUBSET Callers : ev' = [ev EXCEPT !.subs = s] /\ s \ {c} = ev.subs \ {c}

\* c's record is replaced.
LEMMA SetEffect ==
    ASSUME TypeOK, NEW c \in Callers, NEW k \in Records, Set(c, k)
    PROVE  caller' \in [Callers -> Records] /\ caller'[c] = k /\ Others(c)
  BY DEF TypeOK, Set, Others

\* No dispatcher gets on, though one may be stopped.
SameRuns ==
    /\ runs' \in Seq(Dispatchers) /\ DOMAIN runs' = DOMAIN runs
    /\ \A r \in DOMAIN runs :
          runs'[r].phase = runs[r].phase /\ runs'[r].families = runs[r].families

\* A caller moves, is listed or no more, and no dispatcher gets on.
LEMMA QuietRunsKeep ==
    ASSUME IInv, NEW c \in Callers, caller' \in [Callers -> Records], Others(c),
           UNCHANGED <<starts, remote, link, stopper>>, SameRuns, ev' = ev \/ OnlyLists(c),
           caller'[c].mine = caller[c].mine, caller'[c].families = caller[c].families,
           caller[c].canceled => caller'[c].canceled,
           caller'[c].pc \in Setting <=> caller[c].pc \in Setting,
           caller'[c].pc \in Early => caller[c].pc \in Early,
           caller'[c].pc \in {"register", "publish"} => caller[c].pc \in {"register", "publish"},
           caller'[c].pc = "undo" => caller[c].pc \in {"register", "publish", "undo"},
           caller'[c].pc = "finish" => caller[c].pc = "finish",
           SubOK(c)',
           \/ ev'.subs \subseteq ev.subs
           \/ \A r \in DOMAIN runs : runs[r].phase \notin {"cleanup", "finish"},
           RetriesOK(c)', stopper.pc = "idle" => BlamedOK(c)', DropsOK(caller'[c])
    PROVE  IInv'
  <1>1. /\ ev'.starting = ev.starting /\ ev'.cancel = ev.cancel /\ ev'.subs \in SUBSET Callers
        /\ ev'.subs \ {c} = ev.subs \ {c}
        /\ ev' \in [retired : BOOLEAN, starting : Index, cancel : Index, subs : SUBSET Callers,
                    registered : SUBSET {Families[i] : i \in DOMAIN Families}]
    BY DEF IInv, TypeOK, OnlyLists
  <1>2. TypeOK'
    BY <1>1 DEF IInv, TypeOK, SameRuns
  <1>3. \A d \in Callers : caller'[d].mine = caller[d].mine
    BY DEF Others
  <1>4. SetupInv'
    <2>1. \A d \in Callers : SetupOK(d)'
      BY <1>1, <1>3 DEF IInv, SetupInv, SetupOK, Others
    <2>2. \A d \in Callers : caller'[d].pc \in Setting <=> caller[d].pc \in Setting
      BY DEF Others
    <2> QED BY <1>1, <2>1, <2>2 DEF IInv, SetupInv
  <1>5. RunInv'
    BY <1>1 DEF IInv, RunInv, SameRuns
  <1>6. RemoteInv'
    <2>1. link.open => \A d \in Callers : Registered(d)'
      BY DEF IInv, RemoteInv, Registered, Others
    <2> QED BY <1>1, <2>1 DEF IInv, RemoteInv, SameRuns
  <1>7. SubInv'
    <2>1. \A d \in Callers \ {c} : SubOK(d)'
      BY <1>1 DEF IInv, SubInv, SubOK, Others
    <2>2. ASSUME NEW r \in DOMAIN runs, runs[r].phase \in {"cleanup", "finish"} PROVE ev'.subs = {}
      BY <1>1, <2>2 DEF IInv, SubInv
    <2> QED BY <2>1, <2>2 DEF IInv, SubInv, SameRuns
  <1>8. FailureInv'
    <2>1. \A d \in Callers : caller[d].canceled => caller'[d].canceled
      BY DEF Others
    <2>2. Failed' = Failed
      BY DEF Failed
    <2>3. \A i \in Failed : \E d \in Callers : caller'[d].mine = i /\ caller'[d].canceled
      BY <1>3, <2>1 DEF IInv, FailureInv
    <2>4. \A d \in Callers : RetriesOK(d)'
      BY <2>2 DEF IInv, FailureInv, RetriesOK, Others
    <2>5. stopper.pc = "idle" => \A d \in Callers : BlamedOK(d)'
      BY <2>2 DEF IInv, FailureInv, BlamedOK, Others
    <2> QED BY <2>2, <2>3, <2>4, <2>5 DEF IInv, FailureInv
  <1>9. DropsInv'
    BY DEF IInv, DropsInv, Others
  <1> QED BY <1>2, <1>4, <1>5, <1>6, <1>7, <1>8, <1>9 DEF IInv

\* A caller moves, is listed or no more, and nothing else happens.
LEMMA QuietKeeps ==
    ASSUME IInv, NEW c \in Callers, caller' \in [Callers -> Records], Others(c),
           UNCHANGED <<starts, runs, remote, link, stopper>>, ev' = ev \/ OnlyLists(c),
           caller'[c].mine = caller[c].mine, caller'[c].families = caller[c].families,
           caller[c].canceled => caller'[c].canceled,
           caller'[c].pc \in Setting <=> caller[c].pc \in Setting,
           caller'[c].pc \in Early => caller[c].pc \in Early,
           caller'[c].pc \in {"register", "publish"} => caller[c].pc \in {"register", "publish"},
           caller'[c].pc = "undo" => caller[c].pc \in {"register", "publish", "undo"},
           caller'[c].pc = "finish" => caller[c].pc = "finish",
           SubOK(c)',
           \/ ev'.subs \subseteq ev.subs
           \/ \A r \in DOMAIN runs : runs[r].phase \notin {"cleanup", "finish"},
           RetriesOK(c)', stopper.pc = "idle" => BlamedOK(c)', DropsOK(caller'[c])
    PROVE  IInv'
  <1>1. SameRuns
    BY DEF IInv, TypeOK, SameRuns
  <1> QED BY <1>1, QuietRunsKeep

\* What a quiet step leaves of a caller's record.
Kept(k, m) ==
    /\ k.mine = m.mine /\ k.families = m.families /\ k.retries = m.retries
    /\ k.buf = m.buf /\ k.dropped = m.dropped /\ k.told = m.told /\ k.due = m.due
    /\ m.canceled => k.canceled

\* The totals of events are those of a record that they are kept in.
LEMMA DropsKept ==
    ASSUME IInv, NEW c \in Callers, Kept(caller'[c], caller[c])
    PROVE  DropsOK(caller'[c])
  BY DEF IInv, DropsInv, DropsOK, Kept

\* A stream is closed once more.
LEMMA CloseEffect ==
    ASSUME NEW r \in Records
    PROVE  /\ CloseStream(r) \in Records /\ Kept(CloseStream(r), r)
           /\ CloseStream(r).closed = r.closed + 1 /\ CloseStream(r).pc = r.pc
           /\ CloseStream(r).err = r.err /\ CloseStream(r).on = r.on
           /\ CloseStream(r).canceled = r.canceled
  <1>1. CloseStream(r) = [r EXCEPT !.closed = r.closed + 1]
    BY DEF CloseStream
  <1>2. r.closed + 1 \in Nat
    BY DEF Records
  <1>3. CloseStream(r) \in Records
    BY <1>1, <1>2 DEF Records
  <1> QED BY <1>1, <1>3 DEF Records, Kept

\* A caller is refused: it is listed no more and its stream is closed.
LEMMA RefusedEffect ==
    ASSUME IInv, NEW c \in Callers, NEW e \in Errors, Refused(c, e),
           caller[c].pc \in {"admit", "waitRun", "check", "start", "waitStart", "failed"}
    PROVE  /\ caller' \in [Callers -> Records] /\ Others(c) /\ Kept(caller'[c], caller[c])
           /\ caller'[c].pc = "refused" /\ caller'[c].closed = 1 /\ caller'[c].err = e
           /\ caller'[c].canceled = caller[c].canceled
           /\ OnlyLists(c) /\ c \notin ev'.subs
  <1>1. caller[c] \in Records /\ TypeOK /\ SubOK(c)
    BY DEF IInv, TypeOK, SubInv
  <1> DEFINE r == [caller[c] EXCEPT !.pc = "refused", !.err = e]
             k == IF c \in ev.subs \/ caller[c].pc \in {"admit", "waitRun"}
                  THEN CloseStream(r) ELSE r
  <1>2. r \in Records /\ r.closed = caller[c].closed /\ r.pc = "refused" /\ r.err = e
        /\ Kept(r, caller[c]) /\ r.canceled = caller[c].canceled
    BY <1>1 DEF Records, Places, Gone, Kept
  <1>4. /\ CloseStream(r) \in Records /\ Kept(CloseStream(r), r)
        /\ CloseStream(r).closed = r.closed + 1 /\ CloseStream(r).pc = r.pc
        /\ CloseStream(r).err = r.err /\ CloseStream(r).canceled = r.canceled
    BY <1>2, CloseEffect
  <1>5. k \in Records /\ Kept(k, caller[c]) /\ k.pc = "refused" /\ k.err = e
        /\ k.canceled = caller[c].canceled
        /\ k.closed = IF c \in ev.subs \/ caller[c].pc \in {"admit", "waitRun"}
                      THEN caller[c].closed + 1 ELSE caller[c].closed
    BY <1>1, <1>2, <1>4 DEF Kept
  <1>6. k.closed = 1
    BY <1>1, <1>5 DEF SubOK, Outside, Gone
  <1>7. Set(c, k) /\ ev' = [ev EXCEPT !.subs = @ \ {c}]
    BY DEF Refused
  <1>8. caller' \in [Callers -> Records] /\ caller'[c] = k /\ Others(c)
    BY <1>1, <1>5, <1>7, SetEffect
  <1>9. OnlyLists(c) /\ c \notin ev'.subs
    BY <1>1, <1>7, ZenonT(30) DEF OnlyLists, TypeOK
  <1> QED BY <1>5, <1>6, <1>8, <1>9

\* A caller moves, perhaps to wait, and nothing else happens.
LEMMA MoveKeeps ==
    ASSUME IInv, NEW c \in Callers, NEW k \in Records, Set(c, k), Kept(k, caller[c]),
           k.closed = caller[c].closed,
           UNCHANGED <<ev, starts, runs, remote, link, stopper>>,
           k.pc \in Setting <=> caller[c].pc \in Setting, k.pc \in Early => caller[c].pc \in Early,
           k.pc \in {"register", "publish"} => caller[c].pc \in {"register", "publish"},
           k.pc = "undo" => caller[c].pc \in {"register", "publish", "undo"},
           k.pc = "finish" => caller[c].pc = "finish",
           k.pc \in Outside <=> caller[c].pc \in Outside, k.pc \in Gone <=> caller[c].pc \in Gone,
           k.pc = "stream" => ev.cancel # Nil,
           k.pc = "waitStart" =>
              k.on.start \in DOMAIN starts /\ k.retries <= Cardinality(Failed \ {k.on.start}),
           k.pc \notin {"last", "refused"},
           stopper.pc = "idle" /\ k.pc \in {"undo", "finish", "failed"} /\ k.err = "canceled" =>
              k.canceled
    PROVE  IInv'
  <1>1. caller' \in [Callers -> Records] /\ Others(c) /\ caller'[c] = k
    BY SetEffect DEF IInv
  <1>2. DropsOK(caller'[c])
    BY <1>1, DropsKept
  <1>3. SubOK(c)'
    BY <1>1 DEF IInv, SubInv, SubOK
  <1>4. RetriesOK(c)' /\ (stopper.pc = "idle" => BlamedOK(c)')
    BY <1>1 DEF IInv, FailureInv, RetriesOK, BlamedOK, Kept, Failed
  <1> QED BY <1>1, <1>2, <1>3, <1>4, QuietKeeps DEF Kept

\* A caller moves, and nothing else happens.
LEMMA GotoKeeps ==
    ASSUME IInv, NEW c \in Callers, NEW p \in Places, Goto(c, p),
           UNCHANGED <<ev, starts, runs, remote, link, stopper>>,
           p \in Setting <=> caller[c].pc \in Setting, p \in Early => caller[c].pc \in Early,
           p \in {"register", "publish"} => caller[c].pc \in {"register", "publish"},
           p \in Outside <=> caller[c].pc \in Outside, p \in Gone <=> caller[c].pc \in Gone,
           p = "stream" => ev.cancel # Nil,
           p \notin {"last", "waitStart", "refused", "undo", "finish", "failed"}
    PROVE  IInv'
  <1>1. caller[c] \in Records
    BY DEF IInv, TypeOK
  <1> DEFINE k == [caller[c] EXCEPT !.pc = p]
  <1>2. k \in Records /\ Kept(k, caller[c]) /\ k.closed = caller[c].closed /\ k.pc = p
    BY <1>1 DEF Records, Kept
  <1>3. Set(c, k)
    BY DEF Goto
  <1> HIDE DEF k
  <1> QED BY <1>2, <1>3, MoveKeeps

\* A caller is refused, and nothing else happens.
LEMMA RefusalKeeps ==
    ASSUME IInv, NEW c \in Callers, NEW e \in Errors, Refused(c, e),
           caller[c].pc \in {"admit", "waitRun", "check", "start", "waitStart", "failed"},
           UNCHANGED <<starts, runs, remote, link, stopper>>,
           stopper.pc = "idle" /\ e = "canceled" =>
              caller[c].canceled \/ Cardinality(Failed) > RetryLimit
    PROVE  IInv'
  <1>1. /\ caller' \in [Callers -> Records] /\ Others(c) /\ Kept(caller'[c], caller[c])
        /\ caller'[c].pc = "refused" /\ caller'[c].closed = 1 /\ caller'[c].err = e
        /\ caller'[c].canceled = caller[c].canceled
        /\ OnlyLists(c) /\ c \notin ev'.subs
    BY RefusedEffect
  <1>2. DropsOK(caller'[c])
    BY <1>1, DropsKept
  <1>3. SubOK(c)'
    BY <1>1 DEF SubOK, Outside, Gone
  <1>4. RetriesOK(c)' /\ (stopper.pc = "idle" => BlamedOK(c)')
    BY <1>1 DEF IInv, FailureInv, RetriesOK, BlamedOK, Kept, Failed
  <1>5. ev'.subs \subseteq ev.subs
    BY DEF Refused, IInv, TypeOK
  <1>6. caller[c].pc \notin Setting /\ caller'[c].pc \notin Setting \cup Early
    BY <1>1 DEF Setting, Early
  <1> QED BY <1>1, <1>2, <1>3, <1>4, <1>5, <1>6, QuietKeeps DEF Kept

\* What there is to wait for is a wait.
LEMMA BlockingIsWait ==
    ASSUME IInv
    PROVE  /\ Blocking \in [run : Index, start : Index]
           /\ ev.cancel # Nil => Blocking.start = Nil
           /\ ev.cancel = Nil => Blocking.start = ev.starting
  BY DEF IInv, TypeOK, Blocking, Index

\* A caller calls, or its context ends.
LEMMA CallerKeeps ==
    ASSUME IInv, NEW c \in Callers, Call(c) \/ Cancel(c)
    PROVE  IInv'
  <1>1. CASE Call(c)
    <2>1. Goto(c, "admit") /\ caller[c].pc = "idle" /\
          UNCHANGED <<ev, starts, runs, remote, link, stopper>> /\ "admit" \in Places
      BY <1>1 DEF Call, Places, Early
    <2> QED BY <2>1, GotoKeeps DEF Setting, Early, Outside, Gone
  <1>2. CASE Cancel(c)
    <2> DEFINE k == [caller[c] EXCEPT !.canceled = TRUE]
    <2>1. Set(c, k) /\ UNCHANGED <<ev, starts, runs, remote, link, stopper>>
      BY <1>2 DEF Cancel
    <2>a. caller[c] \in Records
      BY DEF IInv, TypeOK
    <2>2. /\ k \in Records /\ Kept(k, caller[c]) /\ k.pc = caller[c].pc
          /\ k.closed = caller[c].closed /\ k.on = caller[c].on /\ k.err = caller[c].err
          /\ k.canceled
      BY <2>a DEF Records, Kept
    <2>3. caller' \in [Callers -> Records] /\ caller'[c] = k /\ Others(c)
      BY <2>1, <2>2, SetEffect DEF IInv
    <2> HIDE DEF k
    <2>4. DropsOK(caller'[c])
      BY <2>2, <2>3, DropsKept
    <2>5. SubOK(c)'
      BY <2>1, <2>2, <2>3 DEF IInv, SubInv, SubOK
    <2>6. RetriesOK(c)' /\ BlamedOK(c)'
      BY <2>1, <2>2, <2>3 DEF IInv, FailureInv, RetriesOK, BlamedOK, Kept, Failed
    <2> QED BY <2>1, <2>2, <2>3, <2>4, <2>5, <2>6, QuietKeeps DEF Kept
  <1> QED BY <1>1, <1>2

\* A caller asks to be listed, or waits until it may.
LEMMA AdmissionKeeps ==
    ASSUME IInv, NEW c \in Callers, Reserve(c) \/ WaitForRun(c)
    PROVE  IInv'
  <1>1. caller[c] \in Records /\ TypeOK
    BY DEF IInv, TypeOK
  <1>2. UNCHANGED <<starts, runs, remote, link, stopper>>
    BY DEF Reserve, WaitForRun
  <1>3. ASSUME caller[c].pc \in {"admit", "waitRun"}, NEW p \in {"waitRun", "admit"},
               NEW w \in Waits, Set(c, [caller[c] EXCEPT !.pc = p, !.on = w]), ev' = ev
        PROVE  IInv'
    <2> DEFINE k == [caller[c] EXCEPT !.pc = p, !.on = w]
    <2>1. k \in Records /\ Kept(k, caller[c]) /\ k.closed = caller[c].closed /\ k.pc = p
      BY <1>1, <1>3 DEF Records, Kept, Places, Early
    <2>2. Set(c, k)
      BY <1>3
    <2> HIDE DEF k
    <2> QED BY <1>2, <1>3, <2>1, <2>2, MoveKeeps DEF Setting, Early, Outside, Gone
  <1>4. ASSUME caller[c].pc = "admit", ~IsBlocked, Goto(c, "check"),
               ev' = [ev EXCEPT !.subs = @ \cup {c}]
        PROVE  IInv'
    <2> DEFINE k == [caller[c] EXCEPT !.pc = "check"]
    <2>1. /\ k \in Records /\ Kept(k, caller[c]) /\ k.closed = caller[c].closed
          /\ k.pc = "check" /\ Set(c, k)
      BY <1>1, <1>4 DEF Records, Kept, Places, Early, Goto
    <2> HIDE DEF k
    <2>2. caller' \in [Callers -> Records] /\ Others(c) /\ caller'[c] = k
      BY <1>1, <2>1, SetEffect
    <2>3. OnlyLists(c) /\ c \in ev'.subs
      <3>1. ev.subs \cup {c} \in SUBSET Callers /\ (ev.subs \cup {c}) \ {c} = ev.subs \ {c}
        BY <1>1 DEF TypeOK
      <3>2. ev' = [ev EXCEPT !.subs = ev.subs \cup {c}]
        BY <1>4
      <3>3. OnlyLists(c)
        BY <3>1, <3>2 DEF OnlyLists
      <3> QED BY <1>1, <3>2, <3>3 DEF TypeOK
    <2>4. caller[c].closed = 0
      BY <1>4 DEF IInv, SubInv, SubOK, Outside
    <2>5. SubOK(c)'
      BY <2>1, <2>2, <2>3, <2>4 DEF SubOK, Outside, Gone
    <2>6. RetriesOK(c)' /\ BlamedOK(c)' /\ DropsOK(caller'[c])
      BY <2>1, <2>2, <1>2, DropsKept DEF IInv, FailureInv, RetriesOK, BlamedOK, Kept, Failed
    <2>7. ASSUME NEW r \in DOMAIN runs, runs[r].phase \in {"cleanup", "finish"} PROVE FALSE
      <3>1. ev.subs = {} /\ ev.cancel = r
        BY <2>7 DEF IInv, SubInv, RunInv
      <3>2. r # Nil
        BY <2>7, LenProperties, NilIsNothing DEF IInv, TypeOK
      <3> QED BY <1>4, <3>1, <3>2 DEF IsBlocked
    <2> QED BY <1>2, <1>4, <2>1, <2>2, <2>3, <2>5, <2>6, <2>7, QuietKeeps
            DEF Kept, Setting, Early
  <1>5. CASE Reserve(c)
    <2>1. caller[c].pc = "admit"
      BY <1>5 DEF Reserve
    <2>2. \/ Refused(c, "canceled") /\ caller[c].canceled
          \/ Refused(c, "disconnected")
          \/ Set(c, [caller[c] EXCEPT !.pc = "waitRun", !.on = Blocking]) /\ ev' = ev
          \/ ~IsBlocked /\ Goto(c, "check") /\ ev' = [ev EXCEPT !.subs = @ \cup {c}]
      BY <1>5 DEF Reserve
    <2>3. Blocking \in Waits /\ "canceled" \in Errors /\ "disconnected" \in Errors
      BY BlockingIsWait DEF Waits, Errors
    <2> QED BY <1>2, <1>3, <1>4, <2>1, <2>2, <2>3, RefusalKeeps
  <1>6. CASE WaitForRun(c)
    <2>1. caller[c].pc = "waitRun"
      BY <1>6 DEF WaitForRun
    <2>2. \/ Refused(c, "canceled") /\ caller[c].canceled
          \/ Set(c, [caller[c] EXCEPT !.pc = "admit", !.on = Nil]) /\ ev' = ev
      BY <1>6 DEF WaitForRun
    <2>3. Nil \in Waits /\ "canceled" \in Errors
      BY DEF Waits, Errors
    <2> QED BY <1>2, <1>3, <2>1, <2>2, <2>3, RefusalKeeps
  <1> QED BY <1>5, <1>6

\* The caller of a setup that nobody has seen fail is at no place but one.
LEMMA SetupIsOpen ==
    ASSUME IInv, ev.starting # Nil
    PROVE  /\ ev.starting \in DOMAIN starts /\ ev.starting \notin Failed /\ ev.cancel = Nil
           /\ ~starts[ev.starting].done
  BY DEF IInv, SetupInv, Failed

\* A caller that is listed finds a dispatcher, a setup to wait for, or neither.
LEMMA StartKeeps ==
    ASSUME IInv, NEW c \in Callers,
           \/ CheckConnected(c)
           \/ StartEvents(c) /\ starts' = starts
    PROVE  IInv'
  <1>1. caller[c] \in Records /\ TypeOK
    BY DEF IInv, TypeOK
  <1>2. UNCHANGED <<starts, runs, remote, link, stopper>>
    BY DEF CheckConnected, StartEvents
  <1>3. {"canceled", "disconnected", "unsupported"} \subseteq Errors
    BY DEF Errors
  <1>4. CASE CheckConnected(c)
    <2>1. /\ caller[c].pc = "check"
          /\ \/ Refused(c, "canceled") /\ caller[c].canceled
             \/ Refused(c, "disconnected")
             \/ Goto(c, "start") /\ ev' = ev
      BY <1>4 DEF CheckConnected
    <2>2. CASE Goto(c, "start") /\ ev' = ev
      BY <1>2, <2>1, <2>2, GotoKeeps DEF Setting, Early, Outside, Gone, Places
    <2> QED BY <1>2, <1>3, <2>1, <2>2, RefusalKeeps
  <1>5. CASE StartEvents(c) /\ starts' = starts
    <2>1. /\ caller[c].pc = "start"
          /\ \/ Refused(c, "canceled") /\ caller[c].canceled
             \/ Refused(c, "disconnected")
             \/ Refused(c, "unsupported")
             \/ Goto(c, "stream") /\ ev' = ev /\ ev.cancel # Nil
             \/ /\ ev.starting # Nil /\ ev' = ev
                /\ Set(c, [caller[c] EXCEPT !.pc = "waitStart", !.linked = Connected,
                                            !.on = [run |-> Nil, start |-> ev.starting]])
      <3>1. starts' # Append(starts, NewStart)
        <4>1. Len(Append(starts, NewStart)) = Len(starts) + 1 /\ Len(starts) \in Nat
          BY <1>1 DEF TypeOK
        <4> QED BY <1>2, <4>1
      <3> QED BY <1>5, <3>1 DEF StartEvents
    <2>2. CASE Goto(c, "stream") /\ ev' = ev /\ ev.cancel # Nil
      BY <1>2, <2>1, <2>2, GotoKeeps DEF Setting, Early, Outside, Gone, Places
    <2>3. CASE /\ ev.starting # Nil /\ ev' = ev
               /\ Set(c, [caller[c] EXCEPT !.pc = "waitStart", !.linked = Connected,
                                           !.on = [run |-> Nil, start |-> ev.starting]])
      <3> DEFINE k == [caller[c] EXCEPT !.pc = "waitStart", !.linked = Connected,
                                        !.on = [run |-> Nil, start |-> ev.starting]]
      <3>1. [run |-> Nil, start |-> ev.starting] \in Waits
        BY <1>1 DEF TypeOK, Waits, Index
      <3>2. Connected \in BOOLEAN
        BY <1>1 DEF TypeOK, Connected
      <3>3. /\ k \in Records /\ Kept(k, caller[c]) /\ k.closed = caller[c].closed
            /\ k.pc = "waitStart" /\ k.on.start = ev.starting
        BY <1>1, <3>1, <3>2 DEF Records, Kept, Places, Early
      <3>4. Set(c, k)
        BY <2>3
      <3> HIDE DEF k
      <3>5. Failed \ {ev.starting} = Failed
        BY <2>3, SetupIsOpen
      <3>6. k.retries <= Cardinality(Failed \ {k.on.start})
        BY <3>3, <3>5 DEF IInv, FailureInv, RetriesOK, Kept
      <3>7. k.on.start \in DOMAIN starts
        BY <2>3, <3>3, SetupIsOpen
      <3> QED BY <1>2, <2>1, <2>3, <3>3, <3>4, <3>6, <3>7, MoveKeeps
              DEF Setting, Early, Outside, Gone
    <2> QED BY <1>2, <1>3, <2>1, <2>2, <2>3, RefusalKeeps
  <1> QED BY <1>4, <1>5

\* The failed setups are finitely many, and one more than those without one.
LEMMA FailedCounted ==
    ASSUME IInv
    PROVE  /\ IsFiniteSet(Failed) /\ Cardinality(Failed) \in Nat
           /\ \A i \in Failed : /\ Cardinality(Failed \ {i}) \in Nat
                                /\ Cardinality(Failed) = Cardinality(Failed \ {i}) + 1
  <1>1. Len(starts) \in Nat /\ DOMAIN starts = 1..Len(starts)
    BY LenProperties DEF IInv, TypeOK
  <1>2. IsFiniteSet(1..Len(starts))
    BY <1>1, FS_Interval
  <1>3. IsFiniteSet(Failed)
    BY <1>1, <1>2, FS_Subset DEF Failed
  <1>4. Cardinality(Failed) \in Nat
    BY <1>3, FS_CardinalityType
  <1>5. ASSUME NEW i \in Failed
        PROVE  /\ Cardinality(Failed \ {i}) \in Nat
               /\ Cardinality(Failed) = Cardinality(Failed \ {i}) + 1
    <2>1. IsFiniteSet(Failed \ {i}) /\ Cardinality(Failed \ {i}) = Cardinality(Failed) - 1
      BY <1>3, <1>5, FS_RemoveElement
    <2>2. Cardinality(Failed \ {i}) \in Nat
      BY <2>1, FS_CardinalityType
    <2> QED BY <1>4, <2>1, <2>2
  <1> QED BY <1>3, <1>4, <1>5

\* Somebody else's setup is over: one that failed because its caller was
\* canceled is counted, whether it is tried again or has been too often.
LEMMA WaitForStartKeeps ==
    ASSUME IInv, NEW c \in Callers, WaitForStart(c)
    PROVE  IInv'
  <1> DEFINE m == caller[c]
             s == starts[m.on.start]
  <1>1. m \in Records /\ TypeOK /\ m.pc = "waitStart"
    BY DEF IInv, TypeOK, WaitForStart
  <1>2. UNCHANGED <<starts, runs, remote, link, stopper>>
    BY DEF WaitForStart
  <1>3. /\ m.on.start \in DOMAIN starts
        /\ m.retries <= Cardinality(Failed \ {m.on.start})
        /\ m.retries <= Cardinality(Failed)
    BY <1>1 DEF IInv, FailureInv, RetriesOK
  <1>4. s \in Setups
    BY <1>1, <1>3, LenProperties, ElementOfSeq DEF TypeOK
  <1>5. s.byCaller => m.on.start \in Failed
    BY <1>3 DEF Failed
  <1>6. CASE m.canceled /\ Refused(c, "canceled")
    BY <1>1, <1>2, <1>6, RefusalKeeps DEF Errors
  <1>7. CASE ev' = ev /\ Set(c, [m EXCEPT !.pc = "start", !.on = Nil])
    <2> DEFINE k == [m EXCEPT !.pc = "start", !.on = Nil]
    <2>1. /\ k \in Records /\ Kept(k, caller[c]) /\ k.closed = caller[c].closed /\ k.pc = "start"
      BY <1>1 DEF Records, Kept, Places, Early, Waits
    <2>2. Set(c, k)
      BY <1>7
    <2> HIDE DEF k
    <2> QED BY <1>1, <1>2, <1>7, <2>1, <2>2, MoveKeeps DEF Setting, Early, Outside, Gone
  <1>8. CASE /\ s.byCaller /\ ev' = ev
             /\ Set(c, [m EXCEPT !.pc = "start", !.on = Nil, !.retries = @ + 1])
    <2> DEFINE k == [m EXCEPT !.pc = "start", !.on = Nil, !.retries = m.retries + 1]
    <2>1. m.retries \in Nat /\ m.retries + 1 \in Nat
      BY <1>1 DEF Records
    <2>2. /\ k \in Records /\ k.closed = m.closed /\ k.pc = "start" /\ k.mine = m.mine
          /\ k.families = m.families /\ k.canceled = m.canceled /\ k.retries = m.retries + 1
          /\ k.buf = m.buf /\ k.dropped = m.dropped /\ k.told = m.told /\ k.due = m.due
      BY <1>1, <2>1 DEF Records, Places, Early, Waits
    <2>3. Set(c, k)
      BY <1>8
    <2> HIDE DEF k
    <2>4. caller' \in [Callers -> Records] /\ Others(c) /\ caller'[c] = k
      BY <1>1, <2>2, <2>3, SetEffect
    <2>5. DropsOK(caller'[c])
      BY <2>2, <2>4 DEF IInv, DropsInv, DropsOK
    <2>6. SubOK(c)'
      BY <1>1, <1>8, <2>2, <2>4 DEF IInv, SubInv, SubOK, Outside, Gone
    <2>7. Failed' = Failed
      BY <1>2 DEF Failed
    <2>8. m.retries + 1 <= Cardinality(Failed)
      BY <1>3, <1>5, <1>8, <2>1, FailedCounted
    <2>9. RetriesOK(c)' /\ BlamedOK(c)'
      BY <2>2, <2>4, <2>7, <2>8 DEF RetriesOK, BlamedOK
    <2> QED BY <1>1, <1>2, <1>8, <2>2, <2>4, <2>5, <2>6, <2>9, QuietKeeps
            DEF Setting, Early
  <1>9. CASE /\ ~m.canceled /\ s.err # Nil /\ ~TriesAgain(m, s)
             /\ Refused(c, IF s.byCaller /\ ~m.linked THEN "disconnected" ELSE s.err)
    <2>1. PICK e \in Errors : /\ Refused(c, e)
                              /\ e = "canceled" => s.err = "canceled" /\ ~(s.byCaller /\ ~m.linked)
      BY <1>4, <1>9 DEF Setups, Errors
    <2>2. ASSUME stopper.pc = "idle", e = "canceled" PROVE Cardinality(Failed) > RetryLimit
      <3>1. s.byCaller
        BY <1>3, <2>1, <2>2 DEF IInv, FailureInv
      <3>2. m.linked /\ m.retries \in Nat
        BY <1>1, <2>1, <2>2, <3>1 DEF Records
      <3>3. m.retries >= RetryLimit
        BY <1>9, <3>1, <3>2, RetryLimitNat DEF TriesAgain
      <3> QED BY <1>3, <1>5, <3>1, <3>2, <3>3, FailedCounted, RetryLimitNat
    <2> QED BY <1>1, <1>2, <2>1, <2>2, RefusalKeeps
  <1> QED BY <1>6, <1>7, <1>8, <1>9 DEF WaitForStart, TriesAgain

-----------------------------------------------------------------------------
(* The setup of a caller.                                                  *)

\* Who sets up does so alone: its setup is the one that runs, no dispatcher
\* is left, and nobody else sets up.
LEMMA SettingAlone ==
    ASSUME IInv, NEW c \in Callers, caller[c].pc \in Setting
    PROVE  /\ caller[c].mine # Nil /\ ev.starting = caller[c].mine /\ ev.starting # Nil
           /\ ev.starting \in DOMAIN starts /\ ev.starting \notin Failed /\ ev.cancel = Nil
           /\ \A r \in DOMAIN runs : runs[r].phase = "over"
           /\ \A d \in Callers \ {c} : caller[d].pc \notin Setting
  <1>1. caller[c].mine # Nil /\ ev.starting = caller[c].mine /\ ev.starting # Nil
    BY DEF IInv, SetupInv, SetupOK
  <1>2. ev.starting \in DOMAIN starts /\ ev.starting \notin Failed /\ ev.cancel = Nil
    BY <1>1, SetupIsOpen
  <1>3. \A d \in Callers \ {c} : caller[d].pc \notin Setting
    BY <1>1 DEF IInv, SetupInv, SetupOK
  <1>4. Nil \notin DOMAIN runs
    BY LenProperties, NilIsNothing DEF IInv, TypeOK
  <1>5. \A r \in DOMAIN runs : runs[r].phase = "over"
    BY <1>2, <1>4 DEF IInv, RunInv
  <1> QED BY <1>1, <1>2, <1>3, <1>5

\* What a step of a setup leaves of its caller's record.
Lasting(k, m) ==
    /\ k.mine = m.mine /\ k.retries = m.retries /\ k.closed = m.closed
    /\ k.canceled = m.canceled /\ k.on = m.on
    /\ k.buf = m.buf /\ k.dropped = m.dropped /\ k.told = m.told /\ k.due = m.due

\* A step within the setup of c.
LEMMA SettingKeeps ==
    ASSUME IInv, NEW c \in Callers, NEW k \in Records, Set(c, k), Lasting(k, caller[c]),
           caller[c].pc \in Setting, k.pc \in Setting,
           UNCHANGED <<ev, starts, runs, link, stopper>>,
           link.open => Registered(c)',
           stopper.pc = "idle" /\ k.pc \in {"undo", "finish"} /\ k.err = "canceled" => k.canceled
    PROVE  IInv'
  <1>1. caller' \in [Callers -> Records] /\ Others(c) /\ caller'[c] = k
    BY SetEffect DEF IInv
  <1>2. /\ ev.starting = caller[c].mine /\ ev.starting # Nil /\ ev.cancel = Nil
        /\ \A r \in DOMAIN runs : runs[r].phase = "over"
        /\ \A d \in Callers \ {c} : caller[d].pc \notin Setting
    BY SettingAlone
  <1>3. TypeOK'
    BY <1>1 DEF IInv, TypeOK
  <1>4. \A d \in Callers : caller'[d].mine = caller[d].mine
    BY <1>1 DEF Others, Lasting
  <1>5. SetupInv'
    <2>1. \A d \in Callers \ {c} : SetupOK(d)'
      BY <1>1, <1>4 DEF IInv, SetupInv, SetupOK, Others
    <2>2. SetupOK(c)'
      BY <1>1, <1>4 DEF IInv, SetupInv, SetupOK, Setting, Early
    <2> QED BY <1>1, <2>1, <2>2 DEF IInv, SetupInv
  <1>6. RunInv'
    BY DEF IInv, RunInv
  <1>7. RemoteInv'
    <2>1. \A d \in Callers \ {c} : Registered(d)'
      BY <1>1, <1>2 DEF Registered, Others, Setting
    <2> QED BY <1>2, <2>1 DEF RemoteInv
  <1>8. SubInv'
    <2>1. \A d \in Callers \ {c} : SubOK(d)'
      BY <1>1 DEF IInv, SubInv, SubOK, Others
    <2>2. SubOK(c)'
      BY <1>1 DEF IInv, SubInv, SubOK, Lasting, Setting, Outside, Gone
    <2> QED BY <2>1, <2>2 DEF IInv, SubInv
  <1>9. FailureInv'
    <2>1. \A d \in Callers : caller'[d].canceled = caller[d].canceled
      BY <1>1 DEF Others, Lasting
    <2>2. Failed' = Failed
      BY DEF Failed
    <2>3. \A i \in Failed : \E d \in Callers : caller'[d].mine = i /\ caller'[d].canceled
      BY <1>4, <2>1 DEF IInv, FailureInv
    <2>4. \A d \in Callers : RetriesOK(d)'
      BY <1>1, <2>2 DEF IInv, FailureInv, RetriesOK, Others, Lasting, Setting
    <2>5. stopper.pc = "idle" => \A d \in Callers : BlamedOK(d)'
      BY <1>1, <2>2 DEF IInv, FailureInv, BlamedOK, Others, Setting
    <2> QED BY <2>2, <2>3, <2>4, <2>5 DEF IInv, FailureInv
  <1>10. DropsInv'
    BY <1>1, SMTT(30) DEF IInv, DropsInv, Others, DropsOK, Lasting
  <1> QED BY <1>3, <1>5, <1>6, <1>7, <1>8, <1>9, <1>10 DEF IInv

\* What Setup makes of a caller's record.
LEMMA SetupEffect ==
    ASSUME TypeOK, NEW c \in Callers,
           NEW families \in SUBSET {Families[i] : i \in DOMAIN Families},
           NEW pc \in Places, NEW err \in Errors, Setup(c, families, pc, err)
    PROVE  \E k \in Records : /\ Set(c, k) /\ Lasting(k, caller[c])
                              /\ k.families = families /\ k.pc = pc /\ k.err = err
  <1> DEFINE k == [caller[c] EXCEPT !.families = families, !.pc = pc, !.err = err,
                                    !.next = IF pc = "register" THEN @ + 1 ELSE @]
  <1>1. caller[c] \in Records
    BY DEF TypeOK
  <1>2. (IF pc = "register" THEN caller[c].next + 1 ELSE caller[c].next) \in Nat \ {0}
    BY <1>1 DEF Records
  <1>3. k \in Records
    BY <1>1, <1>2 DEF Records
  <1>4. Lasting(k, caller[c]) /\ k.families = families /\ k.pc = pc /\ k.err = err
    BY <1>1 DEF Records, Lasting
  <1>5. Set(c, k)
    BY DEF Setup
  <1> HIDE DEF k
  <1> QED BY <1>3, <1>4, <1>5

\* A setup ends before its time because its caller is canceled, a while has
\* passed or the backend stops.
LEMMA EndOfSetupIsError ==
    ASSUME IInv, NEW c \in Callers, caller[c].pc \in Setting
    PROVE  /\ EndOfSetup(c) \in Errors
           /\ stopper.pc = "idle" /\ SetupEnded(c) /\ EndOfSetup(c) = "canceled" =>
                 caller[c].canceled
  <1>1. caller[c].mine \in DOMAIN starts
    BY SettingAlone
  <1>2. stopper.pc = "idle" => ~starts[caller[c].mine].stopped
    BY <1>1 DEF IInv, FailureInv
  <1> QED BY <1>2 DEF EndOfSetup, SetupEnded, Errors

\* A family is registered, refused, or perhaps registered; with the last one
\* the matches are subscribed.  All that may be registered is written down.
LEMMA RegisterKeeps ==
    ASSUME IInv, NEW c \in Callers, Register(c) \/ Subscribe(c)
    PROVE  IInv'
  <1> DEFINE fs == {Families[i] : i \in DOMAIN Families}
             m == caller[c]
  <1>1. m \in Records /\ TypeOK /\ m.pc = "register" /\ m.pc \in Setting
    BY DEF IInv, TypeOK, Register, Subscribe, Setting
  <1>2. UNCHANGED <<ev, starts, runs, link, stopper>>
    BY DEF Register, Subscribe
  <1>3. /\ EndOfSetup(c) \in Errors
        /\ stopper.pc = "idle" /\ SetupEnded(c) /\ EndOfSetup(c) = "canceled" => m.canceled
    BY <1>1, EndOfSetupIsError
  <1>4. link.open => remote = m.families
    BY <1>1 DEF IInv, RemoteInv, Registered
  <1>5. m.families \in SUBSET fs
    BY <1>1 DEF Records
  <1>6. ASSUME NEW families \in SUBSET fs, NEW pc \in {"register", "undo", "publish"},
               NEW err \in Errors, Setup(c, families, pc, err),
               link.open /\ pc \in {"register", "publish"} => remote' = families,
               link.open => remote' \subseteq families,
               stopper.pc = "idle" /\ pc = "undo" /\ err = "canceled" => m.canceled
        PROVE  IInv'
    <2>1. pc \in Places
      BY DEF Places, Setting
    <2>2. PICK k \in Records : /\ Set(c, k) /\ Lasting(k, m)
                               /\ k.families = families /\ k.pc = pc /\ k.err = err
      BY <1>1, <1>6, <2>1, SetupEffect
    <2>3. caller'[c] = k
      BY <1>1, <2>2, SetEffect
    <2>4. link.open => Registered(c)'
      BY <1>2, <1>6, <2>2, <2>3 DEF Registered
    <2>5. k.pc \in Setting /\ k.pc # "finish"
      BY <2>2 DEF Setting
    <2> QED BY <1>1, <1>2, <1>6, <2>2, <2>4, <2>5, SettingKeeps DEF Lasting
  <1>7. CASE Register(c)
    <2> DEFINE f == Families[m.next]
    <2>1. f \in fs
      <3>1. m.next \in Nat /\ m.next <= Len(Families) /\ m.next # 0
        BY <1>1, <1>7 DEF Register, Records
      <3>2. DOMAIN Families = 1..Len(Families) /\ Len(Families) \in Nat
        BY FamiliesInOrder, LenProperties
      <3> QED BY <3>1, <3>2
    <2>2. m.families \cup {f} \in SUBSET fs /\ Nil \in Errors
      BY <1>5, <2>1 DEF Errors
    <2>3. \/ SetupEnded(c) /\ Setup(c, m.families, "undo", EndOfSetup(c)) /\ UNCHANGED remote
          \/ /\ remote' = remote \cup {f}
             /\ \/ SetupEnded(c) /\ Setup(c, m.families \cup {f}, "undo", EndOfSetup(c))
                \/ ~SetupEnded(c) /\ Setup(c, m.families \cup {f}, "register", Nil)
          \/ Setup(c, m.families, "register", Nil) /\ UNCHANGED remote
          \/ SetupEnded(c) /\ Setup(c, m.families \cup {f}, "undo", EndOfSetup(c)) /\ UNCHANGED remote
      BY <1>7 DEF Register
    <2> QED BY <1>3, <1>4, <1>5, <1>6, <2>2, <2>3
  <1>8. CASE Subscribe(c)
    <2>1. /\ UNCHANGED remote
          /\ \/ SetupEnded(c) /\ Setup(c, m.families, "undo", EndOfSetup(c))
             \/ Setup(c, m.families, "undo", "unsupported")
             \/ Setup(c, m.families, "publish", Nil)
             \/ Setup(c, m.families, "undo", "failed")
      BY <1>8 DEF Subscribe
    <2>2. {"unsupported", "failed", Nil} \subseteq Errors /\ Nil # "canceled"
      BY NilIsNothing DEF Errors
    <2> QED BY <1>3, <1>4, <1>5, <1>6, <2>1, <2>2
  <1> QED BY <1>7, <1>8

\* What a failed setup may have registered is taken back.
LEMMA UndoKeeps ==
    ASSUME IInv, NEW c \in Callers, Undo(c)
    PROVE  IInv'
  <1>1. caller[c] \in Records /\ caller[c].pc = "undo" /\ "undo" \in Setting
    BY DEF IInv, TypeOK, Undo, Setting
  <1> DEFINE k == [caller[c] EXCEPT !.pc = "finish"]
  <1>2. /\ k \in Records /\ Lasting(k, caller[c]) /\ k.pc = "finish" /\ k.err = caller[c].err
        /\ Set(c, k)
    BY <1>1 DEF Records, Lasting, Places, Setting, Undo, Goto
  <1> HIDE DEF k
  <1>3. caller'[c] = k
    BY <1>2, SetEffect DEF IInv
  <1>4. link.open => Registered(c)'
    BY <1>1, <1>2, <1>3 DEF Undo, IInv, RemoteInv, Registered
  <1>5. stopper.pc = "idle" /\ k.err = "canceled" => k.canceled
    BY <1>1, <1>2 DEF IInv, FailureInv, BlamedOK, Lasting
  <1>6. UNCHANGED <<ev, starts, runs, link, stopper>> /\ k.pc \in Setting
    BY <1>2 DEF Undo, Setting
  <1> QED BY <1>1, <1>2, <1>4, <1>5, <1>6, SettingKeeps

\* Events returns the error of its setup.
LEMMA StartFailedKeeps ==
    ASSUME IInv, NEW c \in Callers, StartFailed(c)
    PROVE  IInv'
  <1>1. /\ Refused(c, caller[c].err) /\ caller[c].pc = "failed"
        /\ UNCHANGED <<starts, runs, remote, link, stopper>>
    BY DEF StartFailed
  <1>2. caller[c].err \in Errors
    BY DEF IInv, TypeOK, Records
  <1>3. stopper.pc = "idle" /\ caller[c].err = "canceled" => caller[c].canceled
    BY <1>1 DEF IInv, FailureInv, BlamedOK
  <1> QED BY <1>1, <1>2, <1>3, RefusalKeeps

\* The first caller sets up: nobody else does, there is no dispatcher, and
\* nothing is registered.
LEMMA NewStartKeeps ==
    ASSUME IInv, NEW c \in Callers, StartEvents(c), starts' # starts
    PROVE  IInv'
  <1> DEFINE n == Len(starts) + 1
             m == caller[c]
             k == [m EXCEPT !.pc = "register", !.mine = n, !.next = 1]
  <1>1. /\ m \in Records /\ TypeOK /\ m.pc = "start" /\ ev.cancel = Nil /\ ev.starting = Nil
        /\ starts' = Append(starts, NewStart) /\ ev' = [ev EXCEPT !.starting = n] /\ Set(c, k)
        /\ UNCHANGED <<link, runs, remote, stopper>>
    BY DEF IInv, TypeOK, StartEvents
  <1>2. n \in Nat /\ n # Nil /\ n \notin DOMAIN starts
    BY <1>1, LenProperties, NilIsNothing DEF TypeOK
  <1>3. NewStart \in Setups
    BY DEF NewStart, Setups, Errors
  <1>4. /\ starts' \in Seq(Setups) /\ DOMAIN starts' = DOMAIN starts \cup {n}
        /\ \A i \in DOMAIN starts : starts'[i] = starts[i]
        /\ starts'[n] = NewStart
    <2>1. /\ starts' \in Seq(Setups) /\ Len(starts') = n /\ DOMAIN starts' = 1..n
          /\ DOMAIN starts = 1..Len(starts) /\ Len(starts) \in Nat
      BY <1>1, <1>3, LenProperties, AppendProperties DEF TypeOK
    <2>2. \A i \in 1..Len(starts) : starts'[i] = starts[i]
      BY <1>1, <1>3, AppendProperties DEF TypeOK
    <2>3. starts'[n] = NewStart
      BY <1>1, <1>3, AppendProperties DEF TypeOK
    <2> QED BY <2>1, <2>2, <2>3
  <1>5. /\ k \in Records /\ k.pc = "register" /\ k.mine = n /\ k.families = m.families
        /\ k.retries = m.retries /\ k.closed = m.closed /\ k.canceled = m.canceled
        /\ k.buf = m.buf /\ k.dropped = m.dropped /\ k.told = m.told /\ k.due = m.due
    <2>1. {n} \subseteq Index /\ "register" \in Places /\ 1 \in Nat \ {0}
      BY <1>2 DEF Places, Setting, Index
    <2> HIDE DEF n
    <2> QED BY <1>1, <2>1 DEF Records
  <1> HIDE DEF k, n
  <1>6. caller' \in [Callers -> Records] /\ Others(c) /\ caller'[c] = k
    BY <1>1, <1>5, SetEffect
  <1>7. m.mine = Nil /\ m.families = {} /\ \A d \in Callers : caller[d].pc \notin Setting
    BY <1>1 DEF IInv, SetupInv, SetupOK, Early
  <1>8. \A d \in Callers : caller[d].mine # n
    BY <1>2 DEF IInv, SetupInv, SetupOK
  <1>9. /\ ev' \in [retired : BOOLEAN, starting : Index, cancel : Index, subs : SUBSET Callers,
                    registered : SUBSET {Families[i] : i \in DOMAIN Families}]
        /\ ev'.starting = n /\ ev'.cancel = Nil /\ ev'.subs = ev.subs
    BY <1>1, <1>2 DEF TypeOK, Index
  <1>10. TypeOK'
    BY <1>1, <1>4, <1>6, <1>9 DEF TypeOK
  <1>11. SetupInv'
    <2>1. \A d \in Callers \ {c} : SetupOK(d)'
      BY <1>4, <1>5, <1>6, <1>7, <1>8 DEF IInv, SetupInv, SetupOK, Others
    <2>2. SetupOK(c)'
      BY <1>4, <1>5, <1>6, <1>8, <1>9, <1>2 DEF SetupOK, Others, Early
    <2>3. caller'[c].pc \in Setting
      BY <1>5, <1>6 DEF Setting
    <2> QED BY <1>4, <1>9, <2>1, <2>2, <2>3 DEF SetupInv, NewStart
  <1>12. RunInv'
    BY <1>1, <1>9 DEF IInv, RunInv
  <1>13. RemoteInv'
    <2>1. link.open => remote = {}
      BY <1>1 DEF IInv, RemoteInv
    <2>2. \A d \in Callers \ {c} : Registered(d)'
      BY <1>6, <1>7 DEF Registered, Others, Setting
    <2>3. link.open => Registered(c)'
      BY <1>1, <1>5, <1>6, <1>7, <2>1 DEF Registered
    <2> QED BY <1>1, <1>2, <1>9, <2>2, <2>3 DEF IInv, RemoteInv
  <1>14. SubInv'
    <2>1. \A d \in Callers \ {c} : SubOK(d)'
      BY <1>1, <1>6, <1>9 DEF IInv, SubInv, SubOK, Others
    <2>2. SubOK(c)'
      BY <1>1, <1>5, <1>6, <1>9 DEF IInv, SubInv, SubOK, Outside, Gone
    <2> QED BY <1>1, <1>9, <2>1, <2>2 DEF IInv, SubInv
  <1>15. FailureInv'
    <2>1. Failed' = Failed
      BY <1>4, <1>2 DEF Failed, NewStart
    <2>2. \A i \in Failed : \E d \in Callers : caller'[d].mine = i /\ caller'[d].canceled
      <3> TAKE i \in Failed
      <3>1. PICK d \in Callers : caller[d].mine = i /\ caller[d].canceled
        BY DEF IInv, FailureInv
      <3>2. d # c
        BY <1>1, <1>7, <3>1, LenProperties, NilIsNothing DEF Failed, TypeOK
      <3> QED BY <1>6, <3>1, <3>2 DEF Others
    <2>3. \A d \in Callers : RetriesOK(d)'
      BY <1>4, <1>5, <1>6, <2>1 DEF IInv, FailureInv, RetriesOK, Others
    <2>4. stopper.pc = "idle" => \A d \in Callers : BlamedOK(d)'
      BY <1>5, <1>6, <2>1 DEF IInv, FailureInv, BlamedOK, Others
    <2>5. NewStart.stopped = FALSE /\ NewStart.err # "canceled"
      BY NilIsNothing DEF NewStart
    <2> QED BY <1>1, <1>4, <2>1, <2>2, <2>3, <2>4, <2>5 DEF IInv, FailureInv
  <1>16. DropsInv'
    <2>1. DropsOK(caller'[c])
      BY <1>5, <1>6 DEF IInv, DropsInv, DropsOK
    <2> QED BY <1>6, <2>1 DEF IInv, DropsInv, Others
  <1> QED BY <1>10, <1>11, <1>12, <1>13, <1>14, <1>15, <1>16 DEF IInv

\* The setups after one of them has changed.
LEMMA SetupChanged ==
    ASSUME TypeOK, NEW i \in DOMAIN starts, NEW s \in Setups, starts' = [starts EXCEPT ![i] = s]
    PROVE  /\ starts' \in Seq(Setups) /\ DOMAIN starts' = DOMAIN starts /\ starts'[i] = s
           /\ \A j \in DOMAIN starts : j # i => starts'[j] = starts[j]
           /\ starts[i] \in Setups
  <1>1. starts' \in Seq(Setups) /\ starts[i] \in Setups
    BY ExceptSeq, ElementOfSeq, LenProperties DEF TypeOK
  <1> QED BY <1>1

\* The dispatcher is published with what its setup registered, or the setup
\* fails because the backend went or was retired.
LEMMA PublishKeeps ==
    ASSUME IInv, NEW c \in Callers, PublishRun(c)
    PROVE  IInv'
  <1> DEFINE m == caller[c]
             live == ~ev.retired /\ Connected /\ ev.subs # {}
  <1>1. /\ m \in Records /\ TypeOK /\ m.pc = "publish" /\ m.pc \in Setting
        /\ UNCHANGED <<link, remote, stopper>>
    BY DEF IInv, TypeOK, PublishRun, Setting
  <1>2. /\ m.mine # Nil /\ ev.starting = m.mine /\ ev.starting # Nil
        /\ ev.starting \in DOMAIN starts /\ ev.starting \notin Failed /\ ev.cancel = Nil
        /\ \A r \in DOMAIN runs : runs[r].phase = "over"
        /\ \A d \in Callers \ {c} : caller[d].pc \notin Setting
    BY <1>1, SettingAlone
  <1>3. link.open => remote = m.families
    BY <1>1 DEF IInv, RemoteInv, Registered
  <1>4. CASE ~live
    <2> DEFINE k == [m EXCEPT !.pc = "undo", !.err = "disconnected"]
    <2>1. /\ k \in Records /\ Lasting(k, m) /\ k.pc = "undo" /\ k.err = "disconnected"
          /\ k.families = m.families
      BY <1>1 DEF Records, Lasting, Places, Setting, Errors
    <2>2. Set(c, k) /\ UNCHANGED <<ev, starts, runs, link, stopper>>
      BY <1>4 DEF PublishRun
    <2> HIDE DEF k
    <2>3. caller'[c] = k
      BY <1>1, <2>1, <2>2, SetEffect
    <2>4. link.open => Registered(c)'
      BY <1>1, <1>3, <2>1, <2>3 DEF Registered
    <2>5. k.pc \in Setting
      BY <2>1 DEF Setting
    <2> QED BY <1>1, <2>1, <2>2, <2>4, <2>5, SettingKeeps
  <1>5. CASE live
    <2> DEFINE n == Len(runs) + 1
               d0 == [phase |-> "live", stopped |-> FALSE, families |-> m.families]
               k == [m EXCEPT !.pc = "stream"]
               s == [starts[m.mine] EXCEPT !.done = TRUE]
    <2>1. /\ runs' = Append(runs, d0) /\ starts' = [starts EXCEPT ![m.mine] = s] /\ Set(c, k)
          /\ ev' = [ev EXCEPT !.cancel = n, !.registered = m.families, !.starting = Nil]
      BY <1>5 DEF PublishRun, Goto
    <2>2. d0 \in Dispatchers /\ m.families \in SUBSET {Families[i] : i \in DOMAIN Families}
      BY <1>1 DEF Records, Dispatchers
    <2>3. /\ runs' \in Seq(Dispatchers) /\ DOMAIN runs' = DOMAIN runs \cup {n}
          /\ \A r \in DOMAIN runs : runs'[r] = runs[r]
          /\ runs'[n] = d0 /\ n \in Nat /\ n # Nil /\ n \notin DOMAIN runs
      <3>1. /\ runs' \in Seq(Dispatchers) /\ Len(runs') = n /\ DOMAIN runs' = 1..n
            /\ DOMAIN runs = 1..Len(runs) /\ Len(runs) \in Nat
        BY <1>1, <2>1, <2>2, LenProperties, AppendProperties DEF TypeOK
      <3>2. (\A i \in 1..Len(runs) : runs'[i] = runs[i]) /\ runs'[n] = d0
        BY <1>1, <2>1, <2>2, AppendProperties DEF TypeOK
      <3>3. n \in Nat /\ n # Nil /\ n \notin DOMAIN runs
        BY <3>1, NilIsNothing
      <3> QED BY <3>1, <3>2, <3>3
    <2>4. starts[m.mine] \in Setups
      BY <1>1, <1>2, ElementOfSeq, LenProperties DEF TypeOK
    <2>5. /\ s \in Setups /\ s.byCaller = starts[m.mine].byCaller /\ s.err = starts[m.mine].err
          /\ s.stopped = starts[m.mine].stopped
      BY <2>4 DEF Setups
    <2>6. /\ k \in Records /\ Lasting(k, m) /\ k.pc = "stream" /\ k.families = m.families
      BY <1>1 DEF Records, Lasting, Places
    <2>d. d0.phase = "live" /\ d0.families = m.families
      OBVIOUS
    <2> HIDE DEF k, s, n, d0
    <2>7. /\ starts' \in Seq(Setups) /\ DOMAIN starts' = DOMAIN starts
          /\ \A j \in DOMAIN starts :
                /\ starts'[j].byCaller = starts[j].byCaller /\ starts'[j].err = starts[j].err
                /\ starts'[j].stopped = starts[j].stopped
      <3>1. /\ starts' \in Seq(Setups) /\ DOMAIN starts' = DOMAIN starts /\ starts'[m.mine] = s
            /\ \A j \in DOMAIN starts : j # m.mine => starts'[j] = starts[j]
        BY <1>1, <1>2, <2>1, <2>5, SetupChanged
      <3> QED BY <2>5, <3>1
    <2>8. caller' \in [Callers -> Records] /\ Others(c) /\ caller'[c] = k
      BY <1>1, <2>1, <2>6, SetEffect
    <2>9. /\ ev' \in [retired : BOOLEAN, starting : Index, cancel : Index, subs : SUBSET Callers,
                      registered : SUBSET {Families[i] : i \in DOMAIN Families}]
          /\ ev'.starting = Nil /\ ev'.cancel = n /\ ev'.subs = ev.subs
      BY <1>1, <2>1, <2>2, <2>3 DEF TypeOK, Index
    <2>10. TypeOK'
      BY <1>1, <2>3, <2>7, <2>8, <2>9 DEF TypeOK
    <2>11. \A d \in Callers : caller'[d].mine = caller[d].mine
                              /\ caller'[d].canceled = caller[d].canceled
      BY <2>6, <2>8 DEF Others, Lasting
    <2>12. SetupInv'
      <3>1. \A d \in Callers \ {c} : SetupOK(d)'
        BY <1>2, <2>7, <2>8, <2>11 DEF IInv, SetupInv, SetupOK, Others
      <3>2. SetupOK(c)'
        BY <1>2, <2>6, <2>7, <2>8, <2>11 DEF IInv, SetupInv, SetupOK, Early, Setting
      <3> QED BY <2>9, <3>1, <3>2 DEF SetupInv
    <2>13. RunInv'
      BY <1>2, <2>3, <2>9, <2>d DEF RunInv
    <2>14. RemoteInv'
      <3>1. \A d \in Callers \ {c} : Registered(d)'
        BY <1>2, <2>8 DEF Registered, Others, Setting
      <3>2. Registered(c)'
        BY <2>6, <2>8 DEF Registered
      <3>3. ASSUME NEW r \in DOMAIN runs', link.open
            PROVE  /\ runs'[r].phase = "live" => remote' = runs'[r].families
                   /\ runs'[r].phase \notin {"cleanup", "finish"}
        BY <1>1, <1>2, <1>3, <2>3, <2>d, <3>3
      <3> QED BY <1>1, <2>3, <2>9, <3>1, <3>2, <3>3 DEF RemoteInv
    <2>15. SubInv'
      <3>1. \A d \in Callers \ {c} : SubOK(d)'
        BY <2>3, <2>8, <2>9 DEF IInv, SubInv, SubOK, Others
      <3>2. SubOK(c)'
        BY <1>1, <2>3, <2>6, <2>8, <2>9 DEF IInv, SubInv, SubOK, Lasting, Outside, Gone
      <3> QED BY <1>2, <2>3, <2>d, <3>1, <3>2 DEF SubInv
    <2>16. FailureInv'
      <3>1. Failed' = Failed
        BY <2>7 DEF Failed
      <3>2. \A i \in Failed : \E d \in Callers : caller'[d].mine = i /\ caller'[d].canceled
        BY <2>11 DEF IInv, FailureInv
      <3>3. \A d \in Callers : RetriesOK(d)'
        BY <2>6, <2>7, <2>8, <3>1, ZenonT(30) DEF IInv, FailureInv, RetriesOK, Others, Lasting
      <3>4. stopper.pc = "idle" => \A d \in Callers : BlamedOK(d)'
        BY <2>6, <2>8, <3>1 DEF IInv, FailureInv, BlamedOK, Others
      <3> QED BY <1>1, <2>7, <3>1, <3>2, <3>3, <3>4 DEF IInv, FailureInv
    <2>17. DropsInv'
      <3>1. DropsOK(caller'[c])
        BY <2>6, <2>8 DEF IInv, DropsInv, DropsOK, Lasting
      <3> QED BY <2>8, <3>1 DEF IInv, DropsInv, Others
    <2> QED BY <2>10, <2>12, <2>13, <2>14, <2>15, <2>16, <2>17 DEF IInv
  <1> QED BY <1>4, <1>5

\* More setups have failed than before.
LEMMA MoreFailed ==
    ASSUME IInv, IsFiniteSet(Failed'), Failed \subseteq Failed'
    PROVE  /\ Cardinality(Failed) <= Cardinality(Failed')
           /\ \A i : Cardinality(Failed \ {i}) <= Cardinality(Failed' \ {i})
           /\ Cardinality(Failed) \in Nat /\ Cardinality(Failed') \in Nat
           /\ \A i : Cardinality(Failed \ {i}) \in Nat /\ Cardinality(Failed' \ {i}) \in Nat
  <1>1. Cardinality(Failed) <= Cardinality(Failed')
    BY FS_Subset
  <1>2. ASSUME NEW i
        PROVE  /\ Cardinality(Failed \ {i}) <= Cardinality(Failed' \ {i})
               /\ Cardinality(Failed \ {i}) \in Nat /\ Cardinality(Failed' \ {i}) \in Nat
    <2>1. IsFiniteSet(Failed' \ {i}) /\ Failed \ {i} \subseteq Failed' \ {i}
      BY FS_Subset
    <2>2. IsFiniteSet(Failed \ {i}) /\ Cardinality(Failed \ {i}) <= Cardinality(Failed' \ {i})
      BY <2>1, FS_Subset
    <2> QED BY <2>1, <2>2, FS_CardinalityType
  <1>3. Cardinality(Failed) \in Nat /\ Cardinality(Failed') \in Nat
    BY FailedCounted, FS_CardinalityType
  <1> QED BY <1>1, <1>2, <1>3

\* A failed setup is over; if its caller was canceled, it counts.
LEMMA FinishStartKeeps ==
    ASSUME IInv, NEW c \in Callers, FinishStart(c)
    PROVE  IInv'
  <1> DEFINE m == caller[c]
             blame == m.canceled /\ m.err \in {"canceled", "timeout", "disconnected"}
             s == [starts[m.mine] EXCEPT !.done = TRUE, !.err = m.err, !.byCaller = blame]
             k == [m EXCEPT !.pc = "failed", !.families = {}]
  <1>1. /\ m \in Records /\ TypeOK /\ m.pc = "finish" /\ m.pc \in Setting
        /\ UNCHANGED <<link, runs, remote, stopper>> /\ Set(c, k)
        /\ starts' = [starts EXCEPT ![m.mine] = s]
        /\ ev' = [ev EXCEPT !.starting = Nil, !.registered = {}]
    BY DEF IInv, TypeOK, FinishStart, Setting
  <1>2. /\ m.mine # Nil /\ ev.starting = m.mine /\ ev.starting # Nil
        /\ m.mine \in DOMAIN starts /\ m.mine \notin Failed /\ ev.cancel = Nil
        /\ \A r \in DOMAIN runs : runs[r].phase = "over"
        /\ \A d \in Callers \ {c} : caller[d].pc \notin Setting
    BY <1>1, SettingAlone
  <1>3. starts[m.mine] \in Setups /\ m.canceled \in BOOLEAN /\ m.err \in Errors
    BY <1>1, <1>2, ElementOfSeq, LenProperties DEF TypeOK, Records
  <1>4. /\ s \in Setups /\ s.byCaller = blame /\ s.err = m.err
        /\ s.stopped = starts[m.mine].stopped
    BY <1>3 DEF Setups
  <1>5. /\ k \in Records /\ Lasting(k, m) /\ k.pc = "failed" /\ k.families = {} /\ k.err = m.err
    BY <1>1 DEF Records, Lasting, Places
  <1>b. blame \in BOOLEAN /\ (blame => m.canceled) /\ (m.canceled /\ m.err = "canceled" => blame)
    BY <1>3
  <1>6. stopper.pc = "idle" /\ m.err = "canceled" => m.canceled
    BY <1>1 DEF IInv, FailureInv, BlamedOK
  <1> HIDE DEF k, s, blame
  <1>7. /\ starts' \in Seq(Setups) /\ DOMAIN starts' = DOMAIN starts /\ starts'[m.mine] = s
        /\ \A j \in DOMAIN starts : j # m.mine => starts'[j] = starts[j]
    BY <1>1, <1>2, <1>4, SetupChanged
  <1>8. caller' \in [Callers -> Records] /\ Others(c) /\ caller'[c] = k
    BY <1>1, <1>5, SetEffect
  <1>9. /\ ev' \in [retired : BOOLEAN, starting : Index, cancel : Index, subs : SUBSET Callers,
                    registered : SUBSET {Families[i] : i \in DOMAIN Families}]
        /\ ev'.starting = Nil /\ ev'.cancel = Nil /\ ev'.subs = ev.subs
    BY <1>1, <1>2 DEF TypeOK, Index
  <1>10. TypeOK'
    BY <1>1, <1>7, <1>8, <1>9 DEF TypeOK
  <1>11. \A d \in Callers : caller'[d].mine = caller[d].mine
                            /\ caller'[d].canceled = caller[d].canceled
    BY <1>5, <1>8 DEF Others, Lasting
  <1>12. SetupInv'
    <2>1. \A d \in Callers \ {c} : SetupOK(d)'
      BY <1>2, <1>7, <1>8, <1>11 DEF IInv, SetupInv, SetupOK, Others
    <2>2. SetupOK(c)'
      BY <1>2, <1>5, <1>7, <1>8, <1>11 DEF IInv, SetupInv, SetupOK, Early, Setting
    <2> QED BY <1>9, <2>1, <2>2 DEF SetupInv
  <1>13. RunInv'
    BY <1>1, <1>2, <1>9 DEF IInv, RunInv
  <1>14. RemoteInv'
    <2>1. \A d \in Callers \ {c} : Registered(d)'
      BY <1>2, <1>8 DEF Registered, Others, Setting
    <2>2. Registered(c)' /\ (link.open => remote = {})
      BY <1>1, <1>5, <1>8 DEF IInv, RemoteInv, Registered
    <2> QED BY <1>1, <1>2, <2>1, <2>2 DEF RemoteInv
  <1>15. SubInv'
    <2>1. \A d \in Callers \ {c} : SubOK(d)'
      BY <1>2, <1>8, <1>9 DEF IInv, SubInv, SubOK, Others
    <2>2. SubOK(c)'
      BY <1>1, <1>5, <1>8, <1>9 DEF IInv, SubInv, SubOK, Lasting, Outside, Gone
    <2> QED BY <1>1, <1>2, <2>1, <2>2 DEF SubInv
  <1>16. FailureInv'
    <2>1. Failed' = IF blame THEN Failed \cup {m.mine} ELSE Failed
      BY <1>2, <1>4, <1>7, <1>b DEF Failed
    <2>2. IsFiniteSet(Failed') /\ Failed \subseteq Failed'
      BY <2>1, FailedCounted, FS_AddElement
    <2>3. \A i \in Failed' : \E d \in Callers : caller'[d].mine = i /\ caller'[d].canceled
      BY <1>11, <1>b, <2>1 DEF IInv, FailureInv
    <2>4. /\ Cardinality(Failed) <= Cardinality(Failed')
          /\ \A i : Cardinality(Failed \ {i}) <= Cardinality(Failed' \ {i})
          /\ Cardinality(Failed) \in Nat /\ Cardinality(Failed') \in Nat
          /\ \A i : Cardinality(Failed \ {i}) \in Nat /\ Cardinality(Failed' \ {i}) \in Nat
      BY <2>2, MoreFailed
    <2>5. ASSUME NEW d \in Callers PROVE RetriesOK(d)'
      <3>1. caller[d].retries \in Nat /\ caller'[d].retries = caller[d].retries
        BY <1>1, <1>5, <1>8 DEF TypeOK, Records, Others, Lasting
      <3>2. caller[d].retries <= Cardinality(Failed)
        BY DEF IInv, FailureInv, RetriesOK
      <3>3. caller'[d].retries <= Cardinality(Failed')
        BY <2>4, <3>1, <3>2
      <3>4. ASSUME caller'[d].pc = "waitStart"
            PROVE  /\ caller'[d].on.start \in DOMAIN starts'
                   /\ caller'[d].retries <= Cardinality(Failed' \ {caller'[d].on.start})
        <4>1. caller'[d] = caller[d]
          BY <1>5, <1>8, <3>4 DEF Others
        <4>2. /\ caller[d].on.start \in DOMAIN starts
              /\ caller[d].retries <= Cardinality(Failed \ {caller[d].on.start})
          BY <3>4, <4>1 DEF IInv, FailureInv, RetriesOK
        <4>3. Cardinality(Failed \ {caller[d].on.start})
                 <= Cardinality(Failed' \ {caller[d].on.start})
          BY <2>4
        <4>4. /\ Cardinality(Failed \ {caller[d].on.start}) \in Nat
              /\ Cardinality(Failed' \ {caller[d].on.start}) \in Nat
          BY <2>4
        <4>5. caller[d].retries <= Cardinality(Failed' \ {caller[d].on.start})
          BY <3>1, <4>2, <4>3, <4>4
        <4> QED BY <1>7, <4>1, <4>2, <4>5
      <3> QED BY <3>3, <3>4 DEF RetriesOK
    <2>6. Cardinality(Failed) > RetryLimit => Cardinality(Failed') > RetryLimit
      BY <2>4, RetryLimitNat
    <2>7. ASSUME stopper.pc = "idle", NEW d \in Callers PROVE BlamedOK(d)'
      BY <1>5, <1>6, <1>8, <2>6, <2>7 DEF IInv, FailureInv, BlamedOK, Others, Lasting
    <2>8. ASSUME stopper.pc = "idle", NEW i \in DOMAIN starts'
          PROVE  ~starts'[i].stopped /\ (starts'[i].err = "canceled" => starts'[i].byCaller)
      BY <1>2, <1>4, <1>6, <1>7, <1>b, <2>8 DEF IInv, FailureInv
    <2> QED BY <1>1, <2>3, <2>5, <2>7, <2>8 DEF FailureInv
  <1>17. DropsInv'
    <2>1. DropsOK(caller'[c])
      BY <1>5, <1>8, SMTT(30) DEF IInv, DropsInv, DropsOK, Lasting
    <2> QED BY <1>8, <2>1 DEF IInv, DropsInv, Others
  <1> QED BY <1>10, <1>12, <1>13, <1>14, <1>15, <1>16, <1>17 DEF IInv

-----------------------------------------------------------------------------
(* Streams and dispatchers.                                                *)

\* A caller leaves: its stream is closed as it is listed no more.
LEMMA LeaveKeeps ==
    ASSUME IInv, NEW c \in Callers, Leave(c)
    PROVE  IInv'
  <1> DEFINE m == caller[c]
             pc == IF ev.subs = {c} THEN "last" ELSE "left"
             k == [CloseStream(m) EXCEPT !.pc = pc, !.on = Blocking]
  <1>1. /\ m \in Records /\ TypeOK /\ m.pc = "stream" /\ m.canceled /\ c \in ev.subs
        /\ ev' = [ev EXCEPT !.subs = @ \ {c}] /\ Set(c, k)
        /\ UNCHANGED <<starts, runs, remote, link, stopper>>
    BY DEF IInv, TypeOK, Leave
  <1>2. Blocking \in Waits /\ Blocking.start = Nil /\ m.closed = 0
    <2>1. ev.cancel # Nil
      BY <1>1 DEF IInv, SubInv, SubOK
    <2>2. m.closed = 0
      BY <1>1 DEF IInv, SubInv, SubOK, Outside, Gone
    <2> QED BY <2>1, <2>2, BlockingIsWait DEF Waits
  <1>3. /\ CloseStream(m) \in Records /\ Kept(CloseStream(m), m) /\ CloseStream(m).closed = 1
        /\ CloseStream(m).err = m.err /\ CloseStream(m).canceled
    BY <1>1, <1>2, CloseEffect
  <1>4. /\ k \in Records /\ Kept(k, m) /\ k.closed = 1 /\ k.pc \in {"last", "left"}
        /\ k.on = Blocking /\ k.err = m.err
    BY <1>1, <1>2, <1>3 DEF Records, Kept, Places, Gone
  <1> HIDE DEF k
  <1>5. caller' \in [Callers -> Records] /\ Others(c) /\ caller'[c] = k
    BY <1>1, <1>4, SetEffect
  <1>6. ev.subs \ {c} \in SUBSET Callers /\ (ev.subs \ {c}) \ {c} = ev.subs \ {c}
    BY <1>1 DEF TypeOK
  <1>7. OnlyLists(c) /\ ev'.subs = ev.subs \ {c}
    BY <1>1, <1>6 DEF OnlyLists, TypeOK
  <1>8. DropsOK(caller'[c])
    BY <1>4, <1>5, DropsKept
  <1>9. SubOK(c)'
    BY <1>2, <1>4, <1>5, <1>7 DEF SubOK, Outside, Gone
  <1>10. RetriesOK(c)' /\ BlamedOK(c)'
    BY <1>1, <1>4, <1>5 DEF IInv, FailureInv, RetriesOK, BlamedOK, Kept, Failed
  <1>11. caller'[c].pc \notin Setting \cup Early /\ m.pc \notin Setting
    BY <1>1, <1>4, <1>5 DEF Setting, Early
  <1> QED BY <1>1, <1>4, <1>5, <1>7, <1>8, <1>9, <1>10, <1>11, QuietKeeps DEF Kept, Setting, Early

\* A dispatcher is stopped: it will notice.
LEMMA StopRunEffect ==
    ASSUME TypeOK, NEW r, runs' = StopRun(r)
    PROVE  SameRuns
  <1>1. /\ runs \in [1..Len(runs) -> Dispatchers] /\ Len(runs) \in Nat
        /\ DOMAIN runs = 1..Len(runs)
    BY LenProperties DEF TypeOK
  <1>2. ASSUME NEW i \in 1..Len(runs)
        PROVE  /\ runs'[i] \in Dispatchers
               /\ runs'[i].phase = runs[i].phase /\ runs'[i].families = runs[i].families
    <2>1. runs[i] \in Dispatchers
      BY <1>1
    <2>2. runs'[i] = IF i = r THEN [runs[i] EXCEPT !.stopped = TRUE] ELSE runs[i]
      BY <1>1 DEF StopRun
    <2> QED BY <2>1, <2>2 DEF Dispatchers
  <1>3. runs' \in [1..Len(runs) -> Dispatchers]
    <2>1. DOMAIN runs' = 1..Len(runs) /\ runs' = [i \in 1..Len(runs) |-> runs'[i]]
      BY <1>1 DEF StopRun
    <2> QED BY <1>2, <2>1
  <1>4. runs' \in Seq(Dispatchers) /\ DOMAIN runs' = DOMAIN runs
    BY <1>1, <1>3, SeqDef
  <1> QED BY <1>1, <1>2, <1>4 DEF SameRuns

\* The last to leave cancels the dispatcher.
LEMMA CancelRunKeeps ==
    ASSUME IInv, NEW c \in Callers, CancelRun(c)
    PROVE  IInv'
  <1> DEFINE m == caller[c]
             k == [m EXCEPT !.pc = "left"]
  <1>1. /\ m \in Records /\ TypeOK /\ m.pc = "last" /\ Set(c, k) /\ m.on.start = Nil
        /\ UNCHANGED <<starts, ev, link, remote, stopper>>
        /\ runs' = runs \/ runs' = StopRun(m.on.run)
    BY DEF IInv, TypeOK, SubInv, SubOK, CancelRun, Goto
  <1>2. SameRuns
    <2>1. runs' = runs => SameRuns
      BY <1>1 DEF SameRuns, TypeOK
    <2>2. runs' = StopRun(m.on.run) => SameRuns
      BY <1>1, StopRunEffect
    <2> QED BY <1>1, <2>1, <2>2
  <1>3. /\ k \in Records /\ Kept(k, m) /\ k.closed = m.closed /\ k.pc = "left"
    BY <1>1 DEF Records, Kept, Places, Gone
  <1> HIDE DEF k
  <1>4. caller' \in [Callers -> Records] /\ Others(c) /\ caller'[c] = k
    BY <1>1, <1>3, SetEffect
  <1>5. DropsOK(caller'[c])
    BY <1>3, <1>4, DropsKept
  <1>6. SubOK(c)'
    BY <1>1, <1>3, <1>4 DEF IInv, SubInv, SubOK, Outside, Gone
  <1>7. RetriesOK(c)' /\ BlamedOK(c)'
    BY <1>1, <1>3, <1>4 DEF IInv, FailureInv, RetriesOK, BlamedOK, Kept, Failed
  <1>8. caller'[c].pc \notin Setting \cup Early /\ m.pc \notin Setting
    BY <1>1, <1>3, <1>4 DEF Setting, Early
  <1> QED BY <1>1, <1>2, <1>3, <1>4, <1>5, <1>6, <1>7, <1>8, QuietRunsKeep DEF Kept, Setting, Early

\* The totals of the events left lead on from what the first of them told.
LEMMA DropsReceived ==
    ASSUME NEW r \in Records, NEW k \in Records, DropsOK(r), r.buf # <<>>, k.buf = Tail(r.buf),
           k.told = r.told + 1 + Head(r.buf), k.due = r.due, k.dropped = r.dropped
    PROVE  DropsOK(k)
  <1> DEFINE n == Len(r.buf)
  <1>1. /\ r.buf \in Seq(Nat) /\ n \in Nat /\ n # 0 /\ Len(k.buf) = n - 1
        /\ Head(r.buf) = r.buf[1] /\ \A i \in 1..n - 1 : k.buf[i] = r.buf[i + 1]
    <2>1. r.buf \in Seq(Nat)
      BY DEF Records
    <2>2. n \in Nat /\ n # 0
      BY <2>1, EmptySeq, LenProperties
    <2>3. Len(k.buf) = n - 1 /\ \A i \in 1..n - 1 : k.buf[i] = r.buf[i + 1]
      BY <2>1, <2>2, HeadTailProperties
    <2>4. Head(r.buf) = r.buf[1]
      BY <2>1
    <2> QED BY <2>1, <2>2, <2>3, <2>4
  <1>2. PICK total \in [0..n -> 0..r.due] :
           /\ total[0] = r.told
           /\ \A i \in 1..n : total[i] = total[i - 1] + 1 + r.buf[i]
           /\ r.due = total[n] + r.dropped
    BY DEF DropsOK
  <1> DEFINE rest == [i \in 0..n - 1 |-> total[i + 1]]
  <1>3. \A i \in 0..n - 1 : i + 1 \in 0..n /\ i + 1 \in 1..n
    BY <1>1
  <1>4. rest \in [0..n - 1 -> 0..r.due]
    BY <1>2, <1>3
  <1>5. rest[0] = k.told
    <2>1. 0 \in 0..n - 1 /\ 1 \in 1..n
      BY <1>1
    <2>2. rest[0] = total[1] /\ total[1] = total[0] + 1 + r.buf[1]
      BY <1>2, <2>1
    <2> QED BY <1>1, <1>2, <2>2
  <1>6. \A i \in 1..n - 1 : rest[i] = rest[i - 1] + 1 + k.buf[i]
    <2> TAKE i \in 1..n - 1
    <2>1. i \in 0..n - 1 /\ i - 1 \in 0..n - 1 /\ i + 1 \in 1..n /\ (i - 1) + 1 = i /\ (i + 1) - 1 = i
      BY <1>1
    <2>2. rest[i] = total[i + 1] /\ rest[i - 1] = total[i]
      BY <2>1
    <2>3. total[i + 1] = total[i] + 1 + r.buf[i + 1]
      BY <1>2, <2>1
    <2> QED BY <1>1, <2>2, <2>3
  <1>7. rest[n - 1] = total[n]
    BY <1>1
  <1> HIDE DEF rest
  <1>8. k.due = rest[n - 1] + k.dropped
    BY <1>2, <1>7
  <1> QED BY <1>1, <1>4, <1>5, <1>6, <1>8 DEF DropsOK

\* A consumer takes an event.
LEMMA ReceiveKeeps ==
    ASSUME IInv, NEW c \in Callers, Receive(c)
    PROVE  IInv'
  <1> DEFINE m == caller[c]
             k == [m EXCEPT !.buf = Tail(@), !.told = @ + 1 + Head(m.buf)]
  <1>1. /\ m \in Records /\ TypeOK /\ m.buf # <<>> /\ Set(c, k)
        /\ UNCHANGED <<starts, runs, ev, link, remote, stopper>>
    BY DEF IInv, TypeOK, Receive
  <1>2. Tail(m.buf) \in Seq(Nat) /\ m.told + 1 + Head(m.buf) \in Nat
    <2>1. m.buf \in Seq(Nat) /\ m.told \in Nat
      BY <1>1 DEF Records
    <2>2. Tail(m.buf) \in Seq(Nat) /\ Head(m.buf) \in Nat
      BY <1>1, <2>1, HeadTailProperties
    <2> QED BY <2>1, <2>2, SMTT(30)
  <1>3. /\ k \in Records /\ k.pc = m.pc /\ k.closed = m.closed /\ k.mine = m.mine
        /\ k.families = m.families /\ k.canceled = m.canceled /\ k.retries = m.retries
        /\ k.on = m.on /\ k.err = m.err /\ k.due = m.due /\ k.dropped = m.dropped
        /\ k.buf = Tail(m.buf) /\ k.told = m.told + 1 + Head(m.buf)
    BY <1>1, <1>2 DEF Records
  <1> HIDE DEF k
  <1>4. caller' \in [Callers -> Records] /\ Others(c) /\ caller'[c] = k
    BY <1>1, <1>3, SetEffect
  <1>5. DropsOK(caller'[c])
    <2>1. DropsOK(m)
      BY DEF IInv, DropsInv
    <2>2. DropsOK(k)
      BY <1>1, <1>3, <2>1, DropsReceived
    <2> QED BY <1>4, <2>2
  <1>6. SubOK(c)'
    BY <1>1, <1>3, <1>4 DEF IInv, SubInv, SubOK
  <1>7. RetriesOK(c)' /\ (stopper.pc = "idle" => BlamedOK(c)')
    BY <1>1, <1>3, <1>4, ZenonT(30) DEF IInv, FailureInv, RetriesOK, BlamedOK, Failed
  <1> QED BY <1>1, <1>3, <1>4, <1>5, <1>6, <1>7, QuietKeeps

\* An event that a subscriber misses is counted.
LEMMA DropsMissed ==
    ASSUME NEW r \in Records, NEW k, DropsOK(r), k.buf = r.buf, k.told = r.told,
           k.due = r.due + 1, k.dropped = r.dropped + 1
    PROVE  DropsOK(k)
  <1> DEFINE n == Len(r.buf)
  <1>1. n \in Nat /\ r.due \in Nat /\ r.dropped \in Nat
    BY LenProperties DEF Records
  <1>2. PICK total \in [0..n -> 0..r.due] :
           /\ total[0] = r.told
           /\ \A i \in 1..n : total[i] = total[i - 1] + 1 + r.buf[i]
           /\ r.due = total[n] + r.dropped
    BY DEF DropsOK
  <1>3. total \in [0..n -> 0..r.due + 1] /\ total[n] \in Nat
    <2>1. 0..r.due \subseteq 0..r.due + 1 /\ n \in 0..n
      BY <1>1
    <2> QED BY <1>2, <2>1
  <1>4. k.due = total[n] + k.dropped
    BY <1>1, <1>2, <1>3
  <1> QED BY <1>2, <1>3, <1>4 DEF DropsOK

\* An event that is delivered says how many were missed before it.
LEMMA DropsDelivered ==
    ASSUME NEW r \in Records, NEW k, DropsOK(r), k.buf = Append(r.buf, r.dropped),
           k.told = r.told, k.due = r.due + 1, k.dropped = 0
    PROVE  DropsOK(k)
  <1> DEFINE n == Len(r.buf)
  <1>1. /\ n \in Nat /\ r.due \in Nat /\ r.dropped \in Nat /\ Len(k.buf) = n + 1
        /\ k.buf[n + 1] = r.dropped /\ \A i \in 1..n : k.buf[i] = r.buf[i]
    <2>1. r.buf \in Seq(Nat) /\ r.due \in Nat /\ r.dropped \in Nat
      BY DEF Records
    <2> QED BY <2>1, LenProperties, AppendProperties
  <1>2. PICK total \in [0..n -> 0..r.due] :
           /\ total[0] = r.told
           /\ \A i \in 1..n : total[i] = total[i - 1] + 1 + r.buf[i]
           /\ r.due = total[n] + r.dropped
    BY DEF DropsOK
  <1> DEFINE more == [i \in 0..n + 1 |-> IF i = n + 1 THEN r.due + 1 ELSE total[i]]
  <1>3. more \in [0..n + 1 -> 0..r.due + 1]
    <2>1. \A i \in 0..n + 1 : i # n + 1 => i \in 0..n
      BY <1>1
    <2>2. \A i \in 0..n : total[i] \in 0..r.due + 1
      <3>1. 0..r.due \subseteq 0..r.due + 1
        BY <1>1
      <3> QED BY <1>2, <3>1
    <2>3. r.due + 1 \in 0..r.due + 1
      BY <1>1
    <2> QED BY <2>1, <2>2, <2>3
  <1>4. more[0] = k.told /\ more[n + 1] = r.due + 1
    <2>1. 0 \in 0..n + 1 /\ 0 # n + 1 /\ n + 1 \in 0..n + 1
      BY <1>1
    <2> QED BY <1>2, <2>1
  <1>5. \A i \in 1..n + 1 : more[i] = more[i - 1] + 1 + k.buf[i]
    <2> TAKE i \in 1..n + 1
    <2>1. CASE i = n + 1
      <3>1. n \in 0..n + 1 /\ n # n + 1 /\ (n + 1) - 1 = n /\ total[n] \in Nat
        BY <1>1, <1>2
      <3>2. more[n] = total[n]
        BY <3>1
      <3> QED BY <1>1, <1>2, <1>4, <2>1, <3>1, <3>2
    <2>2. CASE i # n + 1
      <3>1. i \in 1..n /\ i \in 0..n + 1 /\ i - 1 \in 0..n + 1 /\ i - 1 # n + 1
        BY <1>1, <2>2
      <3>2. more[i] = total[i] /\ more[i - 1] = total[i - 1]
        BY <2>2, <3>1
      <3> QED BY <1>1, <1>2, <3>1, <3>2
    <2> QED BY <2>1, <2>2
  <1> HIDE DEF more
  <1>6. k.due = more[n + 1] + k.dropped
    BY <1>1, <1>4
  <1> QED BY <1>1, <1>3, <1>4, <1>5, <1>6 DEF DropsOK

\* Whether a caller has moved.
Unmoved(k, m) ==
    /\ k.pc = m.pc /\ k.mine = m.mine /\ k.families = m.families /\ k.canceled = m.canceled
    /\ k.retries = m.retries /\ k.on = m.on /\ k.err = m.err

\* A subscriber is sent a signal, or misses it.
LEMMA DeliveryEffect ==
    ASSUME NEW r \in Records, DropsOK(r),
           NEW k \in {[r EXCEPT !.dropped = @ + 1, !.due = @ + 1], Delivered(r)}
    PROVE  k \in Records /\ Unmoved(k, r) /\ k.closed = r.closed /\ DropsOK(k)
  <1>1. r.dropped + 1 \in Nat /\ r.due + 1 \in Nat /\ 0 \in Nat
    BY DEF Records
  <1>2. Append(r.buf, r.dropped) \in Seq(Nat)
    BY DEF Records
  <1>3. CASE k = [r EXCEPT !.dropped = @ + 1, !.due = @ + 1]
    <2>1. /\ k \in Records /\ Unmoved(k, r) /\ k.closed = r.closed /\ k.buf = r.buf
          /\ k.told = r.told /\ k.due = r.due + 1 /\ k.dropped = r.dropped + 1
      BY <1>1, <1>3 DEF Records, Unmoved
    <2> QED BY <2>1, DropsMissed
  <1>4. CASE k = [r EXCEPT !.buf = Append(@, r.dropped), !.dropped = 0, !.due = @ + 1]
    <2>1. /\ k \in Records /\ Unmoved(k, r) /\ k.closed = r.closed
          /\ k.buf = Append(r.buf, r.dropped)
          /\ k.told = r.told /\ k.due = r.due + 1 /\ k.dropped = 0
      BY <1>1, <1>2, <1>4 DEF Records, Unmoved
    <2> QED BY <2>1, DropsDelivered
  <1> QED BY <1>3, <1>4 DEF Delivered

\* A signal is sent to every subscriber, which says nothing of any setup.
LEMMA SignalKeeps ==
    ASSUME IInv, NEW r \in DOMAIN runs, Signal(r)
    PROVE  IInv'
  <1>1. TypeOK /\ UNCHANGED <<ev, link, starts, runs, remote, stopper>>
    BY DEF IInv, Signal
  <1>2. ASSUME NEW d \in Callers
        PROVE  /\ caller'[d] \in Records /\ Unmoved(caller'[d], caller[d])
               /\ caller'[d].closed = caller[d].closed /\ DropsOK(caller'[d])
    <2>1. caller[d] \in Records /\ DropsOK(caller[d])
      BY <1>1 DEF TypeOK, IInv, DropsInv
    <2>2. caller'[d] \in {caller[d], [caller[d] EXCEPT !.dropped = @ + 1, !.due = @ + 1],
                          Delivered(caller[d])}
      BY DEF Signal
    <2>3. CASE caller'[d] = caller[d]
      BY <2>1, <2>3 DEF Unmoved
    <2>4. CASE caller'[d] \in {[caller[d] EXCEPT !.dropped = @ + 1, !.due = @ + 1],
                               Delivered(caller[d])}
      BY <2>1, <2>4, DeliveryEffect
    <2> QED BY <2>2, <2>3, <2>4
  <1>3. caller' \in [Callers -> Records]
    <2>1. caller' = [c \in Callers |-> caller'[c]]
      BY DEF Signal
    <2> QED BY <1>2, <2>1
  <1>4. TypeOK'
    BY <1>1, <1>3 DEF TypeOK
  <1>5. SetupInv'
    <2>1. \A d \in Callers : SetupOK(d)'
      BY <1>1, <1>2 DEF IInv, SetupInv, SetupOK, Unmoved
    <2> QED BY <1>1, <1>2, <2>1 DEF IInv, SetupInv, Unmoved
  <1>6. RunInv'
    BY <1>1 DEF IInv, RunInv
  <1>7. RemoteInv'
    BY <1>1, <1>2 DEF IInv, RemoteInv, Registered, Unmoved
  <1>8. SubInv'
    <2>1. \A d \in Callers : SubOK(d)'
      BY <1>1, <1>2 DEF IInv, SubInv, SubOK, Unmoved
    <2> QED BY <1>1, <2>1 DEF IInv, SubInv
  <1>9. FailureInv'
    <2>1. Failed' = Failed
      BY <1>1 DEF Failed
    <2>2. \A d \in Callers : RetriesOK(d)'
      BY <1>1, <1>2, <2>1 DEF IInv, FailureInv, RetriesOK, Unmoved
    <2>3. stopper.pc = "idle" => \A d \in Callers : BlamedOK(d)'
      BY <1>2, <2>1 DEF IInv, FailureInv, BlamedOK, Unmoved
    <2>4. \A i \in Failed : \E d \in Callers : caller'[d].mine = i /\ caller'[d].canceled
      BY <1>2 DEF IInv, FailureInv, Unmoved
    <2> QED BY <1>1, <2>1, <2>2, <2>3, <2>4 DEF IInv, FailureInv
  <1>10. DropsInv'
    BY <1>2 DEF DropsInv
  <1> QED BY <1>4, <1>5, <1>6, <1>7, <1>8, <1>9, <1>10 DEF IInv

\* The dispatchers after one of them has changed.
LEMMA RunChanged ==
    ASSUME TypeOK, NEW r \in DOMAIN runs, NEW d \in Dispatchers, runs' = [runs EXCEPT ![r] = d]
    PROVE  /\ runs' \in Seq(Dispatchers) /\ DOMAIN runs' = DOMAIN runs /\ runs'[r] = d
           /\ \A q \in DOMAIN runs : q # r => runs'[q] = runs[q]
  <1>1. runs' \in Seq(Dispatchers)
    BY ExceptSeq, LenProperties DEF TypeOK
  <1> QED BY <1>1

\* While a dispatcher is not over, it is the only one and nobody sets up.
LEMMA RunAlone ==
    ASSUME IInv, NEW r \in DOMAIN runs, runs[r].phase # "over"
    PROVE  /\ ev.cancel = r /\ r # Nil /\ ev.starting = Nil
           /\ \A q \in DOMAIN runs : q # r => runs[q].phase = "over"
           /\ \A c \in Callers : caller[c].pc \notin Setting
  <1>1. ev.cancel = r /\ \A q \in DOMAIN runs : q # r => runs[q].phase = "over"
    BY DEF IInv, RunInv
  <1>2. r # Nil
    BY LenProperties, NilIsNothing DEF IInv, TypeOK
  <1>3. ev.starting = Nil
    BY <1>1, <1>2 DEF IInv, SetupInv
  <1>4. \A c \in Callers : caller[c].pc \notin Setting
    BY <1>3 DEF IInv, SetupInv, SetupOK
  <1> QED BY <1>1, <1>2, <1>3, <1>4

\* A dispatcher gets on from one phase to another.  What it has registered
\* goes with its deregistration, and who listens when it ends.
LEMMA PhaseKeeps ==
    ASSUME IInv, NEW r \in DOMAIN runs,
           NEW p \in {"live", "cleanup", "finish", "over"}, NEW q \in {"cleanup", "finish", "over"},
           runs[r].phase = p, p # "over", runs' = [runs EXCEPT ![r].phase = q],
           UNCHANGED <<starts, stopper>>,
           link' \in [open : BOOLEAN, down : BOOLEAN, gone : BOOLEAN], link'.open = link.open,
           caller' \in [Callers -> Records],
           \A d \in Callers : Unmoved(caller'[d], caller[d]) /\ DropsOK(caller'[d]) /\ SubOK(d)',
           ev' \in [retired : BOOLEAN, starting : Index, cancel : Index, subs : SUBSET Callers,
                    registered : SUBSET {Families[i] : i \in DOMAIN Families}],
           ev'.starting = ev.starting, ev'.cancel = IF q = "over" THEN Nil ELSE ev.cancel,
           ev'.subs = {} \/ q = "over",
           link.open => /\ q = "cleanup" => remote' \subseteq runs[r].families
                        /\ q \in {"finish", "over"} => remote' = {}
    PROVE  IInv'
  <1>1. /\ ev.cancel = r /\ r # Nil /\ ev.starting = Nil
        /\ \A i \in DOMAIN runs : i # r => runs[i].phase = "over"
        /\ \A c \in Callers : caller[c].pc \notin Setting
    BY RunAlone
  <1>2. runs[r] \in Dispatchers
    BY ElementOfSeq, LenProperties DEF IInv, TypeOK
  <1> DEFINE d0 == [runs[r] EXCEPT !.phase = q]
  <1>3. d0 \in Dispatchers /\ d0.phase = q /\ d0.families = runs[r].families
        /\ runs' = [runs EXCEPT ![r] = d0]
    BY <1>2 DEF Dispatchers
  <1> HIDE DEF d0
  <1>4. /\ runs' \in Seq(Dispatchers) /\ DOMAIN runs' = DOMAIN runs /\ runs'[r] = d0
        /\ \A i \in DOMAIN runs : i # r => runs'[i] = runs[i]
    BY <1>3, RunChanged DEF IInv
  <1>5. TypeOK'
    BY <1>4 DEF IInv, TypeOK
  <1>6. SetupInv'
    <2>1. \A d \in Callers : SetupOK(d)'
      BY <1>1 DEF IInv, SetupInv, SetupOK, Unmoved
    <2> QED BY <1>1, <2>1 DEF SetupInv
  <1>7. RunInv'
    <2>1. \A i \in DOMAIN runs : i # Nil
      BY LenProperties, NilIsNothing DEF IInv, TypeOK
    <2> QED BY <1>1, <1>3, <1>4, <2>1 DEF RunInv
  <1>8. RemoteInv'
    <2>1. \A c \in Callers : Registered(c)'
      BY <1>1 DEF Registered, Unmoved, Setting
    <2>2. ev'.cancel = Nil => q = "over"
      BY <1>1
    <2> QED BY <1>1, <1>3, <1>4, <2>1, <2>2 DEF RemoteInv
  <1>9. SubInv'
    BY <1>1, <1>3, <1>4 DEF SubInv
  <1>10. FailureInv'
    <2>1. Failed' = Failed
      BY DEF Failed
    <2>2. \A d \in Callers : RetriesOK(d)'
      BY <2>1 DEF IInv, FailureInv, RetriesOK, Unmoved
    <2>3. stopper.pc = "idle" => \A d \in Callers : BlamedOK(d)'
      BY <2>1 DEF IInv, FailureInv, BlamedOK, Unmoved
    <2>4. \A i \in Failed : \E d \in Callers : caller'[d].mine = i /\ caller'[d].canceled
      BY DEF IInv, FailureInv, Unmoved
    <2> QED BY <2>1, <2>2, <2>3, <2>4 DEF IInv, FailureInv
  <1>11. DropsInv'
    BY DEF DropsInv
  <1> QED BY <1>5, <1>6, <1>7, <1>8, <1>9, <1>10, <1>11 DEF IInv

\* A dispatcher ends, is deregistered and is over.
LEMMA RunStepKeeps ==
    ASSUME IInv, NEW r \in DOMAIN runs, RunStep(r)
    PROVE  IInv'
  <1> DEFINE Evs == [retired : BOOLEAN, starting : Index, cancel : Index, subs : SUBSET Callers,
                     registered : SUBSET {Families[i] : i \in DOMAIN Families}]
  <1>1. /\ TypeOK /\ runs[r].phase \in {"live", "cleanup", "finish"}
        /\ UNCHANGED <<starts, stopper>>
    BY DEF IInv, TypeOK, RunStep, EndRun, Deregister, FinishRun
  <1>2. ev.cancel = r /\ r # Nil
    BY <1>1, RunAlone
  <1>3. ev \in Evs /\ link \in [open : BOOLEAN, down : BOOLEAN, gone : BOOLEAN]
        /\ caller \in [Callers -> Records]
    BY <1>1 DEF TypeOK
  <1>4. caller' = caller => \A d \in Callers : Unmoved(caller'[d], caller[d]) /\ DropsOK(caller'[d])
    BY DEF Unmoved, IInv, DropsInv
  <1>5. CASE EndRun(r)
    <2>1. /\ runs[r].phase = "live" /\ runs' = [runs EXCEPT ![r].phase = "cleanup"]
          /\ link' = IF link.open THEN link ELSE [link EXCEPT !.down = TRUE]
          /\ caller' = [c \in Callers |-> IF c \in ev.subs THEN CloseStream(caller[c])
                                          ELSE caller[c]]
          /\ ev' = [ev EXCEPT !.subs = {}] /\ remote' = remote
      BY <1>2, <1>5 DEF EndRun
    <2>2. link' \in [open : BOOLEAN, down : BOOLEAN, gone : BOOLEAN] /\ link'.open = link.open
      BY <1>3, <2>1
    <2>3. ASSUME NEW d \in Callers
          PROVE  /\ caller'[d] \in Records /\ Unmoved(caller'[d], caller[d])
                 /\ DropsOK(caller'[d])
                 /\ caller'[d].closed = IF d \in ev.subs THEN caller[d].closed + 1
                                        ELSE caller[d].closed
      <3>1. caller[d] \in Records /\ DropsOK(caller[d])
        BY <1>3 DEF IInv, DropsInv
      <3>2. CASE d \in ev.subs
        <4> DEFINE k == CloseStream(caller[d])
        <4>1. caller'[d] = k
          BY <2>1, <3>2
        <4>2. k = [caller[d] EXCEPT !.closed = caller[d].closed + 1]
          BY DEF CloseStream
        <4>3. k \in Records /\ Kept(k, caller[d]) /\ k.closed = caller[d].closed + 1
          BY <3>1, CloseEffect
        <4>4. Unmoved(k, caller[d])
          BY <3>1, <4>2 DEF Records, Unmoved
        <4>5. DropsOK(k)
          BY <3>1, <4>3 DEF Kept, DropsOK
        <4> HIDE DEF k
        <4> QED BY <3>2, <4>1, <4>3, <4>4, <4>5
      <3>3. CASE d \notin ev.subs
        BY <2>1, <3>1, <3>3 DEF Unmoved
      <3> QED BY <3>2, <3>3
    <2>4. caller' \in [Callers -> Records]
      <3>1. caller' = [c \in Callers |-> caller'[c]]
        BY <2>1
      <3> QED BY <2>3, <3>1
    <2>5. ev' \in Evs /\ ev'.starting = ev.starting /\ ev'.cancel = ev.cancel /\ ev'.subs = {}
      BY <1>3, <2>1
    <2>6. ASSUME NEW d \in Callers PROVE SubOK(d)'
      <3>1. /\ caller'[d].pc = caller[d].pc /\ caller'[d].on = caller[d].on
            /\ caller'[d].closed = IF d \in ev.subs THEN caller[d].closed + 1
                                   ELSE caller[d].closed
        BY <2>3 DEF Unmoved
      <3>2. caller[d].closed \in Nat
        BY <1>3 DEF Records
      <3> QED BY <2>5, <3>1, <3>2 DEF IInv, SubInv, SubOK
    <2>7. link.open => remote' \subseteq runs[r].families
      BY <2>1 DEF IInv, RemoteInv
    <2> QED BY <1>1, <2>1, <2>2, <2>3, <2>4, <2>5, <2>6, <2>7, PhaseKeeps
  <1>6. CASE Deregister(r)
    <2>1. /\ runs[r].phase = "cleanup" /\ runs' = [runs EXCEPT ![r].phase = "finish"]
          /\ remote' = IF link.open THEN remote \ runs[r].families ELSE remote
          /\ UNCHANGED <<ev, link, caller>>
      BY <1>6 DEF Deregister
    <2>2. link.open => remote' = {}
      BY <2>1 DEF IInv, RemoteInv
    <2>3. ev.subs = {} /\ \A d \in Callers : SubOK(d)'
      BY <2>1 DEF IInv, SubInv, SubOK
    <2> QED BY <1>1, <1>3, <1>4, <2>1, <2>2, <2>3, PhaseKeeps
  <1>7. CASE FinishRun(r)
    <2>1. /\ runs[r].phase = "finish" /\ runs' = [runs EXCEPT ![r].phase = "over"]
          /\ ev' = [ev EXCEPT !.cancel = Nil, !.registered = {}]
          /\ UNCHANGED <<remote, link, caller>>
      BY <1>2, <1>7 DEF FinishRun
    <2>2. link.open => remote' = {}
      BY <2>1 DEF IInv, RemoteInv
    <2>3. ev' \in Evs /\ ev'.starting = ev.starting /\ ev'.cancel = Nil /\ ev'.subs = ev.subs
      BY <1>3, <2>1 DEF Index
    <2>4. ev.subs = {} /\ \A d \in Callers : SubOK(d)'
      BY <2>1, <2>3 DEF IInv, SubInv, SubOK
    <2> QED BY <1>1, <1>3, <1>4, <2>1, <2>2, <2>3, <2>4, PhaseKeeps
  <1> QED BY <1>5, <1>6, <1>7 DEF RunStep

-----------------------------------------------------------------------------
(* The ends of a backend.                                                  *)

\* Setups and dispatchers are stopped, the connection goes: no caller moves,
\* and none of them gets on.
LEMMA WorldKeeps ==
    ASSUME IInv, caller' = caller, remote' = remote, SameRuns,
           starts' \in Seq(Setups), DOMAIN starts' = DOMAIN starts,
           \A i \in DOMAIN starts : /\ starts'[i].done = starts[i].done
                                    /\ starts'[i].byCaller = starts[i].byCaller
                                    /\ starts'[i].err = starts[i].err
                                    /\ stopper'.pc = "idle" => starts'[i].stopped = starts[i].stopped,
           link' \in [open : BOOLEAN, down : BOOLEAN, gone : BOOLEAN], link'.open => link.open,
           ev' \in [retired : BOOLEAN, starting : Index, cancel : Index, subs : SUBSET Callers,
                    registered : SUBSET {Families[i] : i \in DOMAIN Families}],
           ev'.starting = ev.starting, ev'.cancel = ev.cancel, ev'.subs = ev.subs,
           stopper' \in [kind : {"close", "watch", "retire", Nil},
                         pc : {"idle", "look", "cancel", "wait", "returned"},
                         start : Index, run : Index, clean : BOOLEAN],
           stopper'.pc = "idle" => stopper.pc = "idle"
    PROVE  IInv'
  <1>1. TypeOK'
    BY DEF IInv, TypeOK, SameRuns
  <1>2. SetupInv'
    <2>1. \A d \in Callers : SetupOK(d)'
      BY DEF IInv, SetupInv, SetupOK
    <2> QED BY <2>1 DEF IInv, SetupInv
  <1>3. RunInv'
    BY DEF IInv, RunInv, SameRuns
  <1>4. RemoteInv'
    <2>1. link.open => \A c \in Callers : Registered(c)'
      BY DEF IInv, RemoteInv, Registered
    <2>2. ASSUME link.open, NEW r \in DOMAIN runs'
          PROVE  /\ runs'[r].phase = "live" => remote' = runs'[r].families
                 /\ runs'[r].phase = "cleanup" => remote' \subseteq runs'[r].families
                 /\ runs'[r].phase = "finish" => remote' = {}
      BY <2>2 DEF IInv, RemoteInv, SameRuns
    <2>3. link.open /\ ev'.cancel = Nil /\ ev'.starting = Nil => remote' = {}
      BY DEF IInv, RemoteInv
    <2> QED BY <2>1, <2>2, <2>3 DEF RemoteInv
  <1>5. SubInv'
    <2>1. \A d \in Callers : SubOK(d)'
      BY DEF IInv, SubInv, SubOK
    <2> QED BY <2>1 DEF IInv, SubInv, SameRuns
  <1>6. FailureInv'
    <2>1. Failed' = Failed
      BY DEF Failed
    <2>2. \A d \in Callers : RetriesOK(d)'
      BY <2>1 DEF IInv, FailureInv, RetriesOK
    <2>3. stopper'.pc = "idle" => \A d \in Callers : BlamedOK(d)'
      BY <2>1 DEF IInv, FailureInv, BlamedOK
    <2> QED BY <2>1, <2>2, <2>3 DEF IInv, FailureInv
  <1>7. DropsInv'
    BY DEF IInv, DropsInv
  <1> QED BY <1>1, <1>2, <1>3, <1>4, <1>5, <1>6, <1>7 DEF IInv

\* A setup is told to stop, or that it is late.
LEMMA StopStartEffect ==
    ASSUME TypeOK, NEW s,
           \/ starts' = StopStart(s)
           \/ starts' = [starts EXCEPT ![s].late = TRUE]
           \/ starts' = starts
    PROVE  /\ starts' \in Seq(Setups) /\ DOMAIN starts' = DOMAIN starts
           /\ \A i \in DOMAIN starts : /\ starts'[i].done = starts[i].done
                                       /\ starts'[i].byCaller = starts[i].byCaller
                                       /\ starts'[i].err = starts[i].err
           /\ starts' = [starts EXCEPT ![s].late = TRUE] =>
                 \A i \in DOMAIN starts : starts'[i].stopped = starts[i].stopped
  <1>1. /\ starts \in [1..Len(starts) -> Setups] /\ Len(starts) \in Nat
        /\ DOMAIN starts = 1..Len(starts)
    BY LenProperties DEF TypeOK
  <1>2. ASSUME NEW i \in 1..Len(starts)
        PROVE  /\ starts'[i] \in Setups /\ starts'[i].done = starts[i].done
               /\ starts'[i].byCaller = starts[i].byCaller /\ starts'[i].err = starts[i].err
               /\ starts' = [starts EXCEPT ![s].late = TRUE] =>
                     starts'[i].stopped = starts[i].stopped
    <2>1. starts[i] \in Setups
      BY <1>1
    <2>2. starts' = [starts EXCEPT ![s].late = TRUE] =>
             starts'[i] = IF i = s THEN [starts[i] EXCEPT !.late = TRUE] ELSE starts[i]
      BY <1>1
    <2>3. \/ starts'[i] = [starts[i] EXCEPT !.stopped = TRUE]
          \/ starts'[i] = [starts[i] EXCEPT !.late = TRUE]
          \/ starts'[i] = starts[i]
      BY <1>1 DEF StopStart
    <2>4. /\ starts'[i] \in Setups /\ starts'[i].done = starts[i].done
          /\ starts'[i].byCaller = starts[i].byCaller /\ starts'[i].err = starts[i].err
      BY <2>1, <2>3 DEF Setups
    <2>5. starts' = [starts EXCEPT ![s].late = TRUE] => starts'[i].stopped = starts[i].stopped
      BY <2>1, <2>2 DEF Setups
    <2> QED BY <2>4, <2>5
  <1>3. starts' \in [1..Len(starts) -> Setups]
    <2>1. DOMAIN starts' = 1..Len(starts) /\ starts' = [i \in 1..Len(starts) |-> starts'[i]]
      BY <1>1 DEF StopStart
    <2> QED BY <1>2, <2>1
  <1>4. starts' \in Seq(Setups) /\ DOMAIN starts' = DOMAIN starts
    BY <1>1, <1>3, SeqDef
  <1> QED BY <1>1, <1>2, <1>4

\* A setup times out, the bus goes, and the backend is stopped.
LEMMA EndsKeep ==
    ASSUME IInv,
           \/ \E c \in Callers : SetupTimeout(c)
           \/ Lose \/ StopperStep
           \/ \E kind \in {"close", "watch", "retire"} : BeginStop(kind)
    PROVE  IInv'
  <1> DEFINE Evs == [retired : BOOLEAN, starting : Index, cancel : Index, subs : SUBSET Callers,
                     registered : SUBSET {Families[i] : i \in DOMAIN Families}]
             Links == [open : BOOLEAN, down : BOOLEAN, gone : BOOLEAN]
             Stoppers == [kind : {"close", "watch", "retire", Nil},
                          pc : {"idle", "look", "cancel", "wait", "returned"},
                          start : Index, run : Index, clean : BOOLEAN]
  <1>1. TypeOK /\ ev \in Evs /\ link \in Links /\ stopper \in Stoppers
    BY DEF IInv, TypeOK
  <1>2. runs' = runs => SameRuns
    BY <1>1 DEF SameRuns, TypeOK
  <1>3. starts' = starts => starts' \in Seq(Setups)
    BY <1>1 DEF TypeOK
  <1>4. ASSUME NEW c \in Callers, SetupTimeout(c) PROVE IInv'
    <2>1. /\ starts' = [starts EXCEPT ![caller[c].mine].late = TRUE]
          /\ UNCHANGED <<ev, link, runs, remote, caller, stopper>>
      BY <1>4 DEF SetupTimeout
    <2>2. /\ starts' \in Seq(Setups) /\ DOMAIN starts' = DOMAIN starts
          /\ \A i \in DOMAIN starts : /\ starts'[i].done = starts[i].done
                                      /\ starts'[i].byCaller = starts[i].byCaller
                                      /\ starts'[i].err = starts[i].err
                                      /\ starts'[i].stopped = starts[i].stopped
      BY <1>1, <2>1, StopStartEffect
    <2> QED BY <1>1, <1>2, <2>1, <2>2, WorldKeeps
  <1>5. CASE Lose
    <2>1. /\ link' \in Links /\ ~link'.open /\ UNCHANGED <<ev, starts, runs, remote, caller, stopper>>
      BY <1>1, <1>5 DEF Lose
    <2> QED BY <1>1, <1>2, <1>3, <2>1, WorldKeeps
  <1>6. CASE Look \/ StopReturns
    <2>1. UNCHANGED <<ev, link, starts, runs, remote, caller>> /\ stopper'.pc # "idle"
      BY <1>1, <1>6 DEF Look, StopReturns
    <2>2. CASE Look
      <3>1. stopper' \in Stoppers
        BY <1>1, <2>2 DEF Look
      <3> QED BY <1>1, <1>2, <1>3, <2>1, <3>1, WorldKeeps
    <2>3. CASE StopReturns
      <3>1. PICK stopped \in BOOLEAN :
               stopper' = [stopper EXCEPT !.pc = "returned", !.clean = stopped]
        BY <2>3 DEF StopReturns
      <3>2. stopper' \in Stoppers
        BY <1>1, <3>1
      <3> QED BY <1>1, <1>2, <1>3, <2>1, <3>2, WorldKeeps
    <2> QED BY <1>6, <2>2, <2>3
  <1>7. CASE StopAll
    <2>1. /\ starts' = starts \/ starts' = StopStart(stopper.start)
          /\ runs' = runs \/ runs' = StopRun(stopper.run)
          /\ link' = link \/ link' = [link EXCEPT !.open = FALSE]
          /\ stopper' = [stopper EXCEPT !.pc = "wait"] /\ UNCHANGED <<ev, remote, caller>>
      BY <1>7 DEF StopAll
    <2>2. /\ starts' \in Seq(Setups) /\ DOMAIN starts' = DOMAIN starts
          /\ \A i \in DOMAIN starts : /\ starts'[i].done = starts[i].done
                                      /\ starts'[i].byCaller = starts[i].byCaller
                                      /\ starts'[i].err = starts[i].err
      BY <1>1, <2>1, StopStartEffect
    <2>3. SameRuns
      BY <1>1, <1>2, <2>1, StopRunEffect
    <2>4. link' \in Links /\ (link'.open => link.open)
      BY <1>1, <2>1
    <2>5. stopper' \in Stoppers /\ stopper'.pc # "idle"
      BY <1>1, <2>1
    <2> QED BY <1>1, <2>1, <2>2, <2>3, <2>4, <2>5, WorldKeeps
  <1>8. ASSUME NEW kind \in {"close", "watch", "retire"}, BeginStop(kind) PROVE IInv'
    <2>1. /\ UNCHANGED <<starts, runs, remote, caller>>
          /\ stopper' = [stopper EXCEPT !.kind = kind,
                                        !.pc = IF kind = "retire" THEN "cancel" ELSE "look",
                                        !.start = ev.starting, !.run = ev.cancel]
          /\ link' = link \/ link' = [link EXCEPT !.down = TRUE, !.gone = (kind = "close")]
          /\ ev' = ev \/ ev' = [ev EXCEPT !.retired = TRUE]
      BY <1>8 DEF BeginStop
    <2>2. stopper' \in Stoppers /\ stopper'.pc # "idle"
      BY <1>1, <2>1
    <2>3. link' \in Links /\ link'.open = link.open
      BY <1>1, <2>1
    <2>4. /\ ev' \in Evs /\ ev'.starting = ev.starting /\ ev'.cancel = ev.cancel
          /\ ev'.subs = ev.subs
      BY <1>1, <2>1
    <2> QED BY <1>1, <1>2, <1>3, <2>1, <2>2, <2>3, <2>4, WorldKeeps
  <1> QED BY <1>4, <1>5, <1>6, <1>7, <1>8 DEF StopperStep

-----------------------------------------------------------------------------
(* The theorems.                                                           *)

\* At first nobody has called, and nothing is set up.
LEMMA InitInv == ASSUME EventsInit PROVE IInv
  <1> USE DEF EventsInit
  <1>1. NewCaller \in Records
    BY DEF NewCaller, Records, Places, Early, Errors, Waits, Index
  <1>2. TypeOK
    BY <1>1 DEF TypeOK, Index
  <1>3. Failed = {} /\ Cardinality(Failed) = 0
    BY FS_EmptySet DEF Failed
  <1>4. \A c \in Callers :
           /\ caller[c].pc = "idle" /\ caller[c].mine = Nil /\ caller[c].families = {}
           /\ caller[c].retries = 0 /\ caller[c].closed = 0 /\ caller[c].buf = <<>>
           /\ caller[c].told = 0 /\ caller[c].due = 0 /\ caller[c].dropped = 0
    BY DEF NewCaller
  <1>5. SetupInv
    BY <1>4 DEF SetupInv, SetupOK, Early, Setting
  <1>6. RunInv /\ RemoteInv
    BY <1>4 DEF RunInv, RemoteInv, Registered
  <1>7. SubInv
    BY <1>4 DEF SubInv, SubOK, Outside, Gone
  <1>8. FailureInv
    BY <1>3, <1>4 DEF FailureInv, RetriesOK, BlamedOK
  <1>9. DropsInv
    <2> SUFFICES ASSUME NEW c \in Callers PROVE DropsOK(caller[c])
      BY DEF DropsInv
    <2> DEFINE total == [i \in 0..0 |-> 0]
    <2>1. total \in [0..0 -> 0..0] /\ total[0] = 0
      OBVIOUS
    <2>2. Len(caller[c].buf) = 0
      BY <1>4
    <2> HIDE DEF total
    <2>3. total \in [0..Len(caller[c].buf) -> 0..caller[c].due]
      BY <1>4, <2>1, <2>2
    <2>4. /\ total[0] = caller[c].told
          /\ \A i \in 1..Len(caller[c].buf) : total[i] = total[i - 1] + 1 + caller[c].buf[i]
          /\ caller[c].due = total[Len(caller[c].buf)] + caller[c].dropped
      BY <1>4, <2>1, <2>2
    <2> QED BY <2>3, <2>4 DEF DropsOK
  <1> QED BY <1>2, <1>5, <1>6, <1>7, <1>8, <1>9 DEF IInv

\* Every step keeps the invariant.
LEMMA NextInv == ASSUME IInv, EventsNext PROVE IInv'
  <1>1. ASSUME NEW c \in Callers, Step(c) PROVE IInv'
    <2>1. StartEvents(c) => IInv'
      BY StartKeeps, NewStartKeeps
    <2> QED BY <1>1, <2>1, AdmissionKeeps, StartKeeps, WaitForStartKeeps, RegisterKeeps,
               PublishKeeps, UndoKeeps, FinishStartKeeps, StartFailedKeeps, LeaveKeeps,
               CancelRunKeeps DEF Step
  <1>2. ASSUME NEW c \in Callers, Call(c) \/ Cancel(c) \/ SetupTimeout(c) \/ Receive(c)
        PROVE  IInv'
    BY <1>2, CallerKeeps, EndsKeep, ReceiveKeeps
  <1>3. ASSUME NEW r \in DOMAIN runs, Signal(r) \/ RunStep(r) PROVE IInv'
    BY <1>3, SignalKeeps, RunStepKeeps
  <1>4. CASE Lose \/ StopperStep \/ \E kind \in {"close", "watch", "retire"} : BeginStop(kind)
    BY <1>4, EndsKeep
  <1> QED BY <1>1, <1>2, <1>3, <1>4 DEF EventsNext

\* Nothing happens at all.
LEMMA StutterInv == ASSUME IInv, UNCHANGED evars PROVE IInv'
  <1>1. SameRuns /\ starts' \in Seq(Setups)
    BY DEF evars, SameRuns, IInv, TypeOK
  <1>2. UNCHANGED <<ev, link, starts, runs, remote, caller, stopper>>
    BY DEF evars
  <1>3. /\ link \in [open : BOOLEAN, down : BOOLEAN, gone : BOOLEAN]
        /\ ev \in [retired : BOOLEAN, starting : Index, cancel : Index, subs : SUBSET Callers,
                   registered : SUBSET {Families[i] : i \in DOMAIN Families}]
        /\ stopper \in [kind : {"close", "watch", "retire", Nil},
                        pc : {"idle", "look", "cancel", "wait", "returned"},
                        start : Index, run : Index, clean : BOOLEAN]
    BY DEF IInv, TypeOK
  <1> QED BY <1>1, <1>2, <1>3, WorldKeeps

\* One setup or one dispatcher at a time, with what the registry sends, who is
\* listed, and whose setups failed: the invariant of the event streams.
THEOREM EventsAreInOrder == EventsSpec => []IInv
  BY InitInv, NextInv, StutterInv, PTL DEF EventsSpec

\* The registry sends what a published dispatcher has registered, and nothing
\* once neither a dispatcher nor a setup is left, whatever was canceled, refused
\* or not known in between (finishEventStart, finishEventDispatcher).
THEOREM RegistrationsAreTakenBack == EventsSpec => []RegistrationsMatchRuns
  <1>1. IInv => RegistrationsMatchRuns
    BY DEF IInv, RunInv, RemoteInv, RegistrationsMatchRuns
  <1> QED BY <1>1, EventsAreInOrder, PTL

\* Every stream is closed once, when its subscriber is gone, and its events
\* tell every loss (closeEventSubscriber, deliverEvent).
THEOREM StreamsAreClosedAndCounted == EventsSpec => []StreamsAreExact
  <1>1. IInv => StreamsCloseOnce
    <2> SUFFICES ASSUME IInv, NEW c \in Callers
                 PROVE  /\ caller[c].closed <= 1
                        /\ caller[c].pc \in {"stream", "left", "refused"} /\ c \notin ev.subs =>
                              caller[c].closed = 1
                        /\ c \in ev.subs /\ caller[c].pc = "stream" => ev.cancel # Nil
      BY DEF StreamsCloseOnce
    <2>1. caller[c].pc \in Places /\ SubOK(c)
      BY DEF IInv, TypeOK, Records, SubInv
    <2> QED BY <2>1 DEF SubOK, Outside, Gone
  <1>2. IInv => DropsAreCounted
    BY DEF IInv, DropsInv, DropsOK, DropsAreCounted
  <1> QED BY <1>1, <1>2, EventsAreInOrder, PTL DEF StreamsAreExact

\* Every setup that failed with its caller has a canceled caller of its own.
LEMMA FailedAreCanceled ==
    ASSUME IInv
    PROVE  Cardinality(Failed) <= Cardinality(CanceledCallers)
  <1> DEFINE by == [i \in Failed |-> CHOOSE c \in CanceledCallers : caller[c].mine = i]
  <1>1. \A i \in Failed : \E c \in CanceledCallers : caller[c].mine = i
    BY DEF IInv, FailureInv, CanceledCallers
  <1>2. \A i \in Failed : by[i] \in CanceledCallers /\ caller[by[i]].mine = i
    BY <1>1
  <1>3. by \in [Failed -> CanceledCallers] /\ DOMAIN by = Failed
    BY <1>2
  <1> HIDE DEF by
  <1>4. \A i, j \in Failed : by[i] = by[j] => i = j
    BY <1>2
  <1>5. by \in Injection(Failed, CanceledCallers)
    BY <1>3, <1>4 DEF Injection, IsInjective
  <1>6. IsFiniteSet(CanceledCallers)
    BY CallersFinite, FS_Subset DEF CanceledCallers
  <1> QED BY <1>5, <1>6, FS_Injection

\* Until the backend is stopped, a caller that was not canceled itself is told
\* so only after as many others were as it may try again, and one more
\* (waitForEventStart).
THEOREM CancellationStaysPrivate == EventsSpec => []CancellationIsPrivate
  <1>1. IInv => CancellationIsPrivate
    <2> SUFFICES ASSUME IInv, NEW c \in Callers, caller[c].err = "canceled",
                        caller[c].pc = "refused", ~caller[c].canceled, stopper.pc = "idle"
                 PROVE  Cardinality(CanceledCallers) > RetryLimit
      BY DEF CancellationIsPrivate, CanceledCallers
    <2>1. Cardinality(Failed) > RetryLimit
      BY DEF IInv, FailureInv, BlamedOK
    <2>2. IsFiniteSet(CanceledCallers)
      BY CallersFinite, FS_Subset DEF CanceledCallers
    <2>3. Cardinality(Failed) \in Nat /\ Cardinality(CanceledCallers) \in Nat
      BY <2>2, FailedCounted, FS_CardinalityType
    <2> QED BY <2>1, <2>3, FailedAreCanceled, RetryLimitNat
  <1> QED BY <1>1, EventsAreInOrder, PTL
=============================================================================
