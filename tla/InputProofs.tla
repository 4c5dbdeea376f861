----------------------------- MODULE InputProofs -----------------------------
(***************************************************************************)
(* Proofs about the input backends, for any keys, batches, processes,      *)
(* tokens, devices, objects and operations.                                *)
(*                                                                         *)
(* PortalSetup: that a token is offered once is not inductive.  It needs   *)
(* that every token is in one place at most (the file, one process that    *)
(* carries it to the portal or from it, a temporary file that a dead       *)
(* process left) and that one that was offered is in none.                 *)
(*                                                                         *)
(* EisSetup: the identities are distinct in every phase, not only once the *)
(* session is live, because consumeSetupEvent refuses each one that is     *)
(* taken.                                                                  *)
(*                                                                         *)
(* UinputBackend: that what is down between two calls is held is not       *)
(* inductive.  While a call runs, what is down and not held will be        *)
(* released by it, and no key that will be released is held; both rest on  *)
(* the batch being carried out from the holds it was validated with.       *)
(*                                                                         *)
(* RemoteDesktop: that what is down between two commands is held needs the *)
(* frames and actions that are left of the one that runs to be ones that   *)
(* can be carried out from the holds of now, in their order: an action is  *)
(* validated where it stands, and turned into frames only when its turn    *)
(* comes.  That a receipt is true needs that the writer's command is that  *)
(* of a call that has none yet.                                            *)
(*                                                                         *)
(* WlKeyboard: that every held key keeps its meaning needs that a keymap   *)
(* gives no two keys the same slot, which rests on takeSlot giving the     *)
(* n-th key the n-th free slot, and that what is left of a call neither    *)
(* taps what will be held then nor names what the keymap lacks.            *)
(*                                                                         *)
(* XTestBackend: that what is down is the caller's or stuck needs that an  *)
(* action presses no key that is held, and so no two names of one keycode; *)
(* that a character comes out as meant needs that what is down and chooses *)
(* levels is what the action wants.                                        *)
(***************************************************************************)
EXTENDS UinputBackend, WlKeyboard, EisSetup, PortalSetup, RemoteDesktop, XTestBackend,
        SequenceTheorems, FiniteSetTheorems, NaturalsInduction, WellFoundedInduction, TLAPS

-----------------------------------------------------------------------------
(* Opening the portal and the store of restore tokens.                     *)

StepNames == {"bus", "version", "lock", "consume", "session", "subscribe", "select", "start",
              "write", "rename", "eis", "live", "failed", "dead"}

TokenTypes ==
    /\ opener \in [Openers -> [step : StepNames, has : SUBSET StepNames, token : Tokens \cup {Nil}]]
    /\ lock \in Openers \cup {Nil}
    /\ file \in Tokens \cup {Nil}
    /\ temp \in [Openers -> TempFiles \cup {Nil}]
    /\ given \in 0..MaxTokens
    /\ offered \in [Tokens -> Nat]

\* The steps between lockPortalTokenStore and the Close of its lock
Locking == {"consume", "session", "subscribe", "select", "start", "write", "rename", "eis"}

\* The flock is held by the one process that is between the two.
LockInv == \A p \in Openers : opener[p].step \in Locking <=> lock = p

\* A temporary file belongs to a process that writes it or has died, and has
\* the token that the process was given.
TempInv ==
    \A p \in Openers :
        /\ temp[p] # Nil => opener[p].step \in {"write", "rename", "dead"}
        /\ opener[p].step \in {"write", "rename"} => opener[p].token # Nil
        /\ opener[p].step = "rename" => temp[p] # Nil
        /\ opener[p].step \in {"write", "rename"} /\ temp[p] # Nil =>
              temp[p].token = opener[p].token

\* Process p is a place where token t is.
Carries(p, t) ==
    \/ opener[p].step \in {"session", "subscribe", "select", "write", "rename"} /\ opener[p].token = t
    \/ temp[p] # Nil /\ temp[p].token = t

PlaceInv ==
    \A t \in Tokens :
        /\ \A p, q \in Openers : Carries(p, t) /\ Carries(q, t) => p = q
        /\ file = t => offered[t] = 0 /\ \A p \in Openers : ~Carries(p, t)
        /\ \A p \in Openers : Carries(p, t) => offered[t] = 0
        /\ offered[t] <= 1
        /\ t > given => file # t /\ offered[t] = 0 /\ \A p \in Openers : ~Carries(p, t)

TokenInv == TokenTypes /\ LockInv /\ TempInv /\ PlaceInv
-----------------------------------------------------------------------------
\* The order of the steps of OpenRemoteDesktopContext: what follows each.
LEMMA NextSteps ==
    /\ After("bus") = "version" /\ After("version") = "lock" /\ After("lock") = "consume"
    /\ After("consume") = "session" /\ After("session") = "subscribe"
    /\ After("subscribe") = "select" /\ After("select") = "start" /\ After("start") = "write"
    /\ After("write") = "rename" /\ After("rename") = "eis" /\ After("eis") = "live"
  <1>1. DOMAIN Steps = 1..12
    BY DEF Steps
  <1>2. \A i, j \in 1..12 : Steps[i] = Steps[j] => i = j
    BY DEF Steps
  <1>3. ASSUME NEW i \in 1..11 PROVE After(Steps[i]) = Steps[i + 1]
    <2>1. Position(Steps[i]) \in 1..12 /\ Steps[Position(Steps[i])] = Steps[i]
      BY <1>1 DEF Position
    <2> QED BY <2>1, <1>2 DEF After
  <1> QED BY <1>3 DEF Steps

\* The initial states: nobody has anything, no token was given.
LEMMA TokenInitInv == ASSUME TokenInit PROVE TokenInv
  BY PortalAssumption DEF TokenInit, TokenInv, TokenTypes, LockInv, TempInv, PlaceInv, Carries, Tokens, StepNames, Locking

\* A step of OpenRemoteDesktopContext moves one process only.
LEMMA Moves ==
    ASSUME TokenTypes, NEW p \in Openers, NEW has \in SUBSET StepNames, NEW token \in Tokens \cup {Nil},
           opener[p].step \in StepNames \ {"live", "failed", "dead"}, Go(p, has, token)
    PROVE  /\ opener'[p].step = After(opener[p].step) /\ opener'[p].token = token
           /\ \A q \in Openers \ {p} : opener'[q] = opener[q]
           /\ opener' \in [Openers -> [step : StepNames, has : SUBSET StepNames,
                                       token : Tokens \cup {Nil}]]
  <1> DEFINE Records == [step : StepNames, has : SUBSET StepNames, token : Tokens \cup {Nil}]
             gone == [opener[p] EXCEPT !.step = After(@), !.has = @ \cup has, !.token = token]
  <1>1. After(opener[p].step) \in StepNames
    BY NextSteps DEF StepNames
  <1>2. opener \in [Openers -> Records] /\ opener[p] \in Records
    BY DEF TokenTypes
  <1>3. gone \in Records /\ gone.step = After(opener[p].step) /\ gone.token = token
    BY <1>1, <1>2
  <1>4. opener' = [opener EXCEPT ![p] = gone]
    BY <1>2 DEF Go
  <1> HIDE DEF gone
  <1>5. opener' \in [Openers -> Records] /\ opener'[p] = gone
        /\ \A q \in Openers \ {p} : opener'[q] = opener[q]
    BY <1>2, <1>3, <1>4
  <1> QED BY <1>3, <1>5

\* A failure and a death give up what the process had.
LEMMA StepsEnd == {"failed", "dead"} \subseteq StepNames /\ {} \in SUBSET StepNames
  BY DEF StepNames

\* A failed open releases the lock and removes its temporary file.
LEMMA FailInv == ASSUME TokenInv, NEW p \in Openers, OpenFails(p) PROVE TokenInv'
  <1> USE PortalAssumption DEF TokenInv
  <1>1. TokenTypes'
    BY StepsEnd DEF OpenFails, Failed, Release, TokenTypes
  <1>2. LockInv'
    BY DEF OpenFails, Failed, Release, TokenTypes, StepNames, LockInv, Locking
  <1>3. TempInv'
    BY DEF OpenFails, Failed, Release, TokenTypes, TempInv
  <1>4. PlaceInv'
    BY DEF OpenFails, Failed, Release, TokenTypes, PlaceInv, Carries
  <1> QED BY <1>1, <1>2, <1>3, <1>4

\* A death leaves the temporary file, and with it the place of its token.
LEMMA DieInv == ASSUME TokenInv, NEW p \in Openers, Die(p) PROVE TokenInv'
  <1> USE PortalAssumption DEF TokenInv
  <1>1. TokenTypes'
    BY StepsEnd DEF Die, TokenTypes
  <1>2. LockInv'
    BY DEF Die, TokenTypes, LockInv, Locking
  <1>3. TempInv'
    BY DEF Die, TokenTypes, TempInv
  <1>4. PlaceInv'
    BY DEF Die, TokenTypes, PlaceInv, Carries
  <1> QED BY <1>1, <1>2, <1>3, <1>4

\* The steps that only acquire move no token.
LEMMA AcquireInv == ASSUME TokenInv, NEW p \in Openers, Acquire(p) PROVE TokenInv'
  <1> USE PortalAssumption DEF TokenInv
  <1>1. /\ opener'[p].step = After(opener[p].step) /\ opener'[p].token = opener[p].token
        /\ \A q \in Openers \ {p} : opener'[q] = opener[q]
        /\ opener' \in [Openers -> [step : StepNames, has : SUBSET StepNames,
                                    token : Tokens \cup {Nil}]]
    <2>1. opener[p].token \in Tokens \cup {Nil} /\ {opener[p].step} \in SUBSET StepNames
      BY DEF TokenTypes
    <2>2. opener[p].step \in StepNames \ {"live", "failed", "dead"} /\ Go(p, {opener[p].step}, opener[p].token)
      BY DEF Acquire, StepNames
    <2> QED BY <2>1, <2>2, Moves
  <1>2. TokenTypes'
    BY <1>1 DEF Acquire, TokenTypes
  <1>3. LockInv'
    BY <1>1, NextSteps DEF Acquire, TokenTypes, LockInv, Locking
  <1>4. TempInv'
    BY <1>1, NextSteps DEF Acquire, TokenTypes, TempInv
  <1>5. PlaceInv'
    <2>1. \A q \in Openers, t \in Tokens : Carries(q, t)' => Carries(q, t)
      BY <1>1, NextSteps DEF Acquire, TokenTypes, Carries
    <2> QED BY <2>1 DEF Acquire, PlaceInv, TokenTypes
  <1> QED BY <1>2, <1>3, <1>4, <1>5

\* lockPortalTokenStore: the one process that goes on has the flock.
LEMMA LockStoreInv == ASSUME TokenInv, NEW p \in Openers, LockStore(p) PROVE TokenInv'
  <1> USE PortalAssumption DEF TokenInv
  <1>1. /\ opener'[p].step = "consume" /\ opener'[p].token = Nil
        /\ \A q \in Openers \ {p} : opener'[q] = opener[q]
        /\ opener' \in [Openers -> [step : StepNames, has : SUBSET StepNames,
                                    token : Tokens \cup {Nil}]]
    BY StepsEnd, NextSteps, Moves DEF LockStore, StepNames
  <1>2. TokenTypes'
    BY <1>1 DEF LockStore, TokenTypes
  <1>3. LockInv'
    BY <1>1 DEF LockStore, TokenTypes, LockInv, Locking
  <1>4. TempInv'
    BY <1>1 DEF LockStore, TokenTypes, TempInv
  <1>5. PlaceInv'
    <2>1. \A q \in Openers, t \in Tokens : Carries(q, t)' => Carries(q, t)
      BY <1>1 DEF LockStore, TokenTypes, Carries
    <2> QED BY <2>1 DEF LockStore, PlaceInv, TokenTypes
  <1> QED BY <1>2, <1>3, <1>4, <1>5

\* consume: the token leaves its file for the process.
LEMMA ConsumeInv == ASSUME TokenInv, NEW p \in Openers, Consume(p) PROVE TokenInv'
  <1> USE PortalAssumption DEF TokenInv
  <1>1. /\ opener'[p].step = "session" /\ opener'[p].token = file
        /\ \A q \in Openers \ {p} : opener'[q] = opener[q]
        /\ opener' \in [Openers -> [step : StepNames, has : SUBSET StepNames,
                                    token : Tokens \cup {Nil}]]
    BY StepsEnd, NextSteps, Moves, ZenonT(30) DEF Consume, StepNames, TokenTypes
  <1>2. TokenTypes'
    BY <1>1 DEF Consume, TokenTypes
  <1>3. LockInv'
    BY <1>1 DEF Consume, TokenTypes, LockInv, Locking
  <1>4. TempInv'
    BY <1>1 DEF Consume, TokenTypes, TempInv
  <1>5. PlaceInv'
    <2>1. \A q \in Openers \ {p}, t \in Tokens : Carries(q, t)' <=> Carries(q, t)
      BY <1>1 DEF Consume, TokenTypes, Carries
    <2>2. \A t \in Tokens : Carries(p, t)' => file = t
      BY <1>1 DEF Consume, TokenTypes, Carries, TempInv
    <2>3. \A t \in Tokens : file' # t
      BY DEF Consume
    <2> QED BY <2>1, <2>2, <2>3 DEF Consume, PlaceInv, TokenTypes
  <1> QED BY <1>2, <1>3, <1>4, <1>5

\* SelectDevices: the token leaves the process for the portal.
LEMMA SelectDevicesInv == ASSUME TokenInv, NEW p \in Openers, SelectDevices(p) PROVE TokenInv'
  <1> USE PortalAssumption DEF TokenInv
  <1>1. /\ opener'[p].step = "start" /\ opener'[p].token = Nil
        /\ \A q \in Openers \ {p} : opener'[q] = opener[q]
        /\ opener' \in [Openers -> [step : StepNames, has : SUBSET StepNames,
                                    token : Tokens \cup {Nil}]]
    BY StepsEnd, NextSteps, Moves DEF SelectDevices, StepNames
  <1>2. TokenTypes'
    BY <1>1 DEF SelectDevices, TokenTypes
  <1>3. LockInv'
    BY <1>1 DEF SelectDevices, TokenTypes, LockInv, Locking
  <1>4. TempInv'
    BY <1>1 DEF SelectDevices, TokenTypes, TempInv
  <1>5. PlaceInv'
    <2>1. \A q \in Openers \ {p}, t \in Tokens : Carries(q, t)' <=> Carries(q, t)
      BY <1>1 DEF SelectDevices, TokenTypes, Carries
    <2>2. \A t \in Tokens : ~Carries(p, t)'
      BY <1>1 DEF SelectDevices, TokenTypes, Carries, TempInv
    <2>3. \A t \in Tokens : offered'[t] = IF opener[p].token = t THEN offered[t] + 1 ELSE offered[t]
      BY DEF SelectDevices, TokenTypes
    <2>4. \A t \in Tokens : opener[p].token = t => Carries(p, t)
      BY DEF SelectDevices, Carries
    <2>5. file' = file /\ given' = given
      BY DEF SelectDevices
    <2> HIDE PortalAssumption
    <2> QED BY <2>1, <2>2, <2>3, <2>4, <2>5 DEF PlaceInv, TokenTypes
  <1> QED BY <1>2, <1>3, <1>4, <1>5

\* Start: a token that was nowhere is with the process.
LEMMA StartInv == ASSUME TokenInv, NEW p \in Openers, Start(p) PROVE TokenInv'
  <1> USE PortalAssumption DEF TokenInv
  <1>0. given + 1 \in Tokens /\ given' = given + 1
    BY DEF Start, TokenTypes, Tokens
  <1>1. /\ opener'[p].step = "write" /\ opener'[p].token = given + 1
        /\ \A q \in Openers \ {p} : opener'[q] = opener[q]
        /\ opener' \in [Openers -> [step : StepNames, has : SUBSET StepNames,
                                    token : Tokens \cup {Nil}]]
    BY <1>0, StepsEnd, NextSteps, Moves DEF Start, StepNames
  <1>2. TokenTypes'
    BY <1>0, <1>1 DEF Start, TokenTypes, Tokens
  <1>3. LockInv'
    BY <1>1 DEF Start, TokenTypes, LockInv, Locking
  <1>4. TempInv'
    BY <1>0, <1>1 DEF Start, TokenTypes, TempInv
  <1>5. PlaceInv'
    <2>1. \A q \in Openers \ {p}, t \in Tokens : Carries(q, t)' <=> Carries(q, t)
      BY <1>1 DEF Start, TokenTypes, Carries
    <2>2. \A t \in Tokens : Carries(p, t)' => t = given + 1
      BY <1>1 DEF Start, TokenTypes, Carries, TempInv
    <2>3. \A t \in Tokens : t \in Nat /\ (t > given + 1 => t > given)
      BY DEF Tokens, TokenTypes
    <2>4. given + 1 > given
      BY DEF TokenTypes
    <2> QED BY <1>0, <2>1, <2>2, <2>3, <2>4 DEF Start, PlaceInv, TokenTypes
  <1> QED BY <1>2, <1>3, <1>4, <1>5

\* store: the temporary file is a second copy in the same process.
LEMMA WriteInv == ASSUME TokenInv, NEW p \in Openers, WriteToken(p) PROVE TokenInv'
  <1> USE PortalAssumption DEF TokenInv
  <1>1. opener[p].token \in Tokens /\ opener[p].step = "write"
    BY DEF WriteToken, TokenTypes, TempInv
  <1>2. CASE temp[p] = Nil
    <2>1. UNCHANGED opener /\ temp' = [temp EXCEPT ![p] = [token |-> opener[p].token, whole |-> FALSE]]
      BY <1>2 DEF WriteToken
    <2>2. TokenTypes' /\ temp'[p] # Nil
      <3>1. [token |-> opener[p].token, whole |-> FALSE] \in TempFiles
        BY <1>1 DEF TempFiles
      <3> QED BY <2>1, <3>1 DEF WriteToken, TokenTypes
    <2>3. LockInv'
      BY <2>1 DEF WriteToken, LockInv
    <2>4. TempInv'
      BY <1>1, <2>1, <2>2 DEF TokenTypes, TempInv
    <2>5. PlaceInv'
      <3>1. \A q \in Openers, t \in Tokens : Carries(q, t)' <=> Carries(q, t)
        BY <1>1, <1>2, <2>1, <2>2 DEF TokenTypes, Carries
      <3> QED BY <3>1 DEF WriteToken, PlaceInv
    <2> QED BY <2>2, <2>3, <2>4, <2>5
  <1>3. CASE temp[p] # Nil
    <2>1. Go(p, {}, opener[p].token) /\ temp' = [temp EXCEPT ![p].whole = TRUE]
      BY <1>3 DEF WriteToken
    <2>2. /\ opener'[p].step = "rename" /\ opener'[p].token = opener[p].token
          /\ \A q \in Openers \ {p} : opener'[q] = opener[q]
          /\ opener' \in [Openers -> [step : StepNames, has : SUBSET StepNames,
                                      token : Tokens \cup {Nil}]]
      BY <1>1, <2>1, StepsEnd, NextSteps, Moves DEF StepNames
    <2>3. temp'[p].token = temp[p].token /\ temp' \in [Openers -> TempFiles \cup {Nil}] /\ temp'[p] # Nil
      BY <1>3, <2>1 DEF TokenTypes, TempFiles
    <2>4. TokenTypes'
      BY <2>2, <2>3 DEF WriteToken, TokenTypes
    <2>5. LockInv'
      BY <1>1, <2>2 DEF WriteToken, TokenTypes, LockInv, Locking
    <2>6. TempInv'
      BY <1>1, <1>3, <2>1, <2>2, <2>3 DEF TokenTypes, TempInv
    <2>7. PlaceInv'
      <3>1. \A q \in Openers, t \in Tokens : Carries(q, t)' <=> Carries(q, t)
        BY <1>1, <1>3, <2>1, <2>2, <2>3 DEF TokenTypes, Carries
      <3> QED BY <3>1 DEF WriteToken, PlaceInv
    <2> QED BY <2>4, <2>5, <2>6, <2>7
  <1> QED BY <1>2, <1>3

\* The rename: the token leaves the process and its temporary file for the file.
LEMMA RenameInv == ASSUME TokenInv, NEW p \in Openers, RenameToken(p) PROVE TokenInv'
  <1> USE PortalAssumption DEF TokenInv
  <1>1. /\ opener[p].token \in Tokens /\ opener[p].step = "rename"
        /\ temp[p].token = opener[p].token /\ temp[p] # Nil
    BY DEF RenameToken, TokenTypes, TempInv
  <1>2. /\ opener'[p].step = "eis" /\ opener'[p].token = opener[p].token
        /\ \A q \in Openers \ {p} : opener'[q] = opener[q]
        /\ opener' \in [Openers -> [step : StepNames, has : SUBSET StepNames,
                                    token : Tokens \cup {Nil}]]
    BY <1>1, StepsEnd, NextSteps, Moves DEF RenameToken, StepNames
  <1>3. TokenTypes'
    BY <1>1, <1>2 DEF RenameToken, TokenTypes
  <1>4. LockInv'
    BY <1>2 DEF RenameToken, TokenTypes, LockInv, Locking
  <1>5. TempInv'
    BY <1>2 DEF RenameToken, TokenTypes, TempInv
  <1>6. PlaceInv'
    <2>1. \A q \in Openers \ {p}, t \in Tokens : Carries(q, t)' <=> Carries(q, t)
      BY <1>2 DEF RenameToken, TokenTypes, Carries
    <2>2. \A t \in Tokens : ~Carries(p, t)'
      BY <1>2 DEF RenameToken, TokenTypes, Carries
    <2>3. Carries(p, opener[p].token) /\ file' = opener[p].token
      BY <1>1 DEF RenameToken, Carries
    <2>4. offered' = offered /\ given' = given
      BY DEF RenameToken
    <2> HIDE PortalAssumption
    <2> QED BY <1>1, <2>1, <2>2, <2>3, <2>4, SMTT(30) DEF PlaceInv, TokenTypes
  <1> QED BY <1>3, <1>4, <1>5, <1>6

\* Every step keeps the invariant.
LEMMA TokenNextInv == ASSUME TokenInv, [TokenNext]_pvars PROVE TokenInv'
  <1>1. CASE UNCHANGED pvars
    BY <1>1 DEF pvars, TokenInv, TokenTypes, LockInv, TempInv, PlaceInv, Carries
  <1>2. CASE TokenNext
    BY <1>2, FailInv, DieInv, AcquireInv, LockStoreInv, ConsumeInv, SelectDevicesInv, StartInv,
       WriteInv, RenameInv DEF TokenNext
  <1> QED BY <1>1, <1>2

\* The invariant says what TokensAreSingleUse says.
LEMMA TokenInvImplies == ASSUME TokenInv PROVE TokensAreSingleUse
  BY PortalAssumption DEF TokenInv, TokenTypes, LockInv, Locking, TempInv, PlaceInv, Carries, TokensAreSingleUse

\* Whatever processes open the portal at the same time and wherever they fail
\* or die, a restore token is offered at most once, is nowhere else while it is
\* in the file, and a failed open keeps neither the lock nor a file (consume
\* unlinks before the offer, store renames at last).
THEOREM SingleUse == TokenSpec => []TokensAreSingleUse
  <1>1. TokenInit => TokenInv
    BY TokenInitInv
  <1>2. TokenInv /\ [TokenNext]_pvars => TokenInv'
    BY TokenNextInv
  <1>3. TokenInv => TokensAreSingleUse
    BY TokenInvImplies
  <1> QED BY <1>1, <1>2, <1>3, PTL DEF TokenSpec

\* The read and the unlink of consume, and the write and the rename of store,
\* are made by one process at a time: the flock excludes every other between
\* lockPortalTokenStore and its Close.
THEOREM StoreIsExclusive == TokenSpec => [](\A p, q \in Openers :
                        opener[p].step \in Locking /\ opener[q].step \in Locking => p = q)
  <1>1. TokenInit => TokenInv
    BY TokenInitInv
  <1>2. TokenInv /\ [TokenNext]_pvars => TokenInv'
    BY TokenNextInv
  <1>3. TokenInv => \A p, q \in Openers :
                   opener[p].step \in Locking /\ opener[q].step \in Locking => p = q
    BY DEF TokenInv, LockInv
  <1> QED BY <1>1, <1>2, <1>3, PTL DEF TokenSpec

-----------------------------------------------------------------------------
(* Setting up the EIS sender.                                              *)

Phases == {"handshake", "connection", "seat", "caps", "devices", "live", "revoked", "failed"}

EisTypes ==
    /\ phase \in Phases
    /\ caps \in SUBSET Interfaces
    /\ devices \in [Devices -> DeviceRecords \cup {None}]
    /\ synced \in BOOLEAN
    /\ chosen \in [Interfaces -> Devices \cup {None}]

\* No interface has the identity of a device or of another interface.
DistinctInv ==
    \A d \in Announced, i \in Interfaces : devices[d].ifaces[i] # None =>
        /\ devices[d].ifaces[i] \notin Announced
        /\ \A e \in Announced, j \in Interfaces :
              devices[e].ifaces[j] = devices[d].ifaces[i] => e = d /\ j = i

\* A live session's devices are announced and usable.
ChosenInv ==
    phase = "live" => \A i \in Interfaces : chosen[i] \in Announced /\ Usable(chosen[i], i)

EisInv == EisTypes /\ DistinctInv /\ ChosenInv

-----------------------------------------------------------------------------
\* Nothing is announced at first.
LEMMA EisInitInv == ASSUME EisInit PROVE EisInv
  BY EisAssumption DEF EisInit, EisInv, EisTypes, Phases, DistinctInv, ChosenInv, Announced

\* A step that changes no device changes no identity.
LEMMA SameDevices ==
    ASSUME DistinctInv, UNCHANGED devices PROVE DistinctInv' /\ Announced' = Announced
  BY DEF DistinctInv, Announced

\* SetupFails, Greet, Capability, SeatDone and Callback change no device and do not
\* start the session.
LEMMA QuietInv ==
    ASSUME EisInv,
           SetupFails \/ Greet \/ SeatDone \/ Callback \/ \E i \in Interfaces : Capability(i)
    PROVE  EisInv'
  <1>1. EisTypes' /\ phase' # "live" /\ UNCHANGED devices
    BY DEF EisInv, EisTypes, Phases, SetupFails, Greet, SeatDone, Callback, Capability, Consuming
  <1> QED BY <1>1, SameDevices DEF EisInv, ChosenInv

\* A device whose record changes but for its interfaces: no identity changes.
LEMMA SameIdentities ==
    ASSUME EisTypes, DistinctInv, NEW d \in Announced, NEW r \in DeviceRecords,
           r.ifaces = devices[d].ifaces, devices' = [devices EXCEPT ![d] = r]
    PROVE  /\ DistinctInv' /\ Announced' = Announced
           /\ devices' \in [Devices -> DeviceRecords \cup {None}]
  <1>1. devices' \in [Devices -> DeviceRecords \cup {None}] /\ r # None
    BY EisAssumption DEF EisTypes, Announced
  <1>2. Announced' = Announced
    BY <1>1 DEF EisTypes, Announced
  <1>3. \A e \in Announced : devices'[e].ifaces = devices[e].ifaces
    BY DEF EisTypes, Announced
  <1> QED BY <1>1, <1>2, <1>3 DEF DistinctInv

\* A new device has an identity that no device and no interface has.
LEMMA AnnounceInv == ASSUME EisInv, NEW d \in Devices, AnnounceDevice(d) PROVE EisInv'
  <1> USE DEF EisInv
  <1>1. phase' \in {"devices", "failed"} /\ UNCHANGED <<caps, synced, chosen>>
    BY DEF AnnounceDevice, Consuming
  <1>2. CASE d \in Taken
    BY <1>1, <1>2, SameDevices DEF AnnounceDevice, EisTypes, Phases, ChosenInv
  <1>3. CASE d \notin Taken
    <2>1. devices' = [devices EXCEPT ![d] = NewDevice]
      BY <1>3 DEF AnnounceDevice
    <2>2. NewDevice \in DeviceRecords /\ NewDevice # None /\ NewDevice.ifaces = [i \in Interfaces |-> None]
      <3>1. [i \in Interfaces |-> None] \in [Interfaces -> Objects \cup {None}]
        OBVIOUS
      <3>2. NewDevice \in DeviceRecords /\ NewDevice.ifaces = [i \in Interfaces |-> None]
        BY <3>1 DEF NewDevice, DeviceRecords
      <3> QED BY <3>2, EisAssumption
    <2>3. Announced' = Announced \cup {d}
      BY <2>1, <2>2 DEF Announced, EisTypes
    <2>4. EisTypes'
      BY <1>1, <2>1, <2>2 DEF EisTypes, Phases
    <2>5. \A i \in Interfaces : devices'[d].ifaces[i] = None
      BY <2>1, <2>2 DEF EisTypes
    <2>6. \A e \in Announced : devices'[e] = devices[e] /\ e # d
      BY <1>3, <2>1 DEF Taken, EisTypes, Announced
    <2>7. \A e \in Announced, i \in Interfaces : devices[e].ifaces[i] # d
      BY <1>3 DEF Taken
    <2>8. DistinctInv'
      BY <2>3, <2>5, <2>6, <2>7 DEF DistinctInv
    <2> QED BY <1>1, <2>4, <2>8 DEF ChosenInv
  <1> QED BY <1>2, <1>3

\* A new interface has an identity that no device and no interface has.
LEMMA InterfaceInv ==
    ASSUME EisInv, NEW d \in Devices, NEW i \in Interfaces, NEW o \in Objects,
           AddInterface(d, i, o)
    PROVE  EisInv'
  <1> USE DEF EisInv
  <1>1. phase' \in {"devices", "failed"} /\ UNCHANGED <<caps, synced, chosen>> /\ d \in Announced
    BY DEF AddInterface, Consuming
  <1>2. CASE UNCHANGED devices
    BY <1>1, <1>2, SameDevices DEF EisTypes, Phases, ChosenInv
  <1>3. CASE o \notin Taken /\ devices' = [devices EXCEPT ![d].ifaces[i] = o]
    <2>1. devices[d] \in DeviceRecords
      BY <1>1 DEF EisTypes, Announced
    <2>2. /\ devices'[d] = [devices[d] EXCEPT !.ifaces[i] = o]
          /\ \A e \in Devices \ {d} : devices'[e] = devices[e]
      BY <1>3 DEF EisTypes
    <2>3. devices'[d] \in DeviceRecords
      BY <2>1, <2>2 DEF DeviceRecords
    <2>4. devices' \in [Devices -> DeviceRecords \cup {None}]
      BY <1>3, <2>1, <2>2, <2>3 DEF EisTypes
    <2>5. Announced' = Announced
      BY <1>1, <2>2, <2>3, <2>4, EisAssumption DEF Announced
    <2>6. EisTypes'
      BY <1>1, <2>4 DEF EisTypes, Phases
    <2>7. /\ \A j \in Interfaces \ {i} : devices'[d].ifaces[j] = devices[d].ifaces[j]
          /\ devices'[d].ifaces[i] = o
      BY <2>1, <2>2 DEF DeviceRecords
    <2>8. /\ o \notin Announced /\ o # None
          /\ \A e \in Announced, j \in Interfaces : devices[e].ifaces[j] # o
      BY <1>3, EisAssumption DEF Taken
    <2>9. Announced \subseteq Devices
      BY DEF Announced
    <2>10. \A e \in Announced, j \in Interfaces :
              devices'[e].ifaces[j] = IF e = d /\ j = i THEN o ELSE devices[e].ifaces[j]
      BY <2>2, <2>7, <2>9
    <2>11. DistinctInv'
      <3> SUFFICES ASSUME NEW e \in Announced, NEW j \in Interfaces, devices'[e].ifaces[j] # None
                   PROVE  /\ devices'[e].ifaces[j] \notin Announced
                          /\ \A f \in Announced, k \in Interfaces :
                                devices'[f].ifaces[k] = devices'[e].ifaces[j] => f = e /\ k = j
        BY <2>5 DEF DistinctInv
      <3>1. CASE e = d /\ j = i
        BY <2>8, <2>10, <3>1
      <3>2. CASE ~(e = d /\ j = i)
        BY <2>8, <2>10, <3>2 DEF DistinctInv
      <3> QED BY <3>1, <3>2
    <2> QED BY <1>1, <2>6, <2>11 DEF ChosenInv
  <1> QED BY <1>2, <1>3 DEF AddInterface

\* The other events of a device change none of its identities.
LEMMA EventInv ==
    ASSUME EisInv, NEW d \in Devices,
           \/ AddRegion(d)
           \/ \E event \in {"done", "resumed", "paused", "destroyed"} : DeviceEvent(d, event)
    PROVE  EisInv'
  <1> USE DEF EisInv
  <1>1. phase' \in {"devices", "failed"} /\ UNCHANGED <<caps, synced, chosen>> /\ d \in Announced
    BY DEF AddRegion, DeviceEvent, Consuming
  <1>2. devices[d] \in DeviceRecords
    BY <1>1 DEF EisTypes, Announced
  <1>3. \/ UNCHANGED devices
        \/ \E r \in DeviceRecords :
              r.ifaces = devices[d].ifaces /\ devices' = [devices EXCEPT ![d] = r]
    <2> DEFINE Region == [devices[d] EXCEPT !.region = TRUE]
               Done == [devices[d] EXCEPT !.done = TRUE]
               Resumed(b) == [devices[d] EXCEPT !.resumed = b]
    <2>1. /\ Region \in DeviceRecords /\ Region.ifaces = devices[d].ifaces
          /\ Done \in DeviceRecords /\ Done.ifaces = devices[d].ifaces
          /\ \A b \in BOOLEAN : Resumed(b) \in DeviceRecords /\ Resumed(b).ifaces = devices[d].ifaces
      BY <1>2 DEF DeviceRecords
    <2>2. \/ UNCHANGED devices
          \/ devices' = [devices EXCEPT ![d] = Region]
          \/ devices' = [devices EXCEPT ![d] = Done]
          \/ \E b \in BOOLEAN : devices' = [devices EXCEPT ![d] = Resumed(b)]
      BY DEF AddRegion, DeviceEvent, EisTypes
    <2> QED BY <2>1, <2>2
  <1>4. DistinctInv' /\ devices' \in [Devices -> DeviceRecords \cup {None}]
    BY <1>1, <1>3, SameDevices, SameIdentities DEF EisTypes
  <1> QED BY <1>1, <1>4 DEF EisTypes, Phases, ChosenInv

\* devicesReady selects usable devices only.
LEMMA SelectInv == ASSUME EisInv, Select PROVE EisInv'
  <1> USE DEF EisInv
  <1>1. PICK c \in [Interfaces -> Announced] :
           (\A i \in Interfaces : Usable(c[i], i)) /\ chosen' = c
    BY DEF Select
  <1>2. EisTypes'
    BY <1>1 DEF Select, EisTypes, Phases, Announced
  <1>3. ChosenInv'
    BY <1>1 DEF Select, ChosenInv, Usable, Announced
  <1> QED BY <1>2, <1>3, SameDevices DEF Select

\* watchLifecycle ends the session when one of its devices is not usable any
\* more.
LEMMA WatchInv ==
    ASSUME EisInv, NEW d \in Devices, NEW event \in {"resumed", "paused", "destroyed"},
           WatchEvent(d, event)
    PROVE  EisInv'
  <1> USE DEF EisInv
  <1> DEFINE r == [devices[d] EXCEPT !.resumed = (event = "resumed")]
  <1>1. d \in Announced /\ phase = "live" /\ UNCHANGED <<caps, synced, chosen>>
    BY DEF WatchEvent
  <1>2. devices[d] \in DeviceRecords
    BY <1>1 DEF EisTypes, Announced
  <1>3. /\ r \in DeviceRecords /\ r.ifaces = devices[d].ifaces /\ r.done = devices[d].done
        /\ r.region = devices[d].region /\ r.resumed = (event = "resumed")
    BY <1>2 DEF DeviceRecords
  <1>4. devices' = [devices EXCEPT ![d] = r]
    BY DEF WatchEvent, EisTypes
  <1>5. DistinctInv' /\ Announced' = Announced /\ devices' \in [Devices -> DeviceRecords \cup {None}]
    BY <1>1, <1>3, <1>4, SameIdentities
  <1>6. EisTypes'
    BY <1>1, <1>5 DEF WatchEvent, EisTypes, Phases
  <1>7. ASSUME phase' = "live", NEW i \in Interfaces
        PROVE  chosen'[i] \in Announced' /\ Usable(chosen[i], i)'
    <2>1. chosen[i] \in Announced /\ Usable(chosen[i], i)
      BY <1>1 DEF ChosenInv
    <2>2. chosen[i] = d => event = "resumed"
      BY <1>7 DEF WatchEvent, LifecycleFailure
    <2>3. chosen[i] \in Devices
      BY <2>1 DEF Announced
    <2>4. CASE chosen[i] = d
      BY <1>1, <1>3, <1>4, <1>5, <2>1, <2>2, <2>4 DEF Usable, EisTypes
    <2>5. CASE chosen[i] # d
      BY <1>1, <1>4, <1>5, <2>1, <2>3, <2>5 DEF Usable, EisTypes
    <2> QED BY <2>4, <2>5
  <1>8. ChosenInv'
    BY <1>1, <1>7 DEF ChosenInv
  <1> QED BY <1>5, <1>6, <1>8

\* Every step keeps the invariant.
LEMMA EisNextInv == ASSUME EisInv, [EisNext]_evars PROVE EisInv'
  <1>1. CASE UNCHANGED evars
    BY <1>1 DEF evars, EisInv, EisTypes, DistinctInv, ChosenInv, Announced, Usable
  <1>2. CASE EisNext
    BY <1>2, QuietInv, AnnounceInv, InterfaceInv, EventInv, SelectInv, WatchInv DEF EisNext
  <1> QED BY <1>1, <1>2

\* Whatever events the server sends in whatever order, input of a live session
\* goes to devices that are complete, resumed, have the interface and, for the
\* pointer, a region, and no two objects share an identity (consumeSetupEvent,
\* devicesReady, isReservedEISObject, isEISLifecycleFailure).
THEOREM UsableDevices == EisSpec => []OnlyUsableDevices
  <1>1. EisInit => EisInv
    BY EisInitInv
  <1>2. EisInv /\ [EisNext]_evars => EisInv'
    BY EisNextInv
  <1>3. EisInv => OnlyUsableDevices
    BY DEF EisInv, DistinctInv, ChosenInv, OnlyUsableDevices
  <1> QED BY <1>1, <1>2, <1>3, PTL DEF EisSpec


-----------------------------------------------------------------------------
(* Key and button injection through uinput.                                *)

\* The batch b can be carried out from the holds h.
ValidFrom(h, b) == \A i \in DOMAIN b : b[i].kind = "up" <=> HeldBefore(h, b, i, b[i].key)

\* The holds after action a.
HoldsAfter(h, a) == IF a.kind = "down" THEN h \cup {a.key}
                    ELSE IF a.kind = "up" THEN h \ {a.key} ELSE h

CallSteps == {"idle", "next", "mods", "release", "fail", "click"}

KeyTypes ==
    /\ pc \in CallSteps
    /\ batch \in Seq(Actions)
    /\ pressed \in Seq(Mods)
    /\ temps \subseteq Mods

\* What is left of the batch can be carried out from the holds of now; while an
\* action is released, what follows it.
BatchInv ==
    /\ pc \in {"next", "mods"} => Valid(batch)
    /\ pc \in {"mods", "release"} => batch # <<>>
    /\ pc = "release" => Valid(Tail(batch))

\* What is down and not held will be released; what is held and will be released
\* is aliased.
KeyInv ==
    /\ held \ aliased \subseteq down
    /\ down \ held \subseteq stuck \cup ToSet(pressed)
    /\ ToSet(pressed) \cap held \subseteq aliased
    /\ pc = "mods" => temps \cap held = {} /\ temps \cup ToSet(pressed) \subseteq Current.mods
    /\ pc \in {"idle", "next", "click"} => pressed = <<>>

ButtonInv ==
    /\ buttons \subseteq Buttons
    /\ pc # "click" => buttons \subseteq caller \cup stuck

UinputInv == KeyTypes /\ BatchInv /\ KeyInv /\ ButtonInv

-----------------------------------------------------------------------------

\* The validation of a batch decides its first action by the holds of now
\* (validateHeldModifierSequence).
LEMMA ValidHead ==
    ASSUME NEW h, NEW b \in Seq(Actions), b # <<>>, ValidFrom(h, b)
    PROVE  Head(b).kind = "up" <=> Head(b).key \in h
<1>1. 1 \in DOMAIN b /\ Head(b) = b[1]
  OBVIOUS
<1>2. \A k : Changes(b, 1, k) = {}
  BY DEF Changes
<1> QED
  BY <1>1, <1>2 DEF ValidFrom, HeldBefore

\* What a key is held by before an action is what it is held by after the first
\* action and before the same action of the rest (validateHeldModifierSequence).
LEMMA HeldOfTail ==
    ASSUME NEW h, NEW S, NEW b \in Seq(S), b # <<>>, NEW i \in DOMAIN Tail(b), NEW k
    PROVE  HeldBefore(h, b, i + 1, k) <=> HeldBefore(HoldsAfter(h, b[1]), Tail(b), i, k)
<1> DEFINE C == Changes(b, i + 1, k)
           D == Changes(Tail(b), i, k)
           g == HoldsAfter(h, b[1])
<1>0. /\ i \in Nat /\ i >= 1 /\ i <= Len(b) - 1 /\ Len(b) \in Nat
      /\ \A j \in 1..i : j \in Nat /\ j \in DOMAIN Tail(b) /\ Tail(b)[j] = b[j + 1]
  OBVIOUS
<1>1. \A j \in D : j \in 1..(i - 1) /\ j + 1 \in C /\ Tail(b)[j].kind = b[j + 1].kind
  BY <1>0 DEF Changes
<1>2. \A j \in C : j \in Nat /\ (j = 1 \/ (j - 1 \in D /\ Tail(b)[j - 1].kind = b[j].kind))
  <2>1. TAKE j \in C
  <2>2. j \in 1..i
    BY <2>1, <1>0 DEF Changes
  <2>3. CASE j = 1
    BY <2>2, <2>3
  <2>4. CASE j # 1
    <3>1. j - 1 \in 1..(i - 1) /\ j - 1 \in 1..i /\ (j - 1) + 1 = j
      BY <2>2, <2>4, <1>0
    <3>2. Tail(b)[j - 1] = b[j]
      BY <3>1, <1>0
    <3> QED
      BY <2>1, <2>2, <3>1, <3>2 DEF Changes
  <2> QED
    BY <2>3, <2>4
<1>3. 1 \in C <=> b[1].kind \in {"down", "up"} /\ b[1].key = k
  BY <1>0 DEF Changes
<1>4. 1 \in C => (k \in g <=> b[1].kind = "down")
  BY <1>3 DEF HoldsAfter
<1>5. 1 \notin C => (k \in g <=> k \in h)
  BY <1>3 DEF HoldsAfter
<1>6. HeldBefore(h, b, i + 1, k) <=>
        (C = {} /\ k \in h) \/ \E j \in C : b[j].kind = "down" /\ \A l \in C : l <= j
  BY DEF HeldBefore
<1>7. HeldBefore(g, Tail(b), i, k) <=>
        (D = {} /\ k \in g) \/ \E j \in D : Tail(b)[j].kind = "down" /\ \A l \in D : l <= j
  BY DEF HeldBefore
<1>8. D \subseteq Nat
  BY <1>0, <1>1
<1> HIDE DEF C, D, g
<1>9. CASE D = {} /\ 1 \notin C
  <2>1. C = {}
    BY <1>2, <1>9
  <2> QED
    BY <2>1, <1>5, <1>6, <1>7, <1>9 DEF g
<1>10. CASE D = {} /\ 1 \in C
  <2>1. C = {1}
    BY <1>2, <1>10
  <2> QED
    BY <2>1, <1>4, <1>6, <1>7, <1>10 DEF g
<1>11. CASE D # {}
  <2>1. ASSUME NEW j \in C, b[j].kind = "down", \A l \in C : l <= j
        PROVE  \E m \in D : Tail(b)[m].kind = "down" /\ \A l \in D : l <= m
    <3>1. j # 1 /\ j \in Nat
      <4>1. PICK d \in D : TRUE
        BY <1>11
      <4>2. d \in 1..(i - 1) /\ d + 1 <= j
        BY <4>1, <1>1, <2>1
      <4> QED
        BY <4>2, <1>0, <1>2, <2>1
    <3>2. j - 1 \in D /\ Tail(b)[j - 1].kind = "down"
      BY <3>1, <1>2, <2>1
    <3>3. \A l \in D : l <= j - 1
      <4>1. TAKE l \in D
      <4>2. l \in Nat /\ l + 1 <= j
        BY <4>1, <1>1, <1>8, <2>1
      <4> QED
        BY <4>2, <3>1
    <3> QED
      BY <3>2, <3>3
  <2>2. ASSUME NEW j \in D, Tail(b)[j].kind = "down", \A l \in D : l <= j
        PROVE  \E m \in C : b[m].kind = "down" /\ \A l \in C : l <= m
    <3>1. j \in Nat /\ j + 1 \in C /\ b[j + 1].kind = "down"
      BY <1>1, <1>8, <2>2
    <3>2. \A l \in C : l <= j + 1
      <4>1. TAKE l \in C
      <4>2. l \in Nat /\ (l = 1 \/ l - 1 \in D)
        BY <4>1, <1>2
      <4>3. l = 1 \/ l - 1 <= j
        BY <4>2, <2>2
      <4> QED
        BY <4>2, <4>3, <3>1
    <3> QED
      BY <3>1, <3>2
  <2>3. C # {}
    BY <1>1, <1>11
  <2>4. HeldBefore(h, b, i + 1, k) <=> \E j \in C : b[j].kind = "down" /\ \A l \in C : l <= j
    BY <1>6, <2>3
  <2>5. HeldBefore(g, Tail(b), i, k) <=> \E j \in D : Tail(b)[j].kind = "down" /\ \A l \in D : l <= j
    BY <1>7, <1>11
  <2>6. (\E j \in C : b[j].kind = "down" /\ \A l \in C : l <= j)
        <=> (\E j \in D : Tail(b)[j].kind = "down" /\ \A l \in D : l <= j)
    BY <2>1, <2>2
  <2> QED
    BY <2>4, <2>5, <2>6 DEF g
<1> QED
  BY <1>9, <1>10, <1>11

\* What follows the first action can be carried out from the holds that the
\* first action leaves (validateHeldModifierSequence, typeContext).
LEMMA ValidTail ==
    ASSUME NEW h, NEW b \in Seq(Actions), b # <<>>, ValidFrom(h, b)
    PROVE  ValidFrom(HoldsAfter(h, Head(b)), Tail(b))
<1>1. Head(b) = b[1]
  OBVIOUS
<1>2. SUFFICES ASSUME NEW i \in DOMAIN Tail(b)
               PROVE  Tail(b)[i].kind = "up" <=> HeldBefore(HoldsAfter(h, b[1]), Tail(b), i, Tail(b)[i].key)
  BY <1>1 DEF ValidFrom
<1>3. i + 1 \in DOMAIN b /\ Tail(b)[i] = b[i + 1]
  BY <1>2
<1>4. b[i + 1].kind = "up" <=> HeldBefore(h, b, i + 1, b[i + 1].key)
  BY <1>3 DEF ValidFrom
<1>5. HeldBefore(h, b, i + 1, b[i + 1].key)
      <=> HeldBefore(HoldsAfter(h, b[1]), Tail(b), i, b[i + 1].key)
  BY <1>2, HeldOfTail
<1> QED
  BY <1>3, <1>4, <1>5

-----------------------------------------------------------------------------

LEMMA UinputInitially == Init => UinputInv
BY DEF Init, UinputInv, KeyTypes, BatchInv, KeyInv, ButtonInv, CallSteps, ToSet

\* What the invariant speaks of is unchanged.
LEMMA SameState ==
    ASSUME UinputInv,
           UNCHANGED <<pc, batch, pressed, temps, held, down, stuck, aliased, buttons, caller>>
    PROVE  UinputInv'
<1> USE DEF UinputInv
<1>1. KeyTypes'
  BY DEF KeyTypes
<1>2. Valid(batch)' = Valid(batch) /\ Valid(Tail(batch))' = Valid(Tail(batch))
  BY DEF Valid, HeldBefore, Changes
<1>3. BatchInv'
  BY <1>2 DEF BatchInv
<1>4. KeyInv'
  BY DEF KeyInv, Current
<1>5. ButtonInv'
  BY DEF ButtonInv
<1> QED
  BY <1>1, <1>3, <1>4, <1>5

LEMMA UinputStutter ==
    ASSUME UinputInv, UNCHANGED vars
    PROVE  UinputInv'
<1>1. /\ pc' = pc /\ batch' = batch /\ pressed' = pressed /\ temps' = temps /\ held' = held
      /\ down' = down /\ stuck' = stuck /\ aliased' = aliased /\ buttons' = buttons
      /\ caller' = caller
  BY DEF vars, keyboard, history, mouse
<1> QED
  BY <1>1, SameState

\* The fields of an action.
LEMMA ActionFields ==
    ASSUME NEW a \in Actions
    PROVE  a.kind \in {"tap", "down", "up", "text"}
BY DEF Actions

\* A batch of the enumeration is a sequence of actions.
LEMMA BatchesAreSequences == Batches \subseteq Seq(Actions)
BY BoundsAreNat DEF Batches

\* A call begins with the batch it has validated.
LEMMA BeginKeeps ==
    ASSUME UinputInv, NEW b \in Batches, Begin(b)
    PROVE  UinputInv'
<1> USE DEF UinputInv
<1>1. /\ pc = "idle" /\ Valid(b) /\ batch' = b /\ pc' = "next" /\ held' = held
      /\ UNCHANGED <<down, held, temps, pressed, stuck, aliased, buttons, caller>>
  BY DEF Begin, history, mouse
<1>2. KeyTypes'
  BY <1>1, BatchesAreSequences DEF KeyTypes, CallSteps
<1>3. Valid(batch)'
  BY <1>1 DEF Valid, HeldBefore, Changes
<1>4. BatchInv'
  BY <1>1, <1>3 DEF BatchInv
<1>5. KeyInv'
  BY <1>1 DEF KeyInv
<1>6. ButtonInv'
  BY <1>1 DEF ButtonInv
<1> QED
  BY <1>2, <1>4, <1>5, <1>6

LEMMA CancelKeeps ==
    ASSUME UinputInv, Cancel
    PROVE  UinputInv'
<1>1. UNCHANGED <<pc, batch, pressed, temps, held, down, stuck, aliased, buttons, caller>>
  BY DEF Cancel, keyboard, history, mouse
<1> QED
  BY <1>1, SameState

\* A call that returns leaves nothing to be released.
LEMMA ReturnKeeps ==
    ASSUME UinputInv, Return, pressed = <<>>, pc # "click",
           UNCHANGED <<held, down, stuck, aliased, buttons, caller>>
    PROVE  UinputInv'
<1> USE DEF UinputInv
<1>1. pc' = "idle" /\ batch' = <<>> /\ temps' = {} /\ pressed' = <<>>
  BY DEF Return
<1>2. KeyTypes'
  BY <1>1 DEF KeyTypes, CallSteps
<1>3. BatchInv'
  BY <1>1 DEF BatchInv
<1>4. KeyInv'
  BY <1>1 DEF KeyInv
<1>5. ButtonInv'
  BY <1>1 DEF ButtonInv
<1> QED
  BY <1>2, <1>3, <1>4, <1>5

LEMMA NextActionKeeps ==
    ASSUME UinputInv, NextAction
    PROVE  UinputInv'
<1> USE DEF UinputInv
<1>1. pc = "next" /\ pressed = <<>> /\ UNCHANGED <<held, down, stuck, aliased, buttons, caller>>
  BY DEF NextAction, history, mouse, KeyInv
<1>2. CASE batch = <<>> \/ ctxDone
  <2>1. Return
    BY <1>2 DEF NextAction
  <2> QED
    BY <1>1, <2>1, ReturnKeeps
<1>3. CASE ~(batch = <<>> \/ ctxDone)
  <2>1. /\ temps' = Current.mods \ held /\ pressed' = <<>> /\ pc' = "mods" /\ batch' = batch
        /\ batch # <<>>
    BY <1>3 DEF NextAction, Temporary
  <2>2. Current \in Actions
    BY <2>1 DEF KeyTypes, Current
  <2>3. Current.mods \subseteq Mods
    <3>1. Shift \in Mods
      BY ModifiersAreOrdered DEF Shift, Mods
    <3> QED
      BY <2>2, <3>1 DEF Actions
  <2>4. KeyTypes'
    BY <2>1, <2>3 DEF KeyTypes, CallSteps
  <2>5. Valid(batch)'
    BY <1>1, <2>1 DEF BatchInv, Valid, HeldBefore, Changes
  <2>6. BatchInv'
    BY <2>1, <2>5 DEF BatchInv
  <2>7. ToSet(pressed) = {} /\ ToSet(pressed)' = {}
    BY <1>1, <2>1 DEF ToSet
  <2>8. Current' = Current
    BY <2>1 DEF Current
  <2>9. KeyInv'
    BY <1>1, <2>1, <2>7, <2>8 DEF KeyInv
  <2>10. ButtonInv'
    BY <1>1, <2>1 DEF ButtonInv
  <2> QED
    BY <2>4, <2>6, <2>9, <2>10
<1> QED
  BY <1>2, <1>3

\* The steps that turn to the deferred clean-up and change no key.
LEMMA FailKeeps ==
    ASSUME UinputInv, Fail, pc = "mods",
           UNCHANGED <<held, down, stuck, aliased, buttons, caller>>
    PROVE  UinputInv'
<1> USE DEF UinputInv
<1>1. pc' = "fail" /\ UNCHANGED <<batch, temps, pressed>>
  BY DEF Fail
<1>2. KeyTypes'
  BY <1>1 DEF KeyTypes, CallSteps
<1>3. BatchInv'
  BY <1>1 DEF BatchInv
<1>4. KeyInv'
  BY <1>1 DEF KeyInv, ToSet
<1>5. ButtonInv'
  BY <1>1 DEF ButtonInv
<1> QED
  BY <1>2, <1>3, <1>4, <1>5

\* What a sequence holds when an element is put before it, and without its first.
LEMMA ElementsOfCons ==
    ASSUME NEW S, NEW s \in Seq(S), NEW m \in S
    PROVE  <<m>> \o s \in Seq(S) /\ ToSet(<<m>> \o s) = ToSet(s) \cup {m}
<1> DEFINE t == <<m>> \o s
<1>1. t \in Seq(S) /\ Len(t) = Len(s) + 1 /\ t[1] = m
  OBVIOUS
<1>2. \A i \in 1..Len(s) : t[i + 1] = s[i]
  OBVIOUS
<1>3. DOMAIN t = 1..(Len(s) + 1) /\ DOMAIN s = 1..Len(s) /\ Len(s) \in Nat
  BY <1>1
<1> HIDE DEF t
<1>4. ASSUME NEW i \in DOMAIN t PROVE t[i] \in ToSet(s) \cup {m}
  <2>1. CASE i = 1
    BY <1>1, <2>1
  <2>2. CASE i # 1
    <3>1. i - 1 \in 1..Len(s) /\ (i - 1) + 1 = i
      BY <1>3, <2>2
    <3> QED
      BY <1>2, <1>3, <3>1 DEF ToSet
  <2> QED
    BY <2>1, <2>2
<1>5. ASSUME NEW i \in DOMAIN s PROVE s[i] \in ToSet(t)
  <2>1. i + 1 \in DOMAIN t /\ t[i + 1] = s[i]
    BY <1>2, <1>3
  <2> QED
    BY <2>1 DEF ToSet
<1>6. m \in ToSet(t)
  BY <1>1, <1>3 DEF ToSet
<1>7. ToSet(t) = ToSet(s) \cup {m}
  BY <1>4, <1>5, <1>6 DEF ToSet
<1> QED
  BY <1>1, <1>7 DEF t

LEMMA ElementsOfTail ==
    ASSUME NEW S, NEW s \in Seq(S), s # <<>>
    PROVE  /\ Head(s) \in S /\ Tail(s) \in Seq(S)
           /\ ToSet(s) = ToSet(Tail(s)) \cup {Head(s)}
<1>1. /\ Head(s) \in S /\ Tail(s) \in Seq(S) /\ Head(s) = s[1] /\ 1 \in DOMAIN s
      /\ Len(s) \in Nat /\ DOMAIN Tail(s) = 1..(Len(s) - 1) /\ DOMAIN s = 1..Len(s)
  OBVIOUS
<1>2. \A i \in 1..(Len(s) - 1) : Tail(s)[i] = s[i + 1]
  OBVIOUS
<1> DEFINE t == Tail(s)
<1>3. DOMAIN t = 1..(Len(s) - 1) /\ \A i \in 1..(Len(s) - 1) : t[i] = s[i + 1]
  BY <1>1, <1>2
<1> HIDE DEF t
<1>4. ASSUME NEW i \in DOMAIN s PROVE s[i] \in ToSet(t) \cup {s[1]}
  <2>1. CASE i = 1
    BY <2>1
  <2>2. CASE i # 1
    <3>1. i - 1 \in DOMAIN t /\ t[i - 1] = s[i]
      BY <1>1, <1>3, <2>2
    <3> QED
      BY <3>1 DEF ToSet
  <2> QED
    BY <2>1, <2>2
<1>5. ASSUME NEW i \in DOMAIN t PROVE t[i] \in ToSet(s)
  <2>1. i + 1 \in DOMAIN s /\ t[i] = s[i + 1]
    BY <1>1, <1>3
  <2> QED
    BY <2>1 DEF ToSet
<1>6. s[1] \in ToSet(s)
  BY <1>1 DEF ToSet
<1>7. ToSet(s) = ToSet(t) \cup {s[1]}
  BY <1>4, <1>5, <1>6 DEF ToSet
<1> QED
  BY <1>1, <1>7 DEF t

LEMMA PressModifierKeeps ==
    ASSUME UinputInv, PressModifier
    PROVE  UinputInv'
<1> USE DEF UinputInv
<1>1. pc = "mods" /\ UNCHANGED <<held, stuck, aliased, buttons, caller>>
  BY DEF PressModifier, history, mouse
<1>2. CASE Fail /\ UNCHANGED down
  BY <1>1, <1>2, FailKeeps
<1>3. ASSUME NEW m \in temps,
             down' = down \cup {m}, temps' = temps \ {m}, pressed' = <<m>> \o pressed,
             UNCHANGED <<pc, batch>>
      PROVE  UinputInv'
  <2>1. pressed \in Seq(Mods) /\ m \in Mods
    BY DEF KeyTypes
  <2>2. pressed' \in Seq(Mods) /\ ToSet(pressed)' = ToSet(pressed) \cup {m}
    BY <1>3, <2>1, ElementsOfCons
  <2>3. KeyTypes'
    BY <1>1, <1>3, <2>2 DEF KeyTypes
  <2>4. Valid(batch)'
    BY <1>1, <1>3 DEF BatchInv, Valid, HeldBefore, Changes
  <2>5. BatchInv'
    BY <1>1, <1>3, <2>4 DEF BatchInv
  <2>6. Current' = Current
    BY <1>3 DEF Current
  <2>7. m \notin held /\ temps \cup ToSet(pressed) \subseteq Current.mods
    BY <1>1 DEF KeyInv
  <2>8. KeyInv'
    BY <1>1, <1>3, <2>2, <2>6, <2>7 DEF KeyInv
  <2>9. ButtonInv'
    BY <1>1, <1>3 DEF ButtonInv
  <2> QED
    BY <2>3, <2>5, <2>8, <2>9
<1> QED
  BY <1>2, <1>3 DEF PressModifier

LEMMA InterruptKeeps ==
    ASSUME UinputInv, Interrupt
    PROVE  UinputInv'
BY FailKeeps DEF Interrupt, history, mouse

\* An action is carried out from the holds it was validated with.
LEMMA CurrentIsValid ==
    ASSUME UinputInv, pc = "mods"
    PROVE  /\ batch \in Seq(Actions) /\ batch # <<>> /\ Current \in Actions
           /\ Current.kind = "up" <=> Current.key \in held
           /\ ValidFrom(HoldsAfter(held, Current), Tail(batch))
<1>1. batch \in Seq(Actions) /\ batch # <<>> /\ ValidFrom(held, batch)
  BY DEF UinputInv, KeyTypes, BatchInv, Valid, ValidFrom
<1>2. Current \in Actions
  BY <1>1 DEF Current
<1> QED
  BY <1>1, <1>2, ValidHead, ValidTail DEF Current

\* The holds follow what is sent (heldMods, heldKeys).
LEMMA SendKeyKeeps ==
    ASSUME UinputInv, SendKey
    PROVE  UinputInv'
<1> USE DEF UinputInv
<1>1. /\ pc = "mods" /\ pc' = "release"
      /\ UNCHANGED <<batch, temps, pressed, stuck, buttons, caller>>
  BY DEF SendKey, mouse
<1>2. PICK k, kind, with : k = Current.key /\ kind = Current.kind /\ with = Current.mods
  OBVIOUS
<1>3. kind \in {"tap", "down", "up", "text"} /\ (kind = "up" <=> k \in held)
  BY <1>1, <1>2, CurrentIsValid, ActionFields
<1>4. /\ kind = "down" => down' = down \cup {k} /\ held' = held \cup {k}
      /\ kind = "up" => down' = down \ {k} /\ held' = held \ {k}
      /\ kind \notin {"down", "up"} => down' = down \ {k} /\ held' = held
  BY <1>2, <1>3 DEF SendKey
<1>5. aliased' = IF kind = "down" /\ k \in with THEN aliased \cup {k} ELSE aliased \cap held'
  BY <1>2 DEF SendKey
<1>6. ToSet(pressed) \subseteq with /\ ToSet(pressed)' = ToSet(pressed)
  BY <1>1, <1>2 DEF KeyInv
<1>7. /\ held \ aliased \subseteq down
      /\ down \ held \subseteq stuck \cup ToSet(pressed)
      /\ ToSet(pressed) \cap held \subseteq aliased
  BY DEF KeyInv
<1>8. KeyTypes'
  BY <1>1 DEF KeyTypes, CallSteps
<1>9. held' = HoldsAfter(held, Current)
  BY <1>2, <1>3, <1>4 DEF HoldsAfter
<1>10. batch # <<>> /\ ValidFrom(HoldsAfter(held, Current), Tail(batch))
  BY <1>1, CurrentIsValid
<1>11. Valid(Tail(batch))'
  <2>1. Tail(batch)' = Tail(batch)
    BY <1>1
  <2>2. ValidFrom(held', Tail(batch)')
    BY <1>9, <1>10, <2>1
  <2> QED
    BY <2>2 DEF ValidFrom, Valid
<1>12. BatchInv'
  BY <1>1, <1>10, <1>11 DEF BatchInv
<1>13. held' \ aliased' \subseteq down'
  <2>1. CASE kind = "down"
    BY <1>4, <1>5, <1>7, <2>1
  <2>2. CASE kind = "up"
    BY <1>4, <1>5, <1>7, <2>2
  <2>3. CASE kind \notin {"down", "up"}
    BY <1>3, <1>4, <1>5, <1>7, <2>3
  <2> QED
    BY <2>1, <2>2, <2>3
<1>14. down' \ held' \subseteq stuck' \cup ToSet(pressed)'
  <2>1. CASE kind = "down"
    BY <1>1, <1>4, <1>6, <1>7, <2>1
  <2>2. CASE kind = "up"
    BY <1>1, <1>4, <1>6, <1>7, <2>2
  <2>3. CASE kind \notin {"down", "up"}
    BY <1>1, <1>4, <1>6, <1>7, <2>3
  <2> QED
    BY <2>1, <2>2, <2>3
<1>15. ToSet(pressed)' \cap held' \subseteq aliased'
  <2>1. CASE kind = "down"
    BY <1>4, <1>5, <1>6, <1>7, <2>1
  <2>2. CASE kind = "up"
    BY <1>4, <1>5, <1>6, <1>7, <2>2
  <2>3. CASE kind \notin {"down", "up"}
    BY <1>4, <1>5, <1>6, <1>7, <2>3
  <2> QED
    BY <2>1, <2>2, <2>3
<1>16. KeyInv'
  BY <1>1, <1>13, <1>14, <1>15 DEF KeyInv
<1>17. ButtonInv'
  BY <1>1 DEF ButtonInv
<1> QED
  BY <1>8, <1>12, <1>16, <1>17

LEMMA SendKeyFailsKeeps ==
    ASSUME UinputInv, SendKeyFails
    PROVE  UinputInv'
<1> USE DEF UinputInv
<1>1. pc = "mods" /\ Fail /\ UNCHANGED <<held, aliased, buttons, caller>>
  BY DEF SendKeyFails, mouse
<1>2. CASE UNCHANGED <<down, stuck>>
  BY <1>1, <1>2, FailKeeps
<1>3. CASE /\ down' = down \cup {Current.key} /\ Refused(Current.key)
  <2>1. stuck' = stuck \cup {Current.key}
    BY <1>3 DEF Refused
  <2>2. pc' = "fail" /\ UNCHANGED <<batch, temps, pressed>>
    BY <1>1 DEF Fail
  <2>3. KeyTypes'
    BY <2>2 DEF KeyTypes, CallSteps
  <2>4. BatchInv'
    BY <2>2 DEF BatchInv
  <2>5. ToSet(pressed)' = ToSet(pressed)
    BY <2>2
  <2>6. KeyInv'
    BY <1>1, <1>3, <2>1, <2>2, <2>5 DEF KeyInv
  <2>7. ButtonInv'
    BY <1>1, <2>1, <2>2 DEF ButtonInv
  <2> QED
    BY <2>3, <2>4, <2>6, <2>7
<1> QED
  BY <1>2, <1>3 DEF SendKeyFails

LEMMA ReleaseModifierKeeps ==
    ASSUME UinputInv, ReleaseModifier
    PROVE  UinputInv'
<1> USE DEF UinputInv
<1>1. /\ pc \in {"release", "fail"} /\ pressed # <<>> /\ pressed' = Tail(pressed)
      /\ UNCHANGED <<held, batch, temps, aliased, buttons, caller>>
  BY DEF ReleaseModifier, mouse
<1>2. \/ down' = down \ {Head(pressed)} /\ UNCHANGED <<stuck, pc>>
      \/ stuck' = stuck \cup {Head(pressed)} /\ pc' = "fail" /\ UNCHANGED down
  BY DEF ReleaseModifier, Refused
<1>3. pressed' \in Seq(Mods) /\ ToSet(pressed) = ToSet(pressed)' \cup {Head(pressed)}
  <2>1. pressed \in Seq(Mods)
    BY DEF KeyTypes
  <2> QED
    BY <1>1, <2>1, ElementsOfTail
<1>4. pc' \in {"release", "fail"} /\ (pc' = "release" => pc = "release")
  BY <1>1, <1>2
<1>5. KeyTypes'
  BY <1>1, <1>3, <1>4 DEF KeyTypes, CallSteps
<1>6. Valid(Tail(batch))' = Valid(Tail(batch))
  BY <1>1 DEF Valid, HeldBefore, Changes
<1>7. BatchInv'
  BY <1>1, <1>4, <1>6 DEF BatchInv
<1>8. KeyInv'
  <2>1. held' \ aliased' \subseteq down'
    BY <1>1, <1>2, <1>3 DEF KeyInv
  <2>2. down' \ held' \subseteq stuck' \cup ToSet(pressed)'
    BY <1>1, <1>2, <1>3 DEF KeyInv
  <2>3. ToSet(pressed)' \cap held' \subseteq aliased'
    BY <1>1, <1>3 DEF KeyInv
  <2> QED
    BY <1>4, <2>1, <2>2, <2>3 DEF KeyInv
<1>9. ButtonInv'
  BY <1>1, <1>2, <1>4 DEF ButtonInv
<1> QED
  BY <1>5, <1>7, <1>8, <1>9

LEMMA ActionDoneKeeps ==
    ASSUME UinputInv, ActionDone
    PROVE  UinputInv'
<1> USE DEF UinputInv
<1>1. /\ pc = "release" /\ pressed = <<>> /\ pc' = "next" /\ batch' = Tail(batch)
      /\ UNCHANGED <<down, held, temps, pressed, stuck, aliased, buttons, caller>>
  BY DEF ActionDone, history, mouse
<1>2. batch \in Seq(Actions) /\ batch # <<>> /\ Valid(Tail(batch))
  BY <1>1 DEF KeyTypes, BatchInv
<1>3. KeyTypes'
  BY <1>1, <1>2 DEF KeyTypes, CallSteps
<1>4. Valid(batch)'
  BY <1>1, <1>2 DEF Valid, HeldBefore, Changes
<1>5. BatchInv'
  BY <1>1, <1>4 DEF BatchInv
<1>6. KeyInv'
  BY <1>1 DEF KeyInv
<1>7. ButtonInv'
  BY <1>1 DEF ButtonInv
<1> QED
  BY <1>3, <1>5, <1>6, <1>7

LEMMA CallFailsKeeps ==
    ASSUME UinputInv, CallFails
    PROVE  UinputInv'
BY ReturnKeeps DEF CallFails, history, mouse

LEMMA MouseKeeps ==
    ASSUME UinputInv, NEW b \in Buttons,
           MouseDown(b) \/ MouseUp(b) \/ ClickPresses(b) \/ ClickReleases(b)
    PROVE  UinputInv'
<1> USE DEF UinputInv
<1>1. /\ UNCHANGED <<down, held, batch, temps, pressed, aliased>>
      /\ pc' \in {"idle", "click"} /\ pc \in {"idle", "click"}
  BY DEF MouseDown, MouseUp, ClickPresses, ClickReleases, keyboard, history
<1>2. KeyTypes'
  BY <1>1 DEF KeyTypes, CallSteps
<1>3. BatchInv'
  BY <1>1 DEF BatchInv
<1>4. stuck \subseteq stuck'
  BY DEF MouseDown, MouseUp, ClickPresses, ClickReleases, history, Refused
<1>5. KeyInv'
  BY <1>1, <1>4 DEF KeyInv
<1>6. ButtonInv'
  <2>1. CASE MouseDown(b)
    BY <2>1 DEF MouseDown, ButtonInv, history
  <2>2. CASE MouseUp(b)
    BY <2>2 DEF MouseUp, ButtonInv, history
  <2>3. CASE ClickPresses(b)
    BY <2>3 DEF ClickPresses, ButtonInv, history
  <2>4. CASE ClickReleases(b)
    <3>1. buttons \ {b} = {}
      BY DEF ButtonInv, Buttons
    <3> QED
      BY <2>4, <3>1 DEF ClickReleases, ButtonInv, Refused, Buttons
  <2> QED
    BY <2>1, <2>2, <2>3, <2>4
<1> QED
  BY <1>2, <1>3, <1>5, <1>6

\* Each step of a call keeps the invariant.
LEMMA UinputStep ==
    ASSUME UinputInv, [Next]_vars
    PROVE  UinputInv'
<1>1. CASE UNCHANGED vars
  BY <1>1, UinputStutter
<1>2. CASE Next
  BY <1>2, BeginKeeps, CancelKeeps, NextActionKeeps, PressModifierKeeps, InterruptKeeps,
     SendKeyKeeps, SendKeyFailsKeeps, ReleaseModifierKeeps, ActionDoneKeeps, CallFailsKeeps,
     MouseKeeps DEF Next
<1> QED
  BY <1>1, <1>2

\* The invariant of the uinput backend, for any keys, modifiers and batches.
THEOREM UinputSteps == Spec => []UinputInv
<1>1. Init => UinputInv
  BY UinputInitially
<1>2. UinputInv /\ [Next]_vars => UinputInv'
  BY UinputStep
<1> QED
  BY <1>1, <1>2, PTL DEF Spec

\* Between two calls what is down is what the caller holds, however the calls
\* ended (typeKeyWithMods, MouseClick).
THEOREM KeysAreReleased == Spec => []DownIsHeld
<1>1. UinputInv => DownIsHeld
  <2>1. ToSet(<<>>) = {}
    BY DEF ToSet
  <2> QED
    BY <2>1 DEF UinputInv, KeyInv, ButtonInv, DownIsHeld
<1> QED
  BY <1>1, UinputSteps, PTL

\* A step takes a key that the caller holds up only when the caller releases it.
LEMMA HeldIsKept ==
    ASSUME UinputInv, Next, NEW k \in held \ aliased, k \in down, k \notin down'
    PROVE  Current.kind = "up" /\ Current.key = k
<1>1. CASE SendKey
  <2>1. /\ Current.kind \in {"tap", "down", "up", "text"}
        /\ Current.kind = "up" <=> Current.key \in held
    BY <1>1, CurrentIsValid, ActionFields DEF SendKey
  <2>2. down' \in {down \cup {Current.key}, down \ {Current.key}}
    BY <1>1, <2>1 DEF SendKey
  <2> QED
    BY <2>1, <2>2
<1>2. CASE ReleaseModifier
  <2>1. pressed \in Seq(Mods) /\ pressed # <<>>
    BY <1>2 DEF ReleaseModifier, UinputInv, KeyTypes
  <2>2. Head(pressed) \in ToSet(pressed)
    BY <2>1, ElementsOfTail
  <2>3. k # Head(pressed)
    BY <2>2 DEF UinputInv, KeyInv
  <2> QED
    BY <1>2, <2>3 DEF ReleaseModifier
<1>3. CASE ~SendKey /\ ~ReleaseModifier
  <2>1. down \subseteq down'
    BY <1>3 DEF Next, Begin, Cancel, NextAction, PressModifier, Interrupt, SendKeyFails,
       ActionDone, CallFails, MouseDown, MouseUp, ClickPresses, ClickReleases, keyboard
  <2> QED
    BY <2>1
<1> QED
  BY <1>1, <1>2, <1>3

\* No call lets go of a key that the caller holds (temporaryModifiers,
\* validateHeldModifierSequence, heldMods).
THEOREM HoldsAreKept == Spec => HoldsSurvive
<1>1. UinputInv /\ [Next]_vars =>
        [\A k \in held \ aliased : k \in down /\ k \notin down' =>
            Current.kind = "up" /\ Current.key = k]_vars
  BY HeldIsKept
<1> QED
  BY <1>1, UinputSteps, PTL DEF Spec, HoldsSurvive

\* Sequences: the rest of one element, and the rest of a concatenation.
LEMMA TailOfOne == ASSUME NEW S, NEW s \in Seq(S), Len(s) = 1 PROVE Tail(s) = <<>>
<1>1. s # <<>>
  OBVIOUS
<1>2. Tail(s) \in Seq(S) /\ Len(Tail(s)) = 0
  BY <1>1
<1>3. <<>> \in Seq(S) /\ Len(<<>>) = 0
  BY EmptySeq
<1>4. \A i \in 1..Len(Tail(s)) : Tail(s)[i] = <<>>[i]
  <2>1. 1..0 = {}
    OBVIOUS
  <2> QED
    BY <1>2, <2>1
<1> QED
  BY <1>2, <1>3, <1>4, SeqEqual

\* Sequences: the elements of a concatenation.
LEMMA ConcatElements ==
    ASSUME NEW S, NEW s \in Seq(S), NEW t \in Seq(S)
    PROVE  /\ \A i \in 1..Len(s) : (s \o t)[i] = s[i]
           /\ \A j \in 1..Len(t) : (s \o t)[Len(s) + j] = t[j]
<1>1. /\ Len(s) \in Nat /\ Len(t) \in Nat
      /\ \A i \in 1..(Len(s) + Len(t)) : (s \o t)[i] = IF i <= Len(s) THEN s[i] ELSE t[i - Len(s)]
  OBVIOUS
<1>2. \A i \in 1..Len(s) : i \in 1..(Len(s) + Len(t)) /\ i <= Len(s)
  BY <1>1
<1>3. \A j \in 1..Len(t) :
        Len(s) + j \in 1..(Len(s) + Len(t)) /\ ~(Len(s) + j <= Len(s)) /\ (Len(s) + j) - Len(s) = j
  BY <1>1
<1> QED
  BY <1>1, <1>2, <1>3

\* The first of a concatenation is the first of its first part.
LEMMA TailOfConcat ==
    ASSUME NEW S, NEW s \in Seq(S), NEW t \in Seq(S), s # <<>>
    PROVE  s \o t \in Seq(S) /\ s \o t # <<>> /\ Head(s \o t) = Head(s) /\ Tail(s \o t) = Tail(s) \o t
<1>1. /\ s \o t \in Seq(S) /\ Len(s) >= 1 /\ Len(s) \in Nat /\ Len(t) \in Nat
      /\ Len(s \o t) = Len(s) + Len(t)
      /\ \A i \in 1..(Len(s) + Len(t)) : (s \o t)[i] = IF i <= Len(s) THEN s[i] ELSE t[i - Len(s)]
  OBVIOUS
<1>2. s \o t # <<>>
  BY <1>1
<1>3. Head(s \o t) = Head(s)
  BY <1>1, <1>2
<1>4. /\ Tail(s \o t) \in Seq(S) /\ Len(Tail(s \o t)) = Len(s) + Len(t) - 1
      /\ \A i \in 1..(Len(s) + Len(t) - 1) : Tail(s \o t)[i] = (s \o t)[i + 1]
  BY <1>1, <1>2
<1>5. /\ Tail(s) \in Seq(S) /\ Len(Tail(s)) = Len(s) - 1
      /\ \A i \in 1..(Len(s) - 1) : Tail(s)[i] = s[i + 1]
  OBVIOUS
<1>6. /\ Tail(s) \o t \in Seq(S) /\ Len(Tail(s) \o t) = Len(s) - 1 + Len(t)
      /\ \A i \in 1..(Len(s) - 1 + Len(t)) :
            (Tail(s) \o t)[i] = IF i <= Len(s) - 1 THEN Tail(s)[i] ELSE t[i - (Len(s) - 1)]
  BY <1>1, <1>5
<1>7. \A i \in 1..(Len(s) + Len(t) - 1) : Tail(s \o t)[i] = (Tail(s) \o t)[i]
  <2>1. TAKE i \in 1..(Len(s) + Len(t) - 1)
  <2>2. Tail(s \o t)[i] = IF i + 1 <= Len(s) THEN s[i + 1] ELSE t[i + 1 - Len(s)]
    BY <1>1, <1>4
  <2>3. (Tail(s) \o t)[i] = IF i <= Len(s) - 1 THEN s[i + 1] ELSE t[i - (Len(s) - 1)]
    BY <1>1, <1>5, <1>6
  <2>4. i \in Nat /\ i + 1 - Len(s) = i - (Len(s) - 1) /\ (i + 1 <= Len(s) <=> i <= Len(s) - 1)
    BY <1>1
  <2> QED
    BY <2>2, <2>3, <2>4
<1>8. Tail(s \o t) = Tail(s) \o t
  <2>1. Len(Tail(s \o t)) = Len(Tail(s) \o t)
    BY <1>1, <1>4, <1>6
  <2>2. \A i \in 1..Len(Tail(s \o t)) : Tail(s \o t)[i] = (Tail(s) \o t)[i]
    BY <1>4, <1>7
  <2> QED
    BY <1>4, <1>6, <2>1, <2>2, SeqEqual
<1> QED
  BY <1>1, <1>2, <1>3, <1>8

-----------------------------------------------------------------------------
(* The commands of a portal session.                                        *)

\* The frames that reach the compositor, and the commands of the writer
FrameSet == [key : Inputs, kind : {"down", "up"}] \cup {Keyless}
Doings == PortalActions \cup {Action("releaseAll", Nothing, {})}

\* A sequence of frames and actions can be carried out from the holds h.
Permitted(h, s) ==
    \A i \in DOMAIN s : s[i].key = Nothing \/ Permits(s[i], HeldBefore(h, s, i, s[i].key))

Receipts == {Nothing, "ok", "invalid", "canceled", "refused", "revoked"}
PortalCalls ==
    [pc : {"idle", "asked", "sent", "done", "closed"}, op : Seq(Doings), canceled : BOOLEAN,
     started : BOOLEAN, receipt : Receipts, result : Receipts]
PortalWriters ==
    [pc : {"idle", "got", "run", "over"}, by : Users \cup {Nothing}, acts : Seq(Doings),
     frames : Seq(FrameSet)]
PortalSessions ==
    [revoked : BOOLEAN, stopped : BOOLEAN, socket : BOOLEAN, alive : BOOLEAN, peer : BOOLEAN]

PortalTypes ==
    /\ scene \in Scenes
    /\ session \in PortalSessions
    /\ call \in [Users -> PortalCalls]
    /\ writer \in PortalWriters
    /\ heldKeys \subseteq Inputs
    /\ downKeys \subseteq Inputs

\* The command that the writer has is that of a call that has been handed over and
\* has no receipt; what a receipt says of the command is true of it.
HandInv ==
    /\ writer.pc \in {"got", "run"} =>
          /\ writer.by \in Users /\ call[writer.by].receipt = Nothing
          /\ call[writer.by].pc \notin {"idle", "asked"}
          /\ call[writer.by].started <=> writer.pc = "run"
    /\ \A c \in Users :
          /\ call[c].pc \in {"idle", "asked"} => ~call[c].started /\ call[c].receipt = Nothing
          /\ call[c].receipt = "ok" => call[c].started
          /\ call[c].receipt = "invalid" => ~call[c].started
          /\ call[c].result \in {"ok", "invalid"} => call[c].receipt = call[c].result

\* Until a write has failed or the socket is closed, the record is true.
RecordInv == session.socket /\ writer.pc # "over" => heldKeys = downKeys

\* What is left of a command can be carried out from the holds of now.
RunInv ==
    /\ \A c \in Users : \A i \in DOMAIN call[c].op :
          call[c].op[i].kind = "releaseAll" => Len(call[c].op) = 1
    /\ writer.pc = "run" =>
          /\ \A i \in DOMAIN writer.acts : writer.acts[i].kind = "releaseAll" => Len(writer.acts) = 1
          /\ ~WithItself(call[writer.by].op) =>
                ~WithItself(writer.acts) /\ Permitted(heldKeys, writer.frames \o writer.acts)

PortalInv == PortalTypes /\ HandInv /\ RecordInv /\ RunInv /\ NoStrayRelease

\* What a sequence holds depends on what comes before only (validateTypeHeldSequence).
LEMMA PrefixHeld ==
    ASSUME NEW S, NEW s \in Seq(S), NEW t \in Seq(S), NEW i \in 1..(Len(s) + 1), NEW h, NEW k
    PROVE  /\ Changes(s \o t, i, k) = Changes(s, i, k)
           /\ HeldBefore(h, s \o t, i, k) <=> HeldBefore(h, s, i, k)
<1>1. \A j \in 1..(i - 1) : (s \o t)[j] = s[j]
  OBVIOUS
<1>2. Changes(s \o t, i, k) = Changes(s, i, k)
  BY <1>1 DEF Changes
<1>3. \A j \in Changes(s, i, k) : (s \o t)[j] = s[j]
  BY <1>1 DEF Changes
<1> QED
  BY <1>2, <1>3 DEF HeldBefore

\* Of two sequences the second decides, if it changes the key at all, and else the
\* first (validateTypeHeldSequence).
LEMMA ConcatHeld ==
    ASSUME NEW S, NEW s \in Seq(S), NEW t \in Seq(S), NEW i \in 1..(Len(t) + 1), NEW h, NEW k
    PROVE  HeldBefore(h, s \o t, Len(s) + i, k) <=>
             IF Changes(t, i, k) = {} THEN HeldBefore(h, s, Len(s) + 1, k)
             ELSE HeldBefore(h, t, i, k)
<1> DEFINE n == Len(s)
           u == s \o t
           C == Changes(u, n + i, k)
           A == Changes(s, n + 1, k)
           B == Changes(t, i, k)
<1>1. n \in Nat /\ i \in Nat /\ i >= 1
  OBVIOUS
<1>2. \A j \in 1..n : u[j] = s[j]
  OBVIOUS
<1>3. \A j \in 1..(i - 1) : u[n + j] = t[j]
  OBVIOUS
<1>4. \A j \in A : j \in 1..n /\ j \in C /\ u[j].kind = s[j].kind
  BY <1>1, <1>2 DEF Changes
<1>5. \A j \in B : j \in 1..(i - 1) /\ n + j \in C /\ u[n + j].kind = t[j].kind
  BY <1>1, <1>3 DEF Changes
<1>6. \A j \in C : j \in A \/ (j > n /\ j - n \in B /\ u[j].kind = t[j - n].kind)
  <2>1. TAKE j \in C
  <2>2. j \in 1..(n + i - 1) /\ u[j].kind \in {"down", "up"} /\ u[j].key = k
    BY DEF Changes
  <2>3. CASE j <= n
    BY <1>1, <1>2, <2>2, <2>3 DEF Changes
  <2>4. CASE j > n
    <3>1. j - n \in 1..(i - 1) /\ n + (j - n) = j
      BY <1>1, <2>2, <2>4
    <3>2. u[j] = t[j - n]
      BY <3>1, <1>3
    <3> QED
      BY <2>2, <2>4, <3>1, <3>2 DEF Changes
  <2> QED
    BY <1>1, <2>2, <2>3, <2>4
<1>7. \A j \in C : j \in Nat
  BY <1>1 DEF Changes
<1>8. HeldBefore(h, u, n + i, k) <=>
        (C = {} /\ k \in h) \/ \E j \in C : u[j].kind = "down" /\ \A l \in C : l <= j
  BY DEF HeldBefore
<1>9. HeldBefore(h, s, n + 1, k) <=>
        (A = {} /\ k \in h) \/ \E j \in A : s[j].kind = "down" /\ \A l \in A : l <= j
  BY DEF HeldBefore
<1>10. HeldBefore(h, t, i, k) <=>
        (B = {} /\ k \in h) \/ \E j \in B : t[j].kind = "down" /\ \A l \in B : l <= j
  BY DEF HeldBefore
<1> HIDE DEF A, B, C, u, n
<1>11. CASE B = {}
  <2>1. C = A
    BY <1>4, <1>6, <1>11
  <2>2. \A j \in A : u[j].kind = s[j].kind
    BY <1>4
  <2>3. HeldBefore(h, u, n + i, k) <=> HeldBefore(h, s, n + 1, k)
    BY <1>8, <1>9, <2>1, <2>2
  <2> QED
    BY <1>11, <2>3 DEF B, u, n
<1>12. CASE B # {}
  <2>1. C # {}
    BY <1>5, <1>12
  <2>2. ASSUME NEW j \in C, u[j].kind = "down", \A l \in C : l <= j
        PROVE  \E m \in B : t[m].kind = "down" /\ \A l \in B : l <= m
    <3>1. PICK b \in B : TRUE
      BY <1>12
    <3>2. b \in Nat /\ b >= 1 /\ n + b <= j
      BY <1>5, <2>2, <3>1
    <3>3. j \notin A
      BY <1>1, <1>4, <1>7, <2>2, <3>2
    <3>4. j > n /\ j - n \in B /\ t[j - n].kind = "down"
      BY <1>6, <2>2, <3>3
    <3>5. ASSUME NEW l \in B
          PROVE  l <= j - n
      <4>1. l \in Nat /\ n + l <= j
        BY <1>5, <2>2
      <4> QED
        BY <1>1, <1>7, <2>2, <4>1
    <3> QED
      BY <3>4, <3>5
  <2>3. ASSUME NEW j \in B, t[j].kind = "down", \A l \in B : l <= j
        PROVE  \E m \in C : u[m].kind = "down" /\ \A l \in C : l <= m
    <3>1. j \in Nat /\ j >= 1 /\ n + j \in C /\ u[n + j].kind = "down"
      BY <1>1, <1>5, <2>3
    <3>2. \A l \in C : l <= n + j
      <4>1. TAKE l \in C
      <4>2. CASE l \in A
        BY <1>1, <1>4, <3>1, <4>2
      <4>3. CASE l > n /\ l - n \in B
        <5>1. l \in Nat /\ l - n <= j
          BY <1>7, <2>3, <4>3
        <5> QED
          BY <1>1, <3>1, <5>1
      <4> QED
        BY <1>6, <4>2, <4>3
    <3> QED
      BY <3>1, <3>2
  <2>4. (\E j \in C : u[j].kind = "down" /\ \A l \in C : l <= j)
        <=> (\E j \in B : t[j].kind = "down" /\ \A l \in B : l <= j)
    BY <2>2, <2>3
  <2>5. HeldBefore(h, u, n + i, k) <=> HeldBefore(h, t, i, k)
    BY <1>8, <1>10, <2>1, <2>4, <1>12
  <2> QED
    BY <1>12, <2>5 DEF B, u, n
<1> QED
  BY <1>11, <1>12

\* An action may be replaced by frames that can be carried out and that leave the
\* same holds (typeAction).
LEMMA ReplaceHead ==
    ASSUME NEW S, NEW a \in S, NEW s \in Seq(S), NEW t \in Seq(S), NEW h,
           Permitted(h, <<a>> \o t), Permitted(h, s),
           \A k : HeldBefore(h, s, Len(s) + 1, k) <=> HeldBefore(h, <<a>>, 2, k)
    PROVE  Permitted(h, s \o t)
<1> DEFINE u == s \o t
           v == <<a>> \o t
<1>1. <<a>> \in Seq(S) /\ Len(<<a>>) = 1 /\ Len(s) \in Nat /\ Len(t) \in Nat
  OBVIOUS
<1>2. SUFFICES ASSUME NEW i \in DOMAIN u, u[i].key # Nothing
               PROVE  Permits(u[i], HeldBefore(h, u, i, u[i].key))
  BY DEF Permitted
<1>3. i \in 1..(Len(s) + Len(t))
  OBVIOUS
<1>4. CASE i <= Len(s)
  <2>1. i \in DOMAIN s /\ u[i] = s[i] /\ i \in 1..(Len(s) + 1)
    BY <1>1, <1>3, <1>4
  <2>2. Permits(s[i], HeldBefore(h, s, i, s[i].key))
    BY <1>2, <2>1 DEF Permitted
  <2>3. HeldBefore(h, u, i, s[i].key) <=> HeldBefore(h, s, i, s[i].key)
    BY <2>1, PrefixHeld
  <2> QED
    BY <2>1, <2>2, <2>3 DEF Permits
<1>5. CASE i > Len(s)
  <2> DEFINE j == i - Len(s)
             k == t[j].key
  <2>1. j \in 1..Len(t) /\ i = Len(s) + j /\ j \in 1..(Len(t) + 1)
    BY <1>1, <1>3, <1>5
  <2>2. u[i] = t[j] /\ v[1 + j] = t[j] /\ 1 + j \in DOMAIN v
    BY <1>1, <2>1
  <2>3. Permits(t[j], HeldBefore(h, v, 1 + j, k))
    BY <1>2, <2>2 DEF Permitted
  <2> HIDE DEF j, k
  <2>4. HeldBefore(h, v, 1 + j, k) <=>
          IF Changes(t, j, k) = {} THEN HeldBefore(h, <<a>>, 2, k) ELSE HeldBefore(h, t, j, k)
    <3>1. HeldBefore(h, <<a>> \o t, Len(<<a>>) + j, k) <=>
            IF Changes(t, j, k) = {} THEN HeldBefore(h, <<a>>, Len(<<a>>) + 1, k)
            ELSE HeldBefore(h, t, j, k)
      BY <1>1, <2>1, ConcatHeld
    <3>2. Len(<<a>>) + j = 1 + j /\ Len(<<a>>) + 1 = 2
      BY <1>1
    <3> QED
      BY <3>1, <3>2
  <2>5. HeldBefore(h, u, Len(s) + j, k) <=>
          IF Changes(t, j, k) = {} THEN HeldBefore(h, s, Len(s) + 1, k) ELSE HeldBefore(h, t, j, k)
    BY <2>1, ConcatHeld
  <2>6. HeldBefore(h, u, i, k) <=> HeldBefore(h, v, 1 + j, k)
    BY <2>1, <2>4, <2>5
  <2> QED
    BY <2>2, <2>3, <2>6 DEF Permits, k
<1> QED
  BY <1>1, <1>3, <1>4, <1>5

\* Modifiers that are pressed one after the other are held afterwards, and each is
\* pressed once (typeAction).
LEMMA PressedOnce ==
    ASSUME NEW h, NEW keys \in Seq(Inputs),
           \A i, j \in DOMAIN keys : keys[i] = keys[j] => i = j
    PROVE  /\ Downs(keys) \in Seq(FrameSet) /\ Len(Downs(keys)) = Len(keys)
           /\ \A i \in DOMAIN keys : /\ Downs(keys)[i] = Frame(keys[i], "down")
                                     /\ Changes(Downs(keys), i, keys[i]) = {}
                                     /\ HeldBefore(h, Downs(keys), Len(keys) + 1, keys[i])
           /\ \A k : (\A i \in DOMAIN keys : keys[i] # k) => Changes(Downs(keys), Len(keys) + 1, k) = {}
<1> DEFINE d == Downs(keys)
<1>1. Len(keys) \in Nat /\ DOMAIN keys = 1..Len(keys)
  OBVIOUS
<1>2. d = [i \in 1..Len(keys) |-> Frame(keys[i], "down")]
  BY <1>1 DEF Downs
<1>3. \A i \in 1..Len(keys) : Frame(keys[i], "down") \in FrameSet
  BY <1>1 DEF Frame, FrameSet
<1>4. d \in Seq(FrameSet) /\ Len(d) = Len(keys)
  BY <1>1, <1>2, <1>3
<1>5. \A i \in 1..Len(keys) : d[i].key = keys[i] /\ d[i].kind = "down" /\ d[i] = Frame(keys[i], "down")
  BY <1>2 DEF Frame
<1> HIDE DEF d
<1>6. ASSUME NEW i \in DOMAIN keys
      PROVE  Changes(d, i, keys[i]) = {} /\ HeldBefore(h, d, Len(keys) + 1, keys[i])
  <2>1. Changes(d, i, keys[i]) = {}
    BY <1>1, <1>5 DEF Changes
  <2>2. Changes(d, Len(keys) + 1, keys[i]) = {i}
    BY <1>1, <1>5 DEF Changes
  <2>3. HeldBefore(h, d, Len(keys) + 1, keys[i])
    BY <1>1, <1>5, <2>2 DEF HeldBefore
  <2> QED
    BY <2>1, <2>3
<1>7. ASSUME NEW k, \A i \in DOMAIN keys : keys[i] # k
      PROVE  Changes(d, Len(keys) + 1, k) = {}
  BY <1>1, <1>5, <1>7 DEF Changes
<1> QED
  BY <1>1, <1>4, <1>5, <1>6, <1>7 DEF d

\* They are released once each, in the opposite order, and held no more (typeAction).
LEMMA ReleasedOnce ==
    ASSUME NEW h, NEW keys \in Seq(Inputs),
           \A i, j \in DOMAIN keys : keys[i] = keys[j] => i = j
    PROVE  LET r == Reverse(Ups(keys)) IN
           /\ r \in Seq(FrameSet) /\ Len(r) = Len(keys)
           /\ \A j \in DOMAIN r : /\ r[j] = Frame(keys[Len(keys) - j + 1], "up")
                                  /\ Len(keys) - j + 1 \in DOMAIN keys
                                  /\ Changes(r, j, r[j].key) = {}
           /\ \A i \in DOMAIN keys : /\ Changes(r, Len(keys) + 1, keys[i]) # {}
                                     /\ ~HeldBefore(h, r, Len(keys) + 1, keys[i])
           /\ \A k : (\A i \in DOMAIN keys : keys[i] # k) => Changes(r, Len(keys) + 1, k) = {}
<1> DEFINE p == Len(keys)
           r == Reverse(Ups(keys))
<1>1. p \in Nat /\ DOMAIN keys = 1..p
  OBVIOUS
<1>2. Ups(keys) = [i \in 1..p |-> Frame(keys[i], "up")]
  BY <1>1 DEF Ups
<1>3. Ups(keys) \in Seq(FrameSet) /\ Len(Ups(keys)) = p
  <2>1. \A i \in 1..p : Frame(keys[i], "up") \in FrameSet
    BY <1>1 DEF Frame, FrameSet
  <2> QED
    BY <1>1, <1>2, <2>1
<1>4. r = [j \in 1..p |-> Frame(keys[p - j + 1], "up")]
  <2>1. \A j \in 1..p : p - j + 1 \in 1..p
    BY <1>1
  <2>2. r = [j \in 1..p |-> Ups(keys)[p - j + 1]]
    BY <1>3 DEF Reverse
  <2> HIDE DEF p, r
  <2> QED
    BY <1>2, <2>1, <2>2
<1>5. \A j \in 1..p : p - j + 1 \in 1..p /\ Frame(keys[p - j + 1], "up") \in FrameSet
  BY <1>1 DEF Frame, FrameSet
<1> HIDE DEF r, p
<1>6. r \in Seq(FrameSet) /\ Len(r) = p /\ DOMAIN r = 1..p
  BY <1>1, <1>4, <1>5
<1>7. \A j \in 1..p : r[j].key = keys[p - j + 1] /\ r[j].kind = "up" /\ r[j] = Frame(keys[p - j + 1], "up")
  BY <1>4 DEF Frame
<1>8. ASSUME NEW j \in 1..p
      PROVE  Changes(r, j, r[j].key) = {}
  <2>1. SUFFICES ASSUME NEW l \in 1..(j - 1), r[l].key = r[j].key
                 PROVE  FALSE
    BY DEF Changes
  <2>2. l \in 1..p /\ p - l + 1 \in DOMAIN keys /\ p - j + 1 \in DOMAIN keys /\ l # j
    BY <1>1
  <2>3. keys[p - l + 1] = keys[p - j + 1]
    BY <1>7, <2>1, <2>2
  <2>4. p - l + 1 = p - j + 1
    BY <2>2, <2>3
  <2> QED
    BY <1>1, <2>2, <2>4
<1>9. ASSUME NEW i \in 1..p
      PROVE  Changes(r, p + 1, keys[i]) # {} /\ ~HeldBefore(h, r, p + 1, keys[i])
  <2>1. p - i + 1 \in 1..p /\ p - (p - i + 1) + 1 = i
    BY <1>1
  <2>2. r[p - i + 1].key = keys[i] /\ r[p - i + 1].kind = "up"
    BY <1>7, <2>1
  <2>3. p - i + 1 \in Changes(r, p + 1, keys[i])
    BY <1>1, <2>1, <2>2 DEF Changes
  <2>4. \A l \in Changes(r, p + 1, keys[i]) : r[l].kind # "down"
    BY <1>1, <1>7 DEF Changes
  <2> QED
    BY <2>3, <2>4 DEF HeldBefore
<1>10. ASSUME NEW k, \A i \in 1..p : keys[i] # k
       PROVE  Changes(r, p + 1, k) = {}
  BY <1>1, <1>5, <1>7, <1>10 DEF Changes
<1> QED
  BY <1>1, <1>5, <1>6, <1>7, <1>8, <1>9, <1>10 DEF r, p

\* What an action does to the holds (validateTypeHeldSequence).
LEMMA HeldAfterAction ==
    ASSUME NEW h, NEW a, NEW k
    PROVE  HeldBefore(h, <<a>>, 2, k) <=>
             IF a.kind \in {"down", "up"} /\ a.key = k THEN a.kind = "down" ELSE k \in h
<1>1. \A j : j \in 1..(2 - 1) <=> j = 1
  OBVIOUS
<1>2. <<a>>[1] = a
  OBVIOUS
<1>3. Changes(<<a>>, 2, k) = IF a.kind \in {"down", "up"} /\ a.key = k THEN {1} ELSE {}
  BY <1>1, <1>2 DEF Changes
<1> QED
  BY <1>2, <1>3 DEF HeldBefore

\* Two frames that press a key and release it leave no trace, of a key that is not held.
LEMMA TapFrames ==
    ASSUME NEW h, NEW b \in Inputs, b \notin h, NEW s \in Seq(FrameSet), NEW n \in {0, 1},
           Len(s) = n + 2, s[n + 1] = Frame(b, "down"), s[n + 2] = Frame(b, "up"),
           n = 1 => s[1] = Keyless
    PROVE  /\ Permitted(h, s)
           /\ \A k : HeldBefore(h, s, Len(s) + 1, k) <=> k \in h
<1>1. /\ s[n + 1].key = b /\ s[n + 1].kind = "down" /\ s[n + 2].key = b /\ s[n + 2].kind = "up"
      /\ n = 1 => s[1].key = Nothing /\ s[1].kind = "other"
  BY DEF Frame, Keyless
<1>2. DOMAIN s = 1..(n + 2) /\ \A k : n + 1 \in 1..(n + 2)
  OBVIOUS
<1>3. Changes(s, n + 1, b) = {}
  <2>1. \A j \in 1..((n + 1) - 1) : n = 1 /\ j = 1
    OBVIOUS
  <2>2. \A j \in Changes(s, n + 1, b) : FALSE
    BY <1>1, <2>1, NothingIsNothing DEF Changes
  <2> QED
    BY <2>2
<1>4. Changes(s, n + 2, b) = {n + 1}
  <2>1. \A j \in 1..((n + 2) - 1) : j = n + 1 \/ (n = 1 /\ j = 1)
    OBVIOUS
  <2>2. n + 1 \in 1..((n + 2) - 1)
    OBVIOUS
  <2>3. \A j \in Changes(s, n + 2, b) : j = n + 1
    BY <1>1, <2>1 DEF Changes
  <2>4. n + 1 \in Changes(s, n + 2, b)
    BY <1>1, <2>2 DEF Changes
  <2> QED
    BY <2>3, <2>4
<1>5. ~HeldBefore(h, s, n + 1, b)
  BY <1>3 DEF HeldBefore
<1>6. HeldBefore(h, s, n + 2, b)
  BY <1>1, <1>4 DEF HeldBefore
<1>7. Permitted(h, s)
  <2>1. SUFFICES ASSUME NEW i \in 1..(n + 2), s[i].key # Nothing
                 PROVE  Permits(s[i], HeldBefore(h, s, i, s[i].key))
    BY <1>2 DEF Permitted
  <2>2. i = n + 1 \/ i = n + 2
    BY <1>1, <2>1
  <2> QED
    BY <1>1, <1>5, <1>6, <2>2 DEF Permits
<1>8. ASSUME NEW k
      PROVE  HeldBefore(h, s, Len(s) + 1, k) <=> k \in h
  <2>1. \A j \in 1..(n + 2) : j = n + 1 \/ j = n + 2 \/ (n = 1 /\ j = 1)
    OBVIOUS
  <2>2. CASE k = b
    <3>1. Changes(s, Len(s) + 1, b) = {n + 1, n + 2}
      BY <1>1, <2>1 DEF Changes
    <3>2. ~(n + 2 <= n + 1)
      OBVIOUS
    <3>3. ~\E j \in {n + 1, n + 2} : s[j].kind = "down" /\ \A l \in {n + 1, n + 2} : l <= j
      BY <1>1, <3>2
    <3>4. ~HeldBefore(h, s, Len(s) + 1, b)
      BY <3>1, <3>3 DEF HeldBefore
    <3> QED
      BY <2>2, <3>4
  <2>3. CASE k # b
    <3>1. Changes(s, Len(s) + 1, k) = {}
      BY <1>1, <2>1, <2>3 DEF Changes
    <3> QED
      BY <3>1 DEF HeldBefore
  <2> QED
    BY <2>2, <2>3
<1> QED
  BY <1>7, <1>8

\* Frames without a key change nothing.
LEMMA KeylessFrames ==
    ASSUME NEW h, NEW s \in Seq(FrameSet), \A i \in DOMAIN s : s[i] = Keyless
    PROVE  /\ Permitted(h, s)
           /\ \A k : HeldBefore(h, s, Len(s) + 1, k) <=> k \in h
<1>1. \A i \in DOMAIN s : s[i].key = Nothing /\ s[i].kind = "other"
  BY DEF Frame, Keyless
<1>2. Len(s) \in Nat /\ DOMAIN s = 1..Len(s)
  OBVIOUS
<1>3. \A k : Changes(s, Len(s) + 1, k) = {}
  BY <1>1, <1>2 DEF Changes
<1> QED
  BY <1>1, <1>3 DEF Permitted, HeldBefore

\* The frames of an action itself can be carried out if the action may be, and leave
\* what the action leaves (KeyDown, KeyUp, MouseClick, TypeLiteral, typeAction).
LEMMA OwnFramesAreRight ==
    ASSUME NEW h, NEW a \in PortalActions, a.key = Nothing \/ Permits(a, a.key \in h)
    PROVE  /\ OwnFrames(a) \in Seq(FrameSet)
           /\ \A i \in DOMAIN OwnFrames(a) : OwnFrames(a)[i].key \in {a.key, Nothing}
           /\ Permitted(h, OwnFrames(a))
           /\ \A k : HeldBefore(h, OwnFrames(a), Len(OwnFrames(a)) + 1, k) <=> HeldBefore(h, <<a>>, 2, k)
<1>1. \/ a.kind \in {"down", "up", "tap", "click"} /\ a.key \in Inputs /\ a.key # Nothing
      \/ a.kind \in {"literal", "move", "scroll"} /\ a.key = Nothing
  BY NothingIsNothing DEF PortalActions
<1>2. Keyless \in FrameSet /\ Keyless.key = Nothing
  BY DEF FrameSet, Keyless, Frame
<1>3. \A b \in Inputs : \A kind \in {"down", "up"} :
        Frame(b, kind) \in FrameSet /\ Frame(b, kind).key = b /\ Frame(b, kind).kind = kind
  BY DEF FrameSet, Frame
<1>4. CASE a.kind \in {"down", "up"}
  <2>1. OwnFrames(a) = <<Frame(a.key, a.kind)>> /\ Frame(a.key, a.kind) \in FrameSet
    BY <1>1, <1>3, <1>4 DEF OwnFrames, HoldFrames
  <2> DEFINE f == Frame(a.key, a.kind)
  <2>2. f.key = a.key /\ f.kind = a.kind /\ f \in FrameSet
    BY <1>1, <1>3, <1>4
  <2> HIDE DEF f
  <2>3. OwnFrames(a) = <<f>>
    BY <2>1 DEF f
  <2>4. <<f>> \in Seq(FrameSet) /\ Len(<<f>>) = 1 /\ <<f>>[1] = f /\ DOMAIN <<f>> = {1}
    BY <2>2
  <2>5. \A k : HeldBefore(h, <<f>>, 2, k) <=> HeldBefore(h, <<a>>, 2, k)
    BY <2>2, HeldAfterAction
  <2>6. Changes(<<f>>, 1, f.key) = {}
    BY DEF Changes
  <2>7. Permitted(h, <<f>>)
    BY <1>1, <1>4, <2>2, <2>4, <2>6 DEF Permitted, Permits, HeldBefore
  <2> QED
    BY <2>2, <2>3, <2>4, <2>5, <2>7
<1>5. CASE a.kind = "tap"
  <2> DEFINE s == <<Frame(a.key, "down"), Frame(a.key, "up")>>
  <2>1. OwnFrames(a) = s /\ a.key \in Inputs /\ a.key \notin h
    BY <1>1, <1>5 DEF OwnFrames, Permits
  <2>2. /\ s \in Seq(FrameSet) /\ Len(s) = 2 /\ DOMAIN s = {1, 2}
        /\ s[1] = Frame(a.key, "down") /\ s[2] = Frame(a.key, "up")
    BY <1>3, <2>1
  <2>3. \A k : HeldBefore(h, <<a>>, 2, k) <=> k \in h
    BY <1>5, HeldAfterAction
  <2> HIDE DEF s
  <2>4. Permitted(h, s) /\ \A k : HeldBefore(h, s, Len(s) + 1, k) <=> k \in h
    <3>1. 0 \in {0, 1} /\ 0 + 1 = 1 /\ 0 + 2 = 2 /\ 0 # 1
      OBVIOUS
    <3> QED
      BY <2>1, <2>2, <3>1, TapFrames
  <2>5. \A i \in DOMAIN s : s[i].key = a.key
    BY <1>3, <2>1, <2>2
  <2> QED
    BY <2>1, <2>2, <2>3, <2>4, <2>5
<1>6. CASE a.kind = "click"
  <2> DEFINE s == <<Keyless, Frame(a.key, "down"), Frame(a.key, "up")>>
  <2>1. OwnFrames(a) = s /\ a.key \in Inputs /\ a.key \notin h
    BY <1>1, <1>6 DEF OwnFrames, ClickFrames, Permits
  <2>2. /\ s \in Seq(FrameSet) /\ Len(s) = 3 /\ DOMAIN s = {1, 2, 3} /\ s[1] = Keyless
        /\ s[2] = Frame(a.key, "down") /\ s[3] = Frame(a.key, "up")
    BY <1>2, <1>3, <2>1
  <2>3. \A k : HeldBefore(h, <<a>>, 2, k) <=> k \in h
    BY <1>6, HeldAfterAction
  <2> HIDE DEF s
  <2>4. Permitted(h, s) /\ \A k : HeldBefore(h, s, Len(s) + 1, k) <=> k \in h
    <3>1. 1 \in {0, 1} /\ 1 + 1 = 2 /\ 1 + 2 = 3
      OBVIOUS
    <3> QED
      BY <2>1, <2>2, <3>1, TapFrames
  <2>5. \A i \in DOMAIN s : s[i].key \in {a.key, Nothing}
    BY <1>2, <1>3, <2>1, <2>2
  <2> QED
    BY <2>1, <2>2, <2>3, <2>4, <2>5
<1>7. CASE a.kind \in {"literal", "move", "scroll"}
  <2>1. OwnFrames(a) = <<Keyless, Keyless>> \/ OwnFrames(a) = <<Keyless>>
    BY <1>7 DEF OwnFrames, LiteralFrames, MoveFrames, ScrollFrames
  <2>2. /\ OwnFrames(a) \in Seq(FrameSet)
        /\ \A i \in DOMAIN OwnFrames(a) : OwnFrames(a)[i] = Keyless
    <3>1. CASE OwnFrames(a) = <<Keyless, Keyless>>
      BY <1>2, <3>1
    <3>2. CASE OwnFrames(a) = <<Keyless>>
      BY <1>2, <3>2
    <3> QED
      BY <2>1, <3>1, <3>2
  <2>3. \A k : HeldBefore(h, <<a>>, 2, k) <=> k \in h
    BY <1>7, HeldAfterAction
  <2> QED
    BY <1>2, <2>2, <2>3, KeylessFrames
<1> QED
  BY <1>1, <1>4, <1>5, <1>6, <1>7

\* Temporary modifiers may be pressed and released around the frames of an action,
\* and leave no trace (typeAction).
LEMMA TemporaryFrames ==
    ASSUME NEW h, NEW keys \in Seq(Inputs), NEW own \in Seq(FrameSet), NEW key,
           \A i, j \in DOMAIN keys : keys[i] = keys[j] => i = j,
           \A i \in DOMAIN keys : keys[i] \notin h /\ keys[i] # key,
           \A i \in DOMAIN own : own[i].key \in {key, Nothing},
           Permitted(h, own)
    PROVE  LET s == Downs(keys) \o own \o Reverse(Ups(keys)) IN
           /\ s \in Seq(FrameSet)
           /\ Permitted(h, s)
           /\ \A k : HeldBefore(h, s, Len(s) + 1, k) <=> HeldBefore(h, own, Len(own) + 1, k)
<1> DEFINE p == Len(keys)
           n == Len(own)
           d == Downs(keys)
           r == Reverse(Ups(keys))
           b == d \o own
           s == b \o r
<1>1. /\ d \in Seq(FrameSet) /\ Len(d) = p
      /\ \A i \in DOMAIN keys : /\ d[i] = Frame(keys[i], "down") /\ Changes(d, i, keys[i]) = {}
                                /\ HeldBefore(h, d, p + 1, keys[i])
      /\ \A k : (\A i \in DOMAIN keys : keys[i] # k) => Changes(d, p + 1, k) = {}
  BY PressedOnce
<1>2. /\ r \in Seq(FrameSet) /\ Len(r) = p
      /\ \A j \in DOMAIN r : /\ r[j] = Frame(keys[p - j + 1], "up") /\ p - j + 1 \in DOMAIN keys
                             /\ Changes(r, j, r[j].key) = {}
      /\ \A i \in DOMAIN keys : Changes(r, p + 1, keys[i]) # {} /\ ~HeldBefore(h, r, p + 1, keys[i])
      /\ \A k : (\A i \in DOMAIN keys : keys[i] # k) => Changes(r, p + 1, k) = {}
  BY ReleasedOnce
<1>3. p \in Nat /\ n \in Nat /\ DOMAIN keys = 1..p /\ DOMAIN own = 1..n
  OBVIOUS
<1> HIDE DEF d, r, p, n
<1>4. DOMAIN r = 1..p /\ DOMAIN d = 1..p
  BY <1>1, <1>2
<1>5. d \in Seq(FrameSet) /\ Len(d) = p /\ r \in Seq(FrameSet) /\ Len(r) = p /\ Len(own) = n
  BY <1>1, <1>2 DEF n
<1>21. b \in Seq(FrameSet) /\ Len(b) = p + n
  <2>1. own \in Seq(FrameSet) /\ d \in Seq(FrameSet)
    BY <1>5
  <2>2. d \o own \in Seq(FrameSet) /\ Len(d \o own) = Len(d) + Len(own)
    BY ONLY <2>1, ConcatProperties
  <2> QED
    BY <1>5, <2>2
<1> HIDE DEF b
<1>6. s \in Seq(FrameSet) /\ Len(s) = p + n + p
  <2>1. b \in Seq(FrameSet) /\ r \in Seq(FrameSet)
    BY <1>5, <1>21
  <2>2. b \o r \in Seq(FrameSet) /\ Len(b \o r) = Len(b) + Len(r)
    BY ONLY <2>1, ConcatProperties
  <2> QED
    BY <1>5, <1>21, <2>2
<1> HIDE DEF s
<1>7. \A i \in 1..p : keys[i] \in Inputs /\ keys[i] # Nothing
  BY <1>3, NothingIsNothing
<1>8. ASSUME NEW k, NEW j \in 1..(n + 1)
      PROVE  HeldBefore(h, b, p + j, k) <=>
               IF Changes(own, j, k) = {} THEN HeldBefore(h, d, p + 1, k) ELSE HeldBefore(h, own, j, k)
  <2>1. HeldBefore(h, b, Len(d) + j, k) <=>
          IF Changes(own, j, k) = {} THEN HeldBefore(h, d, Len(d) + 1, k) ELSE HeldBefore(h, own, j, k)
    <3>1. j \in 1..(Len(own) + 1)
      BY <1>5
    <3> QED
      BY <1>5, <3>1, ConcatHeld DEF b
  <2> QED
    BY <1>5, <2>1
<1>9. ASSUME NEW k, NEW j \in 1..(n + 1), \A i \in DOMAIN keys : keys[i] # k
      PROVE  HeldBefore(h, b, p + j, k) <=> HeldBefore(h, own, j, k)
  <2>1. HeldBefore(h, d, p + 1, k) <=> k \in h
    BY <1>1, <1>9 DEF HeldBefore
  <2>2. Changes(own, j, k) = {} => (HeldBefore(h, own, j, k) <=> k \in h)
    BY DEF HeldBefore
  <2> QED
    BY <1>8, <2>1, <2>2
<1>10. ASSUME NEW i \in DOMAIN keys, NEW j \in 1..(n + 1)
       PROVE  Changes(own, j, keys[i]) = {}
  BY <1>3, <1>7 DEF Changes
<1>11. ASSUME NEW k, NEW i \in 1..(p + n + 1)
       PROVE  HeldBefore(h, s, i, k) <=> HeldBefore(h, b, i, k)
  BY <1>5, <1>21, PrefixHeld DEF s
<1>12. ASSUME NEW k, NEW j \in 1..(p + 1)
       PROVE  HeldBefore(h, s, p + n + j, k) <=>
                IF Changes(r, j, k) = {} THEN HeldBefore(h, b, p + n + 1, k) ELSE HeldBefore(h, r, j, k)
  <2>1. HeldBefore(h, s, Len(b) + j, k) <=>
          IF Changes(r, j, k) = {} THEN HeldBefore(h, b, Len(b) + 1, k) ELSE HeldBefore(h, r, j, k)
    <3>1. j \in 1..(Len(r) + 1)
      BY <1>5
    <3> QED
      BY <1>5, <1>21, <3>1, ConcatHeld DEF s
  <2> QED
    BY <1>21, <2>1
<1>22. \A i \in 1..(p + n) : s[i] = b[i]
  BY <1>5, <1>21 DEF s
<1>23. (\A i \in 1..p : b[i] = d[i]) /\ \A j \in 1..n : b[p + j] = own[j]
  <2>1. own \in Seq(FrameSet) /\ d \in Seq(FrameSet)
    BY <1>5
  <2>2. /\ \A i \in 1..Len(d) : (d \o own)[i] = d[i]
        /\ \A j \in 1..Len(own) : (d \o own)[Len(d) + j] = own[j]
    BY ONLY <2>1, ConcatElements
  <2> QED
    BY <1>5, <2>2 DEF b
<1>13. \A i \in 1..p : s[i] = d[i]
  BY <1>3, <1>22, <1>23
<1>14. \A j \in 1..n : s[p + j] = own[j]
  BY <1>3, <1>22, <1>23
<1>15. \A j \in 1..p : s[p + n + j] = r[j]
  <2>1. b \in Seq(FrameSet) /\ r \in Seq(FrameSet)
    BY <1>5, <1>21
  <2>2. \A j \in 1..Len(r) : (b \o r)[Len(b) + j] = r[j]
    BY ONLY <2>1, ConcatElements
  <2> QED
    BY <1>5, <1>21, <2>2 DEF s
<1>16. ASSUME NEW i \in 1..p
       PROVE  Permits(s[i], HeldBefore(h, s, i, s[i].key))
  <2>1. s[i].key = keys[i] /\ s[i].kind = "down"
    BY <1>1, <1>3, <1>13 DEF Frame
  <2>2. HeldBefore(h, s, i, keys[i]) <=> HeldBefore(h, b, i, keys[i])
    BY <1>3, <1>11
  <2>3. HeldBefore(h, b, i, keys[i]) <=> HeldBefore(h, d, i, keys[i])
    BY <1>1, <1>3, PrefixHeld DEF b
  <2>4. ~HeldBefore(h, d, i, keys[i])
    BY <1>1, <1>3 DEF HeldBefore
  <2> QED
    BY <2>1, <2>2, <2>3, <2>4 DEF Permits
<1>17. ASSUME NEW j \in 1..n, own[j].key # Nothing
       PROVE  Permits(s[p + j], HeldBefore(h, s, p + j, s[p + j].key))
  <2>1. s[p + j] = own[j] /\ own[j].key = key
    BY <1>3, <1>14, <1>17
  <2>2. Permits(own[j], HeldBefore(h, own, j, key))
    BY <1>3, <1>17, <2>1 DEF Permitted
  <2>3. HeldBefore(h, b, p + j, key) <=> HeldBefore(h, own, j, key)
    BY <1>3, <1>9
  <2>4. HeldBefore(h, s, p + j, key) <=> HeldBefore(h, b, p + j, key)
    BY <1>3, <1>11
  <2> QED
    BY <2>1, <2>2, <2>3, <2>4 DEF Permits
<1>18. ASSUME NEW j \in 1..p
       PROVE  Permits(s[p + n + j], HeldBefore(h, s, p + n + j, s[p + n + j].key))
  <2> DEFINE i == p - j + 1
  <2>1. i \in DOMAIN keys /\ r[j].key = keys[i] /\ r[j].kind = "up" /\ s[p + n + j] = r[j]
    BY <1>2, <1>4, <1>15 DEF Frame
  <2>2. Changes(r, j, keys[i]) = {}
    BY <1>2, <1>4, <2>1
  <2> HIDE DEF i
  <2>3. HeldBefore(h, s, p + n + j, keys[i]) <=> HeldBefore(h, b, p + n + 1, keys[i])
    BY <1>3, <1>12, <2>2
  <2>4. HeldBefore(h, b, p + (n + 1), keys[i]) <=> HeldBefore(h, d, p + 1, keys[i])
    <3>1. n + 1 \in 1..(n + 1)
      BY <1>3
    <3> QED
      BY <1>8, <1>10, <2>1, <3>1
  <2>5. p + (n + 1) = p + n + 1
    BY <1>3
  <2> QED
    BY <1>1, <2>1, <2>3, <2>4, <2>5 DEF Permits
<1>19. Permitted(h, s)
  <2>1. SUFFICES ASSUME NEW i \in 1..(p + n + p), s[i].key # Nothing
                 PROVE  Permits(s[i], HeldBefore(h, s, i, s[i].key))
    BY <1>6 DEF Permitted
  <2>2. CASE i <= p
    BY <1>3, <1>16, <2>2
  <2>3. CASE i > p /\ i <= p + n
    <3>1. i - p \in 1..n /\ p + (i - p) = i
      BY <1>3, <2>3
    <3> QED
      BY <1>14, <1>17, <2>1, <3>1
  <2>4. CASE i > p + n
    <3>1. i - (p + n) \in 1..p /\ p + n + (i - (p + n)) = i
      BY <1>3, <2>4
    <3> QED
      BY <1>18, <3>1
  <2> QED
    BY <1>3, <2>2, <2>3, <2>4
<1>20. ASSUME NEW k
       PROVE  HeldBefore(h, s, Len(s) + 1, k) <=> HeldBefore(h, own, n + 1, k)
  <2>1. Len(s) + 1 = p + n + (p + 1) /\ p + 1 \in 1..(p + 1) /\ n + 1 \in 1..(n + 1) /\ p + (n + 1) = p + n + 1
    BY <1>3, <1>6
  <2>2. CASE \E i \in DOMAIN keys : keys[i] = k
    <3>1. PICK i \in DOMAIN keys : keys[i] = k
      BY <2>2
    <3>2. ~HeldBefore(h, s, Len(s) + 1, k)
      BY <1>2, <1>12, <2>1, <3>1
    <3>3. ~HeldBefore(h, own, n + 1, k)
      BY <1>10, <2>1, <3>1 DEF HeldBefore
    <3> QED
      BY <3>2, <3>3
  <2>3. CASE \A i \in DOMAIN keys : keys[i] # k
    BY <1>2, <1>9, <1>12, <2>1, <2>3
  <2> QED
    BY <2>2, <2>3
<1> QED
  BY <1>6, <1>19, <1>20 DEF s, b, d, r, n

\* A listing of a set of keys or buttons names each of them once (releaseHeldInput,
\* modifierNames).
LEMMA Listings ==
    ASSUME NEW S \in SUBSET Inputs, NEW keys \in SetToSeqs(S)
    PROVE  /\ keys \in Seq(Inputs)
           /\ \A i \in DOMAIN keys : keys[i] \in S
           /\ \A i, j \in DOMAIN keys : keys[i] = keys[j] => i = j
<1>1. Cardinality(S) \in Nat
  BY InputsAreFinite, FS_Subset, FS_CardinalityType
<1>2. keys \in [1..Cardinality(S) -> S] /\ \A i, j \in 1..Cardinality(S) : i # j => keys[i] # keys[j]
  BY DEF SetToSeqs
<1> QED
  BY <1>1, <1>2

\* Releasing everything that is held may be done in any order (releaseHeldInput).
LEMMA ReleaseFramesAreRight ==
    ASSUME heldKeys \subseteq Inputs, NEW s \in ReleaseFrames
    PROVE  s \in Seq(FrameSet) /\ Permitted(heldKeys, s)
<1>1. PICK keys \in SetToSeqs(heldKeys) : s = Ups(keys)
  BY DEF ReleaseFrames
<1>2. /\ keys \in Seq(Inputs) /\ \A i \in DOMAIN keys : keys[i] \in heldKeys
      /\ \A i, j \in DOMAIN keys : keys[i] = keys[j] => i = j
  BY Listings
<1>3. s = [i \in 1..Len(keys) |-> Frame(keys[i], "up")] /\ Len(keys) \in Nat /\ DOMAIN keys = 1..Len(keys)
  BY <1>1, <1>2 DEF Ups
<1>4. \A i \in 1..Len(keys) : Frame(keys[i], "up") \in FrameSet
  BY <1>2, <1>3 DEF Frame, FrameSet
<1>5. s \in Seq(FrameSet) /\ DOMAIN s = 1..Len(keys)
  BY <1>3, <1>4
<1>6. \A i \in 1..Len(keys) : s[i].key = keys[i] /\ s[i].kind = "up"
  BY <1>3 DEF Frame
<1>7. ASSUME NEW i \in 1..Len(keys)
      PROVE  HeldBefore(heldKeys, s, i, keys[i])
  <2>1. Changes(s, i, keys[i]) = {}
    BY <1>2, <1>3, <1>6 DEF Changes
  <2> QED
    BY <1>2, <1>3, <2>1 DEF HeldBefore
<1> QED
  BY <1>5, <1>6, <1>7 DEF Permitted, Permits

\* The frames of an action are frames.
LEMMA FramesAreFrames ==
    ASSUME heldKeys \subseteq Inputs, NEW a \in Doings, NEW s \in Frames(a)
    PROVE  s \in Seq(FrameSet)
<1>1. CASE a.kind = "releaseAll"
  BY <1>1, ReleaseFramesAreRight DEF Frames
<1>2. CASE a.kind # "releaseAll"
  <2>1. PICK keys \in TemporaryKeys(a) : s = Downs(keys) \o OwnFrames(a) \o Reverse(Ups(keys))
    BY <1>2 DEF Frames
  <2>2. a \in PortalActions
    BY <1>2 DEF Doings, Action
  <2>3. keys \in Seq(Inputs) /\ \A i, j \in DOMAIN keys : keys[i] = keys[j] => i = j
    <3>1. a.mods \ heldKeys \in SUBSET Inputs /\ keys \in SetToSeqs(a.mods \ heldKeys)
      BY <2>1, <2>2, ModifiersAreInputs DEF TemporaryKeys, PortalActions
    <3> QED
      BY <3>1, Listings
  <2>4. OwnFrames(a) \in Seq(FrameSet)
    <3>1. Keyless \in FrameSet /\ \A b \in Inputs : \A kind \in {"down", "up"} : Frame(b, kind) \in FrameSet
      BY DEF FrameSet, Keyless, Frame
    <3> QED
      BY <2>2, <3>1 DEF OwnFrames, HoldFrames, ClickFrames, LiteralFrames, MoveFrames, ScrollFrames, PortalActions
  <2>5. Downs(keys) \in Seq(FrameSet) /\ Reverse(Ups(keys)) \in Seq(FrameSet)
    BY <2>3, PressedOnce, ReleasedOnce
  <2> QED
    BY <2>1, <2>4, <2>5
<1> QED
  BY <1>1, <1>2

\* The frames of an action that may be carried out can be carried out, and leave what
\* the action leaves, if it is not a combination of a modifier with itself (typeAction).
LEMMA FramesAreRight ==
    ASSUME heldKeys \subseteq Inputs, NEW a \in PortalActions, a.key \notin a.mods,
           a.key = Nothing \/ Permits(a, a.key \in heldKeys), NEW s \in Frames(a)
    PROVE  /\ Permitted(heldKeys, s)
           /\ \A k : HeldBefore(heldKeys, s, Len(s) + 1, k) <=> HeldBefore(heldKeys, <<a>>, 2, k)
<1>1. a.kind # "releaseAll"
  BY DEF PortalActions
<1>2. PICK keys \in TemporaryKeys(a) : s = Downs(keys) \o OwnFrames(a) \o Reverse(Ups(keys))
  BY <1>1 DEF Frames
<1>3. /\ keys \in Seq(Inputs) /\ \A i \in DOMAIN keys : keys[i] \in a.mods \ heldKeys
      /\ \A i, j \in DOMAIN keys : keys[i] = keys[j] => i = j
  <2>1. a.mods \ heldKeys \in SUBSET Inputs /\ keys \in SetToSeqs(a.mods \ heldKeys)
    BY <1>2, ModifiersAreInputs DEF TemporaryKeys, PortalActions
  <2> QED
    BY <2>1, Listings
<1> DEFINE own == OwnFrames(a)
<1>4. /\ own \in Seq(FrameSet)
      /\ \A i \in DOMAIN own : own[i].key \in {a.key, Nothing}
      /\ Permitted(heldKeys, own)
      /\ \A k : HeldBefore(heldKeys, own, Len(own) + 1, k) <=> HeldBefore(heldKeys, <<a>>, 2, k)
  BY OwnFramesAreRight
<1> HIDE DEF own
<1>5. \A i \in DOMAIN keys : keys[i] \notin heldKeys /\ keys[i] # a.key
  BY <1>3
<1>6. s = Downs(keys) \o own \o Reverse(Ups(keys))
  BY <1>2 DEF own
<1>7. /\ Permitted(heldKeys, s)
      /\ \A k : HeldBefore(heldKeys, s, Len(s) + 1, k) <=> HeldBefore(heldKeys, own, Len(own) + 1, k)
  BY <1>3, <1>4, <1>5, <1>6, TemporaryFrames
<1> QED
  BY <1>4, <1>7

\* What is left after a first frame, or action, can be carried out from the holds that
\* it leaves (validateTypeHeldSequence).
LEMMA PermittedTail ==
    ASSUME NEW S, NEW h, NEW s \in Seq(S), s # <<>>, Permitted(h, s)
    PROVE  Permitted(HoldsAfter(h, Head(s)), Tail(s))
<1>1. Head(s) = s[1]
  OBVIOUS
<1>2. SUFFICES ASSUME NEW i \in DOMAIN Tail(s), Tail(s)[i].key # Nothing
               PROVE  Permits(Tail(s)[i], HeldBefore(HoldsAfter(h, s[1]), Tail(s), i, Tail(s)[i].key))
  BY <1>1 DEF Permitted
<1>3. i + 1 \in DOMAIN s /\ Tail(s)[i] = s[i + 1]
  BY <1>2
<1>4. Permits(s[i + 1], HeldBefore(h, s, i + 1, s[i + 1].key))
  BY <1>2, <1>3 DEF Permitted
<1>5. HeldBefore(h, s, i + 1, s[i + 1].key)
      <=> HeldBefore(HoldsAfter(h, s[1]), Tail(s), i, s[i + 1].key)
  BY <1>2, HeldOfTail
<1> QED
  BY <1>3, <1>4, <1>5 DEF Permits

\* The first is decided by the holds of now.
LEMMA PermittedHead ==
    ASSUME NEW S, NEW h, NEW s \in Seq(S), s # <<>>, Permitted(h, s), Head(s).key # Nothing
    PROVE  Permits(Head(s), Head(s).key \in h)
<1>1. 1 \in DOMAIN s /\ Head(s) = s[1]
  OBVIOUS
<1>2. Changes(s, 1, s[1].key) = {}
  BY DEF Changes
<1> QED
  BY <1>1, <1>2 DEF Permitted, Permits, HeldBefore

-----------------------------------------------------------------------------

\* The invariant holds initially.
LEMMA PortalInitially == ASSUME PortalInit PROVE PortalInv
<1>1. /\ scene \in Scenes /\ heldKeys = {} /\ downKeys = {} /\ stray = FALSE
      /\ session = [revoked |-> FALSE, stopped |-> FALSE, socket |-> TRUE, alive |-> TRUE, peer |-> TRUE]
      /\ writer = [pc |-> "idle", by |-> Nothing, acts |-> <<>>, frames |-> <<>>]
      /\ \A c \in Users : call[c] = [pc |-> "idle", op |-> <<>>, canceled |-> FALSE,
                                     started |-> FALSE, receipt |-> Nothing, result |-> Nothing]
      /\ call \in [Users -> PortalCalls]
  BY DEF PortalInit, PortalCalls, Receipts
<1>2. PortalTypes
  BY <1>1 DEF PortalTypes, PortalSessions, PortalWriters
<1>3. HandInv
  BY <1>1, NothingIsNothing DEF HandInv
<1>4. RunInv
  BY <1>1 DEF RunInv
<1> QED
  BY <1>1, <1>2, <1>3, <1>4 DEF PortalInv, RecordInv, NoStrayRelease

\* A step of the reader, the watcher or the other side disturbs no command and no
\* record; what the compositor lets go with the socket is down no more.
LEMMA OthersKeep ==
    ASSUME PortalInv, UNCHANGED <<scene, call, writer, heldKeys, stray>>,
           session' \in PortalSessions,
           \/ downKeys' = downKeys /\ (session'.socket => session.socket)
           \/ downKeys' = {} /\ ~session'.socket
    PROVE  PortalInv'
<1> USE DEF PortalInv
<1>1. PortalTypes'
  BY DEF PortalTypes
<1>2. HandInv'
  BY DEF HandInv
<1>3. RecordInv'
  BY DEF RecordInv
<1>4. RunInv'
  <2>1. WithItself(writer.acts)' = WithItself(writer.acts)
    BY DEF WithItself
  <2>2. writer.pc = "run" => WithItself(call[writer.by].op)' = WithItself(call[writer.by].op)
    BY DEF WithItself
  <2>3. Permitted(heldKeys, writer.frames \o writer.acts)' = Permitted(heldKeys, writer.frames \o writer.acts)
    BY DEF Permitted, Permits, HeldBefore, Changes
  <2> QED
    BY <2>1, <2>2, <2>3 DEF RunInv
<1> QED
  BY <1>1, <1>2, <1>3, <1>4 DEF NoStrayRelease

LEMMA OtherSteps ==
    ASSUME PortalInv,
           \/ \E who \in {"writer", "reader"} : Block(who)
           \/ Ping \/ Pong \/ PongFails \/ PeerStalls \/ Lifecycle \/ ReaderEnded \/ Retire \/ Stop
    PROVE  PortalInv'
<1>1. session \in PortalSessions
  BY DEF PortalInv, PortalTypes
<1>2. /\ [session EXCEPT !.alive = FALSE] \in PortalSessions
      /\ [session EXCEPT !.peer = FALSE] \in PortalSessions
      /\ [session EXCEPT !.revoked = TRUE] \in PortalSessions
      /\ [session EXCEPT !.socket = FALSE, !.alive = FALSE] \in PortalSessions
      /\ [session EXCEPT !.stopped = TRUE, !.socket = FALSE, !.alive = FALSE] \in PortalSessions
  BY <1>1 DEF PortalSessions
<1>3. CASE \/ \E who \in {"writer", "reader"} : Block(who)
           \/ Ping \/ Pong
  BY <1>1, <1>3, OthersKeep DEF Block, Ping, Pong
<1>4. CASE PongFails
  <2>1. [session EXCEPT !.alive = FALSE].socket = session.socket
    BY <1>1 DEF PortalSessions
  <2> QED
    BY <1>2, <1>4, <2>1, OthersKeep DEF PongFails
<1>5. CASE PeerStalls
  <2>1. [session EXCEPT !.peer = FALSE].socket = session.socket
    BY <1>1 DEF PortalSessions
  <2> QED
    BY <1>2, <1>5, <2>1, OthersKeep DEF PeerStalls
<1>6. CASE Lifecycle \/ ReaderEnded
  <2>1. [session EXCEPT !.revoked = TRUE].socket = session.socket
    BY <1>1 DEF PortalSessions
  <2> QED
    BY <1>2, <1>6, <2>1, OthersKeep DEF Lifecycle, ReaderEnded, Revoked
<1>7. CASE Retire
  <2>1. ~[session EXCEPT !.socket = FALSE, !.alive = FALSE].socket
    BY <1>1 DEF PortalSessions
  <2> QED
    BY <1>2, <1>7, <2>1, OthersKeep DEF Retire
<1>8. CASE Stop
  <2>1. ~[session EXCEPT !.stopped = TRUE, !.socket = FALSE, !.alive = FALSE].socket
    BY <1>1 DEF PortalSessions
  <2> QED
    BY <1>2, <1>8, <2>1, OthersKeep DEF Stop
<1> QED
  BY <1>3, <1>4, <1>5, <1>6, <1>7, <1>8

\* A step of a caller changes no receipt, and its command only when it begins.
LEMMA CallerKeeps ==
    ASSUME PortalInv, NEW c \in Users, NEW r \in PortalCalls,
           call' = [call EXCEPT ![c] = r],
           UNCHANGED <<scene, session, writer, heldKeys, downKeys, stray>>,
           r.receipt = call[c].receipt, r.started = call[c].started,
           r.result \in {"ok", "invalid"} => r.receipt = r.result,
           r.pc \in {"idle", "asked"} => call[c].pc \in {"idle", "asked"},
           \/ r.op = call[c].op
           \/ /\ call[c].pc = "idle"
              /\ \A i \in DOMAIN r.op : r.op[i].kind = "releaseAll" => Len(r.op) = 1
    PROVE  PortalInv'
<1> USE DEF PortalInv
<1>1. call \in [Users -> PortalCalls] /\ call' \in [Users -> PortalCalls]
  BY DEF PortalTypes
<1>2. call'[c] = r /\ \A d \in Users : d # c => call'[d] = call[d]
  BY <1>1
<1>3. PortalTypes'
  BY <1>1 DEF PortalTypes
<1>4. HandInv'
  <2>1. \A d \in Users : /\ call'[d].receipt = call[d].receipt /\ call'[d].started = call[d].started
                         /\ call'[d].pc \in {"idle", "asked"} => call[d].pc \in {"idle", "asked"}
    BY <1>2
  <2> QED
    BY <1>2, <2>1 DEF HandInv
<1>5. RecordInv'
  BY DEF RecordInv
<1>6. RunInv'
  <2>1. \A d \in Users : \A i \in DOMAIN call'[d].op :
          call'[d].op[i].kind = "releaseAll" => Len(call'[d].op) = 1
    <3>1. TAKE d \in Users
    <3>2. CASE d = c /\ r.op # call[c].op
      BY <1>2, <3>2
    <3>3. CASE d # c \/ r.op = call[c].op
      <4>1. call'[d].op = call[d].op
        BY <1>2, <3>3
      <4> QED
        BY <4>1 DEF RunInv
    <3> QED
      BY <3>2, <3>3
  <2>2. writer.pc = "run" => call'[writer.by].op = call[writer.by].op
    BY <1>2 DEF HandInv
  <2>3. WithItself(writer.acts)' = WithItself(writer.acts)
    BY DEF WithItself
  <2>4. writer.pc = "run" => WithItself(call[writer.by].op)' = WithItself(call[writer.by].op)
    BY <2>2 DEF WithItself
  <2>5. Permitted(heldKeys, writer.frames \o writer.acts)' = Permitted(heldKeys, writer.frames \o writer.acts)
    BY DEF Permitted, Permits, HeldBefore, Changes
  <2> QED
    BY <2>1, <2>3, <2>4, <2>5 DEF RunInv
<1> QED
  BY <1>3, <1>4, <1>5, <1>6 DEF NoStrayRelease

\* A caller asks for an operation, or is refused (submit).
LEMMA SubmitKeeps ==
    ASSUME PortalInv, NEW c \in Users, NEW op \in Seq(Doings), Submit(c, op),
           \A i \in DOMAIN op : op[i].kind = "releaseAll" => Len(op) = 1
    PROVE  PortalInv'
<1> DEFINE refused == Ended(c, "refused")
           asked == [call[c] EXCEPT !.pc = "asked", !.op = op]
<1>1. call[c] \in PortalCalls /\ call[c].pc = "idle"
  BY DEF PortalInv, PortalTypes, Submit
<1>2. /\ refused \in PortalCalls /\ refused.receipt = call[c].receipt
      /\ refused.started = call[c].started /\ refused.op = call[c].op
      /\ refused.result = "refused" /\ refused.pc = "done"
  BY <1>1 DEF PortalCalls, Ended, Receipts
<1>3. /\ asked \in PortalCalls /\ asked.receipt = call[c].receipt
      /\ asked.started = call[c].started /\ asked.op = op
      /\ asked.result = call[c].result /\ asked.pc = "asked"
  BY <1>1 DEF PortalCalls
<1>4. call[c].result \in {"ok", "invalid"} => call[c].receipt = call[c].result
  BY DEF PortalInv, HandInv
<1>5. UNCHANGED <<scene, session, writer, heldKeys, downKeys, stray>>
  BY DEF Submit
<1>6. call' = [call EXCEPT ![c] = refused] \/ call' = [call EXCEPT ![c] = asked]
  BY DEF Submit, Set
<1> HIDE DEF refused, asked
<1>7. CASE call' = [call EXCEPT ![c] = refused]
  BY <1>2, <1>5, <1>7, CallerKeeps
<1>8. CASE call' = [call EXCEPT ![c] = asked]
  BY <1>1, <1>3, <1>4, <1>5, <1>8, CallerKeeps
<1> QED
  BY <1>6, <1>7, <1>8

\* The other steps of a caller: its context ends, it gives up, or it takes the receipt
\* (submit), and Close returns.
LEMMA CallKeeps ==
    ASSUME PortalInv, NEW c \in Users,
           CancelCall(c) \/ GiveUp(c) \/ Receive(c) \/ (c = Closer /\ CloseReturns)
    PROVE  PortalInv'
<1>1. call[c] \in PortalCalls
  BY DEF PortalInv, PortalTypes
<1>2. call[c].result \in {"ok", "invalid"} => call[c].receipt = call[c].result
  BY DEF PortalInv, HandInv
<1>3. UNCHANGED <<scene, session, writer, heldKeys, downKeys, stray>>
  BY DEF CancelCall, GiveUp, Receive, CloseReturns
<1>4. CASE CancelCall(c)
  <2> DEFINE r == [call[c] EXCEPT !.canceled = TRUE]
  <2>1. /\ r \in PortalCalls /\ r.receipt = call[c].receipt /\ r.started = call[c].started
        /\ r.op = call[c].op /\ r.result = call[c].result /\ r.pc = call[c].pc
    BY <1>1 DEF PortalCalls
  <2>2. call' = [call EXCEPT ![c] = r]
    BY <1>4 DEF CancelCall, Set
  <2> HIDE DEF r
  <2> QED
    BY <1>2, <1>3, <2>1, <2>2, CallerKeeps
<1>5. CASE GiveUp(c) \/ Receive(c)
  <2>1. PICK e \in Receipts : /\ call' = [call EXCEPT ![c] = Ended(c, e)]
                              /\ e \in {"ok", "invalid"} => e = call[c].receipt
    <3>1. CASE GiveUp(c)
      BY <3>1 DEF GiveUp, Set, Receipts
    <3>2. CASE Receive(c)
      <4> DEFINE e == IF call[c].canceled THEN "canceled" ELSE IF Refusing THEN "refused" ELSE call[c].receipt
      <4>1. e \in Receipts /\ (e \in {"ok", "invalid"} => e = call[c].receipt)
        BY <1>1 DEF PortalCalls, Receipts
      <4>2. call' = [call EXCEPT ![c] = Ended(c, e)]
        BY <3>2 DEF Receive, Set
      <4> QED
        BY <4>1, <4>2
    <3> QED
      BY <1>5, <3>1, <3>2
  <2> DEFINE r == Ended(c, e)
  <2>2. /\ r \in PortalCalls /\ r.receipt = call[c].receipt /\ r.started = call[c].started
        /\ r.op = call[c].op /\ r.result = e /\ r.pc = "done"
    BY <1>1 DEF PortalCalls, Ended
  <2>3. call' = [call EXCEPT ![c] = r]
    BY <2>1
  <2> HIDE DEF r
  <2> QED
    BY <1>3, <2>1, <2>2, <2>3, CallerKeeps
<1>6. CASE c = Closer /\ CloseReturns
  <2> DEFINE r == [call[c] EXCEPT !.pc = "closed"]
  <2>1. /\ r \in PortalCalls /\ r.receipt = call[c].receipt /\ r.started = call[c].started
        /\ r.op = call[c].op /\ r.result = call[c].result /\ r.pc = "closed"
    BY <1>1 DEF PortalCalls
  <2>2. call' = [call EXCEPT ![c] = r]
    BY <1>6 DEF CloseReturns, Set
  <2> HIDE DEF r
  <2> QED
    BY <1>2, <1>3, <2>1, <2>2, CallerKeeps
<1> QED
  BY <1>4, <1>5, <1>6

\* The writer takes a command that has not begun (submit, writeLoop).
LEMMA HandKeeps ==
    ASSUME PortalInv, NEW c \in Users, Hand(c)
    PROVE  PortalInv'
<1> USE DEF PortalInv
<1> DEFINE r == [call[c] EXCEPT !.pc = "sent"]
           w == [writer EXCEPT !.pc = "got", !.by = c]
<1>1. call[c] \in PortalCalls /\ call \in [Users -> PortalCalls] /\ writer \in PortalWriters
  BY DEF PortalTypes
<1>2. /\ r \in PortalCalls /\ r.receipt = call[c].receipt /\ r.started = call[c].started
      /\ r.op = call[c].op /\ r.result = call[c].result /\ r.pc = "sent"
  BY <1>1 DEF PortalCalls
<1>3. w \in PortalWriters /\ w.pc = "got" /\ w.by = c
  BY <1>1 DEF PortalWriters
<1>4. /\ call' = [call EXCEPT ![c] = r] /\ writer' = w /\ call[c].pc = "asked" /\ writer.pc = "idle"
      /\ UNCHANGED <<scene, session, heldKeys, downKeys, stray>>
  BY DEF Hand, Set
<1> HIDE DEF r, w
<1>5. call'[c] = r /\ (\A d \in Users : d # c => call'[d] = call[d]) /\ call' \in [Users -> PortalCalls]
  BY <1>1, <1>2, <1>4
<1>6. PortalTypes'
  BY <1>3, <1>4, <1>5 DEF PortalTypes
<1>7. HandInv'
  <2>1. ~call[c].started /\ call[c].receipt = Nothing
    BY <1>4 DEF HandInv
  <2> QED
    BY <1>2, <1>3, <1>4, <1>5, <2>1 DEF HandInv
<1>8. RecordInv'
  BY <1>3, <1>4 DEF RecordInv
<1>9. RunInv'
  <2>1. \A d \in Users : call'[d].op = call[d].op
    BY <1>2, <1>5
  <2> QED
    BY <1>3, <1>4, <2>1 DEF RunInv
<1> QED
  BY <1>4, <1>6, <1>7, <1>8, <1>9 DEF NoStrayRelease

\* A command ends with its receipt, and the writer is idle or over (writeLoop, write,
\* revoke).
LEMMA ReceiptKeeps ==
    ASSUME PortalInv, writer.pc \in {"got", "run"},
           NEW e \in {"ok", "invalid", "canceled", "refused", "revoked"},
           e = "ok" => writer.pc = "run", e = "invalid" => writer.pc = "got",
           call' = Receipt(e), NEW at \in {"idle", "over"}, writer' = Idle(at),
           UNCHANGED <<scene, heldKeys, stray>>,
           session' \in PortalSessions, downKeys' \subseteq Inputs,
           at = "idle" => UNCHANGED <<session, downKeys>>
    PROVE  PortalInv'
<1> USE DEF PortalInv
<1> DEFINE c == writer.by
           g == IF call[c].canceled THEN "canceled" ELSE e
           r == [call[c] EXCEPT !.receipt = g]
<1>1. /\ writer \in PortalWriters /\ call \in [Users -> PortalCalls] /\ c \in Users
      /\ call[c] \in PortalCalls /\ call[c].receipt = Nothing
      /\ call[c].pc \notin {"idle", "asked"} /\ (call[c].started <=> writer.pc = "run")
  BY DEF PortalTypes, HandInv
<1>2. /\ g \in Receipts /\ (g = "ok" => e = "ok") /\ (g = "invalid" => e = "invalid")
  BY DEF Receipts
<1>3. call' = [call EXCEPT ![c] = r]
  BY DEF Receipt
<1> HIDE DEF g
<1>4. /\ r \in PortalCalls /\ r.receipt = g /\ r.started = call[c].started
      /\ r.op = call[c].op /\ r.result = call[c].result /\ r.pc = call[c].pc
  BY <1>1, <1>2 DEF PortalCalls
<1> HIDE DEF r
<1>5. writer' \in PortalWriters /\ writer'.pc = at
  <2>1. <<>> \in Seq(Doings) /\ <<>> \in Seq(FrameSet)
    OBVIOUS
  <2>2. writer' = [writer EXCEPT !.pc = at, !.acts = <<>>, !.frames = <<>>]
    BY DEF Idle
  <2>3. writer \in PortalWriters
    BY <1>1
  <2> QED
    BY <2>1, <2>2, <2>3 DEF PortalWriters
<1> HIDE DEF c
<1>6. call'[c] = r /\ (\A d \in Users : d # c => call'[d] = call[d]) /\ call' \in [Users -> PortalCalls]
  BY <1>1, <1>3, <1>4
<1>7. PortalTypes'
  BY <1>5, <1>6 DEF PortalTypes
<1>8. HandInv'
  <2>1. call[c].result \notin {"ok", "invalid"}
    BY <1>1, NothingIsNothing DEF HandInv
  <2>2. \A d \in Users :
          /\ call'[d].pc \in {"idle", "asked"} => ~call'[d].started /\ call'[d].receipt = Nothing
          /\ call'[d].receipt = "ok" => call'[d].started
          /\ call'[d].receipt = "invalid" => ~call'[d].started
          /\ call'[d].result \in {"ok", "invalid"} => call'[d].receipt = call'[d].result
    <3>1. TAKE d \in Users
    <3>2. CASE d = c
      BY <1>1, <1>2, <1>4, <1>6, <2>1, <3>2
    <3>3. CASE d # c
      BY <1>6, <3>3 DEF HandInv
    <3> QED
      BY <3>2, <3>3
  <2> QED
    BY <1>5, <2>2 DEF HandInv
<1>9. RecordInv'
  BY <1>5 DEF RecordInv
<1>10. RunInv'
  <2>1. \A d \in Users : call'[d].op = call[d].op
    BY <1>4, <1>6
  <2> QED
    BY <1>5, <2>1 DEF RunInv
<1> QED
  BY <1>7, <1>8, <1>9, <1>10 DEF NoStrayRelease

\* The writer begins a command, or refuses it without a trace (writeLoop).
LEMMA TakeKeeps == ASSUME PortalInv, Take PROVE PortalInv'
<1> USE DEF PortalInv
<1> DEFINE c == writer.by
           op == call[c].op
<1>1. /\ writer.pc = "got" /\ UNCHANGED <<scene, session, heldKeys, downKeys, stray>>
      /\ session \in PortalSessions /\ downKeys \subseteq Inputs
      /\ c \in Users /\ call[c].receipt = Nothing /\ call[c].pc \notin {"idle", "asked"}
  BY DEF Take, PortalTypes, HandInv
<1>2. CASE \E e \in {"canceled", "refused", "invalid"} : \E at \in {"idle", "over"} :
             call' = Receipt(e) /\ writer' = Idle(at)
  BY <1>1, <1>2, ReceiptKeeps
<1>3. CASE /\ ValidSequence(op)
           /\ writer' = [writer EXCEPT !.pc = "run", !.acts = op, !.frames = <<>>]
           /\ call' = [call EXCEPT ![c].started = TRUE]
  <2> DEFINE r == [call[c] EXCEPT !.started = TRUE]
             w == [writer EXCEPT !.pc = "run", !.acts = op, !.frames = <<>>]
  <2>1. call[c] \in PortalCalls /\ call \in [Users -> PortalCalls] /\ writer \in PortalWriters
    BY <1>1 DEF PortalTypes
  <2>2. /\ r \in PortalCalls /\ r.receipt = call[c].receipt /\ r.started = TRUE
        /\ r.op = call[c].op /\ r.result = call[c].result /\ r.pc = call[c].pc
    BY <2>1 DEF PortalCalls
  <2>3. op \in Seq(Doings)
    BY <2>1 DEF PortalCalls
  <2>4. w \in PortalWriters /\ w.pc = "run" /\ w.by = c /\ w.acts = op /\ w.frames = <<>>
    <3>1. <<>> \in Seq(FrameSet)
      OBVIOUS
    <3> QED
      BY <2>1, <2>3, <3>1 DEF PortalWriters
  <2>5. call' = [call EXCEPT ![c] = r] /\ writer' = w
    BY <1>3
  <2> HIDE DEF r, w
  <2>6. call'[c] = r /\ (\A d \in Users : d # c => call'[d] = call[d]) /\ call' \in [Users -> PortalCalls]
    BY <1>1, <2>1, <2>2, <2>5
  <2>7. PortalTypes'
    BY <1>1, <2>4, <2>5, <2>6 DEF PortalTypes
  <2>8. HandInv'
    <3>1. call[c].result \notin {"ok", "invalid"}
      BY <1>1, NothingIsNothing DEF HandInv
    <3>2. \A d \in Users :
            /\ call'[d].pc \in {"idle", "asked"} => ~call'[d].started /\ call'[d].receipt = Nothing
            /\ call'[d].receipt = "ok" => call'[d].started
            /\ call'[d].receipt = "invalid" => ~call'[d].started
            /\ call'[d].result \in {"ok", "invalid"} => call'[d].receipt = call'[d].result
      <4>1. TAKE d \in Users
      <4>2. CASE d = c
        BY <1>1, <2>2, <2>6, <3>1, <4>2, NothingIsNothing
      <4>3. CASE d # c
        BY <2>6, <4>3 DEF HandInv
      <4> QED
        BY <4>2, <4>3
    <3> QED
      BY <1>1, <2>2, <2>4, <2>5, <2>6, <3>2 DEF HandInv
  <2>9. RecordInv'
    BY <1>1, <2>4, <2>5 DEF RecordInv
  <2>10. RunInv'
    <3>1. \A d \in Users : call'[d].op = call[d].op
      BY <2>2, <2>6
    <3>2. writer'.frames \o writer'.acts = op
      <4>1. <<>> \o op = op
        BY <2>3, ConcatEmptySeq
      <4>2. writer'.frames = <<>> /\ writer'.acts = op
        BY <2>4, <2>5
      <4> QED
        BY <4>1, <4>2
    <3>3. Permitted(heldKeys', op)
      BY <1>1, <1>3 DEF Permitted, ValidSequence
    <3>4. Permitted(heldKeys, writer.frames \o writer.acts)'
      BY <3>2, <3>3 DEF Permitted, Permits, HeldBefore, Changes
    <3>5. WithItself(writer.acts)' <=> WithItself(call[writer.by].op)'
      BY <2>2, <2>4, <2>5, <2>6 DEF WithItself
    <3>6. \A i \in DOMAIN op : op[i].kind = "releaseAll" => Len(op) = 1
      BY <1>1 DEF RunInv
    <3> QED
      BY <2>4, <2>5, <3>1, <3>4, <3>5, <3>6 DEF RunInv
  <2> QED
    BY <1>1, <2>7, <2>8, <2>9, <2>10 DEF NoStrayRelease
<1> QED
  BY <1>2, <1>3 DEF Take

\* What the writer's step leaves of a running command: nothing but the frames, the
\* actions, the record and the compositor's keys has changed.
LEMMA RunKeeps ==
    ASSUME PortalInv, writer.pc = "run", NEW s \in Seq(FrameSet), NEW t \in Seq(Doings),
           writer' = [writer EXCEPT !.frames = s, !.acts = t],
           UNCHANGED <<scene, session, call>>,
           heldKeys' \subseteq Inputs, downKeys' \subseteq Inputs,
           session.socket => heldKeys' = downKeys', ~stray',
           \A i \in DOMAIN t : t[i].kind = "releaseAll" => Len(t) = 1,
           ~WithItself(call[writer.by].op) => ~WithItself(t) /\ Permitted(heldKeys', s \o t)
    PROVE  PortalInv'
<1> USE DEF PortalInv
<1>1. writer \in PortalWriters
  BY DEF PortalTypes
<1>2. /\ writer' \in PortalWriters /\ writer'.pc = "run" /\ writer'.by = writer.by
      /\ writer'.frames = s /\ writer'.acts = t
  BY <1>1 DEF PortalWriters
<1>3. PortalTypes'
  BY <1>2 DEF PortalTypes
<1>4. HandInv'
  BY <1>2 DEF HandInv
<1>5. RecordInv'
  BY DEF RecordInv
<1>6. RunInv'
  <2>1. WithItself(writer.acts)' <=> WithItself(t)
    BY <1>2 DEF WithItself
  <2>2. Permitted(heldKeys', s \o t) => Permitted(heldKeys, writer.frames \o writer.acts)'
    <3> DEFINE q == (writer.frames \o writer.acts)'
    <3>1. q = s \o t
      BY <1>2
    <3>2. Permitted(heldKeys, writer.frames \o writer.acts)' <=> Permitted(heldKeys', q)
      BY DEF Permitted, Permits, HeldBefore, Changes
    <3> HIDE DEF q
    <3> QED
      BY <3>1, <3>2
  <2>3. WithItself(call[writer.by].op)' <=> WithItself(call[writer.by].op)
    BY <1>2 DEF WithItself
  <2> QED
    BY <1>2, <2>1, <2>2, <2>3 DEF RunInv
<1> QED
  BY <1>3, <1>4, <1>5, <1>6 DEF NoStrayRelease

\* An action is turned into its frames (Type, typeAction, releaseHeldInput).
LEMMA RunActionKeeps == ASSUME PortalInv, RunAction PROVE PortalInv'
<1> USE DEF PortalInv
<1>1. /\ writer.pc = "run" /\ writer.frames = <<>>
      /\ UNCHANGED <<scene, session, heldKeys, downKeys, stray>>
      /\ session \in PortalSessions /\ heldKeys \subseteq Inputs /\ downKeys \subseteq Inputs
      /\ writer \in PortalWriters
  BY DEF RunAction, PortalTypes
<1>2. CASE \E e \in {"ok", "canceled"} : call' = Receipt(e) /\ writer' = Idle("idle")
  BY <1>1, <1>2, ReceiptKeeps
<1>3. ASSUME writer.acts # <<>>, UNCHANGED call, NEW s \in Frames(Head(writer.acts)),
             writer' = [writer EXCEPT !.frames = s, !.acts = Tail(@)]
      PROVE  PortalInv'
  <2> DEFINE a == Head(writer.acts)
             t == Tail(writer.acts)
  <2>1. writer.acts \in Seq(Doings)
    BY <1>1 DEF PortalWriters
  <2>2. /\ a \in Doings /\ t \in Seq(Doings) /\ writer.acts = <<a>> \o t /\ a = writer.acts[1]
        /\ 1 \in DOMAIN writer.acts
        /\ \A i \in DOMAIN t : i + 1 \in DOMAIN writer.acts /\ t[i] = writer.acts[i + 1]
    BY <1>3, <2>1
  <2>3. s \in Seq(FrameSet)
    BY <1>1, <1>3, <2>2, FramesAreFrames
  <2>4. \A i \in DOMAIN t : t[i].kind = "releaseAll" => Len(t) = 1
    <3>1. \A i \in DOMAIN writer.acts : writer.acts[i].kind = "releaseAll" => Len(writer.acts) = 1
      BY <1>1 DEF RunInv
    <3>2. Len(writer.acts) = 1 => t = <<>>
      BY <2>1, TailOfOne
    <3> QED
      BY <2>2, <3>1, <3>2
  <2>5. ASSUME ~WithItself(call[writer.by].op)
        PROVE  ~WithItself(t) /\ Permitted(heldKeys, s \o t)
    <3>1. ~WithItself(writer.acts) /\ Permitted(heldKeys, writer.frames \o writer.acts)
      BY <1>1, <2>5 DEF RunInv
    <3>2. writer.frames \o writer.acts = <<a>> \o t
      BY <1>1, <2>1, <2>2
    <3>3. Permitted(heldKeys, <<a>> \o t)
      BY <3>1, <3>2
    <3>4. a.key \notin a.mods /\ ~WithItself(t)
      BY <2>2, <3>1 DEF WithItself
    <3>5. CASE a.kind = "releaseAll"
      <4>1. t = <<>>
        <5>1. Len(writer.acts) = 1
          BY <1>1, <2>2, <3>5 DEF RunInv
        <5> QED
          BY <2>1, <5>1, TailOfOne
      <4>2. s \in ReleaseFrames
        BY <1>3, <3>5 DEF Frames
      <4>3. Permitted(heldKeys, s)
        BY <1>1, <4>2, ReleaseFramesAreRight
      <4>4. s \o t = s
        BY <2>3, <4>1, ConcatEmptySeq
      <4> QED
        BY <3>4, <4>3, <4>4
    <3>6. CASE a.kind # "releaseAll"
      <4>1. a \in PortalActions
        BY <2>2, <3>6 DEF Doings, Action
      <4>2. a.key = Nothing \/ Permits(a, a.key \in heldKeys)
        <5>1. /\ <<a>> \o t \in Seq(Doings) /\ <<a>> \o t # <<>> /\ Head(<<a>> \o t) = a
          BY <2>1, <2>2
        <5> QED
          BY <3>3, <5>1, PermittedHead
      <4>3. /\ Permitted(heldKeys, s)
            /\ \A k : HeldBefore(heldKeys, s, Len(s) + 1, k) <=> HeldBefore(heldKeys, <<a>>, 2, k)
        BY <1>1, <1>3, <3>4, <4>1, <4>2, FramesAreRight
      <4>4. Permitted(heldKeys, s \o t)
        <5> DEFINE S == FrameSet \cup Doings
        <5>1. a \in S /\ s \in Seq(S) /\ t \in Seq(S)
          BY <2>2, <2>3
        <5> HIDE DEF S, a, t
        <5> QED
          BY <3>3, <4>3, <5>1, ReplaceHead
      <4> QED
        BY <3>4, <4>4
    <3> QED
      BY <3>5, <3>6
  <2>6. writer' = [writer EXCEPT !.frames = s, !.acts = t]
    BY <1>1, <1>3 DEF PortalWriters
  <2>7. session.socket => heldKeys = downKeys
    BY <1>1 DEF RecordInv
  <2> HIDE DEF a, t
  <2> QED
    BY <1>1, <1>3, <2>2, <2>3, <2>4, <2>5, <2>6, <2>7, RunKeeps DEF NoStrayRelease
<1> QED
  BY <1>1, <1>2, <1>3 DEF RunAction

\* A frame reaches the compositor and the record alike (write, typeAction).
LEMMA WriteKeeps == ASSUME PortalInv, Write PROVE PortalInv'
<1> USE DEF PortalInv
<1> DEFINE f == Head(writer.frames)
           s == Tail(writer.frames)
           t == writer.acts
<1>1. /\ session.socket /\ writer.pc = "run" /\ writer.frames # <<>>
      /\ downKeys' = Applied(downKeys, f) /\ heldKeys' = Applied(heldKeys, f)
      /\ stray' = (stray \/ (f.kind = "up" /\ f.key \notin downKeys /\ ~WithItself(call[writer.by].op)))
      /\ writer' = [writer EXCEPT !.frames = Tail(@)]
      /\ UNCHANGED <<scene, session, call>>
  BY DEF Write
<1>2. /\ writer \in PortalWriters /\ heldKeys \subseteq Inputs /\ downKeys \subseteq Inputs
      /\ heldKeys = downKeys
  BY <1>1 DEF PortalTypes, RecordInv
<1>3. writer.frames \in Seq(FrameSet) /\ writer.acts \in Seq(Doings)
  BY <1>2 DEF PortalWriters
<1>4. f \in FrameSet /\ s \in Seq(FrameSet) /\ t \in Seq(Doings)
  BY <1>1, <1>3
<1>5. \/ f.key \in Inputs /\ f.key # Nothing /\ f.kind \in {"down", "up"}
      \/ f.key = Nothing /\ f.kind = "other"
  BY <1>4, NothingIsNothing DEF FrameSet, Keyless, Frame
<1>6. /\ writer.frames \o writer.acts \in Seq(FrameSet \cup Doings)
      /\ writer.frames \o writer.acts # <<>>
      /\ Head(writer.frames \o writer.acts) = f
      /\ Tail(writer.frames \o writer.acts) = s \o t
  <2> DEFINE S == FrameSet \cup Doings
             x == writer.frames
             y == writer.acts
  <2>1. x \in Seq(S) /\ y \in Seq(S) /\ x # <<>>
    BY <1>1, <1>3
  <2>2. f = Head(x) /\ s = Tail(x) /\ t = y
    OBVIOUS
  <2> HIDE DEF S, x, y
  <2>3. x \o y \in Seq(S) /\ x \o y # <<>> /\ Head(x \o y) = Head(x) /\ Tail(x \o y) = Tail(x) \o y
    BY <2>1, TailOfConcat
  <2> USE DEF S, x, y
  <2> QED
    BY <2>2, <2>3
<1>7. \A k : HoldsAfter(heldKeys, f) = Applied(heldKeys, f)
  BY DEF HoldsAfter, Applied
<1>8. writer' = [writer EXCEPT !.frames = s, !.acts = t]
  BY <1>1, <1>2 DEF PortalWriters
<1> HIDE DEF f, s, t
<1>9. heldKeys' \subseteq Inputs /\ downKeys' \subseteq Inputs /\ heldKeys' = downKeys'
  BY <1>1, <1>2, <1>5 DEF Applied
<1>10. ASSUME ~WithItself(call[writer.by].op)
       PROVE  /\ ~WithItself(t) /\ Permitted(heldKeys', s \o t)
              /\ ~(f.kind = "up" /\ f.key \notin downKeys)
  <2>1. ~WithItself(t) /\ Permitted(heldKeys, writer.frames \o writer.acts)
    BY <1>1, <1>10 DEF RunInv, t
  <2>2. Permitted(heldKeys', s \o t)
    BY <1>1, <1>6, <1>7, <2>1, PermittedTail
  <2>3. f.kind = "up" => f.key \in heldKeys
    BY <1>5, <1>6, <2>1, PermittedHead DEF Permits
  <2> QED
    BY <1>2, <2>1, <2>2, <2>3
<1>11. ~stray'
  BY <1>1, <1>10 DEF NoStrayRelease
<1>12. \A i \in DOMAIN t : t[i].kind = "releaseAll" => Len(t) = 1
  BY <1>1 DEF RunInv, t
<1> QED
  BY <1>1, <1>4, <1>8, <1>9, <1>10, <1>11, <1>12, RunKeeps
\* A write that fails, a click that is interrupted and the end of the session end
\* the writer (writeMessages, MouseClick, writeLoop).
LEMMA EndKeeps == ASSUME PortalInv, WriteFails \/ ClickCanceled \/ WriterStops PROVE PortalInv'
<1> USE DEF PortalInv
<1>1. session \in PortalSessions /\ writer \in PortalWriters /\ downKeys \subseteq Inputs
  BY DEF PortalTypes
<1>2. Revoked \in PortalSessions /\ Revoked.socket = session.socket
  BY <1>1 DEF Revoked, PortalSessions
<1>3. CASE WriteFails \/ ClickCanceled
  <2>1. /\ writer.pc = "run" /\ call' = Receipt("revoked") /\ writer' = Idle("over")
        /\ session' = Revoked /\ UNCHANGED <<scene, heldKeys, stray>>
    BY <1>3 DEF WriteFails, ClickCanceled
  <2>2. downKeys' \subseteq Inputs
    <3>1. CASE UNCHANGED downKeys
      BY <1>1, <3>1
    <3>2. CASE WriteFails /\ downKeys' = Applied(downKeys, Head(writer.frames))
      <4> DEFINE f == Head(writer.frames)
      <4>1. f \in FrameSet
        BY <1>1, <3>2 DEF WriteFails, PortalWriters
      <4>2. f.kind = "down" => f.key \in Inputs
        BY <4>1 DEF FrameSet, Keyless, Frame
      <4> QED
        BY <1>1, <3>2, <4>2 DEF Applied
    <3> QED
      BY <1>3, <3>1, <3>2 DEF WriteFails, ClickCanceled
  <2> QED
    BY <1>2, <2>1, <2>2, ReceiptKeeps
<1>4. CASE WriterStops
  <2>1. writer' = Idle("over") /\ UNCHANGED <<scene, session, call, heldKeys, downKeys, stray>>
    BY <1>4 DEF WriterStops
  <2>2. writer' \in PortalWriters /\ writer'.pc = "over" /\ writer'.by = writer.by
    <3>1. <<>> \in Seq(Doings) /\ <<>> \in Seq(FrameSet)
      OBVIOUS
    <3> QED
      BY <1>1, <2>1, <3>1 DEF Idle, PortalWriters
  <2>3. PortalTypes'
    BY <2>1, <2>2 DEF PortalTypes
  <2>4. HandInv'
    BY <2>1, <2>2 DEF HandInv
  <2>5. RecordInv'
    BY <2>2 DEF RecordInv
  <2>6. RunInv'
    BY <2>1, <2>2 DEF RunInv
  <2> QED
    BY <2>1, <2>3, <2>4, <2>5, <2>6 DEF NoStrayRelease
<1> QED
  BY <1>3, <1>4

\* The command of Close is one that the writer knows (releaseHeldInput), and so are
\* the operations of the callers.
LEMMA CommandsAreKnown ==
    /\ ReleaseAll \in Seq(Doings)
    /\ \A i \in DOMAIN ReleaseAll : ReleaseAll[i].kind = "releaseAll" => Len(ReleaseAll) = 1
    /\ \A s \in Scenes : \A c \in Callers : \A op \in s.ops[c] :
          /\ op \in Seq(Doings)
          /\ \A i \in DOMAIN op : op[i].kind = "releaseAll" => Len(op) = 1
<1>1. Action("releaseAll", Nothing, {}) \in Doings
  BY DEF Doings
<1>2. ReleaseAll \in Seq(Doings) /\ Len(ReleaseAll) = 1
  BY <1>1 DEF ReleaseAll
<1>3. \A a \in PortalActions : a.kind # "releaseAll" /\ a \in Doings
  BY DEF PortalActions, Doings
<1>4. ASSUME NEW s \in Scenes, NEW c \in Callers, NEW op \in s.ops[c]
      PROVE  /\ op \in Seq(Doings)
             /\ \A i \in DOMAIN op : op[i].kind = "releaseAll" => Len(op) = 1
  <2>1. op \in Seq(PortalActions)
    BY ScenesAreScenes
  <2>2. \A i \in DOMAIN op : op[i] \in PortalActions
    BY <2>1
  <2>3. op \in Seq(Doings)
    <3>1. PortalActions \subseteq Doings
      BY <1>3
    <3> HIDE DEF PortalActions, Doings
    <3> QED
      BY <2>1, <3>1
  <2> QED
    BY <1>3, <2>2, <2>3
<1> QED
  BY <1>2, <1>4

LEMMA PortalSteps == PortalInv /\ [PortalNext]_portalVars => PortalInv'
<1> SUFFICES ASSUME PortalInv, [PortalNext]_portalVars PROVE PortalInv'
  OBVIOUS
<1>1. CASE UNCHANGED portalVars
  <2>1. session' \in PortalSessions
    BY <1>1 DEF PortalInv, PortalTypes, portalVars
  <2> QED
    BY <1>1, <2>1, OthersKeep DEF portalVars
<1>2. ASSUME NEW c \in Callers, NEW op \in scene.ops[c], Submit(c, op) PROVE PortalInv'
  <2>1. scene \in Scenes /\ c \in Users
    BY DEF PortalInv, PortalTypes, Users
  <2>2. op \in Seq(Doings) /\ \A i \in DOMAIN op : op[i].kind = "releaseAll" => Len(op) = 1
    BY <2>1, CommandsAreKnown
  <2> QED
    BY <1>2, <2>1, <2>2, SubmitKeeps
<1>3. CASE Submit(Closer, ReleaseAll)
  <2>1. Closer \in Users
    BY DEF Users
  <2> QED
    BY <1>3, <2>1, CommandsAreKnown, SubmitKeeps
<1>4. ASSUME NEW c \in Users, CancelCall(c) \/ CallerStep(c) PROVE PortalInv'
  BY <1>4, CallKeeps, HandKeeps DEF CallerStep
<1>5. CASE WriterStep
  BY <1>5, OtherSteps, TakeKeeps, RunActionKeeps, WriteKeeps, EndKeeps DEF WriterStep
<1>6. CASE Ping \/ PeerStalls \/ Lifecycle \/ OtherStep
  <2>1. Closer \in Users
    BY DEF Users
  <2> QED
    BY <1>6, <2>1, OtherSteps, CallKeeps DEF OtherStep
<1> QED
  BY <1>1, <1>2, <1>3, <1>4, <1>5, <1>6 DEF PortalNext

\* What is recorded as held is down, no release is sent of what is not down, and
\* the answers are true (typeAction, releaseHeldInput, submit, writeLoop).
LEMMA PortalHolds == PortalInv => RemoteHoldsAreExact
<1> SUFFICES ASSUME PortalInv PROVE RemoteHoldsAreExact
  OBVIOUS
<1>1. HeldIsDown
  BY DEF PortalInv, RecordInv, HeldIsDown
<1>2. ReceiptsAreTrue
  <2>1. SUFFICES ASSUME NEW c \in Users
                 PROVE  /\ call[c].result = "ok" => call[c].started /\ (writer.by = c => writer.pc # "run")
                        /\ call[c].result = "invalid" => ~call[c].started
    BY DEF ReceiptsAreTrue
  <2>2. HandInv
    BY DEF PortalInv
  <2>3. call[c].result = "ok" => call[c].receipt = "ok" /\ call[c].started
    BY <2>2 DEF HandInv
  <2>4. call[c].result = "invalid" => ~call[c].started
    BY <2>2 DEF HandInv
  <2>5. writer.by = c /\ writer.pc = "run" => call[c].receipt = Nothing
    BY <2>2 DEF HandInv
  <2>6. "ok" # Nothing
    BY NothingIsNothing
  <2> QED
    BY <2>3, <2>4, <2>5, <2>6
<1> QED
  BY <1>1, <1>2 DEF PortalInv, RemoteHoldsAreExact

\* While the portal session stands and no command runs, the compositor has down
\* exactly what the backend records as held, whatever callers asked for, canceled or
\* saw fail; nothing is released that is not down; "ok" means that the command ran
\* to its end, and a refused command has not run (input/portal.go submit, writeLoop,
\* typeAction, releaseHeldInput, validateTypeHeldSequence).
THEOREM RemoteHolds == PortalSpec => []RemoteHoldsAreExact
<1>1. PortalInit => PortalInv
  BY PortalInitially
<1>2. PortalInv /\ [PortalNext]_portalVars => PortalInv'
  BY PortalSteps
<1>3. PortalInv => RemoteHoldsAreExact
  BY PortalHolds
<1> QED
  BY <1>1, <1>2, <1>3, PTL DEF PortalSpec

-----------------------------------------------------------------------------
(* The virtual keyboard.                                                   *)

\* A set of numbers has a least one.
LEMMA Least ==
    ASSUME NEW T \in SUBSET Nat, T # {}
    PROVE  \E x \in T : \A y \in T : x <= y
<1> DEFINE R == OpToRel(<, Nat)
<1>1. IsWellFoundedOn(R, Nat)
  BY NatLessThanWellFounded
<1>2. \A x, y \in Nat : x < y => <<x, y>> \in R
  BY DEF OpToRel
<1> HIDE DEF R
<1>3. PICK x \in T : \A y \in T : ~(<<y, x>> \in R)
  BY <1>1, WFMin
<1>4. \A y \in T : ~(y < x)
  BY <1>2, <1>3
<1> QED
  BY <1>3, <1>4

LEMMA LeastOfIs ==
    ASSUME NEW T \in SUBSET Nat, T # {}
    PROVE  LeastOf(T) \in T /\ \A y \in T : LeastOf(T) <= y
BY Least DEF LeastOf

\* A set of more than n numbers has one with n below it (takeSlot).
LEMMA Ranked ==
    ASSUME NEW S \in SUBSET Nat, IsFiniteSet(S), NEW n \in Nat, n < Cardinality(S)
    PROVE  \E s \in S : Cardinality({t \in S : t < s}) = n
<1> DEFINE Below(s) == {t \in S : t < s}
           T == {m \in Nat : m < Cardinality(S) /\ ~\E s \in S : Cardinality(Below(s)) = m}
<1>1. SUFFICES ASSUME T # {} PROVE FALSE
  OBVIOUS
<1>2. PICK m \in T : \A k \in T : m <= k
  BY <1>1, Least
<1>3. m \in Nat /\ m < Cardinality(S) /\ Cardinality(S) \in Nat
  BY FS_CardinalityType
<1>4. \A s \in S : s \in Nat /\ IsFiniteSet(Below(s))
  BY FS_Subset
<1>5. CASE m = 0
  <2>1. S # {}
    BY <1>3, <1>5, FS_EmptySet
  <2>2. PICK s \in S : \A t \in S : s <= t
    BY <2>1, Least
  <2>3. Below(s) = {}
    <3>1. \A t \in S : ~(t < s)
      BY <2>2, <1>4
    <3> QED
      BY <3>1
  <2> QED
    BY <2>2, <2>3, <1>2, <1>5, FS_EmptySet
<1>6. CASE m # 0
  <2>1. m - 1 \in Nat /\ m - 1 < Cardinality(S) /\ m - 1 \notin T
    BY <1>2, <1>3, <1>6
  <2>2. PICK s \in S : Cardinality(Below(s)) = m - 1
    BY <2>1
  <2> DEFINE A == Below(s) \cup {s}
             U == S \ A
  <2>3. IsFiniteSet(A) /\ Cardinality(A) = m
    <3>1. s \notin Below(s)
      BY <1>4
    <3>2. IsFiniteSet(Below(s))
      BY <1>4
    <3> HIDE DEF Below
    <3>3. Cardinality(Below(s) \cup {s}) = (m - 1) + 1
      BY <3>1, <3>2, <2>2, FS_AddElement
    <3> QED
      BY <3>2, <3>3, <1>3, FS_AddElement
  <2>4. U # {}
    BY <2>3, <1>3
  <2>5. PICK u \in U : \A t \in U : u <= t
    BY <2>4, Least
  <2>6. Below(u) = A
    <3>1. u \in Nat /\ s < u
      BY <1>4, <2>5
    <3>2. \A t \in S : t \in Nat /\ (t \in A <=> t <= s)
      BY <1>4
    <3>3. \A t \in S : t < u <=> t \in A
      BY <1>4, <2>5, <3>1, <3>2
    <3> QED
      BY <3>3
  <2> QED
    BY <2>3, <2>5, <2>6, <1>2
<1> QED
  BY <1>5, <1>6

\* The first index of an element is one of it.
LEMMA FirstIndexIs ==
    ASSUME NEW X, NEW s \in Seq(X), NEW x \in ToSet(s)
    PROVE  FirstIndex(s, x) \in DOMAIN s /\ FirstIndex(s, x) \in Nat /\ s[FirstIndex(s, x)] = x
<1> DEFINE T == {i \in DOMAIN s : s[i] = x}
<1>1. T \in SUBSET Nat /\ T # {}
  BY DEF ToSet
<1>2. PICK i \in T : \A j \in T : i <= j
  BY <1>1, Least
<1>3. i \in DOMAIN s /\ s[i] = x /\ \A j \in 1..(i - 1) : s[j] # x
  BY <1>2
<1> QED
  BY <1>3 DEF FirstIndex

-----------------------------------------------------------------------------

\* What an action of a call is made of (parseKeySend).
LEMMA SendFields ==
    ASSUME NEW a \in KeySends
    PROVE  /\ a.kind \in {"tap", "down", "up", "text"} /\ a.chars \in Seq(Chars)
           /\ a.mods \subseteq ModKeys
           /\ \/ a.key \in Chars /\ a.chars = <<a.key>>
              \/ a.key \in NamedKeys \cup ModKeys /\ a.chars = <<>>
              \/ a.kind = "text" /\ a.key = "text" /\ a.chars # <<>>
              \/ a.kind = "tap" /\ a.key = "word" /\ a.chars # <<>>
           /\ a.kind = "text" => a.key = "text"
<1>1. Letters \subseteq Seq(Chars) \ {<<>>}
  <2>1. \A c \in Chars : <<c>> \in Seq(Chars) /\ <<c>> # <<>>
    OBVIOUS
  <2> QED
    BY <2>1 DEF Letters
<1>2. Words \subseteq Seq(Chars) \ {<<>>} /\ <<>> \in Seq(Chars)
  BY OrdersAreSequences
<1>3. CASE a \in [kind : SendKinds, key : Chars, chars : Letters, mods : SUBSET ModKeys] /\ a.chars = <<a.key>>
  BY <1>1, <1>3 DEF SendKinds
<1>4. CASE a \in [kind : SendKinds, key : NamedKeys \cup ModKeys, chars : {<<>>}, mods : SUBSET ModKeys]
  BY <1>2, <1>4 DEF SendKinds
<1>5. CASE a \in [kind : {"text"}, key : {"text"}, chars : Letters, mods : {{}}]
  BY <1>1, <1>5
<1>6. CASE a \in [kind : {"tap"}, key : {"word"}, chars : Words, mods : SUBSET ModKeys]
  BY <1>2, <1>6
<1> QED
  BY <1>3, <1>4, <1>5, <1>6 DEF KeySends

\* What is held keeps being held when more is.
LEMMA HeldOfMore ==
    ASSUME NEW g, NEW h, h \subseteq g, NEW b, NEW i, NEW k, HeldBefore(h, b, i, k)
    PROVE  HeldBefore(g, b, i, k)
BY DEF HeldBefore

LEMMA CallsAreSequences == KeyCalls \subseteq Seq(KeySends)
BY KeyboardBoundsAreNat DEF KeyCalls

LEMMA KeysAreFinite == IsFiniteSet(Chars) /\ IsFiniteSet(NamedKeys)
<1>1. \A X : \A s \in Seq(X) : IsFiniteSet(ToSet(s))
  <2>1. SUFFICES ASSUME NEW X, NEW s \in Seq(X) PROVE IsFiniteSet(ToSet(s))
    OBVIOUS
  <2>2. s \in Seq(ToSet(s)) /\ \A x \in ToSet(s) : \E n \in 1..Len(s) : s[n] = x
    BY DEF ToSet
  <2> QED
    BY <2>2 DEF IsFiniteSet
<1> QED
  BY <1>1, OrdersAreSequences DEF Chars, NamedKeys

\* The keys of a keymap are characters and named keys.
LEMMA KeysOfAre ==
    ASSUME NEW b \in Seq(KeySends)
    PROVE  /\ KeysOf(b) \subseteq Chars \cup NamedKeys
           /\ \A k \in KeysOf(b) : k \in Chars \/ (k \in NamedKeys /\ (Naming(b, k) # {} \/ k \in Holding))
           /\ Holding \cap (Chars \cup NamedKeys) \subseteq KeysOf(b)
           /\ \A i \in DOMAIN b : ToSet(b[i].chars) \subseteq KeysOf(b)
           /\ \A i \in DOMAIN b : b[i].key \in NamedKeys => b[i].key \in KeysOf(b)
<1>1. ToSet(Stable) \subseteq Chars
  BY OrdersAreSequences DEF ToSet
<1>2. \A i \in DOMAIN b : ToSet(b[i].chars) \subseteq Chars
  BY SendFields DEF ToSet
<1>3. \A i \in DOMAIN b : ToSet(b[i].chars) \subseteq RunesOf(b)
  BY <1>2 DEF RunesOf, Needing
<1> QED
  BY <1>1, <1>3 DEF KeysOf, AllRunes, RunesOf, NamedOf, Naming

\* The key that a place is of.
At(b, p) == CASE p[1] = 1 -> Stable[p[2]]
              [] p[1] = 2 -> b[p[2]].chars[p[3]]
              [] p[1] = 3 -> CharOrder[p[2]]
              [] p[1] = 4 -> b[p[2]].key
              [] OTHER -> NamedOrder[p[2]]

\* A call comes across different keys in different places.
LEMMA PlaceIs ==
    ASSUME NEW b \in Seq(KeySends), NEW key \in KeysOf(b)
    PROVE  Place(b, key) \in Nat \X Nat \X Nat /\ At(b, Place(b, key)) = key
<1>0. DOMAIN b \subseteq Nat /\ Needing(b, key) \in SUBSET Nat /\ Naming(b, key) \in SUBSET Nat
  BY DEF Needing, Naming
<1>1. CASE key \in ToSet(Stable) /\ Accelerated(b)
  <2>1. FirstIndex(Stable, key) \in Nat /\ Stable[FirstIndex(Stable, key)] = key
    BY <1>1, FirstIndexIs, OrdersAreSequences
  <2>2. Place(b, key) = <<1, FirstIndex(Stable, key), 0>>
    BY <1>1 DEF Place
  <2> QED
    BY <2>1, <2>2 DEF At
<1>2. CASE ~(key \in ToSet(Stable) /\ Accelerated(b)) /\ Needing(b, key) # {}
  <2> DEFINE i == LeastOf(Needing(b, key))
             j == FirstIndex(b[i].chars, key)
  <2>1. i \in Needing(b, key) /\ i \in Nat /\ i \in DOMAIN b /\ key \in ToSet(b[i].chars)
    BY <1>2, <1>0, LeastOfIs DEF Needing
  <2>2. b[i].chars \in Seq(Chars)
    BY <2>1, SendFields
  <2> HIDE DEF i
  <2>3. j \in Nat /\ b[i].chars[j] = key
    BY <2>1, <2>2, FirstIndexIs
  <2> HIDE DEF j
  <2>4. Place(b, key) = <<2, i, j>>
    BY <1>2 DEF Place, i, j
  <2> QED
    BY <2>1, <2>3, <2>4 DEF At
<1>3. CASE ~(key \in ToSet(Stable) /\ Accelerated(b)) /\ Needing(b, key) = {} /\ key \in Chars
  <2>1. FirstIndex(CharOrder, key) \in Nat /\ CharOrder[FirstIndex(CharOrder, key)] = key
    BY <1>3, FirstIndexIs, OrdersAreSequences DEF Chars
  <2>2. Place(b, key) = <<3, FirstIndex(CharOrder, key), 0>>
    BY <1>3 DEF Place
  <2> QED
    BY <2>1, <2>2 DEF At
<1>4. CASE /\ ~(key \in ToSet(Stable) /\ Accelerated(b)) /\ Needing(b, key) = {} /\ key \notin Chars
           /\ Naming(b, key) # {}
  <2> DEFINE i == LeastOf(Naming(b, key))
  <2>1. i \in Nat /\ b[i].key = key
    BY <1>4, <1>0, LeastOfIs DEF Naming
  <2> HIDE DEF i
  <2>2. Place(b, key) = <<4, i, 0>>
    BY <1>4 DEF Place, i
  <2> QED
    BY <2>1, <2>2 DEF At
<1>5. CASE /\ ~(key \in ToSet(Stable) /\ Accelerated(b)) /\ Needing(b, key) = {} /\ key \notin Chars
           /\ Naming(b, key) = {}
  <2>1. key \in NamedKeys
    BY <1>5, KeysOfAre
  <2>2. FirstIndex(NamedOrder, key) \in Nat /\ NamedOrder[FirstIndex(NamedOrder, key)] = key
    BY <2>1, FirstIndexIs, OrdersAreSequences DEF NamedKeys
  <2>3. Place(b, key) = <<5, FirstIndex(NamedOrder, key), 0>>
    BY <1>5 DEF Place
  <2> QED
    BY <2>2, <2>3 DEF At
<1> QED
  BY <1>1, <1>2, <1>3, <1>4, <1>5

\* Places are in one order.
LEMMA PlacesAreOrdered ==
    ASSUME NEW p \in Nat \X Nat \X Nat, NEW q \in Nat \X Nat \X Nat
    PROVE  /\ ~Precedes(p, p)
           /\ p = q \/ Precedes(p, q) \/ Precedes(q, p)
           /\ \A r \in Nat \X Nat \X Nat : Precedes(r, p) /\ Precedes(p, q) => Precedes(r, q)
<1>1. p = <<p[1], p[2], p[3]>> /\ p[1] \in Nat /\ p[2] \in Nat /\ p[3] \in Nat
  OBVIOUS
<1>2. q = <<q[1], q[2], q[3]>> /\ q[1] \in Nat /\ q[2] \in Nat /\ q[3] \in Nat
  OBVIOUS
<1>3. ~Precedes(p, p)
  BY <1>1 DEF Precedes
<1>4. p = q \/ Precedes(p, q) \/ Precedes(q, p)
  <2>1. CASE p[1] = q[1] /\ p[2] = q[2] /\ p[3] = q[3]
    BY <1>1, <1>2, <2>1
  <2> QED
    BY <1>1, <1>2, <2>1 DEF Precedes
<1>5. ASSUME NEW r \in Nat \X Nat \X Nat, Precedes(r, p), Precedes(p, q)
      PROVE  Precedes(r, q)
  <2>1. r[1] \in Nat /\ r[2] \in Nat /\ r[3] \in Nat
    OBVIOUS
  <2> QED
    BY <1>1, <1>2, <1>5, <2>1 DEF Precedes
<1> QED
  BY <1>3, <1>4, <1>5

-----------------------------------------------------------------------------

\* Where a call comes across the keys without a slot of their own before this one.
Earlier(b, key) == {k \in Fresh(b) : Precedes(Place(b, k), Place(b, key))}

\* When there is room, a key that holds no slot is given the free slot that has as
\* many free ones below it as keys come before the key (takeSlot).
LEMMA FreshSlot ==
    ASSUME NEW b \in Seq(KeySends), Fits(b), Reserved \in SUBSET Nat, NEW key \in Fresh(b)
    PROVE  /\ SlotFor(b, key) \in Free
           /\ Cardinality({t \in Free : t < SlotFor(b, key)}) = Cardinality(Earlier(b, key))
           /\ IsFiniteSet(Earlier(b, key))
<1>1. DynBase \in Nat /\ DynMax \in Nat
  BY OrdersAreSequences, KeyboardBoundsAreNat DEF DynBase, DynMax
<1>2. Free \in SUBSET Nat /\ IsFiniteSet(Free) /\ Cardinality(Free) \in Nat
  <2>1. IsFiniteSet(DynBase..DynMax) /\ DynBase..DynMax \subseteq Nat
    BY <1>1, FS_Interval
  <2> QED
    BY <2>1, FS_Subset, FS_CardinalityType DEF Free
<1>3. IsFiniteSet(Fresh(b)) /\ Cardinality(Fresh(b)) \in Nat
  <2>1. Fresh(b) \in SUBSET (Chars \cup NamedKeys)
    BY KeysOfAre DEF Fresh
  <2>2. IsFiniteSet(Chars \cup NamedKeys)
    BY KeysAreFinite, FS_Union
  <2> QED
    BY <2>1, <2>2, FS_Subset, FS_CardinalityType
<1>4. key \in KeysOf(b) /\ key \notin Holding
  BY DEF Fresh
<1>5. key \notin Earlier(b, key) /\ Earlier(b, key) \in SUBSET Fresh(b)
  BY <1>4, PlaceIs, PlacesAreOrdered DEF Earlier
<1>6. /\ IsFiniteSet(Earlier(b, key)) /\ Cardinality(Earlier(b, key)) \in Nat
      /\ Cardinality(Earlier(b, key)) < Cardinality(Fresh(b))
  BY <1>3, <1>5, FS_Subset, FS_CardinalityType
<1>7. Cardinality(Earlier(b, key)) < Cardinality(Free)
  BY <1>2, <1>3, <1>6 DEF Fits
<1> DEFINE n == Cardinality(Earlier(b, key))
<1>8. \E s \in Free : Cardinality({t \in Free : t < s}) = n
  BY <1>2, <1>6, <1>7, Ranked
<1>9. SlotFor(b, key) = CHOOSE s \in Free : Cardinality({t \in Free : t < s}) = n
  BY <1>4 DEF SlotFor, Earlier
<1> QED
  BY <1>6, <1>8, <1>9

\* Different keys come after different numbers of keys.
LEMMA EarlierDiffer ==
    ASSUME NEW b \in Seq(KeySends), NEW k \in Fresh(b), NEW l \in Fresh(b), k # l,
           IsFiniteSet(Earlier(b, k)), IsFiniteSet(Earlier(b, l))
    PROVE  Cardinality(Earlier(b, k)) # Cardinality(Earlier(b, l))
<1>1. \A x \in Fresh(b) : Place(b, x) \in Nat \X Nat \X Nat /\ At(b, Place(b, x)) = x
  BY PlaceIs DEF Fresh
<1>2. Place(b, k) # Place(b, l)
  BY <1>1
<1>3. ASSUME NEW x \in Fresh(b), NEW y \in Fresh(b), Precedes(Place(b, x), Place(b, y)),
             IsFiniteSet(Earlier(b, y))
      PROVE  Cardinality(Earlier(b, x)) # Cardinality(Earlier(b, y))
  <2>1. Earlier(b, x) \in SUBSET Earlier(b, y)
    BY <1>1, <1>3, PlacesAreOrdered DEF Earlier
  <2>2. x \in Earlier(b, y) /\ x \notin Earlier(b, x)
    BY <1>1, <1>3, PlacesAreOrdered DEF Earlier
  <2> QED
    BY <2>1, <2>2, <1>3, FS_Subset
<1>4. Precedes(Place(b, k), Place(b, l)) \/ Precedes(Place(b, l), Place(b, k))
  BY <1>1, <1>2, PlacesAreOrdered
<1> QED
  BY <1>3, <1>4

\* The slots of a keymap are beyond those of the modifiers and no two keys have the
\* same (heldSlots, takeSlot).
IsKeymap(map) ==
    /\ \A k \in DOMAIN map : map[k] \in Nat /\ map[k] > Len(KeyboardMods)
    /\ \A k, l \in DOMAIN map : map[k] = map[l] => k = l

Extends(map) == \A k \in Holding : k \in DOMAIN map /\ map[k] = heldSlots[k]

\* The keymap of a call that fits is one, and leaves what is held where it was.
LEMMA KeymapForIs ==
    ASSUME NEW b \in Seq(KeySends), Fits(b), Holding \subseteq Chars \cup NamedKeys,
           IsKeymap(heldSlots)
    PROVE  IsKeymap(KeymapFor(b)) /\ Extends(KeymapFor(b)) /\ DOMAIN KeymapFor(b) = KeysOf(b)
<1>1. DOMAIN KeymapFor(b) = KeysOf(b) /\ \A k \in KeysOf(b) : KeymapFor(b)[k] = SlotFor(b, k)
  BY DEF KeymapFor
<1>2. \A k \in Holding : SlotFor(b, k) = heldSlots[k] /\ heldSlots[k] \in Reserved
  BY DEF SlotFor, Reserved, Range, Holding
<1>3. Reserved \in SUBSET Nat
  BY DEF IsKeymap, Reserved, Range
<1>4. \A k \in Fresh(b) : SlotFor(b, k) \in Free /\ SlotFor(b, k) \notin Reserved
  BY <1>3, FreshSlot DEF Free
<1>5. Len(KeyboardMods) \in Nat /\ Len(NamedOrder) \in Nat
  BY OrdersAreSequences
<1>6. \A s \in Free : s \in Nat /\ s > Len(KeyboardMods)
  BY <1>5, KeyboardBoundsAreNat DEF Free, DynBase, DynMax
<1>7. \A k \in KeysOf(b) : k \in Holding \/ k \in Fresh(b)
  BY DEF Fresh
<1>8. \A k \in KeysOf(b) : SlotFor(b, k) \in Nat /\ SlotFor(b, k) > Len(KeyboardMods)
  BY <1>2, <1>4, <1>6, <1>7 DEF IsKeymap, Holding
<1>9. ASSUME NEW k \in KeysOf(b), NEW l \in KeysOf(b), SlotFor(b, k) = SlotFor(b, l)
      PROVE  k = l
  <2>1. CASE k \in Holding /\ l \in Holding
    BY <1>2, <1>9, <2>1 DEF IsKeymap, Holding
  <2>2. CASE k \in Fresh(b) /\ l \in Fresh(b)
    <3>1. SUFFICES ASSUME k # l PROVE FALSE
      OBVIOUS
    <3>2. /\ Cardinality({t \in Free : t < SlotFor(b, k)}) = Cardinality(Earlier(b, k))
          /\ Cardinality({t \in Free : t < SlotFor(b, l)}) = Cardinality(Earlier(b, l))
          /\ IsFiniteSet(Earlier(b, k)) /\ IsFiniteSet(Earlier(b, l))
      BY <1>3, <2>2, FreshSlot
    <3>3. Cardinality(Earlier(b, k)) # Cardinality(Earlier(b, l))
      BY <2>2, <3>1, <3>2, EarlierDiffer
    <3> QED
      BY <1>9, <3>2, <3>3
  <2>3. ~(k \in Holding /\ l \in Fresh(b)) /\ ~(k \in Fresh(b) /\ l \in Holding)
    BY <1>2, <1>4, <1>9
  <2> QED
    BY <1>7, <2>1, <2>2, <2>3
<1>10. Holding \subseteq KeysOf(b)
  BY KeysOfAre
<1> QED
  BY <1>1, <1>2, <1>8, <1>9, <1>10 DEF IsKeymap, Extends

\* So is the keymap with one key.
LEMMA AloneIs ==
    ASSUME NEW key \in Chars \cup NamedKeys \cup ModKeys
    PROVE  IsKeymap(Alone(key)) /\ DOMAIN Alone(key) = {key} \ ModKeys
<1>1. DOMAIN Alone(key) = {key} \ ModKeys /\ \A k \in {key} \ ModKeys : Alone(key)[k] = Standard(key)
  BY DEF Alone
<1>2. Len(KeyboardMods) \in Nat /\ Len(NamedOrder) \in Nat
  BY OrdersAreSequences
<1>3. key \notin ModKeys => Standard(key) \in Nat /\ Standard(key) > Len(KeyboardMods)
  <2>1. CASE key \in Chars
    BY <1>2, <2>1 DEF Standard, DynBase
  <2>2. CASE key \in NamedKeys /\ key \notin Chars
    <3>1. FirstIndex(NamedOrder, key) \in DOMAIN NamedOrder /\ FirstIndex(NamedOrder, key) \in Nat
      BY <2>2, FirstIndexIs, OrdersAreSequences DEF NamedKeys
    <3>2. FirstIndex(NamedOrder, key) > 0
      BY <3>1, OrdersAreSequences
    <3> QED
      BY <1>2, <2>2, <3>1, <3>2, KeysAreDistinct DEF Standard, Fixed
  <2> QED
    BY <2>1, <2>2
<1> QED
  BY <1>1, <1>3 DEF IsKeymap

-----------------------------------------------------------------------------

Stages == {"idle", "restore", "run"}

KeyboardTypes ==
    /\ stage \in Stages
    /\ todo \in Seq(KeySends) /\ (stage = "idle" <=> todo = <<>>)
    /\ heldMods \subseteq ModKeys
    /\ Holding \subseteq Chars \cup NamedKeys
    /\ loosed \subseteq Holding /\ stranded \subseteq ModKeys

\* The keymap of the moment gives every held key the slot that it holds.
MapInv == IsKeymap(keymap) /\ IsKeymap(heldSlots) /\ Extends(keymap)

\* Whether what is left can be carried out: with the keymap, and without a release of
\* what is held.
IsSendable(h, b) ==
    \A i \in DOMAIN b :
        /\ ToSet(b[i].chars) \subseteq DOMAIN keymap
        /\ b[i].key \in NamedKeys => b[i].key \in DOMAIN keymap
        /\ b[i].kind = "text" => \A c \in ToSet(b[i].chars) : ~HeldBefore(h, b, i, c)
        /\ b[i].kind = "tap" /\ b[i].key \notin ModKeys => ~HeldBefore(h, b, i, b[i].key)

SlotInv ==
    /\ {heldSlots[k] : k \in Holding \ loosed} \subseteq downSlots
    /\ downSlots \subseteq Range(heldSlots) \cup {Fixed(m) : m \in heldMods \cup stranded}

\* Unless it has lapsed, the declaration is behind what is held only between an
\* upload and the declaration that follows it.
DeclarationInv ==
    ~lapsed => \/ declared = heldMods
               \/ stage = "restore" /\ declared = {}

KeyboardInv ==
    /\ KeyboardTypes /\ MapInv /\ IsSendable(Holding, todo)
    /\ SlotInv /\ DeclarationInv

LEMMA KeyboardHolds == KeyboardInv => HeldKeepTheirMeaning
<1> SUFFICES ASSUME KeyboardInv PROVE HeldKeepTheirMeaning
  OBVIOUS
<1>1. MeaningsAreKept
  BY DEF KeyboardInv, MapInv, IsKeymap, Extends, MeaningsAreKept
<1>2. SlotsAreDown /\ ModifiersDeclared
  BY DEF KeyboardInv, SlotInv, DeclarationInv, SlotsAreDown, ModifiersDeclared
<1> QED
  BY <1>1, <1>2 DEF HeldKeepTheirMeaning

LEMMA KeyboardInitially == KeyboardInit => KeyboardInv
<1> SUFFICES ASSUME KeyboardInit PROVE KeyboardInv
  OBVIOUS
<1>1. Holding = {} /\ DOMAIN keymap = {} /\ DOMAIN heldSlots = {}
  BY DEF KeyboardInit, NoKeys, Holding
<1>2. KeyboardTypes
  BY <1>1 DEF KeyboardInit, KeyboardTypes, Stages
<1>3. MapInv
  BY <1>1 DEF MapInv, IsKeymap, Extends
<1>4. IsSendable(Holding, todo)
  BY DEF KeyboardInit, IsSendable
<1>5. SlotInv /\ DeclarationInv
  BY <1>1 DEF KeyboardInit, SlotInv, DeclarationInv
<1> QED
  BY <1>2, <1>3, <1>4, <1>5 DEF KeyboardInv

\* What the invariant speaks of is unchanged.
LEMMA SameKeyboard ==
    ASSUME KeyboardInv, UNCHANGED <<compositor, holds, stage, todo, keyHistory>>
    PROVE  KeyboardInv'
<1>1. /\ keymap' = keymap /\ declared' = declared /\ downSlots' = downSlots
      /\ heldMods' = heldMods /\ heldSlots' = heldSlots /\ stage' = stage /\ todo' = todo
      /\ loosed' = loosed /\ stranded' = stranded /\ lapsed' = lapsed
  BY DEF compositor, holds, keyHistory
<1>2. KeyboardTypes' /\ MapInv'
  BY <1>1 DEF KeyboardInv, KeyboardTypes, MapInv, Holding, IsKeymap, Extends
<1>3. IsSendable(Holding, todo)'
  BY <1>1 DEF KeyboardInv, IsSendable, Holding
<1>4. SlotInv' /\ DeclarationInv'
  BY <1>1 DEF KeyboardInv, SlotInv, DeclarationInv, Holding
<1> QED
  BY <1>2, <1>3, <1>4 DEF KeyboardInv

\* A call begins with a keymap that leaves what is held where it was, and with
\* actions that it can carry out (sendkeys, pressKey, releaseKey).
LEMMA StartCallKeeps ==
    ASSUME KeyboardInv, stage = "idle", NEW map, NEW b \in Seq(KeySends), b # <<>>,
           NEW next \in {"restore", "run"}, next = "run" => heldMods = {},
           IsKeymap(map), Extends(map), StartCall(map, b, next),
           \A i \in DOMAIN b :
              /\ ToSet(b[i].chars) \subseteq DOMAIN map
              /\ b[i].key \in NamedKeys => b[i].key \in DOMAIN map
              /\ b[i].kind = "text" =>
                    \A c \in ToSet(b[i].chars) : ~HeldBefore(Holding, b, i, c)
              /\ b[i].kind = "tap" /\ b[i].key \notin ModKeys =>
                    ~HeldBefore(Holding, b, i, b[i].key)
    PROVE  KeyboardInv'
<1>1. /\ keymap' = map /\ declared' \in {declared, {}} /\ todo' = b /\ stage' = next
      /\ downSlots' = downSlots /\ heldMods' = heldMods /\ heldSlots' = heldSlots
      /\ loosed' = loosed /\ stranded' = stranded /\ lapsed' = lapsed
  BY DEF StartCall, Upload, holds, keyHistory
<1>2. KeyboardTypes' /\ MapInv'
  BY <1>1 DEF KeyboardInv, KeyboardTypes, Stages, MapInv, Holding, IsKeymap, Extends
<1>3. IsSendable(Holding, todo)'
  BY <1>1 DEF IsSendable, Holding
<1>4. SlotInv'
  BY <1>1 DEF KeyboardInv, SlotInv, Holding
<1>5. DeclarationInv'
  BY <1>1 DEF KeyboardInv, DeclarationInv
<1> QED
  BY <1>2, <1>3, <1>4, <1>5 DEF KeyboardInv

LEMMA SendkeysKeeps ==
    ASSUME KeyboardInv, NEW b \in Seq(KeySends), b # <<>>, Sendkeys(b)
    PROVE  KeyboardInv'
<1>1. stage = "idle" /\ SendsAreValid(b) /\ Fits(b) /\ StartCall(KeymapFor(b), b, "restore")
  BY DEF Sendkeys
<1>2. IsKeymap(KeymapFor(b)) /\ Extends(KeymapFor(b)) /\ DOMAIN KeymapFor(b) = KeysOf(b)
  BY <1>1, KeymapForIs DEF KeyboardInv, KeyboardTypes, MapInv
<1>3. ASSUME NEW i \in DOMAIN b
      PROVE  /\ ToSet(b[i].chars) \subseteq DOMAIN KeymapFor(b)
             /\ b[i].key \in NamedKeys => b[i].key \in DOMAIN KeymapFor(b)
             /\ b[i].kind = "text" =>
                   \A c \in ToSet(b[i].chars) : ~HeldBefore(Holding, b, i, c)
             /\ b[i].kind = "tap" /\ b[i].key \notin ModKeys =>
                   ~HeldBefore(Holding, b, i, b[i].key)
  <2>1. \A k : HeldBefore(Holding, b, i, k) => HeldBefore(Holding \cup heldMods, b, i, k)
    BY HeldOfMore
  <2> QED
    BY <1>1, <1>2, <2>1, KeysOfAre DEF SendsAreValid
<1> QED
  BY <1>1, <1>2, <1>3, StartCallKeeps

\* A call of one key.
LEMMA SendOfIs ==
    ASSUME NEW kind \in {"down", "up"}, NEW key \in Chars \cup NamedKeys \cup ModKeys
    PROVE  /\ <<SendOf(kind, key)>> \in Seq(KeySends) /\ <<SendOf(kind, key)>> # <<>>
           /\ \A i \in DOMAIN <<SendOf(kind, key)>> :
                 LET a == <<SendOf(kind, key)>>[i]
                 IN  a.kind = kind /\ a.key = key /\ ToSet(a.chars) = {key} \cap Chars
<1> DEFINE a == SendOf(kind, key)
<1>1. /\ a.kind = kind /\ a.key = key /\ a.chars = (IF key \in Chars THEN <<key>> ELSE <<>>)
      /\ a.mods = {} /\ a = [kind |-> a.kind, key |-> a.key, chars |-> a.chars, mods |-> a.mods]
  BY DEF SendOf
<1>2. a \in KeySends
  <2>1. CASE key \in Chars
    BY <1>1, <2>1 DEF KeySends, SendKinds, Letters
  <2>2. CASE key \notin Chars
    BY <1>1, <2>2 DEF KeySends, SendKinds
  <2> QED
    BY <2>1, <2>2
<1>3. ToSet(a.chars) = {key} \cap Chars
  BY <1>1 DEF ToSet
<1> HIDE DEF a
<1>4. <<a>> \in Seq(KeySends) /\ <<a>> # <<>> /\ \A i \in DOMAIN <<a>> : <<a>>[i] = a
  BY <1>2
<1> QED
  BY <1>1, <1>3, <1>4 DEF a

LEMMA PressKeyKeeps ==
    ASSUME KeyboardInv, NEW key \in Chars \cup NamedKeys \cup ModKeys, PressKey(key)
    PROVE  KeyboardInv'
<1> DEFINE b == <<SendOf("down", key)>>
<1>1. /\ b \in Seq(KeySends) /\ b # <<>>
      /\ \A i \in DOMAIN b : b[i].kind = "down" /\ b[i].key = key /\ ToSet(b[i].chars) = {key} \cap Chars
  BY SendOfIs
<1>2. stage = "idle" /\ (Sendkeys(b) \/ (Holding = {} /\ StartCall(Alone(key), b, "restore")))
  BY DEF PressKey
<1> HIDE DEF b
<1>3. CASE Sendkeys(b)
  BY <1>1, <1>3, SendkeysKeeps
<1>4. CASE Holding = {} /\ StartCall(Alone(key), b, "restore")
  <2>1. IsKeymap(Alone(key)) /\ Extends(Alone(key)) /\ DOMAIN Alone(key) = {key} \ ModKeys
    BY <1>4, AloneIs DEF Extends
  <2>2. ASSUME NEW i \in DOMAIN b
        PROVE  /\ ToSet(b[i].chars) \subseteq DOMAIN Alone(key)
               /\ b[i].key \in NamedKeys => b[i].key \in DOMAIN Alone(key)
               /\ b[i].kind # "text" /\ b[i].kind # "tap"
    BY <1>1, <2>1, KeysAreDistinct
  <2> QED
    BY <1>1, <1>2, <1>4, <2>1, <2>2, StartCallKeeps
<1> QED
  BY <1>2, <1>3, <1>4

LEMMA ReleaseKeyKeeps ==
    ASSUME KeyboardInv, NEW key \in Chars \cup NamedKeys, ReleaseKey(key)
    PROVE  KeyboardInv'
<1> DEFINE b == <<SendOf("up", key)>>
<1>1. /\ b \in Seq(KeySends) /\ b # <<>>
      /\ \A i \in DOMAIN b : b[i].kind = "up" /\ b[i].key = key /\ ToSet(b[i].chars) = {key} \cap Chars
  BY SendOfIs
<1>2. stage = "idle" /\ (Sendkeys(b) \/ (~NeedsMap(key) /\ StartCall(Alone(key), b, "run")))
  BY DEF ReleaseKey
<1> HIDE DEF b
<1>3. CASE Sendkeys(b)
  BY <1>1, <1>3, SendkeysKeeps
<1>4. CASE ~NeedsMap(key) /\ StartCall(Alone(key), b, "run")
  <2>1. IsKeymap(Alone(key)) /\ DOMAIN Alone(key) = {key} \ ModKeys
    BY <1>4, AloneIs
  <2>2. key \notin ModKeys
    BY KeysAreDistinct
  <2>3. Holding = {key} /\ heldMods = {} /\ heldSlots[key] = Standard(key)
    BY <1>4 DEF NeedsMap
  <2>4. Extends(Alone(key))
    BY <2>1, <2>2, <2>3 DEF Extends, Alone
  <2>5. ASSUME NEW i \in DOMAIN b
        PROVE  /\ ToSet(b[i].chars) \subseteq DOMAIN Alone(key)
               /\ b[i].key \in NamedKeys => b[i].key \in DOMAIN Alone(key)
               /\ b[i].kind # "text" /\ b[i].kind # "tap"
    BY <1>1, <2>1, <2>2
  <2> QED
    BY <1>1, <1>2, <1>4, <2>1, <2>3, <2>4, <2>5, StartCallKeeps
<1> QED
  BY <1>2, <1>3, <1>4

LEMMA RestoreKeeps == ASSUME KeyboardInv, Restore PROVE KeyboardInv'
<1>1. /\ keymap' = keymap /\ downSlots' = downSlots /\ heldMods' = heldMods
      /\ heldSlots' = heldSlots /\ loosed' = loosed /\ stranded' = stranded
  BY DEF Restore, holds
<1>2. CASE EndCall /\ lapsed' = (declared # heldMods) /\ UNCHANGED declared
  <2>1. KeyboardTypes' /\ MapInv' /\ SlotInv'
    BY <1>1, <1>2 DEF EndCall, KeyboardInv, KeyboardTypes, Stages, MapInv, SlotInv, Holding,
                      IsKeymap, Extends
  <2>2. IsSendable(Holding, todo)'
    BY <1>2 DEF EndCall, IsSendable
  <2>3. DeclarationInv'
    BY <1>1, <1>2 DEF DeclarationInv
  <2> QED
    BY <2>1, <2>2, <2>3 DEF KeyboardInv
<1>3. CASE /\ stage = "restore" /\ stage' = "run" /\ todo' = todo /\ CaughtUp
           /\ declared' = IF heldMods = {} THEN declared ELSE heldMods
  <2>1. KeyboardTypes' /\ MapInv' /\ SlotInv'
    BY <1>1, <1>3 DEF KeyboardInv, KeyboardTypes, Stages, MapInv, SlotInv, Holding, IsKeymap, Extends
  <2>2. IsSendable(Holding, todo)'
    BY <1>1, <1>3 DEF KeyboardInv, IsSendable, Holding
  <2>3. DeclarationInv'
    BY <1>1, <1>3 DEF CaughtUp, KeyboardInv, DeclarationInv
  <2> QED
    BY <2>1, <2>2, <2>3 DEF KeyboardInv
<1> QED
  BY <1>2, <1>3 DEF Restore

\* A call may also end because a modifier is not held that it was to release.
LEMMA AbandonKeeps == ASSUME KeyboardInv, Abandon \/ RefuseRelease PROVE KeyboardInv'
<1>1. /\ keymap' = keymap /\ downSlots' = downSlots
      /\ heldMods' = heldMods /\ heldSlots' = heldSlots /\ loosed' = loosed /\ stranded' = stranded
      /\ stage = "run" /\ stage' = "idle" /\ todo' = <<>>
      /\ declared' \in {declared, heldMods}
      /\ (lapsed' = lapsed /\ declared' = declared) \/ CaughtUp
  BY DEF Abandon, RefuseRelease, EndCall, compositor, holds, keyHistory
<1>2. KeyboardTypes' /\ MapInv' /\ SlotInv' /\ DeclarationInv'
  <2>1. KeyboardTypes'
    BY <1>1 DEF KeyboardInv, KeyboardTypes, Stages, Holding
  <2>3. MapInv' /\ SlotInv'
    BY <1>1 DEF KeyboardInv, MapInv, SlotInv, Holding, IsKeymap, Extends
  <2>2. DeclarationInv'
    <3>1. CASE CaughtUp
      BY <1>1, <3>1 DEF CaughtUp, KeyboardInv, DeclarationInv
    <3>2. CASE lapsed' = lapsed /\ declared' = declared
      BY <1>1, <3>2 DEF KeyboardInv, DeclarationInv
    <3> QED
      BY <1>1, <3>1, <3>2
  <2> QED
    BY <2>1, <2>2, <2>3
<1>3. IsSendable(Holding, todo)'
  BY <1>1 DEF IsSendable
<1> QED
  BY <1>2, <1>3 DEF KeyboardInv

\* The codes of the modifiers are below all slots.
LEMMA FixedMods ==
    ASSUME NEW m \in ModKeys
    PROVE  /\ Fixed(m) \in Nat /\ Fixed(m) <= Len(KeyboardMods)
           /\ \A n \in ModKeys : Fixed(n) = Fixed(m) => n = m
<1>1. \A n \in ModKeys : /\ Fixed(n) \in DOMAIN KeyboardMods /\ Fixed(n) \in Nat
                         /\ KeyboardMods[Fixed(n)] = n
  BY FirstIndexIs, OrdersAreSequences DEF Fixed, ModKeys
<1> QED
  BY <1>1, OrdersAreSequences

LEMMA LiftModifierKeeps ==
    ASSUME KeyboardInv, NEW m \in ModKeys, LiftModifier(m)
    PROVE  KeyboardInv'
<1>1. /\ keymap' = keymap /\ heldSlots' = heldSlots /\ stage = "idle" /\ stage' = stage /\ todo' = todo
      /\ loosed' = loosed /\ stranded' = stranded /\ downSlots' = downSlots \ {Fixed(m)} /\ CaughtUp
      /\ \/ heldMods' = heldMods /\ declared' = declared
         \/ heldMods' = heldMods \ {m} /\ declared' = heldMods'
  BY DEF LiftModifier
<1>2. KeyboardTypes' /\ MapInv'
  BY <1>1 DEF KeyboardInv, KeyboardTypes, MapInv, Holding, IsKeymap, Extends
<1>3. IsSendable(Holding, todo)'
  BY <1>1 DEF KeyboardInv, IsSendable, Holding
<1>4. SlotInv'
  <2>1. \A k \in Holding : heldSlots[k] # Fixed(m)
    BY FixedMods, OrdersAreSequences DEF KeyboardInv, MapInv, IsKeymap, Holding
  <2>2. downSlots \ {Fixed(m)} \subseteq Range(heldSlots) \cup {Fixed(n) : n \in (heldMods \cup stranded) \ {m}}
    BY DEF KeyboardInv, SlotInv
  <2> QED
    BY <1>1, <2>1, <2>2 DEF KeyboardInv, SlotInv, Holding
<1>5. DeclarationInv'
  BY <1>1 DEF CaughtUp, KeyboardInv, DeclarationInv
<1> QED
  BY <1>2, <1>3, <1>4, <1>5 DEF KeyboardInv

\* The action that is sent next, with the slots that it touches.
LEMMA SendIs ==
    ASSUME KeyboardInv, stage = "run", NEW a, a = Head(todo)
    PROVE  /\ a \in KeySends /\ todo # <<>>
           /\ ToSet(a.chars) \subseteq DOMAIN keymap
           /\ a.key \in ModKeys => SlotOf(a.key) = Fixed(a.key)
           /\ a.key \in Chars \cup NamedKeys =>
                 a.key \notin ModKeys /\ a.key \in DOMAIN keymap /\ SlotOf(a.key) = keymap[a.key]
           /\ \A k \in Holding : SlotOf(k) = heldSlots[k] /\ keymap[k] = heldSlots[k]
           /\ a.kind \in {"tap", "text"} /\ a.key # "word" =>
                 \A k \in Holding : heldSlots[k] \notin Tapped(a)
           /\ a.key \in Chars \cup NamedKeys \cup ModKeys \cup {"word", "text"}
           /\ a.kind \in {"down", "up"} => a.key \in Chars \cup NamedKeys \cup ModKeys
           /\ a.key = "word" => a.kind = "tap"
<1> USE DEF KeyboardInv
<1>1. todo \in Seq(KeySends) /\ todo # <<>> /\ 1 \in DOMAIN todo /\ a = todo[1] /\ a \in KeySends
  BY DEF KeyboardTypes
<1>2. /\ a.chars \in Seq(Chars)
      /\ \/ a.key \in Chars /\ a.chars = <<a.key>>
         \/ a.key \in NamedKeys \cup ModKeys /\ a.chars = <<>>
         \/ a.kind = "text" /\ a.key = "text" /\ a.chars # <<>>
         \/ a.kind = "tap" /\ a.key = "word" /\ a.chars # <<>>
      /\ a.kind = "text" => a.key = "text"
      /\ a.kind \in {"tap", "down", "up", "text"}
  BY <1>1, SendFields
<1>3. \A h, k : HeldBefore(h, todo, 1, k) <=> k \in h
  <2>1. \A k : Changes(todo, 1, k) = {}
    BY DEF Changes
  <2> QED
    BY <2>1 DEF HeldBefore
<1>4. /\ ToSet(a.chars) \subseteq DOMAIN keymap
      /\ a.key \in NamedKeys => a.key \in DOMAIN keymap
      /\ a.kind = "text" => \A c \in ToSet(a.chars) : c \notin Holding
      /\ a.kind = "tap" /\ a.key \notin ModKeys => a.key \notin Holding
  BY <1>1, <1>3 DEF IsSendable
<1>5. a.key \in Chars => a.chars = <<a.key>> /\ ToSet(a.chars) = {a.key}
  <2>1. a.key \in Chars => a.chars = <<a.key>>
    BY <1>2, KeysAreDistinct
  <2> QED
    BY <2>1 DEF ToSet
<1>6. \A k \in Holding : k \notin ModKeys /\ k \in DOMAIN keymap /\ keymap[k] = heldSlots[k]
  BY KeysAreDistinct DEF KeyboardTypes, MapInv, Extends
<1>7. a.key \in Chars \cup NamedKeys => a.key \notin ModKeys /\ a.key \in DOMAIN keymap
  BY <1>4, <1>5, KeysAreDistinct
<1>8. a.key \in Chars \cup NamedKeys => SlotOf(a.key) = keymap[a.key]
  BY <1>6, <1>7 DEF SlotOf
<1>9. \A k \in Holding : SlotOf(k) = heldSlots[k]
  BY <1>6 DEF SlotOf
<1>10. a.key \in ModKeys => SlotOf(a.key) = Fixed(a.key)
  BY DEF SlotOf
<1>11. ASSUME a.kind \in {"tap", "text"}, a.key # "word", NEW k \in Holding
       PROVE  heldSlots[k] \notin Tapped(a)
  <2>1. CASE a.chars = <<>>
    <3>1. Tapped(a) = {SlotOf(a.key)} /\ a.kind = "tap"
      BY <1>2, <1>11, <2>1, KeysAreDistinct DEF Tapped
    <3>2. CASE a.key \in ModKeys
      BY <1>10, <3>1, <3>2, FixedMods, OrdersAreSequences DEF MapInv, IsKeymap, Holding
    <3>3. CASE a.key \in NamedKeys
      BY <1>4, <1>6, <1>7, <1>8, <3>1, <3>3 DEF MapInv, IsKeymap
    <3> QED
      BY <1>2, <2>1, <3>2, <3>3
  <2>2. CASE a.chars # <<>>
    <3>1. Tapped(a) = {keymap[c] : c \in ToSet(a.chars)}
      BY <2>2 DEF Tapped
    <3>2. \A c \in ToSet(a.chars) : c \in DOMAIN keymap /\ c \notin Holding
      BY <1>2, <1>4, <1>5, <1>11, <2>2, KeysAreDistinct
    <3> QED
      BY <1>6, <3>1, <3>2 DEF MapInv, IsKeymap
  <2> QED
    BY <2>1, <2>2
<1>12. /\ a.key \in Chars \cup NamedKeys \cup ModKeys \cup {"word", "text"}
       /\ a.kind \in {"down", "up"} => a.key \in Chars \cup NamedKeys \cup ModKeys
       /\ a.key = "word" => a.kind = "tap"
  BY <1>2, KeysAreDistinct
<1>13. \A k \in Holding : SlotOf(k) = heldSlots[k] /\ keymap[k] = heldSlots[k]
  BY <1>6, <1>9
<1> QED
  BY <1>1, <1>4, <1>7, <1>8, <1>10, <1>11, <1>12, <1>13

\* What the action leaves held, and where.
LEMMA PerformTypes ==
    ASSUME KeyboardInv, stage = "run", NEW a, a = Head(todo), Perform(a), UNCHANGED keymap
    PROVE  /\ heldMods' \subseteq ModKeys
           /\ Holding' \subseteq Chars \cup NamedKeys /\ loosed' \subseteq Holding'
           /\ MapInv'
           /\ stranded' \subseteq ModKeys
           /\ Holding' \subseteq HoldsAfter(Holding, a)
<1> USE DEF KeyboardInv
<1>1. /\ a.key \in ModKeys => SlotOf(a.key) = Fixed(a.key)
      /\ a.key \in Chars \cup NamedKeys =>
            a.key \notin ModKeys /\ a.key \in DOMAIN keymap /\ SlotOf(a.key) = keymap[a.key]
      /\ \A k \in Holding : SlotOf(k) = heldSlots[k] /\ keymap[k] = heldSlots[k]
      /\ a.kind \in {"down", "up"} => a.key \in Chars \cup NamedKeys \cup ModKeys
      /\ a.key = "word" => a.kind = "tap"
  BY SendIs
<1>2. a.kind \in {"tap", "down", "up", "text"} /\ a.key \in Chars \cup NamedKeys \cup ModKeys \cup {"word", "text"}
  BY SendIs, SendFields
<1>3. heldMods \subseteq ModKeys /\ Holding \subseteq Chars \cup NamedKeys /\ loosed \subseteq Holding
  BY DEF KeyboardTypes
<1>4. \A k \in Holding : k \in DOMAIN keymap /\ keymap[k] = heldSlots[k]
  BY DEF MapInv, Extends
<1>8. stranded' \subseteq ModKeys
  <2>1. a.mods \subseteq ModKeys
    BY SendIs, SendFields
  <2> QED
    BY <2>1 DEF Perform, Temps, KeyboardTypes
<1>5. CASE a.key \in ModKeys \/ a.kind \in {"tap", "text"}
  <2>1. heldSlots' = heldSlots /\ Holding' = Holding
    BY <1>5 DEF Perform, Holding
  <2>2. heldMods' \subseteq ModKeys
    BY <1>3 DEF Perform
  <2>3. loosed' \subseteq Holding
    BY <1>3, <2>1 DEF Perform, Holding
  <2>4. MapInv'
    BY <2>1 DEF MapInv, IsKeymap, Extends
  <2>5. Holding \cap ModKeys = {}
    BY <1>3, KeysAreDistinct
  <2>6. Holding' \subseteq HoldsAfter(Holding, a)
    BY <1>2, <1>5, <2>1, <2>5 DEF HoldsAfter
  <2> QED
    BY <1>3, <1>8, <2>1, <2>2, <2>3, <2>4, <2>6
<1>6. CASE a.key \notin ModKeys /\ a.kind = "down"
  <2>1. heldSlots' = [k \in Holding \cup {a.key} |-> SlotOf(k)] /\ heldMods' = heldMods
    BY <1>6 DEF Perform
  <2>2. a.key \in Chars \cup NamedKeys /\ a.key # "word"
    BY <1>1, <1>6, KeysAreDistinct
  <2>3. Holding' = Holding \cup {a.key} /\ \A k \in Holding' : k \in DOMAIN keymap /\ heldSlots'[k] = keymap[k]
    BY <1>1, <1>4, <2>1, <2>2 DEF Holding
  <2>4. MapInv'
    BY <2>3 DEF MapInv, IsKeymap, Extends, Holding
  <2>5. loosed' \subseteq Holding'
    BY <2>2 DEF Perform, Holding
  <2>6. Holding' \subseteq HoldsAfter(Holding, a)
    BY <1>6, <2>1, <2>3 DEF HoldsAfter
  <2> QED
    BY <1>3, <1>8, <2>1, <2>2, <2>3, <2>4, <2>5, <2>6
<1>7. CASE a.key \notin ModKeys /\ a.kind = "up"
  <2>1. heldSlots' = [k \in Holding \ {a.key} |-> heldSlots[k]] /\ heldMods' = heldMods
    BY <1>7 DEF Perform, Restrict
  <2>2. Holding' = Holding \ {a.key} /\ \A k \in Holding' : heldSlots'[k] = heldSlots[k]
    BY <2>1 DEF Holding
  <2>3. MapInv'
    BY <2>2, <1>4 DEF MapInv, IsKeymap, Extends, Holding
  <2>4. loosed' \subseteq Holding'
    BY <1>1, <1>7 DEF Perform, Holding
  <2>5. Holding' \subseteq HoldsAfter(Holding, a)
    BY <1>7, <2>1, <2>2 DEF HoldsAfter
  <2> QED
    BY <1>3, <1>8, <2>1, <2>2, <2>3, <2>4, <2>5
<1> QED
  BY <1>2, <1>5, <1>6, <1>7

\* An action releases no slot of a held key but its own, unless it is a word, and leaves
\* no slot down that is not held.
LEMMA PerformSlots ==
    ASSUME KeyboardInv, stage = "run", NEW a, a = Head(todo), Perform(a), UNCHANGED keymap
    PROVE  SlotInv'
<1> USE DEF KeyboardInv
<1>1. /\ a.key \in ModKeys => SlotOf(a.key) = Fixed(a.key)
      /\ a.key \in Chars \cup NamedKeys =>
            a.key \notin ModKeys /\ a.key \in DOMAIN keymap /\ SlotOf(a.key) = keymap[a.key]
      /\ \A k \in Holding : SlotOf(k) = heldSlots[k] /\ keymap[k] = heldSlots[k]
      /\ a.kind \in {"down", "up"} => a.key \in Chars \cup NamedKeys \cup ModKeys
      /\ a.key = "word" => a.kind = "tap"
      /\ a.kind \in {"tap", "text"} /\ a.key # "word" => \A k \in Holding : heldSlots[k] \notin Tapped(a)
  BY SendIs
<1>2. a.kind \in {"tap", "down", "up", "text"}
  BY SendIs, SendFields
<1>3. loosed \subseteq Holding
  BY DEF KeyboardTypes
<1>4. \A k \in Holding : k \in DOMAIN keymap /\ keymap[k] = heldSlots[k]
  BY DEF MapInv, Extends
<1>5. /\ \A k \in Holding : k \in loosed \/ heldSlots[k] \in downSlots
      /\ \A s \in downSlots : \/ \E k \in Holding : s = heldSlots[k]
                              \/ \E m \in heldMods \cup stranded : s = Fixed(m)
  BY DEF SlotInv, Range, Holding
<1>6. SUFFICES /\ \A k \in Holding' : k \in loosed' \/ heldSlots'[k] \in downSlots'
               /\ \A s \in downSlots' : \/ \E k \in Holding' : s = heldSlots'[k]
                                        \/ \E m \in heldMods' \cup stranded' : s = Fixed(m)
  BY DEF SlotInv, Range, Holding
<1>11. /\ a.key \notin ModKeys => heldMods' = heldMods /\ stranded' = stranded
       /\ heldMods \cup stranded \subseteq heldMods' \cup stranded' \cup {a.key}
       /\ a.kind = "down" /\ a.key \in ModKeys => a.key \in heldMods' \cup stranded'
  <2>1. stranded \subseteq ModKeys /\ a.mods \subseteq ModKeys
    BY SendIs, SendFields DEF KeyboardTypes
  <2>2. Temps(a) \subseteq ModKeys /\ Temps(a) \cap heldMods = {}
    BY <2>1 DEF Temps
  <2> QED
    BY <2>1, <2>2 DEF Perform
<1>12. a.key \in ModKeys => \A k \in Holding : heldSlots[k] # Fixed(a.key)
  BY FixedMods, OrdersAreSequences DEF MapInv, IsKeymap, Holding
<1>7. CASE a.kind \in {"tap", "text"} /\ a.key \notin ModKeys
  <2>1. /\ heldSlots' = heldSlots /\ Holding' = Holding /\ heldMods' = heldMods /\ stranded' = stranded
        /\ downSlots' = downSlots \ Tapped(a)
    BY <1>7, <1>11 DEF Perform, Holding
  <2>2. CASE a.key = "word"
    <3>1. loosed' = loosed \cup {k \in Holding : heldSlots[k] \in Tapped(a)}
      BY <2>2 DEF Perform
    <3> QED
      BY <1>5, <2>1, <3>1
  <2>3. CASE a.key # "word"
    <3>1. loosed' = loosed
      BY <1>3, <2>1, <2>3 DEF Perform, Holding
    <3> QED
      BY <1>1, <1>5, <1>7, <2>1, <2>3, <3>1
  <2> QED
    BY <2>2, <2>3
<1>8. CASE a.key \in ModKeys
  <2>1. heldSlots' = heldSlots /\ Holding' = Holding /\ a.key # "word" /\ a.kind # "text"
    BY <1>8, SendIs, SendFields, KeysAreDistinct DEF Perform, Holding
  <2>2. loosed' = loosed
    BY <1>3, <2>1 DEF Perform, Holding
  <2>3. downSlots' = IF a.kind = "down" THEN downSlots \cup {Fixed(a.key)} ELSE downSlots \ {Fixed(a.key)}
    <3>1. a.chars = <<>>
      BY <1>8, <2>1, SendIs, SendFields, KeysAreDistinct
    <3> QED
      BY <1>1, <1>2, <1>8, <2>1, <3>1 DEF Perform, Tapped
  <2>4. \A k \in Holding : k \in loosed \/ heldSlots[k] \in downSlots'
    BY <1>5, <1>8, <1>12, <2>3
  <2>5. ASSUME NEW s \in downSlots'
        PROVE  (\E k \in Holding : s = heldSlots[k]) \/ \E m \in heldMods' \cup stranded' : s = Fixed(m)
    <3>1. CASE s = Fixed(a.key)
      BY <1>8, <1>11, <2>3, <2>5, <3>1
    <3>2. CASE s # Fixed(a.key)
      BY <1>5, <1>11, <2>3, <2>5, <3>2
    <3> QED
      BY <3>1, <3>2
  <2> QED
    BY <2>1, <2>2, <2>4, <2>5
<1>9. CASE a.key \notin ModKeys /\ a.kind = "down"
  <2>1. /\ heldSlots' = [k \in Holding \cup {a.key} |-> SlotOf(k)] /\ heldMods' = heldMods
        /\ downSlots' = downSlots \cup {keymap[a.key]} /\ stranded' = stranded
    BY <1>1, <1>9, <1>11 DEF Perform
  <2>2. Holding' = Holding \cup {a.key} /\ \A k \in Holding' : heldSlots'[k] = keymap[k]
    BY <1>1, <1>9, <2>1 DEF Holding
  <2>3. loosed' = loosed
    BY <1>1, <1>3, <1>9, <2>2 DEF Perform, Holding
  <2>4. \A k \in Holding : k \in Holding' /\ heldSlots'[k] = heldSlots[k]
    BY <1>4, <2>2
  <2>5. a.key \in Holding' /\ heldSlots'[a.key] = keymap[a.key]
    BY <2>2
  <2>6. \A k \in Holding' : k \in loosed' \/ heldSlots'[k] \in downSlots'
    BY <1>5, <2>1, <2>2, <2>3, <2>4, <2>5
  <2> QED
    BY <1>5, <2>1, <2>4, <2>5, <2>6
<1>10. CASE a.key \notin ModKeys /\ a.kind = "up"
  <2>1. /\ heldSlots' = [k \in Holding \ {a.key} |-> heldSlots[k]] /\ heldMods' = heldMods
        /\ downSlots' = downSlots \ {keymap[a.key]} /\ stranded' = stranded
    BY <1>1, <1>10, <1>11 DEF Perform, Restrict
  <2>2. Holding' = Holding \ {a.key} /\ \A k \in Holding' : heldSlots'[k] = heldSlots[k]
    BY <2>1 DEF Holding
  <2>3. loosed' = loosed \cap Holding'
    BY <1>1, <1>10 DEF Perform, Holding
  <2>4. \A k \in Holding' : heldSlots[k] # keymap[a.key]
    BY <1>1, <1>4, <1>10, <2>2 DEF MapInv, IsKeymap
  <2>5. a.key \in Holding => heldSlots[a.key] = keymap[a.key]
    BY <1>4
  <2> QED
    BY <1>5, <2>1, <2>2, <2>3, <2>4, <2>5
<1> QED
  BY <1>2, <1>7, <1>8, <1>9, <1>10

LEMMA SendKeeps == ASSUME KeyboardInv, Run PROVE KeyboardInv'
<1> DEFINE a == Head(todo)
<1>1. /\ stage = "run" /\ Perform(a) /\ keymap' = keymap
      /\ \/ Tail(todo) = <<>> /\ todo' = <<>> /\ stage' = "idle"
         \/ Tail(todo) # <<>> /\ todo' = Tail(todo) /\ stage' = stage
  BY DEF Run, EndCall
<1>2. a = Head(todo)
  OBVIOUS
<1> HIDE DEF a
<1>3. /\ heldMods' \subseteq ModKeys /\ Holding' \subseteq Chars \cup NamedKeys
      /\ loosed' \subseteq Holding' /\ MapInv'
      /\ stranded' \subseteq ModKeys /\ Holding' \subseteq HoldsAfter(Holding, a)
  BY <1>1, <1>2, PerformTypes
<1>4. SlotInv'
  BY <1>1, <1>2, PerformSlots
<1>5. DeclarationInv'
  <2>1. CaughtUp /\ (declared' = heldMods' \/ (declared' = declared /\ a.key \notin ModKeys))
    BY <1>1 DEF Perform, Declare
  <2>2. a.key \notin ModKeys => heldMods' = heldMods
    BY <1>1 DEF Perform
  <2> QED
    BY <1>1, <2>1, <2>2 DEF CaughtUp, KeyboardInv, DeclarationInv
<1>6. todo \in Seq(KeySends) /\ todo # <<>> /\ Tail(todo) \in Seq(KeySends) /\ a = todo[1]
  BY <1>1, <1>2, SendIs DEF KeyboardInv, KeyboardTypes
<1>7. KeyboardTypes'
  BY <1>1, <1>3, <1>6 DEF KeyboardTypes, Stages
<1>8. IsSendable(Holding, todo)'
  <2>1. CASE todo' = <<>>
    BY <2>1 DEF IsSendable
  <2>2. CASE todo' = Tail(todo)
    <3>1. SUFFICES ASSUME NEW i \in DOMAIN Tail(todo)
                   PROVE  LET s == Tail(todo)[i] IN
                          /\ ToSet(s.chars) \subseteq DOMAIN keymap
                          /\ s.key \in NamedKeys => s.key \in DOMAIN keymap
                          /\ s.kind = "text" => \A c \in ToSet(s.chars) :
                                ~HeldBefore(HoldsAfter(Holding, a), Tail(todo), i, c)
                          /\ s.kind = "tap" /\ s.key \notin ModKeys =>
                                ~HeldBefore(HoldsAfter(Holding, a), Tail(todo), i, s.key)
      <4>1. \A j, k : HeldBefore(Holding', Tail(todo), j, k)
                       => HeldBefore(HoldsAfter(Holding, a), Tail(todo), j, k)
        BY <1>3, HeldOfMore
      <4> QED
        BY <1>1, <2>2, <4>1 DEF IsSendable
    <3>2. i + 1 \in DOMAIN todo /\ todo[i + 1] = Tail(todo)[i]
      BY <1>6
    <3>3. \A k : HeldBefore(Holding, todo, i + 1, k)
                 <=> HeldBefore(HoldsAfter(Holding, a), Tail(todo), i, k)
      BY <1>6, HeldOfTail
    <3> QED
      BY <3>2, <3>3 DEF KeyboardInv, IsSendable
  <2> QED
    BY <1>1, <2>1, <2>2
<1> QED
  BY <1>3, <1>4, <1>5, <1>7, <1>8 DEF KeyboardInv

\* Every step of the keyboard keeps its invariant.
LEMMA KeyboardSteps == KeyboardInv /\ [KeyboardNext]_keyboardVars => KeyboardInv'
<1> SUFFICES ASSUME KeyboardInv, [KeyboardNext]_keyboardVars PROVE KeyboardInv'
  OBVIOUS
<1>1. ASSUME NEW b \in KeyCalls, Sendkeys(b) PROVE KeyboardInv'
  <2>1. b \in Seq(KeySends) /\ b # <<>>
    BY KeyboardBoundsAreNat DEF KeyCalls
  <2> QED
    BY <1>1, <2>1, SendkeysKeeps
<1>2. ASSUME NEW key \in Chars \cup NamedKeys \cup ModKeys, PressKey(key) PROVE KeyboardInv'
  BY <1>2, PressKeyKeeps
<1>3. ASSUME NEW key \in Chars \cup NamedKeys, ReleaseKey(key) PROVE KeyboardInv'
  BY <1>3, ReleaseKeyKeeps
<1>4. ASSUME NEW m \in ModKeys, LiftModifier(m) PROVE KeyboardInv'
  BY <1>4, LiftModifierKeeps
<1>5. CASE Restore
  BY <1>5, RestoreKeeps
<1>6. CASE Run
  BY <1>6, SendKeeps
<1>7. CASE Abandon \/ RefuseRelease
  BY <1>7, AbandonKeeps
<1>8. CASE Expire
  BY <1>8, SameKeyboard DEF Expire
<1>9. CASE UNCHANGED keyboardVars
  BY <1>9, SameKeyboard DEF keyboardVars
<1> QED
  BY <1>1, <1>2, <1>3, <1>4, <1>5, <1>6, <1>7, <1>8, <1>9 DEF KeyboardNext

\* Whatever is typed, pressed and released, in calls that may be cut short anywhere:
\* between two calls the virtual keyboard has down what wlKeyboard records as held,
\* or a modifier pressed with itself ({ctrl+control_l down}) that nothing has released
\* since, every held key keeps its slot in the keymaps of later calls, and the
\* compositor has the held modifiers declared (sendkeys, pressKey, releaseKey).
THEOREM MeaningsHold == KeyboardSpec => []HeldKeepTheirMeaning
<1>1. KeyboardInit => KeyboardInv
  BY KeyboardInitially
<1>2. KeyboardInv /\ [KeyboardNext]_keyboardVars => KeyboardInv'
  BY KeyboardSteps
<1>3. KeyboardInv => HeldKeepTheirMeaning
  BY KeyboardHolds
<1> QED
  BY <1>1, <1>2, <1>3, PTL DEF KeyboardSpec

-----------------------------------------------------------------------------
(* XTEST.                                                                  *)

\* A mapped keysym has a best place, and that is where the layout has it
\* (ensureKeymap).
LEMMA PlacementIs ==
    ASSUME layout \in Layouts, NEW sym, Mapped(sym)
    PROVE  LET p == Placement(sym) IN
           /\ p.keycode \in DOMAIN layout /\ p.keycode \in 0..255 /\ p.level \in Nat
           /\ p.level + 1 \in DOMAIN layout[p.keycode] /\ layout[p.keycode][p.level + 1] = sym
           /\ Keycode(sym) = p.keycode
<1> DEFINE P == Places(sym)
<1>1. \A p \in P : /\ p = [keycode |-> p.keycode, level |-> p.level]
                   /\ p.keycode \in DOMAIN layout /\ p.keycode \in 0..255 /\ p.level \in Nat
                   /\ p.level + 1 \in DOMAIN layout[p.keycode] /\ layout[p.keycode][p.level + 1] = sym
  <2>1. SUFFICES ASSUME NEW k \in DOMAIN layout, NEW i \in DOMAIN layout[k], layout[k][i] = sym
                 PROVE  LET p == [keycode |-> k, level |-> i - 1] IN
                        /\ p.keycode \in 0..255 /\ p.level \in Nat
                        /\ p.level + 1 \in DOMAIN layout[p.keycode]
                        /\ layout[p.keycode][p.level + 1] = sym
    BY DEF Places
  <2>2. k \in 0..255 /\ i \in Nat /\ i > 0 /\ (i - 1) + 1 = i
    BY LayoutsAreKeyboards
  <2> QED
    BY <2>1, <2>2
<1> HIDE DEF P
<1>2. P # {}
  BY DEF Mapped, P
<1>3. PICK n \in {p.level : p \in P} : \A m \in {p.level : p \in P} : n <= m
  <2>1. {p.level : p \in P} \in SUBSET Nat /\ {p.level : p \in P} # {}
    BY <1>1, <1>2
  <2> QED
    BY <2>1, Least
<1>4. PICK k \in {p.keycode : p \in {q \in P : q.level = n}} :
        \A j \in {p.keycode : p \in {q \in P : q.level = n}} : k <= j
  <2>1. {p.keycode : p \in {q \in P : q.level = n}} \in SUBSET Nat
    BY <1>1
  <2>2. {p.keycode : p \in {q \in P : q.level = n}} # {}
    BY <1>3
  <2> QED
    BY <2>1, <2>2, Least
<1>5. PICK p \in P : p.level = n /\ p.keycode = k
  BY <1>4
<1>6. ASSUME NEW q \in P \ {p}
      PROVE  ~Preferred(q, p) /\ (Preferred(p, q) \/ Before(p, q))
  <2>1. /\ p.level \in Nat /\ q.level \in Nat /\ p.keycode \in Nat /\ q.keycode \in Nat
        /\ p.level <= q.level /\ (q.level = p.level => p.keycode <= q.keycode)
        /\ q.level # p.level \/ q.keycode # p.keycode
    <3>1. q \in P /\ q # p
      OBVIOUS
    <3>2. p.level <= q.level /\ (q.level = p.level => p.keycode <= q.keycode)
      BY <3>1, <1>3, <1>4, <1>5
    <3>3. q.level # p.level \/ q.keycode # p.keycode
      BY <3>1, <1>1, <1>5
    <3> QED
      BY <3>1, <3>2, <3>3, <1>1
  <2>2. CASE p.level < q.level
    BY <2>1, <2>2 DEF Preferred, Typable, MaxTypableLevel
  <2>3. CASE p.level = q.level
    BY <2>1, <2>3 DEF Preferred, Before, Typable, MaxTypableLevel
  <2> QED
    BY <2>1, <2>2, <2>3
<1>7. Placement(sym) \in P
  BY <1>5, <1>6 DEF Placement, P
<1> QED
  BY <1>1, <1>7 DEF Keycode

\* What a layout says does not change.
LEMMA SameLayout ==
    ASSUME layout' = layout
    PROVE  /\ \A s : Mapped(s)' <=> Mapped(s)
           /\ \A s : Placement(s)' = Placement(s)
           /\ \A s : Keycode(s)' = Keycode(s)
           /\ AltGr' = AltGr /\ ModCodes' = ModCodes
           /\ \A a : Wanted(a)' = Wanted(a)
           /\ \A a : Known(a)' <=> Known(a)
           /\ \A b : Coded(b)' = Coded(b)
<1>1. \A s : Places(s)' = Places(s)
  BY DEF Places
<1>2. \A s : Placement(s)' = Placement(s)
  BY <1>1 DEF Placement
<1>3. \A s : Keycode(s)' = Keycode(s)
  BY <1>2 DEF Keycode
<1>4. \A s : Mapped(s)' <=> Mapped(s)
  BY <1>1 DEF Mapped
<1>5. AltGr' = AltGr
  BY <1>4 DEF AltGr
<1>6. ModCodes' = ModCodes
  BY <1>3, <1>4, <1>5 DEF ModCodes
<1>7. \A a : Wanted(a)' = Wanted(a)
  BY <1>2, <1>5 DEF Wanted, LevelModifiers
<1>8. \A a : Known(a)' <=> Known(a)
  BY <1>2, <1>4, <1>7 DEF Known
<1>9. \A b : Coded(b)' = Coded(b)
  BY <1>3 DEF Coded
<1> QED
  BY <1>2, <1>3, <1>4, <1>5, <1>6, <1>7, <1>8, <1>9

\* The key of a modifier is no other key's: by the assumption on layouts, what is on
\* one keycode with a modifier is that modifier or nothing (modifierCodeSet).
LEMMA CodesDiffer ==
    ASSUME layout \in Layouts, NEW s \in Symbols \cup Special, NEW m \in Special,
           Mapped(s), Mapped(m), Keycode(s) = Keycode(m)
    PROVE  s = m
<1>1. s # NoSymbol
  BY NamesAreNames
<1>2. /\ Keycode(m) \in DOMAIN layout
      /\ \E i, j \in DOMAIN layout[Keycode(m)] :
            layout[Keycode(m)][i] = m /\ layout[Keycode(m)][j] = s
  BY PlacementIs
<1>3. layout[Keycode(m)] = layout[Keycode(m)]
      /\ \A i, j \in DOMAIN layout[Keycode(m)] :
            layout[Keycode(m)][i] = m => layout[Keycode(m)][j] \in {m, NoSymbol}
  BY <1>2, LayoutsAreKeyboards
<1> QED
  BY <1>1, <1>2, <1>3

\* What an action is made of (parseCombo).
LEMMA TypedFields ==
    ASSUME NEW a \in TypedActions
    PROVE  /\ a.kind \in {"tap", "down", "up", "text"}
           /\ a.key \in Symbols \cup NamedMods /\ a.mods \subseteq NamedMods
           /\ a.mods # {} \/ a.kind = "text" => a.key \in Symbols
BY DEF TypedActions

LEMMA AltGrIs == AltGr \in ToSet(Level3) /\ ShiftKey \in NamedMods /\ AltGr \in Special /\ ShiftKey # AltGr
<1>1. Level3[1] \in ToSet(Level3) /\ Level3[2] \in ToSet(Level3)
  BY DEF ToSet, Level3
<1> QED
  BY <1>1, NamesAreNames DEF AltGr, Special

\* What an action wants are modifiers, and of a character those of its level.
LEMMA WantedIs ==
    ASSUME NEW a \in TypedActions
    PROVE  /\ Wanted(a) \subseteq Special
           /\ a.kind = "text" => Wanted(a) \subseteq {ShiftKey, AltGr}
           /\ Wanted(a) # {} => a.key \in Symbols
BY TypedFields, AltGrIs DEF Wanted, LevelModifiers, Special

-----------------------------------------------------------------------------

\* What the validation asks of a batch, from holds h.
FitsFrom(h, b) ==
    \A i \in DOMAIN b :
        b[i].kind # "text" /\ Keycode(b[i].key) \in ModCodes
        => (b[i].kind = "up" <=> HeldBefore(h, Coded(b), i, Keycode(b[i].key)))

LEMMA FitsHead ==
    ASSUME NEW h, NEW b \in Seq(TypedActions), b # <<>>, FitsFrom(h, b)
    PROVE  Head(b).kind # "text" /\ Keycode(Head(b).key) \in ModCodes
           => (Head(b).kind = "up" <=> Keycode(Head(b).key) \in h)
<1>1. 1 \in DOMAIN b /\ Head(b) = b[1]
  OBVIOUS
<1>2. \A k : Changes(Coded(b), 1, k) = {}
  BY DEF Changes
<1> QED
  BY <1>1, <1>2 DEF FitsFrom, HeldBefore

LEMMA TailIs ==
    ASSUME NEW S, NEW s \in Seq(S), s # <<>>
    PROVE  Tail(s) = [i \in 1..(Len(s) - 1) |-> s[i + 1]]
<1> DEFINE t == Tail(s)
<1>1. /\ t \in Seq(S) /\ DOMAIN t = 1..(Len(s) - 1)
      /\ \A i \in 1..(Len(s) - 1) : t[i] = s[i + 1]
  OBVIOUS
<1>2. t = [i \in DOMAIN t |-> t[i]]
  <2> HIDE DEF t
  <2> QED
    BY <1>1
<1> HIDE DEF t
<1>3. t = [i \in 1..(Len(s) - 1) |-> s[i + 1]]
  BY <1>1, <1>2
<1> QED
  BY <1>3 DEF t

LEMMA FitsTail ==
    ASSUME NEW h, NEW g, NEW b \in Seq(TypedActions), b # <<>>, FitsFrom(h, b),
           LET a == Head(b) IN
           \A k \in ModCodes : k \in g <=>
              IF a.kind = "down" /\ Keycode(a.key) = k THEN TRUE
              ELSE IF a.kind = "up" /\ Keycode(a.key) = k THEN FALSE ELSE k \in h
    PROVE  FitsFrom(g, Tail(b))
<1> DEFINE S == {Coded(b)[i] : i \in DOMAIN b}
           c == Coded(b)
<1>0. Head(b) = b[1] /\ 1 \in DOMAIN b /\ DOMAIN b = 1..Len(b) /\ Len(b) \in Nat
  OBVIOUS
<1>1. c \in Seq(S) /\ c # <<>> /\ DOMAIN c = DOMAIN b /\ Len(c) = Len(b)
  <2>1. c = [i \in 1..Len(b) |-> [kind |-> b[i].kind, key |-> Keycode(b[i].key)]]
    BY <1>0 DEF Coded
  <2>2. \A i \in 1..Len(b) : c[i] \in S
    BY <1>0
  <2>3. c \in [1..Len(b) -> S]
    BY <2>1, <2>2
  <2> HIDE DEF c
  <2> QED
    BY <1>0, <2>3
<1>2. \A i \in DOMAIN b : c[i] = [kind |-> b[i].kind, key |-> Keycode(b[i].key)]
  BY DEF Coded
<1>3. Tail(c) = Coded(Tail(b))
  <2>1. \A i \in 1..(Len(b) - 1) : i + 1 \in DOMAIN b /\ Tail(b)[i] = b[i + 1]
    BY <1>0
  <2>2. DOMAIN Tail(b) = 1..(Len(b) - 1)
    BY <1>0
  <2>3. Coded(Tail(b)) = [i \in 1..(Len(b) - 1) |-> c[i + 1]]
    BY <2>1, <2>2, <1>2 DEF Coded
  <2>4. Tail(c) = [i \in 1..(Len(c) - 1) |-> c[i + 1]]
    BY <1>1, TailIs
  <2> QED
    BY <2>3, <2>4, <1>1
<1> HIDE DEF c, S
<1>4. SUFFICES ASSUME NEW i \in DOMAIN Tail(b), Tail(b)[i].kind # "text",
                      Keycode(Tail(b)[i].key) \in ModCodes
               PROVE  Tail(b)[i].kind = "up"
                      <=> HeldBefore(g, Tail(c), i, Keycode(Tail(b)[i].key))
  BY <1>3 DEF FitsFrom
<1> DEFINE k == Keycode(Tail(b)[i].key)
<1>5. i + 1 \in DOMAIN b /\ Tail(b)[i] = b[i + 1] /\ i \in DOMAIN Tail(c)
  BY <1>0, <1>1, <1>4
<1>6. b[i + 1].kind = "up" <=> HeldBefore(h, c, i + 1, k)
  BY <1>4, <1>5 DEF FitsFrom, c
<1>7. HeldBefore(h, c, i + 1, k) <=> HeldBefore(HoldsAfter(h, c[1]), Tail(c), i, k)
  BY <1>1, <1>5, HeldOfTail
<1>8. k \in HoldsAfter(h, c[1]) <=> k \in g
  <2>0. c[1] = [kind |-> b[1].kind, key |-> Keycode(b[1].key)]
    BY <1>0, <1>2
  <2>1. c[1].kind = b[1].kind /\ c[1].key = Keycode(b[1].key)
    BY <2>0
  <2>2. k \in g <=> IF b[1].kind = "down" /\ Keycode(b[1].key) = k THEN TRUE
                    ELSE IF b[1].kind = "up" /\ Keycode(b[1].key) = k THEN FALSE ELSE k \in h
    BY <1>0, <1>4
  <2> HIDE DEF k
  <2> QED
    BY <2>1, <2>2 DEF HoldsAfter
<1>9. HeldBefore(HoldsAfter(h, c[1]), Tail(c), i, k) <=> HeldBefore(g, Tail(c), i, k)
  BY <1>8 DEF HeldBefore
<1> QED
  BY <1>5, <1>6, <1>7, <1>9

-----------------------------------------------------------------------------

XStates == {"idle", "next", "mods", "tap", "release", "fail", "click", "scroll", "retry"}

XTypes ==
    /\ layout \in Layouts
    /\ xPc \in XStates
    /\ xBatch \in Seq(TypedActions)
    /\ xTemps \subseteq Special
    /\ xPressed \in Seq(0..255)

\* What is left of the batch is known to the keymap and can be carried out from the
\* holds of now; while an action is finished, what follows it.
XBatchInv ==
    /\ \A i \in DOMAIN xBatch : Known(xBatch[i])
    /\ xPc \in {"next", "mods"} => FitsFrom(xHeld, xBatch)
    /\ xPc \in {"mods", "tap", "release"} => xBatch # <<>>
    /\ xPc \in {"tap", "release"} => FitsFrom(xHeld, Tail(xBatch))

\* What is down for a moment.
Passing == IF xPc = "tap" THEN {Code} ELSE IF xPc = "click" THEN {Button}
           ELSE IF xPc \in {"scroll", "retry"} THEN {Wheel} ELSE {}

\* What is held is down and will not be released; what else is down is the caller's,
\* stuck, or will be.
XHoldInv ==
    /\ xHeld \subseteq xDown /\ xHeld \subseteq ModCodes
    /\ \A k \in xDown \ xHeld : \/ k \in xStuck \/ k \in owned \ ModCodes
                                \/ k \in ToSet(xPressed) \/ k \in Passing
    /\ ToSet(xPressed) \cap xHeld = {}
    /\ xPc \in {"idle", "next", "click", "scroll", "retry"} => xPressed = <<>>

\* While an action is carried out, what it wants is held, pressed or still to be
\* pressed, and nothing else is pressed.
XActionInv ==
    /\ xPc \in {"mods", "tap"} =>
          /\ ToSet(xPressed) \subseteq xDown \cap {Keycode(m) : m \in Wanted(Acting)}
          /\ \A m \in Wanted(Acting) : m \in xTemps \/ Keycode(m) \in xHeld \cup ToSet(xPressed)
    /\ xPc = "mods" => xTemps \subseteq Wanted(Acting) /\ \A m \in xTemps : Keycode(m) \notin xHeld
    /\ xPc = "tap" => xTemps = {} /\ Code \notin xHeld

\* What the caller has pressed are keys that it can name.
XOwnedInv ==
    owned \subseteq {Button} \cup {Keycode(s) : s \in {t \in Symbols \cup NamedMods : Mapped(t)}}

XTestInv == XTypes /\ XBatchInv /\ XHoldInv /\ XActionInv /\ XOwnedInv

LEMMA SameFits ==
    ASSUME layout' = layout
    PROVE  \A h, b : FitsFrom(h, b)' <=> FitsFrom(h, b)
BY SameLayout DEF FitsFrom

LEMMA NothingPressed == ToSet(<<>>) = {}
BY DEF ToSet

LEMMA ModCodesAre ==
    ASSUME layout \in Layouts
    PROVE  /\ ModCodes \subseteq 0..255 /\ Button \notin 0..255 /\ Wheel \notin 0..255
           /\ \A m \in NamedMods : Mapped(m) => Keycode(m) \in ModCodes
BY PlacementIs DEF ModCodes, Button, Wheel

LEMMA XTestInitially == XTestInit => XTestInv
<1> SUFFICES ASSUME XTestInit PROVE XTestInv
  OBVIOUS
<1> USE DEF XTestInit
<1>1. XTypes
  BY DEF XTypes, XStates
<1>2. XBatchInv
  BY DEF XBatchInv
<1>3. XHoldInv
  BY NothingPressed DEF XHoldInv
<1>4. XActionInv /\ XOwnedInv
  BY DEF XActionInv, XOwnedInv
<1> QED
  BY <1>1, <1>2, <1>3, <1>4 DEF XTestInv

\* What the invariant speaks of is unchanged.
LEMMA SameXTest ==
    ASSUME XTestInv, UNCHANGED <<layout, xDown, xHeld, xCall, xPc, xStuck, owned>>
    PROVE  XTestInv'
<1>0. /\ layout' = layout /\ xDown' = xDown /\ xHeld' = xHeld /\ xBatch' = xBatch
      /\ xTemps' = xTemps /\ xPressed' = xPressed /\ xPc' = xPc /\ xStuck' = xStuck
      /\ owned' = owned
  BY DEF xCall
<1>1. XTypes'
  BY <1>0 DEF XTestInv, XTypes
<1>2. XBatchInv'
  BY <1>0, SameLayout, SameFits DEF XTestInv, XBatchInv
<1>3. XHoldInv'
  BY <1>0, SameLayout DEF XTestInv, XHoldInv, Passing, Code, Acting
<1>4. XActionInv'
  BY <1>0, SameLayout DEF XTestInv, XActionInv, Code, Acting
<1>5. XOwnedInv'
  BY <1>0, SameLayout DEF XTestInv, XOwnedInv
<1> QED
  BY <1>1, <1>2, <1>3, <1>4, <1>5 DEF XTestInv

LEMMA TypeContextKeeps ==
    ASSUME XTestInv, NEW b \in TypedBatches, TypeContext(b)
    PROVE  XTestInv'
<1>0. /\ layout' = layout /\ xDown' = xDown /\ xHeld' = xHeld /\ xBatch' = b
      /\ xTemps' = xTemps /\ xPressed' = xPressed /\ xPc = "idle" /\ xPc' = "next"
      /\ xStuck' = xStuck /\ owned' = owned
  BY DEF TypeContext
<1>1. XTypes'
  BY <1>0, TypedAreActions DEF XTestInv, XTypes, XStates
<1>2. XBatchInv'
  <2>1. (\A i \in DOMAIN b : Known(b[i])) /\ FitsFrom(xHeld, b)
    BY DEF TypeContext, Typed, HoldsFit, FitsFrom
  <2> QED
    BY <1>0, <2>1, SameLayout, SameFits DEF XBatchInv
<1>3. XHoldInv'
  BY <1>0, SameLayout DEF XTestInv, XHoldInv, Passing
<1>4. XActionInv' /\ XOwnedInv'
  BY <1>0, SameLayout DEF XTestInv, XActionInv, XOwnedInv
<1> QED
  BY <1>1, <1>2, <1>3, <1>4 DEF XTestInv

\* A call returns when nothing that it pressed is left.
LEMMA EndCallKeeps ==
    ASSUME XTestInv, xPressed = <<>>, xPc \in {"next", "fail"}, EndCallNow,
           UNCHANGED <<layout, xDown, xHeld, xStuck, owned>>
    PROVE  XTestInv'
<1>0. /\ layout' = layout /\ xDown' = xDown /\ xHeld' = xHeld /\ xBatch' = <<>>
      /\ xTemps' = {} /\ xPressed' = <<>> /\ xPc' = "idle" /\ xStuck' = xStuck /\ owned' = owned
  BY DEF EndCallNow
<1>1. XTypes'
  BY <1>0 DEF XTestInv, XTypes, XStates
<1>2. XBatchInv'
  BY <1>0 DEF XBatchInv
<1>3. XHoldInv'
  BY <1>0, SameLayout, NothingPressed DEF XTestInv, XHoldInv, Passing
<1>4. XActionInv' /\ XOwnedInv'
  BY <1>0, SameLayout DEF XTestInv, XActionInv, XOwnedInv
<1> QED
  BY <1>1, <1>2, <1>3, <1>4 DEF XTestInv

LEMMA ActingIs ==
    ASSUME XTestInv, xBatch # <<>>
    PROVE  Acting \in TypedActions /\ Known(Acting)
<1>1. Head(xBatch) = xBatch[1] /\ 1 \in DOMAIN xBatch /\ xBatch[1] \in TypedActions
  BY DEF XTestInv, XTypes
<1> QED
  BY <1>1 DEF XTestInv, XBatchInv, Acting

LEMMA TypeActionKeeps == ASSUME XTestInv, TypeAction PROVE XTestInv'
<1>0. layout' = layout /\ xDown' = xDown /\ xHeld' = xHeld /\ xStuck' = xStuck /\ owned' = owned
      /\ xPc = "next" /\ xPressed = <<>>
  BY DEF TypeAction, XTestInv, XHoldInv
<1>1. CASE EndCallNow
  BY <1>0, <1>1, EndCallKeeps
<1>2. CASE /\ xBatch # <<>> /\ xTemps' = Required /\ xPressed' = <<>> /\ xPc' = "mods"
           /\ xBatch' = xBatch
  <2>1. Acting \in TypedActions /\ Known(Acting) /\ Acting' = Acting
    BY <1>2, ActingIs DEF Acting
  <2>2. /\ xTemps' \subseteq Wanted(Acting) /\ xTemps' \subseteq Special
        /\ \A m \in Wanted(Acting) : m \in xTemps' \/ Keycode(m) \in xHeld
        /\ \A m \in xTemps' : Keycode(m) \notin xHeld
    BY <1>2, <2>1, WantedIs DEF Required
  <2>3. XTypes'
    BY <1>0, <1>2, <2>2 DEF XTestInv, XTypes, XStates
  <2>4. XBatchInv'
    BY <1>0, <1>2, SameLayout, SameFits DEF XTestInv, XBatchInv
  <2>5. XHoldInv'
    BY <1>0, <1>2, SameLayout, NothingPressed DEF XTestInv, XHoldInv, Passing
  <2>6. XActionInv'
    <3>1. Wanted(Acting)' = Wanted(Acting)
      BY <1>0, <2>1, SameLayout
    <3> QED
      BY <1>0, <1>2, <2>2, <3>1, SameLayout, NothingPressed DEF XActionInv
  <2>7. XOwnedInv'
    BY <1>0, SameLayout DEF XTestInv, XOwnedInv
  <2> QED
    BY <2>3, <2>4, <2>5, <2>6, <2>7 DEF XTestInv
<1> QED
  BY <1>1, <1>2 DEF TypeAction

\* An action fails: what it has pressed is still to be released.
LEMMA FailActionKeeps ==
    ASSUME XTestInv, FailAction, xPc = "mods", UNCHANGED <<layout, xDown, xHeld, xStuck, owned>>
    PROVE  XTestInv'
<1>0. /\ layout' = layout /\ xDown' = xDown /\ xHeld' = xHeld /\ xBatch' = xBatch
      /\ xTemps' = xTemps /\ xPressed' = xPressed /\ xPc' = "fail"
      /\ xStuck' = xStuck /\ owned' = owned
  BY DEF FailAction, xCall
<1>1. XTypes'
  BY <1>0 DEF XTestInv, XTypes, XStates
<1>2. XBatchInv'
  BY <1>0, SameLayout DEF XTestInv, XBatchInv
<1>3. XHoldInv'
  BY <1>0, SameLayout DEF XTestInv, XHoldInv, Passing
<1>4. XActionInv' /\ XOwnedInv'
  BY <1>0, SameLayout DEF XTestInv, XActionInv, XOwnedInv
<1> QED
  BY <1>1, <1>2, <1>3, <1>4 DEF XTestInv

LEMMA ApplyModifierKeeps == ASSUME XTestInv, ApplyModifier PROVE XTestInv'
<1>0. /\ layout' = layout /\ xHeld' = xHeld /\ xStuck' = xStuck /\ owned' = owned /\ xPc = "mods"
      /\ xBatch # <<>>
  BY DEF ApplyModifier, XTestInv, XBatchInv
<1>1. CASE FailAction /\ xDown' = xDown
  BY <1>0, <1>1, FailActionKeeps
<1>2. ASSUME NEW m \in xTemps, xDown' = xDown \cup {Keycode(m)}, xTemps' = xTemps \ {m},
             xPressed' = <<Keycode(m)>> \o xPressed, xPc' = xPc, xBatch' = xBatch
      PROVE  XTestInv'
  <2>1. /\ Acting \in TypedActions /\ Known(Acting) /\ Acting' = Acting
        /\ m \in Wanted(Acting) /\ Keycode(m) \notin xHeld /\ Mapped(m)
    BY <1>0, <1>2, ActingIs DEF Acting, XTestInv, XActionInv, Known
  <2>2. Keycode(m) \in 0..255
    BY <2>1, PlacementIs DEF XTestInv, XTypes
  <2>3. xPressed' \in Seq(0..255) /\ ToSet(xPressed') = ToSet(xPressed) \cup {Keycode(m)}
    BY <1>2, <2>2, ElementsOfCons DEF XTestInv, XTypes
  <2>4. ToSet(xPressed)' = ToSet(xPressed) \cup {Keycode(m)}
    BY <2>3 DEF ToSet
  <2>5. XTypes'
    BY <1>0, <1>2, <2>3 DEF XTestInv, XTypes
  <2>6. XBatchInv'
    BY <1>0, <1>2, SameLayout, SameFits DEF XTestInv, XBatchInv
  <2>7. XHoldInv'
    BY <1>0, <1>2, <2>1, <2>4, SameLayout DEF XTestInv, XHoldInv, Passing
  <2>8. XActionInv'
    <3>1. Wanted(Acting)' = Wanted(Acting)
      BY <1>0, <2>1, SameLayout
    <3> QED
      BY <1>0, <1>2, <2>1, <2>4, <3>1, SameLayout DEF XTestInv, XActionInv
  <2>9. XOwnedInv'
    BY <1>0, SameLayout DEF XTestInv, XOwnedInv
  <2> QED
    BY <2>5, <2>6, <2>7, <2>8, <2>9 DEF XTestInv
<1> QED
  BY <1>1, <1>2 DEF ApplyModifier

\* The key of an action: of an explicit press or a tap it is not one that is held, and
\* it is none that the action has pressed around it.
LEMMA CodeIs ==
    ASSUME XTestInv, xPc = "mods"
    PROVE  /\ xBatch # <<>> /\ Acting \in TypedActions /\ Known(Acting) /\ Code \in 0..255
           /\ Acting.kind # "up" => Code \notin xHeld
           /\ Acting.kind = "up" /\ Code \in ModCodes => Code \in xHeld
           /\ Code \in ModCodes => ToSet(xPressed) = {}
           /\ Code \in {Keycode(s) : s \in {t \in Symbols \cup NamedMods : Mapped(t)}}
<1>1. xBatch # <<>> /\ Acting \in TypedActions /\ Known(Acting) /\ layout \in Layouts
  BY ActingIs DEF XTestInv, XBatchInv, XTypes
<1>2. Acting.key \in Symbols \cup NamedMods /\ Mapped(Acting.key)
  BY <1>1, TypedFields DEF Known
<1>3. Code \in 0..255 /\ Code \in {Keycode(s) : s \in {t \in Symbols \cup NamedMods : Mapped(t)}}
  BY <1>1, <1>2, PlacementIs DEF Code
<1>4. ASSUME Code \in ModCodes
      PROVE  Acting.key \in Special
  <2>1. PICK m \in NamedMods \cup {AltGr} : Mapped(m) /\ Keycode(m) = Code
    BY <1>4 DEF ModCodes
  <2>2. m \in Special
    BY <2>1, AltGrIs DEF Special
  <2> QED
    BY <1>1, <1>2, <2>1, <2>2, CodesDiffer DEF Code, Special
<1>5. Code \in ModCodes => Acting.key \notin Symbols
  BY <1>4, NamesAreNames
<1>6. Code \in ModCodes => Acting.kind # "text" /\ Wanted(Acting) = {}
  BY <1>1, <1>5, TypedFields, WantedIs
<1>7. FitsFrom(xHeld, xBatch) /\ xBatch \in Seq(TypedActions) /\ xHeld \subseteq ModCodes
  BY DEF XTestInv, XBatchInv, XTypes, XHoldInv
<1>8. Code \in ModCodes => (Acting.kind = "up" <=> Code \in xHeld)
  BY <1>1, <1>6, <1>7, FitsHead DEF Acting, Code
<1>9. Code \in ModCodes => ToSet(xPressed) = {}
  BY <1>6 DEF XTestInv, XActionInv
<1> QED
  BY <1>1, <1>3, <1>7, <1>8, <1>9

LEMMA SendCodeKeeps == ASSUME XTestInv, SendCode PROVE XTestInv'
<1>0. /\ layout' = layout /\ xBatch' = xBatch /\ xTemps' = xTemps /\ xPressed' = xPressed
      /\ xStuck' = xStuck /\ xPc = "mods" /\ xTemps = {} /\ Acting' = Acting /\ Code' = Code
      /\ ModCodes' = ModCodes
  BY SameLayout DEF SendCode, xCall, Acting, Code
<1>1. /\ xBatch # <<>> /\ Acting \in TypedActions /\ Known(Acting) /\ Code \in 0..255
      /\ Acting.kind # "up" => Code \notin xHeld
      /\ Acting.kind = "up" /\ Code \in ModCodes => Code \in xHeld
      /\ Code \in ModCodes => ToSet(xPressed) = {}
      /\ Code \in {Keycode(s) : s \in {t \in Symbols \cup NamedMods : Mapped(t)}}
  BY <1>0, CodeIs
<1>2. \/ /\ Acting.kind = "up" /\ xDown' = xDown \ {Code} /\ xHeld' = xHeld \ {Code}
         /\ owned' = owned \ {Code} /\ xPc' = "release"
      \/ /\ Acting.kind = "down" /\ xDown' = xDown \cup {Code}
         /\ xHeld' = xHeld \cup ({Code} \cap ModCodes)
         /\ owned' = owned \cup {Code} /\ xPc' = "release"
      \/ /\ Acting.kind \notin {"up", "down"} /\ xDown' = xDown \cup {Code} /\ xHeld' = xHeld
         /\ owned' = owned /\ xPc' = "tap"
  BY DEF SendCode
<1>3. ToSet(xPressed)' = ToSet(xPressed)
  BY <1>0
<1>4. XTypes'
  BY <1>0, <1>2 DEF XTestInv, XTypes, XStates
<1>5. XBatchInv'
  <2>1. FitsFrom(xHeld', Tail(xBatch))
    <3>1. xBatch \in Seq(TypedActions) /\ FitsFrom(xHeld, xBatch) /\ Acting = Head(xBatch)
      BY <1>0 DEF XTestInv, XTypes, XBatchInv, Acting
    <3>2. \A k \in ModCodes : k \in xHeld' <=>
             IF Acting.kind = "down" /\ Keycode(Acting.key) = k THEN TRUE
             ELSE IF Acting.kind = "up" /\ Keycode(Acting.key) = k THEN FALSE ELSE k \in xHeld
      BY <1>2 DEF Code
    <3> QED
      BY <1>1, <3>1, <3>2, FitsTail
  <2> QED
    BY <1>0, <1>1, <1>2, <2>1, SameLayout, SameFits DEF XTestInv, XBatchInv
<1>6. XHoldInv'
  <2>1. xHeld' \subseteq xDown' /\ xHeld' \subseteq ModCodes
    BY <1>1, <1>2 DEF XTestInv, XHoldInv
  <2>2. ASSUME NEW k \in xDown' \ xHeld'
        PROVE  \/ k \in xStuck \/ k \in owned' \ ModCodes
               \/ k \in ToSet(xPressed) \/ (xPc' = "tap" /\ k = Code)
    BY <1>0, <1>1, <1>2, <2>2 DEF XTestInv, XHoldInv, Passing
  <2>3. ToSet(xPressed) \cap xHeld' = {}
    BY <1>1, <1>2 DEF XTestInv, XHoldInv
  <2> QED
    BY <1>0, <1>2, <1>3, <2>1, <2>2, <2>3 DEF XHoldInv, Passing
<1>7. XActionInv'
  <2>1. Wanted(Acting)' = Wanted(Acting)
    BY <1>0, SameLayout
  <2> QED
    BY <1>0, <1>1, <1>2, <1>3, <2>1, SameLayout DEF XTestInv, XActionInv
<1>8. XOwnedInv'
  BY <1>0, <1>1, <1>2, SameLayout DEF XTestInv, XOwnedInv
<1> QED
  BY <1>4, <1>5, <1>6, <1>7, <1>8 DEF XTestInv

\* The key of a tap goes up, or the server refuses.
LEMMA EndTapKeeps == ASSUME XTestInv, EndTap PROVE XTestInv'
<1>0. /\ layout' = layout /\ xHeld' = xHeld /\ xBatch' = xBatch /\ xTemps' = xTemps
      /\ xPressed' = xPressed /\ owned' = owned /\ xPc = "tap" /\ xPc' \in {"release", "fail"}
      /\ \/ xDown' = xDown \ {Code} /\ xStuck' = xStuck
         \/ xDown' = xDown /\ xStuck' = xStuck \cup {Code} /\ xPc' = "fail"
  BY DEF EndTap, Refuse, xCall
<1>1. XTypes'
  BY <1>0 DEF XTestInv, XTypes, XStates
<1>2. XBatchInv'
  BY <1>0, SameLayout, SameFits DEF XTestInv, XBatchInv
<1>3. XHoldInv'
  <2>1. Code \notin xHeld
    BY <1>0 DEF XTestInv, XActionInv
  <2> QED
    BY <1>0, <2>1, SameLayout DEF XTestInv, XHoldInv, Passing
<1>4. XActionInv' /\ XOwnedInv'
  BY <1>0, SameLayout DEF XTestInv, XActionInv, XOwnedInv
<1> QED
  BY <1>1, <1>2, <1>3, <1>4 DEF XTestInv

LEMMA ReleaseAppliedKeeps == ASSUME XTestInv, ReleaseApplied PROVE XTestInv'
<1>0. /\ layout' = layout /\ xHeld' = xHeld /\ xBatch' = xBatch /\ xTemps' = xTemps
      /\ owned' = owned /\ xPc \in {"release", "fail"} /\ xPc' \in {xPc, "fail"} /\ xPressed # <<>>
      /\ \/ xDown' = xDown \ {Head(xPressed)} /\ xPressed' = Tail(xPressed) /\ xStuck' = xStuck
         \/ xDown' = xDown /\ xPressed' = xPressed /\ xStuck' = xStuck
         \/ /\ xDown' = xDown /\ xPressed' = Tail(xPressed)
            /\ xStuck' = xStuck \cup {Head(xPressed)}
  BY DEF ReleaseApplied, Refuse
<1>1. /\ Tail(xPressed) \in Seq(0..255)
      /\ ToSet(xPressed) = ToSet(Tail(xPressed)) \cup {Head(xPressed)}
  BY <1>0, ElementsOfTail DEF XTestInv, XTypes
<1>2. XTypes'
  BY <1>0, <1>1 DEF XTestInv, XTypes, XStates
<1>3. XBatchInv'
  BY <1>0, SameLayout, SameFits DEF XTestInv, XBatchInv
<1>4. XHoldInv'
  <2>1. \/ ToSet(xPressed)' = ToSet(xPressed) /\ xDown' = xDown /\ xStuck' = xStuck
        \/ /\ ToSet(xPressed)' = ToSet(Tail(xPressed))
           /\ \/ xDown' = xDown \ {Head(xPressed)} /\ xStuck' = xStuck
              \/ xDown' = xDown /\ xStuck' = xStuck \cup {Head(xPressed)}
    BY <1>0
  <2> QED
    BY <1>0, <1>1, <2>1, SameLayout DEF XTestInv, XHoldInv, Passing
<1>5. XActionInv' /\ XOwnedInv'
  BY <1>0, SameLayout DEF XTestInv, XActionInv, XOwnedInv
<1> QED
  BY <1>2, <1>3, <1>4, <1>5 DEF XTestInv

LEMMA ActionEndsKeeps == ASSUME XTestInv, ActionEnds PROVE XTestInv'
<1>0. /\ layout' = layout /\ xDown' = xDown /\ xHeld' = xHeld /\ xBatch' = Tail(xBatch)
      /\ xTemps' = xTemps /\ xPressed' = xPressed /\ xPc = "release" /\ xPc' = "next"
      /\ xPressed = <<>> /\ xStuck' = xStuck /\ owned' = owned
  BY DEF ActionEnds
<1>1. /\ Tail(xBatch) \in Seq(TypedActions)
      /\ \A i \in DOMAIN Tail(xBatch) : i + 1 \in DOMAIN xBatch /\ Tail(xBatch)[i] = xBatch[i + 1]
  BY <1>0 DEF XTestInv, XTypes, XBatchInv
<1>2. XTypes'
  BY <1>0, <1>1 DEF XTestInv, XTypes, XStates
<1>3. XBatchInv'
  BY <1>0, <1>1, SameLayout, SameFits DEF XTestInv, XBatchInv
<1>4. XHoldInv'
  BY <1>0, SameLayout DEF XTestInv, XHoldInv, Passing
<1>5. XActionInv' /\ XOwnedInv'
  BY <1>0, SameLayout DEF XTestInv, XActionInv, XOwnedInv
<1> QED
  BY <1>2, <1>3, <1>4, <1>5 DEF XTestInv

\* The pointer's buttons are no keycodes.
LEMMA PointerKeeps ==
    ASSUME XTestInv,
           \/ ButtonDown \/ ButtonUp \/ ReleaseClick \/ ReleaseWheel \/ RetryWheel
           \/ \E b \in {Button, Wheel} : PressButton(b)
    PROVE  XTestInv'
<1>0. /\ layout' = layout /\ xHeld' = xHeld /\ xBatch' = xBatch /\ xTemps' = xTemps
      /\ xPressed' = xPressed /\ xPc \in {"idle", "click", "scroll", "retry"}
      /\ xPc' \in {"idle", "click", "scroll", "retry"}
  BY DEF ButtonDown, ButtonUp, ReleaseClick, ReleaseWheel, RetryWheel, PressButton, xCall
<1>1. /\ layout \in Layouts /\ Button \notin ModCodes /\ Wheel \notin ModCodes
      /\ Button \notin xHeld /\ Wheel \notin xHeld /\ ToSet(xPressed) = {}
  BY <1>0, ModCodesAre, NothingPressed DEF XTestInv, XTypes, XHoldInv
<1>2. XTypes'
  BY <1>0 DEF XTestInv, XTypes, XStates
<1>3. XBatchInv'
  BY <1>0, SameLayout DEF XTestInv, XBatchInv
<1>4. XHoldInv'
  <2>1. xHeld \subseteq xDown' /\ \A k \in xDown' \ xHeld :
           \/ k \in xStuck' \/ k \in owned' \ ModCodes
           \/ (xPc' = "click" /\ k = Button)
           \/ (xPc' \in {"scroll", "retry"} /\ k = Wheel)
    <3>1. CASE ButtonDown \/ ButtonUp
      BY <1>0, <1>1, <3>1 DEF ButtonDown, ButtonUp, XTestInv, XHoldInv, Passing
    <3>2. CASE ReleaseClick
      BY <1>0, <1>1, <3>2 DEF ReleaseClick, Refuse, XTestInv, XHoldInv, Passing
    <3>3. CASE ReleaseWheel
      BY <1>0, <1>1, <3>3 DEF ReleaseWheel, XTestInv, XHoldInv, Passing
    <3>4. CASE RetryWheel
      BY <1>0, <1>1, <3>4 DEF RetryWheel, Refuse, XTestInv, XHoldInv, Passing
    <3>5. CASE \E b \in {Button, Wheel} : PressButton(b)
      <4>1. PICK b \in {Button, Wheel} : PressButton(b)
        BY <3>5
      <4>2. /\ xPc = "idle" /\ xDown' = xDown \cup {b} /\ xStuck' = xStuck /\ owned' = owned
            /\ b = Button => xPc' = "click"
            /\ b = Wheel => xPc' = "scroll"
        BY <4>1 DEF PressButton, Button, Wheel
      <4>3. xHeld \subseteq xDown /\ \A k \in xDown \ xHeld : k \in xStuck \/ k \in owned \ ModCodes
        BY <1>1, <4>2 DEF XTestInv, XHoldInv, Passing
      <4>4. CASE b = Button
        BY <4>2, <4>3, <4>4
      <4>5. CASE b = Wheel
        BY <4>2, <4>3, <4>5
      <4> QED
        BY <4>1, <4>4, <4>5
    <3> QED
      BY <3>1, <3>2, <3>3, <3>4, <3>5
  <2> QED
    BY <1>0, <1>1, <2>1, SameLayout DEF XTestInv, XHoldInv, Passing
<1>5. XActionInv'
  BY <1>0 DEF XActionInv
<1>6. XOwnedInv'
  <2>1. owned' \subseteq owned \cup {Button}
    BY DEF ButtonDown, ButtonUp, ReleaseClick, ReleaseWheel, RetryWheel, PressButton
  <2> QED
    BY <1>0, <2>1, SameLayout DEF XTestInv, XOwnedInv
<1> QED
  BY <1>2, <1>3, <1>4, <1>5, <1>6 DEF XTestInv

LEMMA XTestSteps == XTestInv /\ [XTestNext]_xVars => XTestInv'
<1> SUFFICES ASSUME XTestInv, [XTestNext]_xVars PROVE XTestInv'
  OBVIOUS
<1>1. CASE \E b \in TypedBatches : TypeContext(b)
  BY <1>1, TypeContextKeeps
<1>2. CASE CancelType \/ UNCHANGED xVars
  BY <1>2, SameXTest DEF CancelType, xVars
<1>3. CASE TypeAction
  BY <1>3, TypeActionKeeps
<1>4. CASE ApplyModifier
  BY <1>4, ApplyModifierKeeps
<1>5. CASE SendCode
  BY <1>5, SendCodeKeeps
<1>6. CASE SendCodeFails
  BY <1>6, FailActionKeeps DEF SendCodeFails
<1>7. CASE EndTap
  BY <1>7, EndTapKeeps
<1>8. CASE ReleaseApplied
  BY <1>8, ReleaseAppliedKeeps
<1>9. CASE ActionEnds
  BY <1>9, ActionEndsKeeps
<1>10. CASE TypeFails
  BY <1>10, EndCallKeeps DEF TypeFails
<1>11. CASE \/ ButtonDown \/ ButtonUp \/ ReleaseClick \/ ReleaseWheel \/ RetryWheel
            \/ \E b \in {Button, Wheel} : PressButton(b)
  BY <1>11, PointerKeeps
<1> QED
  BY <1>1, <1>2, <1>3, <1>4, <1>5, <1>6, <1>7, <1>8, <1>9, <1>10, <1>11 DEF XTestNext

\* What the server reads off the keys while that of a character is down.
LEMMA LevelIs ==
    ASSUME XTestInv, xPc = "tap", IsText, (Shifts \cup Switches) \cap (xHeld \cup xStuck) = {}
    PROVE  LevelNow = Placement(Acting.key).level
<1> DEFINE l == Placement(Acting.key).level
           Choosing == Shifts \cup Switches
<1>1. /\ layout \in Layouts /\ Acting \in TypedActions /\ Known(Acting) /\ Acting.kind = "text"
      /\ Acting.key \in Symbols /\ Mapped(Acting.key)
  BY ActingIs, TypedFields DEF XTestInv, XTypes, XBatchInv, IsText, Known
<1>2. l \in 0..3
  BY <1>1, PlacementIs DEF Known, MaxTypableLevel
<1>3. /\ ShiftKey \in Wanted(Acting) <=> l \in {1, 3}
      /\ AltGr \in Wanted(Acting) <=> l \in {2, 3}
      /\ Wanted(Acting) \subseteq {ShiftKey, AltGr}
  BY <1>1, <1>2, AltGrIs DEF Wanted, LevelModifiers
<1>4. ASSUME NEW m \in Special, Mapped(m)
      PROVE  /\ m = ShiftKey => Keycode(m) \in Shifts
             /\ m \in ToSet(Level3) => Keycode(m) \in Switches
  BY <1>1, <1>4, PlacementIs DEF Shifts, Switches, Carrying
<1>5. ASSUME NEW s \in Symbols \cup Special, Mapped(s)
      PROVE  /\ Keycode(s) \in Shifts => s = ShiftKey
             /\ Keycode(s) \in Switches => s \in ToSet(Level3)
  <2>1. /\ Keycode(s) \in DOMAIN layout
        /\ \E i \in DOMAIN layout[Keycode(s)] : layout[Keycode(s)][i] = s
    BY <1>1, <1>5, PlacementIs
  <2>2. \A i, j \in DOMAIN layout[Keycode(s)] :
           layout[Keycode(s)][i] \in Special =>
              layout[Keycode(s)][j] \in {layout[Keycode(s)][i], NoSymbol}
    BY <1>1, <2>1, LayoutsAreKeyboards
  <2>3. s # NoSymbol /\ ShiftKey \in Special /\ ToSet(Level3) \subseteq Special
    BY NamesAreNames DEF Special
  <2> QED
    BY <2>1, <2>2, <2>3 DEF Shifts, Switches, Carrying
<1>6. ASSUME NEW k \in Choosing \cap xDown
      PROVE  \E m \in Wanted(Acting) : Mapped(m) /\ k = Keycode(m)
  <2>1. k \notin xHeld /\ k \notin xStuck /\ k \in 0..255
    <3>1. k \in DOMAIN layout
      BY DEF Shifts, Switches, Carrying
    <3> QED
      BY <1>1, <3>1, LayoutsAreKeyboards
  <2>2. k # Code
    BY <1>1, <1>5, NamesAreNames DEF Code, Special
  <2>3. k \notin owned \ ModCodes
    <3>1. SUFFICES ASSUME k \in owned PROVE k \in ModCodes
      OBVIOUS
    <3>2. PICK s \in Symbols \cup NamedMods : Mapped(s) /\ k = Keycode(s)
      BY <1>1, <2>1, <3>1, ModCodesAre DEF XTestInv, XOwnedInv
    <3>3. s = ShiftKey
      BY <1>5, <3>2, NamesAreNames DEF Special
    <3> QED
      BY <1>1, <3>2, <3>3, ModCodesAre, NamesAreNames
  <2>4. k \in ToSet(xPressed)
    BY <2>1, <2>2, <2>3 DEF XTestInv, XHoldInv, Passing
  <2> QED
    BY <1>1, <2>4 DEF XTestInv, XActionInv, Known
<1>7. ASSUME NEW m \in Wanted(Acting)
      PROVE  Keycode(m) \in xDown /\ Mapped(m) /\ m \in Special
  <2>1. Mapped(m) /\ m \in Special
    BY <1>1, WantedIs DEF Known
  <2>2. Keycode(m) \in Choosing
    BY <1>3, <1>4, <2>1, AltGrIs
  <2>3. Keycode(m) \in xHeld \cup ToSet(xPressed) /\ ToSet(xPressed) \subseteq xDown
    BY DEF XTestInv, XActionInv
  <2> QED
    BY <2>1, <2>2, <2>3
<1>8. Shifts \cap xDown # {} <=> ShiftKey \in Wanted(Acting)
  <2>1. ASSUME NEW k \in Shifts \cap xDown PROVE ShiftKey \in Wanted(Acting)
    <3>1. PICK m \in Wanted(Acting) : Mapped(m) /\ k = Keycode(m)
      BY <1>6
    <3> QED
      BY <1>5, <1>7, <3>1
  <2>2. ShiftKey \in Wanted(Acting) => Keycode(ShiftKey) \in Shifts \cap xDown
    BY <1>4, <1>7
  <2> QED
    BY <2>1, <2>2
<1>9. Switches \cap xDown # {} <=> AltGr \in Wanted(Acting)
  <2>1. ASSUME NEW k \in Switches \cap xDown PROVE AltGr \in Wanted(Acting)
    <3>1. PICK m \in Wanted(Acting) : Mapped(m) /\ k = Keycode(m)
      BY <1>6
    <3>2. m \in ToSet(Level3)
      BY <1>5, <1>7, <3>1
    <3> QED
      BY <1>3, <3>1, <3>2, AltGrIs, NamesAreNames
  <2>2. AltGr \in Wanted(Acting) => Keycode(AltGr) \in Switches \cap xDown
    BY <1>4, <1>7, AltGrIs
  <2> QED
    BY <2>1, <2>2
<1> QED
  BY <1>2, <1>3, <1>8, <1>9 DEF LevelNow

LEMMA XTestHolds == XTestInv => XTestIsExact
<1> SUFFICES ASSUME XTestInv PROVE XTestIsExact
  OBVIOUS
<1>1. HoldsAreExact
  BY NothingPressed DEF XTestInv, XHoldInv, Passing, HoldsAreExact
<1>2. TextIsExact
  <2>1. SUFFICES ASSUME xPc = "tap", IsText, (Shifts \cup Switches) \cap (xHeld \cup xStuck) = {}
                 PROVE  layout[Code][LevelNow + 1] = Acting.key
    BY DEF TextIsExact
  <2>2. layout \in Layouts /\ Mapped(Acting.key)
    BY <2>1, ActingIs DEF XTestInv, XTypes, XBatchInv, Known
  <2> QED
    BY <2>1, <2>2, LevelIs, PlacementIs DEF Code
<1> QED
  BY <1>1, <1>2 DEF XTestIsExact

\* Between two calls XTEST leaves down what it records as held and what the caller
\* pressed, and while the key of a character is down the server produces that
\* character, on every layout and for every batch.
THEOREM XTestIsRight == XTestSpec => []XTestIsExact
<1>1. XTestInit => XTestInv
  BY XTestInitially
<1>2. XTestInv /\ [XTestNext]_xVars => XTestInv'
  BY XTestSteps
<1>3. XTestInv => XTestIsExact
  BY XTestHolds
<1> QED
  BY <1>1, <1>2, <1>3, PTL DEF XTestSpec

=============================================================================
