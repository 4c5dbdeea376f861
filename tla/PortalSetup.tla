---------------------------- MODULE PortalSetup -----------------------------
(***************************************************************************)
(* OpenRemoteDesktopContext (input/portal.go) with the store of restore    *)
(* tokens (input/portal_token_linux.go).  Processes open the portal one    *)
(* step at a time; a step may fail, and a process may die between any two. *)
(* A token grants one start and is replaced by the portal.                 *)
(***************************************************************************)
EXTENDS Naturals, FiniteSets

CONSTANTS
    Nil,
    Openers,    \* one call of OpenRemoteDesktopContext each
    MaxTokens   \* bound on the tokens the portal gives out

VARIABLES
    opener,   \* each call: its step, what it has acquired and its tokens
    lock,     \* who has the flock
    file,     \* the token file: Nil or a token
    temp,     \* temporary files: token and whether it is complete
    given,    \* tokens given out so far
    offered   \* history: how often each token was offered to the portal

pvars == <<opener, lock, file, temp, given, offered>>

Tokens == 1..MaxTokens
TempFiles == [token : Tokens, whole : BOOLEAN]

\* Nil is no process, no token and no file.
ASSUME PortalAssumption == MaxTokens \in Nat /\ Nil \notin Openers \cup Tokens \cup TempFiles

\* The steps, in their order.  Subscribing, selecting and the EIS setup acquire
\* what portalSession.close and the EIS client's close release.
Steps == <<"bus", "version", "lock", "consume", "session", "subscribe", "select", "start",
           "write", "rename", "eis", "live">>
Position(step) == CHOOSE i \in DOMAIN Steps : Steps[i] = step
After(step) == Steps[Position(step) + 1]

\* Every way out but the last: portal.close, tokenLock.Close and, for the
\* temporary file, its removal
Release(p) ==
    /\ lock' = IF lock = p THEN Nil ELSE lock
    /\ temp' = [temp EXCEPT ![p] = Nil]
Failed(p) ==
    /\ opener' = [opener EXCEPT ![p].step = "failed", ![p].has = {}]
    /\ Release(p)

Go(p, has, token) ==
    opener' = [opener EXCEPT ![p].step = After(@), ![p].has = @ \cup has, ![p].token = token]

OpenFails(p) ==
    /\ opener[p].step \notin {"live", "failed", "dead"}
    /\ Failed(p) /\ UNCHANGED <<file, given, offered>>

\* The process dies: the kernel closes what it had, files stay.
Die(p) ==
    /\ opener[p].step \notin {"failed", "dead"}
    /\ opener' = [opener EXCEPT ![p].step = "dead", ![p].has = {}]
    /\ lock' = IF lock = p THEN Nil ELSE lock
    /\ UNCHANGED <<file, temp, given, offered>>

\* Steps that only acquire: the bus, the portal's version, the session, the
\* signals, the EIS socket
Acquire(p) ==
    /\ opener[p].step \in {"bus", "version", "session", "subscribe", "eis"}
    /\ Go(p, {opener[p].step}, opener[p].token)
    /\ lock' = IF opener[p].step = "eis" /\ lock = p THEN Nil ELSE lock
    /\ UNCHANGED <<file, temp, given, offered>>

\* lockPortalTokenStore does not wait.
LockStore(p) ==
    /\ opener[p].step = "lock" /\ lock = Nil
    /\ lock' = p /\ Go(p, {}, Nil)
    /\ UNCHANGED <<file, temp, given, offered>>

\* Mutant of Consume: the token stays in its file until another replaces it.
ConsumeAndKeep(p) ==
    /\ opener[p].step = "consume" /\ Go(p, {}, file)
    /\ UNCHANGED <<lock, file, temp, given, offered>>

\* consume: the token is unlinked before anything is done with it.
Consume(p) ==
    /\ opener[p].step = "consume"
    /\ Go(p, {}, file) /\ file' = Nil
    /\ UNCHANGED <<lock, temp, given, offered>>

\* SelectDevices offers the token.
SelectDevices(p) ==
    /\ opener[p].step = "select"
    /\ offered' = IF opener[p].token = Nil THEN offered
                  ELSE [offered EXCEPT ![opener[p].token] = @ + 1]
    /\ Go(p, {}, Nil)
    /\ UNCHANGED <<lock, file, temp, given>>

\* Start: both devices and a new token, or an error
Start(p) ==
    /\ opener[p].step = "start" /\ given < MaxTokens
    /\ given' = given + 1 /\ Go(p, {}, given + 1)
    /\ UNCHANGED <<lock, file, temp, offered>>

\* store: a temporary file, part by part, and its name at last
WriteToken(p) ==
    /\ opener[p].step = "write"
    /\ \/ temp[p] = Nil /\ temp' = [temp EXCEPT ![p] = [token |-> opener[p].token, whole |-> FALSE]]
          /\ UNCHANGED opener
       \/ temp[p] # Nil /\ temp' = [temp EXCEPT ![p].whole = TRUE] /\ Go(p, {}, opener[p].token)
    /\ UNCHANGED <<lock, file, given, offered>>

RenameToken(p) ==
    /\ opener[p].step = "rename"
    /\ file' = temp[p].token
    /\ temp' = [temp EXCEPT ![p] = Nil]
    /\ Go(p, {}, opener[p].token)
    /\ UNCHANGED <<lock, given, offered>>

TokenInit ==
    /\ opener = [p \in Openers |-> [step |-> "bus", has |-> {}, token |-> Nil]]
    /\ lock = Nil /\ file = Nil /\ temp = [p \in Openers |-> Nil]
    /\ given = 0 /\ offered = [t \in Tokens |-> 0]

TokenNext ==
    \E p \in Openers :
        \/ OpenFails(p) \/ Die(p) \/ Acquire(p) \/ LockStore(p) \/ Consume(p) \/ SelectDevices(p)
        \/ Start(p) \/ WriteToken(p) \/ RenameToken(p)

TokenSpec == TokenInit /\ [][TokenNext]_pvars

-----------------------------------------------------------------------------
\* A restore token is offered to the portal at most once and is in one place,
\* whatever processes start at the same time and wherever they die (consume
\* unlinks first, store renames last), and a failed open keeps nothing.
TokensAreSingleUse ==
    /\ \A t \in Tokens :
          /\ offered[t] <= 1
          /\ file = t => offered[t] = 0
          /\ file = t => \A p \in Openers : opener[p].step \in {"session", "subscribe", "select"} =>
                                                opener[p].token # t
    /\ \A p \in Openers : opener[p].step = "failed" => lock # p /\ temp[p] = Nil
    /\ file # Nil => \A p \in Openers : temp[p] # Nil => temp[p].token # file
=============================================================================
