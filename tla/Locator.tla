------------------------------ MODULE Locator -------------------------------
(***************************************************************************)
(* Semantic actions: the locator (accessibility_locator.go) resolves a     *)
(* scope, takes a fresh snapshot while it observes events, requires one    *)
(* match and dispatches one action or one replacement of text through the  *)
(* bundle (bundle_accessibility.go), the owner and the backend's           *)
(* automation (accessibility/automation.go).  A target that went stale     *)
(* before anything was sent is resolved once more; whatever may have       *)
(* reached the provider is not sent again.  Other mutations of the bundle  *)
(* check their arguments and are sent once to the node they are given.     *)
(*                                                                         *)
(* The desktop changes between any two steps: nodes appear and vanish, the *)
(* application restarts, and the backend learns of a vanished node later   *)
(* than the provider.  That a fresh snapshot is current is AtspiBackend's. *)
(***************************************************************************)
EXTENDS Integers, Sequences, FiniteSets

CONSTANTS
    Tasks,        \* what callers ask for: [kind, args]
    DesktopChanges, \* bound on the changes of the desktop
    MinInt,       \* the least and
    MaxInt,       \* the greatest integer of the wire format
    None

\* None is no error and no receipt.
ASSUME NoneIsNoOutcome ==
    None \notin {"accepted", "rejected", "not-sent", "unknown", "unobserved", "scope", "not found",
                 "ambiguous", "incomplete", "stale", "changed", "failed", "canceled", "retired",
                 "invalid", "scope changed", "not verified"}

Attempts == 2     \* locatorResolutionAttempts

VARIABLES
    world,    \* scope: which run of the application; nodes: matches in it;
              \* stale: handles the backend knows to be gone; changes
    task,     \* the call
    step,     \* where the call is
    attempt,  \* dispatch attempts before this one
    tries,    \* resolution attempts of find before this one
    first,    \* scope of the first resolution of this find, or None
    target,   \* the unique match and its scope, or None
    receipt,  \* Dispatch of the receipt: None when the receipt is empty
    err,      \* error returned, or None
    acted,    \* what the provider performed
    ended     \* whether the caller's context is done

call == <<attempt, tries, first, target, receipt, err>>
lvars == <<world, task, step, call, acted, ended>>

LocatorInit ==
    /\ world = [scope |-> 1, nodes |-> {1}, stale |-> {}, changes |-> 0]
    /\ task \in Tasks
    /\ step = IF task.kind = "mutation" THEN "dispatch" ELSE "observe"
    /\ attempt = 0 /\ tries = 0 /\ first = None /\ receipt = None /\ err = None
    /\ target = IF task.kind = "mutation" THEN [node |-> 1, scope |-> 1] ELSE None
    /\ acted = <<>> /\ ended = FALSE

-----------------------------------------------------------------------------
(* The desktop and the caller.                                             *)

\* The next node, never used before.
Fresh == world.changes + 2

DesktopChange(w) ==
    /\ world.changes < DesktopChanges /\ step # "done"
    /\ world' = [w EXCEPT !.changes = @ + 1]
    /\ UNCHANGED <<task, step, call, acted, ended>>

NodeAppears == DesktopChange([world EXCEPT !.nodes = @ \cup {Fresh}])

NodeVanishes == \E n \in world.nodes : DesktopChange([world EXCEPT !.nodes = @ \ {n}])

ApplicationRestarts == DesktopChange([world EXCEPT !.scope = @ + 1, !.nodes = {Fresh}])

\* The backend is told that the target is gone.
Notice ==
    /\ target # None /\ target.node \notin world.nodes \cup world.stale
    /\ world' = [world EXCEPT !.stale = @ \cup {target.node}]
    /\ UNCHANGED <<task, step, call, acted, ended>>

ContextEnds ==
    /\ ~ended /\ step # "done"
    /\ ended' = TRUE
    /\ UNCHANGED <<world, task, step, call, acted>>

-----------------------------------------------------------------------------
(* find.                                                                   *)

\* The call returns an error; the receipt is the one of the last dispatch.
Returns(e) ==
    /\ step' = "done" /\ err' = e
    /\ UNCHANGED <<attempt, tries, first, target, receipt>>

\* locatorResolutionMayRetry
MayRetryResolution(e) == e \in {"stale", "changed"}

\* One attempt of find fails.
Unresolved(e) ==
    IF MayRetryResolution(e) /\ tries + 1 < Attempts
    THEN step' = "observe" /\ tries' = tries + 1 /\ UNCHANGED <<attempt, first, target, receipt, err>>
    ELSE Returns(e)

\* Events are observed for as long as the attempt lasts; without them there is
\* no attempt.
Observe ==
    /\ step = "observe"
    /\ \/ ~ended /\ step' = "scope" /\ UNCHANGED call
       \/ Returns(IF ended THEN "canceled" ELSE "unobserved")
    /\ UNCHANGED <<world, task, acted, ended>>

\* scopeRoot: the scope now, which must be the one of the first attempt
\* (locatorIdentityChanged).
ResolveScope ==
    /\ step = "scope"
    /\ \/ ended /\ Returns("canceled")
       \/ ~ended /\ first \notin {None, world.scope} /\ Returns("scope")
       \/ /\ ~ended /\ first \in {None, world.scope}
          /\ first' = world.scope /\ step' = "snapshot"
          /\ UNCHANGED <<attempt, tries, target, receipt, err>>
       \/ ~ended /\ \E e \in {"stale", "changed", "failed"} : Unresolved(e)
    /\ UNCHANGED <<world, task, acted, ended>>

\* uniqueLocatorMatch
Matches(nodes) ==
    CASE Cardinality(nodes) = 0 -> Returns("not found")
      [] Cardinality(nodes) > 1 -> Returns("ambiguous")
      [] OTHER -> /\ target' = [node |-> CHOOSE n \in nodes : TRUE, scope |-> world.scope]
                  /\ step' = IF task.kind = "action" THEN "metadata" ELSE "dispatch"
                  /\ UNCHANGED <<attempt, tries, first, receipt, err>>

\* A fresh snapshot that is complete for the selector gives the matches of the
\* scope; the scope being gone shows as a stale root.
Snapshot ==
    /\ step = "snapshot"
    /\ \/ ended /\ Returns("canceled")
       \/ ~ended /\ world.scope = first /\ Matches(world.nodes)
       \/ ~ended /\ world.scope # first /\ Unresolved("stale")
       \/ ~ended /\ Returns("incomplete")
       \/ ~ended /\ \E e \in {"stale", "changed", "failed"} : Unresolved(e)
    /\ UNCHANGED <<world, task, acted, ended>>

-----------------------------------------------------------------------------
(* Dispatch.                                                               *)

Stale == target.node \in world.stale

\* locatorActionMayRetryStale
MayRetryStale(e) == e = "stale"

\* Mutant of RetryAllowed: a dispatch whose fate is unknown is retried too.
RetryUnknown(r, e) == (MayRetryStale(e) \/ r = "unknown") /\ attempt + 1 < Attempts

\* locatorRetryAllowed: nothing was sent, because the target was stale.
RetryAllowed(r, e) ==
    /\ r \in IF task.kind = "action" THEN {None, "not-sent"} ELSE {"not-sent"}
    /\ MayRetryStale(e) /\ attempt + 1 < Attempts

\* The outcome of one dispatch.
Dispatched(r, e) ==
    /\ receipt' = r
    /\ CASE e = None -> step' = "wait" /\ UNCHANGED err
         [] e # None /\ task.kind # "mutation" /\ RetryAllowed(r, e) -> step' = "rescope" /\ UNCHANGED err
         [] OTHER -> step' = "done" /\ err' = e
    /\ UNCHANGED <<attempt, tries, first, target>>

\* actionMetadata and actionName are read first; their errors carry no receipt.
ReadMetadata ==
    /\ step = "metadata"
    /\ \/ ended /\ Dispatched(None, "canceled")
       \/ ~ended /\ Stale /\ Dispatched(None, "stale")
       \/ ~ended /\ ~Stale /\ step' = "dispatch" /\ UNCHANGED call
       \/ ~ended /\ ~Stale /\ Dispatched(None, "failed")
    /\ UNCHANGED <<world, task, acted, ended>>

\* The owner replaces an error by that of the caller's context, and the receipt
\* of an action with it; the text of a fill is then of unknown fate.
Withdrawn == IF task.kind = "action" THEN None ELSE "unknown"

\* The checks of coordinates, sizes, ranges, indices and texts.
InRange(i) == i \in MinInt..MaxInt
ArgumentsAreValid(a) ==
    CASE a.shape = "point" -> a.type <= 2 /\ InRange(a.x) /\ InRange(a.y)
      [] a.shape = "size" -> a.x \in 0..MaxInt /\ a.y \in 0..MaxInt
      [] a.shape = "range" -> a.x >= 0 /\ a.y >= a.x
      [] a.shape = "index" -> a.x >= 0
      [] OTHER -> a.encoded

\* Nothing is sent: the context is done, the owner retires the generation, an
\* argument is invalid or the handle is stale.
NotSent ==
    /\ step = "dispatch"
    /\ \/ ended /\ Dispatched(Withdrawn, "canceled")
       \/ ended /\ task.kind = "fill" /\ Dispatched("not-sent", "canceled")
       \/ ~ended /\ Dispatched(IF task.kind = "action" THEN "not-sent" ELSE "unknown", "retired")
       \/ ~ended /\ ~ArgumentsAreValid(task.args) /\ Dispatched("unknown", "invalid")
       \/ ~ended /\ ArgumentsAreValid(task.args) /\ Stale /\ Dispatched("not-sent", "stale")
    /\ UNCHANGED <<world, task, acted, ended>>

\* The message is on the bus, and the provider performs it, refuses it or does
\* not have the node any more.
Send ==
    /\ step = "dispatch" /\ ~ended /\ ArgumentsAreValid(task.args) /\ ~Stale
    /\ \/ target.node \in world.nodes /\ acted' = Append(acted, target) /\ step' \in {"accepted", "lost"}
       \/ UNCHANGED acted /\ step' \in {"rejected", "unsupported", "lost"}
    /\ UNCHANGED <<world, task, call, ended>>

\* The receipt of an answer (dispatchAction, textDispatchOutcome).
ReceiptOf(answer) ==
    CASE answer = "accepted" -> "accepted"
      [] answer = "rejected" -> "rejected"
      [] answer = "unsupported" -> IF task.kind = "action" THEN "unknown" ELSE "not-sent"
      [] OTHER -> "unknown"

\* The answer arrives, or an error in its place; the context is looked at
\* again, and a generation that is retired meanwhile ends the backend's.
Answer ==
    /\ step \in {"accepted", "rejected", "unsupported", "lost"}
    /\ \/ ended /\ Dispatched(Withdrawn, "canceled")
       \/ ~ended /\ Dispatched("unknown", "retired")
       \/ ~ended /\ Dispatched(ReceiptOf(step), IF step = "accepted" THEN None ELSE "failed")
    /\ UNCHANGED <<world, task, acted, ended>>

\* Before the second attempt the scope must be the one that was resolved.
Rescope ==
    /\ step = "rescope"
    /\ \/ ~ended /\ world.scope # target.scope /\ Returns("scope changed")
       \/ /\ ~ended /\ world.scope = target.scope
          /\ step' = "observe" /\ attempt' = attempt + 1 /\ tries' = 0 /\ first' = None
          /\ UNCHANGED <<target, receipt, err>>
       \/ Returns(IF ended THEN "canceled" ELSE "failed")
    /\ UNCHANGED <<world, task, acted, ended>>

\* waitForOutcome: the postcondition is waited for by the session.
Wait ==
    /\ step = "wait"
    /\ \/ step' = "done" /\ UNCHANGED call
       \/ task.kind # "mutation" /\ Returns("not verified")
    /\ UNCHANGED <<world, task, acted, ended>>

-----------------------------------------------------------------------------

LocatorNext ==
    \/ NodeAppears \/ NodeVanishes \/ ApplicationRestarts \/ Notice \/ ContextEnds
    \/ Observe \/ ResolveScope \/ Snapshot
    \/ ReadMetadata \/ NotSent \/ Send \/ Answer \/ Rescope \/ Wait

LocatorSpec == LocatorInit /\ [][LocatorNext]_lvars

-----------------------------------------------------------------------------
(* Properties.                                                             *)

\* The provider performs a call at most once, whatever is retried, and what a
\* call says of its dispatch is true: accepted means performed, and not sent,
\* rejected or an empty receipt without cancellation means not performed
\* ("An uncertain provider result is returned with its receipt and is never
\* retried").
DispatchesAreExact ==
    /\ Len(acted) <= 1
    /\ step \in {"done", "wait"} =>
          /\ receipt = "accepted" => Len(acted) = 1
          /\ receipt \in {"not-sent", "rejected"} => acted = <<>>
          /\ receipt = None /\ err # "canceled" => acted = <<>>
          /\ err = None => receipt = "accepted"

=============================================================================
