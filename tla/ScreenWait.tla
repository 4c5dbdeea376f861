----------------------------- MODULE ScreenWait -----------------------------
(***************************************************************************)
(* The waits of find/find.go and poll/poll.go, and WaitForSettle of        *)
(* bundle_screen.go: a condition on captured images is polled until it     *)
(* holds, the context ends or a capture fails, while the screen changes.   *)
(*                                                                         *)
(* What the screen shows has a hash, and a colour at its corner.           *)
(***************************************************************************)
EXTENDS Integers, Sequences, SequencesExt, FiniteSets

CONSTANTS
    Waits,        \* what is waited for: records [kind, want, initial, stable, fast]
    Contents,     \* what the screen may show: records [hash, corner]; 0 is a hash
                  \* like any other
    MaxRepaints,  \* bound on the changes of the screen
    MaxRounds,    \* bound on the captures of a wait
    Base, Cap     \* the adaptive interval's, in ms

\* Hashes and colours are unsigned numbers.
ASSUME WaitsAreWaits ==
    Waits \subseteq [kind : {"for", "change", "stable", "settle", "holds"}, want : Nat, initial : Nat,
                    stable : Int, fast : BOOLEAN]
ASSUME ContentsAreHashed == Contents \subseteq [hash : Nat, corner : Nat]

VARIABLES
    wait,     \* one of Waits
    screen,   \* what is shown
    repaints, \* how often it has changed
    over,     \* whether the context has ended
    polled,   \* which of the conditions is polled
    loop,     \* where the loop is
    streak,   \* stableStreak: last and count
    corner,   \* sentinel: -1 or a colour
    res,      \* what the last capture gave: its hash, whether it decides, an error
    captured, \* captures of this loop
    seen,     \* history: the hashes captured by this loop
    waited    \* what the wait returned

screenVars ==
    <<wait, screen, repaints, over, polled, loop, streak, corner, res, captured, seen, waited>>

Nothing == [hash |-> 0, done |-> FALSE, err |-> FALSE]

\* AdaptivePoll: doubled up to the cap
AdaptivePoll[n \in Nat] ==
    IF Base >= Cap THEN Cap
    ELSE IF n = 0 THEN Base
    ELSE LET d == AdaptivePoll[n - 1] IN IF d > Cap - d THEN Cap ELSE 2 * d

\* newStableStreak
NewStreak(initial) == [last |-> initial, count |-> IF initial # 0 THEN 1 ELSE 0]
Needed == IF wait.stable <= 0 THEN 1 ELSE wait.stable

\* Mutant of Advance: a change does not begin the count again.
AdvanceAnyway(s, h) == [last |-> h, count |-> s.count + 1]

\* stableStreak.advance
Advance(s, h) ==
    IF s.count > 0 /\ h = s.last THEN [s EXCEPT !.count = @ + 1] ELSE [last |-> h, count |-> 1]
Settled(s, h) == s.count > 0 /\ h = s.last /\ Advance(s, h).count >= Needed

\* What was known when the loop began; it is returned if the context has ended.
Initial == CASE polled \in {"change", "stable"} -> wait.initial [] OTHER -> 0

\* contextErr, at the top of the loops of poll and ScanFor
Top ==
    /\ loop = "top" /\ captured < MaxRounds
    /\ IF over THEN loop' = "returned" /\ waited' = [as |-> "timeout", hash |-> Initial]
       ELSE loop' = "grab" /\ UNCHANGED waited
    /\ UNCHANGED <<wait, screen, repaints, over, polled, streak, corner, res, captured, seen>>

\* The capture fails, or is interrupted: there is no hash.
GrabFails ==
    /\ loop = "grab"
    /\ res' = [Nothing EXCEPT !.err = TRUE,
                              !.hash = IF polled = "change" /\ over THEN wait.initial ELSE 0]
    /\ loop' = "judge" /\ captured' = captured + 1
    /\ UNCHANGED <<wait, screen, repaints, over, polled, streak, corner, seen, waited>>

\* grabHashProbe skips the hash when the first pixel has changed.
Skips(shown) == ~wait.fast /\ corner # -1 /\ shown.corner # corner

\* The captures of WaitFor, WaitForChange, WaitForNoChangeFrom (canonicalHashProbe
\* and grabHashProbe), and of WaitForLocate, WaitForFn and ScanFor, which look for
\* something in the image
Grab ==
    /\ loop = "grab"
    /\ LET h == screen.hash
           skip == polled = "stable" /\ Skips(screen)
       IN  /\ res' = [Nothing EXCEPT !.hash = IF skip THEN streak.last ELSE h,
                        !.done = CASE polled = "change" -> h # wait.initial
                                   [] polled = "stable" -> ~skip /\ Settled(streak, h)
                                   [] polled = "before" -> TRUE
                                   [] OTHER -> h = wait.want]
           /\ streak' = IF polled # "stable" THEN streak
                        ELSE IF skip THEN [streak EXCEPT !.count = 0] ELSE Advance(streak, h)
           /\ corner' = IF polled = "stable" /\ ~wait.fast THEN screen.corner ELSE corner
           /\ seen' = Append(seen, h)
    /\ loop' = "judge" /\ captured' = captured + 1
    /\ UNCHANGED <<wait, screen, repaints, over, polled, waited>>

\* The next of WaitForSettle's three: the hash before the action, the wait for a
\* change from it, and the wait for what it changed to
NextWait(next, initial) ==
    /\ polled' = next /\ wait' = [wait EXCEPT !.initial = initial]
    /\ loop' = "top" /\ streak' = NewStreak(initial) /\ corner' = -1
    /\ seen' = <<>> /\ captured' = 0 /\ res' = Nothing
    /\ UNCHANGED waited

\* After a capture
Judge ==
    /\ loop = "judge"
    /\ IF res.err \/ over
       THEN /\ loop' = "returned"
            /\ waited' = [as |-> IF over THEN "timeout" ELSE "error", hash |-> res.hash]
            /\ UNCHANGED <<wait, polled, streak, corner, seen, captured, res>>
       ELSE IF ~res.done
       THEN loop' = "sleep" /\ UNCHANGED <<wait, polled, streak, corner, seen, captured, res, waited>>
       ELSE IF polled = "before" THEN NextWait("change", res.hash)
       ELSE IF polled = "change" /\ wait.kind = "settle" THEN NextWait("stable", res.hash)
       ELSE /\ loop' = "returned" /\ waited' = [as |-> "ok", hash |-> res.hash]
            /\ UNCHANGED <<wait, polled, streak, corner, seen, captured, res>>
    /\ UNCHANGED <<screen, repaints, over>>

\* The interval passes, or the context ends first.
Sleep ==
    /\ loop = "sleep"
    /\ \/ loop' = "top" /\ UNCHANGED waited
       \/ over /\ loop' = "returned" /\ waited' = [as |-> "timeout", hash |-> res.hash]
    /\ UNCHANGED <<wait, screen, repaints, over, polled, streak, corner, res, captured, seen>>

Repaint ==
    /\ repaints < MaxRepaints /\ repaints' = repaints + 1
    /\ screen' \in Contents \ {screen}
    /\ UNCHANGED <<wait, over, polled, loop, streak, corner, res, captured, seen, waited>>

CancelPolling ==
    /\ ~over /\ loop # "returned" /\ over' = TRUE
    /\ UNCHANGED <<wait, screen, repaints, polled, loop, streak, corner, res, captured, seen, waited>>

ScreenInit ==
    /\ wait \in Waits /\ screen \in Contents /\ repaints = 0 /\ over = FALSE
    /\ polled = IF wait.kind = "settle" THEN "before" ELSE wait.kind
    /\ loop = "top" /\ streak = NewStreak(wait.initial) /\ corner = -1
    /\ res = Nothing /\ captured = 0 /\ seen = <<>>
    /\ waited = [as |-> "pending", hash |-> 0]

ScreenNext == Top \/ Grab \/ GrabFails \/ Judge \/ Sleep \/ Repaint \/ CancelPolling

ScreenSpec == ScreenInit /\ [][ScreenNext]_screenVars

-----------------------------------------------------------------------------
\* Whether the last n of the hashes are all h
LastAre(n, hashes, h) ==
    Len(hashes) >= n /\ \A i \in (Len(hashes) - n + 1)..Len(hashes) : hashes[i] = h

\* A wait that succeeds has seen what it says: the wanted hash, a change, or as
\* many equal captures in a row as were asked for, the one its caller began with
\* included; and a timeout is never reported while there is time
\* (stableStreak.advance, grabHashProbe, poll).
WaitsAreTrue ==
    /\ waited.as = "ok" =>
          CASE polled = "change" -> seen # <<>> /\ Last(seen) = waited.hash /\ waited.hash # wait.initial
            [] polled = "stable" ->
                  /\ seen # <<>>
                  /\ LastAre(Needed, (IF wait.initial = 0 THEN <<>> ELSE <<wait.initial>>) \o seen, waited.hash)
            [] OTHER -> seen # <<>> /\ Last(seen) = wait.want
    /\ waited.as = "timeout" => over

\* The interval grows from Base to Cap and stays there (AdaptivePoll).
IntervalsGrow ==
    /\ AdaptivePoll[captured] \in Base..Cap \/ Base > Cap
    /\ captured > 0 => AdaptivePoll[captured - 1] <= AdaptivePoll[captured]
=============================================================================
