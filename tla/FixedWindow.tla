---------------------------- MODULE FixedWindow -----------------------------
(***************************************************************************)
(* What the rate limiter promises to a client: each address has at most    *)
(* one window open, a request is decided at one instant from that window   *)
(* alone, and it is refused only while the window is open and used up.     *)
(* There is no mutex, no clean-up and no order between handlers here: they *)
(* are how the promise is kept, not a part of it.                          *)
(***************************************************************************)
EXTENDS Integers, Functions

CONSTANTS Request,          \* the requests of a behaviour
          IP,               \* the addresses they come from
          limit,            \* how many requests a window serves
          windowDuration,   \* for how long it is open
          MaxTime           \* bound on the clock

VARIABLES now,      \* the wall clock
          origin,   \* the address of each request
          window,   \* the open windows: address -> its end and the requests it served
          answer    \* what each request was told

vars == <<now, origin, window, answer>>

Silent == [verdict |-> "none", remaining |-> 0, reset |-> 0]

-----------------------------------------------------------------------------

Init ==
  /\ now = 0
  /\ origin \in [Request -> IP]
  /\ window = [i \in {} |-> 0]
  /\ answer = [r \in Request |-> Silent]

\* The window of the address once it has served one request more.
Counted(i) ==
  IF i \in DOMAIN window
    THEN [end |-> window[i].end, served |-> window[i].served + 1]
    ELSE [end |-> now + windowDuration, served |-> 1]

Allow(r) ==
  LET i == origin[r] IN
  /\ answer[r] = Silent
  /\ Counted(i).served <= limit
  /\ window' = [j \in DOMAIN window \cup {i} |-> IF j = i THEN Counted(i) ELSE window[j]]
  /\ answer' = [answer EXCEPT ![r] = [verdict |-> "allowed",
                                      remaining |-> limit - Counted(i).served,
                                      reset |-> Counted(i).end]]
  /\ UNCHANGED <<now, origin>>

Deny(r) ==
  /\ answer[r] = Silent
  /\ origin[r] \in DOMAIN window /\ window[origin[r]].served = limit
  /\ answer' = [answer EXCEPT ![r] = [Silent EXCEPT !.verdict = "denied"]]
  /\ UNCHANGED <<now, origin, window>>

\* Time passes and exactly the windows whose end it passes are closed.
Elapse ==
  /\ now < MaxTime
  /\ now' = now + 1
  /\ window' = Restrict(window, {i \in DOMAIN window : now' <= window[i].end})
  /\ UNCHANGED <<origin, answer>>

Next == Elapse \/ \E r \in Request : Allow(r) \/ Deny(r)

Spec == Init /\ [][Next]_vars
=============================================================================
