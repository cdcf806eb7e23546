---------------------------- MODULE WifiLifecycle ----------------------------
(***************************************************************************)
(* WifiLifecycle.h: one connection attempt at a time, retried with backoff.*)
(* The attempt identity is left out: the only caller, the coordinator,     *)
(* always passes the current one.                                          *)
(*                                                                         *)
(* A handler maps the machine and an event to                              *)
(*   [wifi |-> the machine after it, connect |-> `beginConnect' was called,*)
(*    availability |-> what `availabilityChanged' reported, or "none"]     *)
(***************************************************************************)
EXTENDS Lifecycle

CONSTANT ConnectBudget
ASSUME ConnectAssumption == ConnectBudget \in Nat \ {0}

WifiStates == {"Unconfigured", "Connecting", "Online", "Backoff"}

WifiType == [state : WifiStates, left : Nat, attempts : Nat, ready : BOOLEAN]

UnconfiguredWifi == [state |-> "Unconfigured", left |-> 0, attempts |-> 0, ready |-> FALSE]

WifiStays(w) == [wifi |-> w, connect |-> FALSE, availability |-> "none"]

BeginConnect(w) ==
    [wifi |-> [w EXCEPT !.state = "Connecting", !.left = ConnectBudget,
                        !.attempts = Bump(w.attempts)],
     connect |-> TRUE, availability |-> "none"]

\* Leaving Online withdraws the network; leaving another state reports nothing.
Lost(w) == IF w.ready THEN "down" ELSE "none"

WifiBackoff(w) ==
    [wifi |-> [w EXCEPT !.state = "Backoff", !.left = RetryDelay(w.attempts), !.ready = FALSE],
     connect |-> FALSE, availability |-> Lost(w)]

WifiStop(w) == [wifi |-> UnconfiguredWifi, connect |-> FALSE, availability |-> Lost(w)]

WifiConfigAvailable(w) ==
    IF w.state = "Unconfigured" THEN BeginConnect(w) ELSE WifiStays(w)

WifiConnected(w) ==
    IF w.state = "Connecting" /\ w.left > 0
    THEN [wifi |-> [state |-> "Online", left |-> 0, attempts |-> 0, ready |-> TRUE],
          connect |-> FALSE, availability |-> "up"]
    ELSE WifiStays(w)

WifiDisconnected(w) ==
    IF w.state \in {"Connecting", "Online"} THEN WifiBackoff(w) ELSE WifiStays(w)

WifiShutdown(w) ==
    IF w.state # "Unconfigured" THEN WifiStop(w) ELSE WifiStays(w)

\* tick: the connection deadline while Connecting, the retry while in Backoff.
WifiTick(w) ==
    CASE w.state = "Connecting" /\ w.left = 0 -> WifiBackoff(w)
      [] w.state = "Backoff" /\ w.left = 0    -> BeginConnect(w)
      [] OTHER                                -> WifiStays(w)

\* wifiInvariant
WifiInvariant(w) ==
    /\ w.ready <=> w.state = "Online"
    /\ w.state \in {"Unconfigured", "Online"} => w.left = 0 /\ w.attempts = 0
    /\ w.state = "Connecting" => w.left <= ConnectBudget /\ w.attempts > 0
    /\ w.state = "Backoff" => w.left <= MaximumBackoff
==============================================================================
