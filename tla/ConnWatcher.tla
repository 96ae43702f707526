----------------------------- MODULE ConnWatcher -----------------------------
(***************************************************************************)
(* keepConnection and its connWatcher (filc/cmds.go): the goroutines that  *)
(* reconnect to the provider while a v1.2.0 deal waits for its transfer.   *)
(*                                                                         *)
(* libp2p reports a broken connection in a goroutine of its own, so the    *)
(* report may come after the connection is up again.  Disconnected leaves  *)
(* a token in a channel of capacity 1 and starts a goroutine that sleeps,  *)
(* takes the token and reconnects, over and over until it finds no token.  *)
(***************************************************************************)
EXTENDS Naturals

CONSTANT MaxDrops \* bound: how often the connection breaks

ASSUME DropsAssumption == MaxDrops \in Nat

VARIABLES
  watch,     \* keepConnection: "connecting", "connected", "watching" once the
             \* watcher is registered, or "gave up"
  up,        \* is there a connection to the provider?
  reports,   \* Disconnected callbacks that libp2p has still to make
  token,     \* is the channel disconnected full?
  sleeping, reconnecting, \* processDisconnect goroutines at each place
  cancelled, \* the command has returned: ConnectToMiner fails
  drops,     \* bound
  owed       \* history: a reconnect must start, because of a report that came after
             \* the last one started

vars == <<watch, up, reports, token, sleeping, reconnecting, cancelled, drops, owed>>

Init ==
  /\ watch = "connecting" /\ up \in BOOLEAN /\ reports = 0
  /\ token = FALSE /\ sleeping = 0 /\ reconnecting = 0
  /\ cancelled = FALSE /\ drops = 0 /\ owed = FALSE

\* ConnectToMiner finds a connection or makes one, or fails.
KeepConnect ==
  /\ watch = "connecting"
  /\ \/ ~cancelled /\ up' = TRUE /\ watch' = "connected"
     \/ watch' = "gave up" /\ UNCHANGED up
  /\ UNCHANGED <<reports, token, sleeping, reconnecting, cancelled, drops, owed>>

KeepNotify ==
  /\ watch = "connected"
  /\ watch' = "watching"
  /\ UNCHANGED <<up, reports, token, sleeping, reconnecting, cancelled, drops, owed>>

\* The connection breaks; only a registered watcher is told.
Drop ==
  /\ up /\ drops < MaxDrops
  /\ up' = FALSE /\ drops' = drops + 1
  /\ reports' = IF watch = "watching" THEN reports + 1 ELSE reports
  /\ UNCHANGED <<watch, token, sleeping, reconnecting, cancelled, owed>>

\* The provider connects by itself.
ProviderConnects ==
  /\ ~up /\ up' = TRUE
  /\ UNCHANGED <<watch, reports, token, sleeping, reconnecting, cancelled, drops, owed>>

\* A full channel means that a goroutine is still going to find a token in it.
Disconnected ==
  /\ reports > 0 /\ reports' = reports - 1
  /\ token' = TRUE /\ owed' = TRUE
  /\ sleeping' = IF token THEN sleeping ELSE sleeping + 1
  /\ UNCHANGED <<watch, up, reconnecting, cancelled, drops>>

\* Deviation: the token is looked at and left in the channel.
ProcessDisconnectPeeks ==
  /\ sleeping > 0 /\ sleeping' = sleeping - 1
  /\ reconnecting' = IF token THEN reconnecting + 1 ELSE reconnecting
  /\ owed' = IF token THEN FALSE ELSE owed
  /\ UNCHANGED <<watch, up, reports, token, cancelled, drops>>

\* processDisconnect, after its sleep: the token is taken before reconnect is called.
ProcessDisconnect ==
  /\ sleeping > 0 /\ sleeping' = sleeping - 1
  /\ token' = FALSE
  /\ reconnecting' = IF token THEN reconnecting + 1 ELSE reconnecting
  /\ owed' = IF token THEN FALSE ELSE owed
  /\ UNCHANGED <<watch, up, reports, cancelled, drops>>

\* Deviation: the token is taken when the reconnect is over.
ReconnectTakesToken ==
  /\ reconnecting > 0 /\ reconnecting' = reconnecting - 1
  /\ sleeping' = sleeping + 1 /\ token' = FALSE
  /\ up' \in {up, up \/ ~cancelled}
  /\ UNCHANGED <<watch, reports, cancelled, drops, owed>>

\* reconnect returns, with a connection or with an error that is only logged, and a
\* new goroutine looks for another token.
ReconnectReturns ==
  /\ reconnecting > 0 /\ reconnecting' = reconnecting - 1
  /\ sleeping' = sleeping + 1
  /\ up' \in {up, up \/ ~cancelled}
  /\ UNCHANGED <<watch, reports, token, cancelled, drops, owed>>

\* The command returns; the watcher stays registered.
Cancel ==
  /\ ~cancelled /\ cancelled' = TRUE
  /\ UNCHANGED <<watch, up, reports, token, sleeping, reconnecting, drops, owed>>

Next == \/ KeepConnect \/ KeepNotify \/ Drop \/ ProviderConnects
        \/ Disconnected \/ ProcessDisconnect \/ ReconnectReturns \/ Cancel

Spec == Init /\ [][Next]_vars

\* Goroutines run, sleeps end and ConnectToMiner returns.
FairSpec == /\ Spec
            /\ WF_vars(KeepConnect) /\ WF_vars(KeepNotify) /\ WF_vars(Disconnected)
            /\ WF_vars(ProcessDisconnect) /\ WF_vars(ReconnectReturns)

-----------------------------------------------------------------------------
(* Properties. *)

\* No disconnection is lost between the goroutines: a reconnect begins after every
\* report, also after one that finds the channel full and one that comes while a
\* reconnect is under way ("in case a disconnect happened while we were
\* reconnecting", lines 391 and 392).
EveryReportAnswered == owed ~> ~owed

\* When the connection breaks no more, the goroutines that restart themselves come to
\* an end.
WatcherRests == <>[](sleeping = 0 /\ reconnecting = 0)
=============================================================================
