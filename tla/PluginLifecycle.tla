-------------------------- MODULE PluginLifecycle --------------------------
(***************************************************************************)
(* What serving one spawned plugin promises, whichever way it reaches its  *)
(* host: the plugin's Start and Stop are called while the host is          *)
(* reachable, what is started is stopped, the host's calls are let in only *)
(* between the two, and nothing is held once serving returns.              *)
(*                                                                         *)
(* ServePlugin implements this specification (see Lifecycle there).        *)
(***************************************************************************)
VARIABLES
  host,     \* "closed", or "open" while the host is reachable
  plugin,   \* "new", "started" (Start was called) or "stopped" (Stop was)
  serving,  \* the host's calls are let in
  returned  \* serving the plugin has returned

vars == <<host, plugin, serving, returned>>

TypeOK ==
  /\ host \in {"closed", "open"}
  /\ plugin \in {"new", "started", "stopped"}
  /\ serving \in BOOLEAN
  /\ returned \in BOOLEAN

Init ==
  /\ host = "closed"
  /\ plugin = "new"
  /\ serving = FALSE
  /\ returned = FALSE

Open ==
  /\ ~returned
  /\ plugin = "new"
  /\ host' = "open"
  /\ UNCHANGED <<plugin, serving, returned>>

Start ==
  /\ host = "open"
  /\ plugin = "new"
  /\ plugin' = "started"
  /\ UNCHANGED <<host, serving, returned>>

Serve ==
  /\ host = "open"
  /\ plugin = "started"
  /\ serving' = TRUE
  /\ UNCHANGED <<host, plugin, returned>>

Withdraw ==
  /\ serving
  /\ serving' = FALSE
  /\ UNCHANGED <<host, plugin, returned>>

Stop ==
  /\ host = "open"
  /\ plugin = "started"
  /\ ~serving
  /\ plugin' = "stopped"
  /\ UNCHANGED <<host, serving, returned>>

Return ==
  /\ ~returned
  /\ plugin # "started"
  /\ ~serving
  /\ returned' = TRUE
  /\ host' = "closed"
  /\ UNCHANGED <<plugin, serving>>

Next == Open \/ Start \/ Serve \/ Withdraw \/ Stop \/ Return

Spec == Init /\ [][Next]_vars
-----------------------------------------------------------------------------
\* The host's calls are let in only while the plugin is started, the plugin is
\* started only while the host is reachable, and nothing is held after the return.
HostOutlivesPlugin ==
  /\ serving => plugin = "started"
  /\ plugin = "started" => host = "open"
  /\ returned => host = "closed" /\ ~serving

\* What a step may do to the plugin, and to a serving that has returned.
Onward ==
  /\ plugin' # plugin =>
       \/ plugin = "new" /\ plugin' = "started"
       \/ plugin = "started" /\ plugin' = "stopped"
  /\ returned => UNCHANGED vars

\* A plugin is started once, and stopped once after it, and a serving that has
\* returned is over.
StartsAndStopsOnce == [][Onward]_vars
=============================================================================
