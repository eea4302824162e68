-------------------------------- MODULE Server --------------------------------
(***************************************************************************)
(* The broker's process: it checks its surroundings, waits for CredHub's   *)
(* host name, serves, and on a signal stops: it takes no more requests and *)
(* waits for those it has, up to a limit.  The requests are those of       *)
(* module Bindings.  The process is started again whenever it has ended.   *)
(***************************************************************************)
EXTENDS Bindings, Naturals

CONSTANT Retries    \* look-ups of the host after the first one

ASSUME ServerAssumption == Retries \in Nat

VARIABLES main,     \* goroutine of Initiate and StartAndWait
          lookups,  \* of the host, in this start
          stopper,  \* goroutine of handleBrokerTerminationSignal
          signal,   \* stopServer, a channel for one signal
          late      \* the shutdown took longer than its limit

processVars == <<main, lookups, stopper, signal, late>>
vars == <<bindingVars, processVars>>

ServerInit ==
  /\ BindingsInit
  /\ main = "off" /\ lookups = 0 /\ stopper = "off" /\ signal = FALSE /\ late = FALSE

Ends ==
  /\ main' = "off" /\ stopper' = "off" /\ signal' = FALSE /\ late' = FALSE /\ lookups' = 0
-----------------------------------------------------------------------------
(* Start-up. *)

Start ==
  /\ main = "off" /\ main' = "checks"
  /\ UNCHANGED <<bindingVars, lookups, stopper, signal, late>>

\* Every check is made, and any that fails ends the process (broker.New).
Check ==
  /\ main = "checks"
  /\ \/ main' = "host" /\ UNCHANGED <<lookups, stopper, signal, late>>
     \/ Ends
  /\ UNCHANGED bindingVars

\* HostWaiter.Wait: only an unknown host is looked up again, with a pause before it.
Wait ==
  /\ main = "host"
  /\ \/ main' = "listen" /\ stopper' = "waiting" /\ UNCHANGED <<lookups, signal, late>>
     \/ lookups < Retries /\ lookups' = lookups + 1 /\ UNCHANGED <<main, stopper, signal, late>>
     \/ Ends
  /\ UNCHANGED bindingVars

CertExpired == main = "listen" /\ Ends /\ UNCHANGED bindingVars

\* ListenAndServe returns at once after a shutdown; it may fail.
ListenAndServe ==
  /\ main = "listen"
  /\ \/ /\ main' = IF stopper = "waiting" THEN "serving" ELSE "stopping"
        /\ UNCHANGED <<lookups, stopper, signal, late>>
     \/ Ends
  /\ UNCHANGED bindingVars
-----------------------------------------------------------------------------
(* Shutdown. *)

\* The channel holds one signal, more are dropped; before signal.Notify a signal kills.
Signal ==
  /\ main # "off"
  /\ IF stopper = "off" THEN Ends
     ELSE signal' = TRUE /\ UNCHANGED <<main, lookups, stopper, late>>
  /\ UNCHANGED bindingVars

\* Shutdown closes the listener; ListenAndServe returns ErrServerClosed.
BeginShutdown ==
  /\ stopper = "waiting" /\ signal
  /\ stopper' = "shutting" /\ signal' = FALSE
  /\ UNCHANGED <<bindingVars, main, lookups, late>>

ServeReturns ==
  /\ main = "serving" /\ stopper # "waiting" /\ main' = "stopping"
  /\ UNCHANGED <<bindingVars, lookups, stopper, signal, late>>

\* Shutdown with a context that never expires.
EndShutdown_WithoutLimit ==
  /\ stopper = "shutting" /\ stopper' = "stopped" /\ Running = {}
  /\ UNCHANGED <<bindingVars, main, lookups, signal, late>>

\* Shutdown returns when no request is left, or with an error when its context expires.
EndShutdown ==
  /\ stopper = "shutting" /\ stopper' = "stopped"
  /\ \/ Running = {} /\ UNCHANGED late
     \/ late' = TRUE
  /\ UNCHANGED <<bindingVars, main, lookups, signal>>

\* StartAndWait returns as soon as ListenAndServe does.
Return_NotWaiting ==
  /\ main = "stopping"
  /\ Ends /\ Killed

\* StartAndWait returns after <-stopped, and the process ends.
Return ==
  /\ main = "stopping" /\ stopper = "stopped"
  /\ Ends /\ Killed

Crash == main # "off" /\ Ends /\ Killed
-----------------------------------------------------------------------------
\* A request reaches a handler while the server listens.
Serving == main = "serving" /\ stopper = "waiting"

Request ==
  /\ Serving
  /\ \E b \in Bindings : SendBind(b) \/ SendUnbind(b) \/ MitigateOrphan(b)

Next ==
  \/ (Request \/ (\E g \in Goroutines : Call(g) \/ GiveUp(g)) \/ DeleteInstance) /\ UNCHANGED processVars
  \/ Start \/ Check \/ Wait \/ CertExpired \/ ListenAndServe
  \/ Signal \/ BeginShutdown \/ ServeReturns \/ EndShutdown \/ Return \/ Crash

\* The two goroutines of the process run on.  Handlers need not: an adapter may hang.
Fairness ==
  /\ WF_vars(Check) /\ WF_vars(Wait) /\ WF_vars(ListenAndServe)
  /\ WF_vars(BeginShutdown) /\ WF_vars(ServeReturns) /\ WF_vars(EndShutdown) /\ WF_vars(Return)

Spec == ServerInit /\ [][Next]_vars /\ Fairness
-----------------------------------------------------------------------------
\* Types of the variables, and what goes with them: the lock, and no requests without a
\* server.
TypeOK ==
  /\ BindingsTypeOK /\ LockedInside
  /\ main \in {"off", "checks", "host", "listen", "serving", "stopping"} /\ lookups \in 0..Retries
  /\ stopper \in {"off", "waiting", "shutting", "stopped"}
  /\ signal \in BOOLEAN /\ late \in BOOLEAN
  /\ main \notin {"serving", "stopping"} => Running = {}

\* A process that ends on a signal ends no request before its answer unless the limit of
\* the shutdown has passed (<-stopped in StartAndWait): an upgrade of the broker does
\* not leave bindings half made.
NoHandlerCut == [][Return => late \/ Running = {}]_vars

\* A signal ends the process, whatever its handlers do: adapters that hang, requests
\* that wait for the lock, a signal before the server listens, a second one
\* (handleBrokerTerminationSignal).
SignalStopsProcess == signal ~> main = "off"
=============================================================================
