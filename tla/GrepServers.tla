----------------------------- MODULE GrepServers -----------------------------
(***************************************************************************)
(* The lives of the mygrep-server processes (L4.2) and of the one request  *)
(* the client sends to each: start, listen, accept, signal, Shutdown with  *)
(* its timeout, crash, restart.                                            *)
(*                                                                         *)
(* A connection first waits in the accept queue of the system, which is    *)
(* gone with the listener; Shutdown waits for the requests whose handler   *)
(* runs.                                                                   *)
(***************************************************************************)
EXTENDS Naturals

CONSTANTS
    Servers,
    MaxStarts   \* bound: starts of one server during the search

VARIABLES
    life,   \* life[s]: where main of server s is
    starts, \* starts[s]: how often it was started
    conn    \* conn[s]: the client's connection to s

serverVars == <<life, starts, conn>>

LivesOK ==
    /\ life \in [Servers -> {"down", "starting", "serving", "closing"}]
    /\ starts \in [Servers -> 0..MaxStarts]
    /\ conn \in [Servers -> {"none", "queued", "handled", "answered", "cut"}]

\* The servers may be up, or may come up later.
LivesInit ==
    /\ life \in [Servers -> {"down", "serving"}]
    /\ starts = [s \in Servers |-> 0]
    /\ conn = [s \in Servers |-> "none"]

Becomes(s, l) == life' = [life EXCEPT ![s] = l]
Connection(s, c) == conn' = [conn EXCEPT ![s] = c]

\* What happens to the connection when the process or its listener goes.
Cut(s, states) ==
    conn' = [conn EXCEPT ![s] = IF @ \in states THEN "cut" ELSE @]

Listening(s) == life[s] = "serving"

-----------------------------------------------------------------------------
\* The client dials and the system accepts.
Connect(s) ==
    /\ Listening(s) /\ conn[s] = "none"
    /\ Connection(s, "queued")
    /\ UNCHANGED <<life, starts>>

\* Serve hands the connection to a handler.
Accept(s) ==
    /\ Listening(s) /\ conn[s] = "queued"
    /\ Connection(s, "handled")
    /\ UNCHANGED <<life, starts>>

\* The handler runs on during Shutdown.
Respond(s) ==
    /\ life[s] \in {"serving", "closing"} /\ conn[s] = "handled"
    /\ Connection(s, "answered")
    /\ UNCHANGED <<life, starts>>

Start(s) ==
    /\ life[s] = "down" /\ starts[s] < MaxStarts
    /\ Becomes(s, "starting")
    /\ starts' = [starts EXCEPT ![s] = @ + 1]
    /\ UNCHANGED conn

Listen(s) ==
    /\ life[s] = "starting"
    /\ Becomes(s, "serving")
    /\ UNCHANGED <<starts, conn>>

\* The address is taken: log.Fatalf.
ListenFails(s) ==
    /\ life[s] = "starting"
    /\ Becomes(s, "down")
    /\ UNCHANGED <<starts, conn>>

\* SIGINT or SIGTERM: Shutdown closes the listener, if there is one already.
Signal(s) ==
    /\ life[s] \in {"starting", "serving"}
    /\ Becomes(s, "closing")
    /\ Cut(s, {"queued"})
    /\ UNCHANGED starts

\* Mutant: main returns without waiting for the handlers.
ReturnsAtOnce(s) ==
    /\ life[s] = "closing"
    /\ Becomes(s, "down")
    /\ Cut(s, {"handled"})
    /\ UNCHANGED starts

\* Shutdown found no active request; main returns.
ShutdownReturns(s) ==
    /\ life[s] = "closing" /\ conn[s] # "handled"
    /\ Becomes(s, "down")
    /\ UNCHANGED <<starts, conn>>

\* Five seconds have passed; main returns with the handler at work.
ShutdownTimesOut(s) ==
    /\ life[s] = "closing" /\ conn[s] = "handled"
    /\ Becomes(s, "down")
    /\ Cut(s, {"handled"})
    /\ UNCHANGED starts

\* What was answered is with the system and still reaches the client.
Crash(s) ==
    /\ life[s] # "down"
    /\ Becomes(s, "down")
    /\ Cut(s, {"queued", "handled"})
    /\ UNCHANGED starts
=============================================================================
