----------------------------- MODULE Lifecycle -----------------------------
(***************************************************************************)
(* How the program comes up and goes down: the main thread with             *)
(* AppLifecycle.start and stop, the SSDP responder, which is no daemon and  *)
(* announces the gateway, and the STUN thread start waits for.  Signals      *)
(* arrive between any two steps of the main thread.                         *)
(*                                                                          *)
(* Under gunicorn the process is a worker: its arbiter kills one that takes   *)
(* too long to end, and starts another for one that is gone.                 *)
(*                                                                          *)
(* The server is "direct" (app.main) or "gunicorn" (the worker hooks).  The   *)
(* lease-cleanup thread and the collector are daemons, which end with the    *)
(* process: their steps are those of Gateway and are left out here.          *)
(***************************************************************************)
EXTENDS Integers

CONSTANTS
    Servers,     \* the ways the program is run: "direct", "gunicorn"
    Signals,     \* the signals sent, "TERM" or "INT", with the server they are sent to
    MaxCauses,   \* bound: signals to one process, and failures of its server
    Stun,        \* STUN is configured, or not: a set of BOOLEANs
    Retries      \* STUN_RETRIES

ASSUME ServersAssumption == Servers \subseteq {"direct", "gunicorn"}
ASSUME SignalsAssumption == Signals \subseteq Servers \X {"TERM", "INT"} /\ MaxCauses \in Nat
ASSUME StunAssumption == Stun \subseteq BOOLEAN /\ Retries \in Nat \ {0}

VARIABLES
    server,    \* how the process is run
    main,      \* where the main thread is
    event,     \* _shutdown_event: not made, clear or set
    ssdp,      \* the responder: where it is, and whether it has a socket
    notified,  \* the last NOTIFY the network has seen
    announced, \* this process has announced the gateway
    stun,      \* the STUN thread, its attempts and the address it found
    ready,     \* StunClient._ready
    quit,      \* gunicorn: the worker has been told to stop
    causes,    \* what has told the process to end so far: signals, failures
    halted     \* gunicorn's arbiter has been told to stop, too

network == <<notified, announced>>
vars == <<server, main, event, ssdp, network, stun, ready, quit, causes, halted>>

Starting == {"stun", "wait", "event", "ssdp", "daemons"}
Stopping == {"stop", "set", "join"}
Over == {"exited", "killed"}

(* The process is there, with all its threads. *)
Running == main \notin Over

SsdpState == [pc : {"unborn", "open", "check", "sleep", "bye", "linger", "done"},
              muted : BOOLEAN]
StunState == [pc : {"off", "unborn", "ask", "sleep"}, attempt : 0..(Retries - 1),
              wan : {"fallback", "external"}]

TypeOK ==
    /\ server \in Servers
    /\ main \in {"boot", "serve", "shutdown"} \cup Starting \cup Stopping \cup Over
    /\ event \in {"none", "clear", "set"}
    /\ ssdp \in SsdpState
    /\ notified \in {"none", "alive", "byebye"}
    /\ announced \in BOOLEAN
    /\ stun \in StunState
    /\ ready \in BOOLEAN
    /\ quit \in BOOLEAN
    /\ causes \in 0..MaxCauses
    /\ halted \in BOOLEAN

Init ==
    /\ server \in Servers
    /\ main = "boot"
    /\ event = "none"
    /\ ssdp = [pc |-> "unborn", muted |-> FALSE]
    /\ notified = "none"
    /\ announced = FALSE
    /\ \E s \in Stun : stun = [pc |-> IF s THEN "unborn" ELSE "off",
                               attempt |-> 0, wan |-> "fallback"]
    /\ ready = FALSE
    /\ quit = FALSE
    /\ causes = 0
    /\ halted = FALSE

-----------------------------------------------------------------------------
(* The main thread: start                                                   *)

(* From here on the handlers are installed. *)
Boot ==
    /\ main = "boot"
    /\ main' = "stun"
    /\ UNCHANGED <<server, event, ssdp, network, stun, ready, quit, causes, halted>>

StartStun ==
    /\ main = "stun"
    /\ IF stun.pc = "off"
       THEN main' = "event" /\ UNCHANGED <<stun, ready>>
       ELSE main' = "wait" /\ stun' = [stun EXCEPT !.pc = "ask"] /\ ready' = FALSE
    /\ UNCHANGED <<server, event, ssdp, network, quit, causes, halted>>

(* Mutant of WaitEnds: without a time limit. *)
WaitReady ==
    /\ main = "wait" /\ ready
    /\ main' = "event"
    /\ UNCHANGED <<server, event, ssdp, network, stun, ready, quit, causes, halted>>

(* _ready is set, or ten seconds are over: the start goes on with what        *)
(* address there is.                                                         *)
WaitEnds ==
    /\ main = "wait"
    /\ main' = "event"
    /\ UNCHANGED <<server, event, ssdp, network, stun, ready, quit, causes, halted>>

MakeEvent ==
    /\ main = "event"
    /\ event' = "clear"
    /\ main' = "ssdp"
    /\ UNCHANGED <<server, ssdp, network, stun, ready, quit, causes, halted>>

StartSsdp ==
    /\ main = "ssdp"
    /\ ssdp' = [ssdp EXCEPT !.pc = "open"]
    /\ main' = "daemons"
    /\ UNCHANGED <<server, event, network, stun, ready, quit, causes, halted>>

(* The lease-cleanup thread and the collector; start returns. *)
StartDaemons ==
    /\ main = "daemons"
    /\ main' = "serve"
    /\ UNCHANGED <<server, event, ssdp, network, stun, ready, quit, causes, halted>>

-----------------------------------------------------------------------------
(* The main thread: serving and stopping                                    *)

(* A worker that has been told to stop leaves its loop. *)
WorkerQuits ==
    /\ main = "serve" /\ quit
    /\ main' = "stop"
    /\ UNCHANGED <<server, event, ssdp, network, stun, ready, quit, causes, halted>>

AnotherCause == causes < MaxCauses /\ causes' = causes + 1

(* app.run raises, the worker is aborted: stop is called all the same. *)
ServerFails ==
    /\ main = "serve"
    /\ AnotherCause
    /\ main' = "stop"
    /\ UNCHANGED <<server, event, ssdp, network, stun, ready, quit, halted>>

StopCollector ==
    /\ main = "stop"
    /\ main' = "set"
    /\ UNCHANGED <<server, event, ssdp, network, stun, ready, quit, causes, halted>>

(* Mutant of Raised: the event is made and never set. *)
Kept(e) == e

Raised(e) == IF e = "none" THEN "none" ELSE "set"

StopSet ==
    /\ main = "set"
    /\ event' = Raised(event)
    /\ main' = IF event = "none" THEN "shutdown" ELSE "join"
    /\ UNCHANGED <<server, ssdp, network, stun, ready, quit, causes, halted>>

SsdpOver == ssdp.pc \in {"unborn", "done"}

(* The responder has ended, or shutdown_timeout is over. *)
Join ==
    /\ main = "join"
    /\ main' = "shutdown"
    /\ UNCHANGED <<server, event, ssdp, network, stun, ready, quit, causes, halted>>

(* Mutant of Outlived: the responder is a daemon thread. *)
NoWait == TRUE

(* The interpreter waits for the threads that are no daemons. *)
Outlived == SsdpOver

Exit ==
    /\ main = "shutdown" /\ Outlived
    /\ main' = "exited"
    /\ UNCHANGED <<server, event, ssdp, network, stun, ready, quit, causes, halted>>

-----------------------------------------------------------------------------
(* Signals                                                                  *)

(* Where an exception raised by a handler takes the main thread: out of       *)
(* main() unless it is serving there, or through the worker's `finally`.      *)
Thrown ==
    CASE main = "boot" -> "exited"
      [] main \in Starting -> IF server = "direct" THEN "shutdown" ELSE "stop"
      [] main = "serve" -> "stop"
      [] main \in Stopping -> "shutdown"
      [] main = "shutdown" -> "exited"

Sent(sig) == <<server, sig>> \in Signals /\ Running /\ AnotherCause

(* handle_signal: sets the event, if there is one, and raises. *)
Terminate ==
    /\ Sent("TERM")
    /\ server = "direct" \/ main = "boot"
    /\ event' = Raised(event)
    /\ main' = Thrown
    /\ halted' = (server = "gunicorn")
    /\ UNCHANGED <<server, ssdp, network, stun, ready, quit>>

(* gunicorn's handler of SIGTERM only makes a note.  The signal comes from the *)
(* arbiter, which is to stop.                                                *)
TerminateWorker ==
    /\ Sent("TERM")
    /\ server = "gunicorn" /\ main # "boot"
    /\ quit' = TRUE /\ halted' = TRUE
    /\ UNCHANGED <<server, main, event, ssdp, network, stun, ready>>

(* SIGINT is Python's own KeyboardInterrupt, or gunicorn's sys.exit. *)
Interrupt ==
    /\ Sent("INT")
    /\ main' = Thrown
    /\ halted' = (server = "gunicorn")
    /\ UNCHANGED <<server, event, ssdp, network, stun, ready, quit>>

-----------------------------------------------------------------------------
(* The arbiter of gunicorn                                                  *)

(* SIGKILL for a worker that was aborted after `timeout` or told to stop more  *)
(* than `graceful_timeout` ago, wherever it is by then.                      *)
Kill ==
    /\ server = "gunicorn" /\ Running /\ causes > 0
    /\ main' = "killed"
    /\ UNCHANGED <<server, event, ssdp, network, stun, ready, quit, causes, halted>>

(* Another worker, which knows nothing of the one before. *)
Respawn ==
    /\ server = "gunicorn" /\ ~Running /\ ~halted
    /\ main' = "boot" /\ event' = "none" /\ quit' = FALSE /\ causes' = 0
    /\ ssdp' = [pc |-> "unborn", muted |-> FALSE]
    /\ announced' = FALSE
    /\ stun' = [pc |-> IF stun.pc = "off" THEN "off" ELSE "unborn",
                attempt |-> 0, wan |-> "fallback"]
    /\ ready' = FALSE
    /\ UNCHANGED <<server, notified, halted>>

-----------------------------------------------------------------------------
(* The SSDP responder                                                       *)

(* The sockets are opened, as far as they can be, and the gateway announced. *)
SsdpOpen ==
    /\ ssdp.pc = "open" /\ Running
    /\ \E m \in BOOLEAN :
          /\ ssdp' = [pc |-> "check", muted |-> m]
          /\ notified' = IF m THEN notified ELSE "alive"
          /\ announced' = ~m
    /\ UNCHANGED <<server, main, event, stun, ready, quit, causes, halted>>

SsdpCheck ==
    /\ ssdp.pc = "check" /\ Running
    /\ ssdp' = [ssdp EXCEPT !.pc = IF event = "set" THEN "bye" ELSE "sleep"]
    /\ UNCHANGED <<server, main, event, network, stun, ready, quit, causes, halted>>

(* A second later; every notify_interval the gateway is announced again. *)
SsdpPoll ==
    /\ ssdp.pc = "sleep" /\ Running
    /\ ssdp' = [ssdp EXCEPT !.pc = "check"]
    /\ \E due \in BOOLEAN :
          notified' = IF due /\ ~ssdp.muted THEN "alive" ELSE notified
    /\ UNCHANGED <<announced, server, main, event, stun, ready, quit, causes, halted>>

SsdpByebye ==
    /\ ssdp.pc = "bye" /\ Running
    /\ ssdp' = [ssdp EXCEPT !.pc = "linger"]
    /\ notified' = IF ssdp.muted THEN notified ELSE "byebye"
    /\ UNCHANGED <<announced, server, main, event, stun, ready, quit, causes, halted>>

(* Searches are still answered for 0.3 s, then the sockets are closed. *)
SsdpClose ==
    /\ ssdp.pc = "linger" /\ Running
    /\ ssdp' = [ssdp EXCEPT !.pc = "done"]
    /\ UNCHANGED <<server, main, event, network, stun, ready, quit, causes, halted>>

-----------------------------------------------------------------------------
(* The STUN thread                                                          *)

(* An answer ends the refresh; _ready is left as it is. *)
StunAnswers ==
    /\ stun.pc = "ask" /\ Running
    /\ stun' = [pc |-> "sleep", attempt |-> 0, wan |-> "external"]
    /\ UNCHANGED <<server, main, event, ssdp, network, ready, quit, causes, halted>>

(* Mutant of LastAttempt: there is always another one. *)
NeverLast(n) == FALSE

LastAttempt(n) == n = Retries - 1

(* The address found before is kept. *)
StunFails ==
    /\ stun.pc = "ask" /\ Running
    /\ stun' = IF LastAttempt(stun.attempt)
               THEN [stun EXCEPT !.pc = "sleep", !.attempt = 0]
               ELSE [stun EXCEPT !.attempt = stun.attempt + 1]
    /\ UNCHANGED <<server, main, event, ssdp, network, ready, quit, causes, halted>>

StunRefresh ==
    /\ stun.pc = "sleep" /\ Running
    /\ stun' = [stun EXCEPT !.pc = "ask"]
    /\ UNCHANGED <<server, main, event, ssdp, network, ready, quit, causes, halted>>

-----------------------------------------------------------------------------
Main ==
    \/ Boot \/ StartStun \/ WaitEnds
    \/ MakeEvent \/ StartSsdp \/ StartDaemons
    \/ WorkerQuits \/ StopCollector \/ StopSet \/ Join \/ Exit

Responder == SsdpOpen \/ SsdpCheck \/ SsdpPoll \/ SsdpByebye \/ SsdpClose

Next ==
    \/ Main
    \/ ServerFails
    \/ Terminate \/ TerminateWorker \/ Interrupt
    \/ Kill \/ Respawn
    \/ Responder
    \/ StunAnswers \/ StunFails \/ StunRefresh

Spec == Init /\ [][Next]_vars

(* Threads run, and the arbiter keeps a worker; a server need not fail and no  *)
(* signal need come.                                                         *)
FairSpec == Spec /\ WF_vars(Main) /\ WF_vars(Responder) /\ WF_vars(Respawn)

-----------------------------------------------------------------------------
(* Properties                                                               *)

(* The last word of a process that announced the gateway is a byebye:          *)
(* whenever the signal comes and whatever the server does, the process does    *)
(* not end under the responder (stop, handle_signal, the thread that is no      *)
(* daemon).  For one cause: a signal during the shutdown cuts it, and so does  *)
(* the arbiter's SIGKILL.                                                    *)
ByebyeLast == main = "exited" /\ announced /\ causes <= 1 => notified = "byebye"

(* A process that was told to end does.                                      *)
Ends == causes > 0 ~> main \in Over

(* Unless its arbiter has been told to stop, a program whose processes are no   *)
(* longer told to end comes up at last, STUN or no STUN, and says so if it has   *)
(* a socket: what processes before it left on the network, a byebye or the      *)
(* announcement of one that was killed, is not what is seen in the end.        *)
ComesUp ==
    [](~halted) /\ <>[](causes = 0 \/ ~Running)
        => <>[](\/ main = "serve" /\ (notified = "alive" \/ ssdp.muted)
                \/ server = "direct" /\ ~Running)

=============================================================================
