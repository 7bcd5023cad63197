------------------------------ MODULE Service ------------------------------
(***************************************************************************)
(* The life of a service: the main function (wpcp_lws_main.c), the loop    *)
(* around lws_service with its reconnecting client, the websocket callback *)
(* and the mutex it shares with the threads of the application             *)
(* (wpcp_lws.c).                                                           *)
(*                                                                         *)
(* The main thread runs the hooks of the application and, in between,      *)
(* wpcp_lws_service, which calls back for one event after the other.  The  *)
(* callbacks take the mutex to work on a session, and leave it to write.   *)
(* Threads of the application take it whenever they like, from the start   *)
(* hook until the stop hook, which waits for them.  SIGINT may come at any *)
(* time.  libwebsockets is modelled from how it is used: a poll reports    *)
(* some connections, each of them has one event; a callback that returns   *)
(* -1 closes its connection; a context that is destroyed closes all.       *)
(*                                                                         *)
(* What happens to a session under the mutex is the business of Sessions   *)
(* and OutQueue.                                                           *)
(***************************************************************************)
EXTENDS Integers, FiniteSets

CONSTANTS
    Wsi,       \* heap cells of libwebsockets for connections
    Thread,    \* threads of the application
    Main,      \* the main thread, as owner of the mutex
    Null,
    Reverse,   \* options->rwpcp_address was given
    Interval   \* client_reconnect_interval, in ticks

ASSUME ServiceAssumption ==
    /\ Null \notin Wsi \cup Thread /\ Main \notin Thread /\ Main # Null
    /\ Reverse \in BOOLEAN
    /\ Interval \in Nat

VARIABLES
    main,        \* where the main thread is
    callback,    \* where it is in a callback of libwebsockets
    wsi,         \* the connection that is called back for, or Null
    ready,       \* connections the poll reported that were not served yet
    connection,  \* "none", "connecting", "client" or "server", of every cell
    session,     \* helper->session of every connection: "none", "open", "null"
    client,      \* wpcp_lws->client
    due,         \* next_client_connect - time(NULL), -1 when it is below
    since,       \* ticks since the last attempt, at most Interval + 1 (history)
    g_wpcp_lws,  \* "null", "live" or "freed"
    mutex,       \* its owner, or Null
    thread,      \* "out", "waiting" or "in", for every thread
    force_exit,
    crash        \* "no", or what was used that is not there

network == <<ready, connection, session>>
clock == <<due, since>>
reconnect == <<client, clock>>
service == <<callback, wsi>>
locking == <<mutex, thread>>
vars == <<main, service, network, reconnect, g_wpcp_lws, locking, force_exit, crash>>

Init ==
    /\ main = "init"
    /\ callback = "none"
    /\ wsi = Null
    /\ ready = {}
    /\ connection = [w \in Wsi |-> "none"]
    /\ session = [w \in Wsi |-> "none"]
    /\ client = Null
    /\ due = -1
    /\ since = Interval + 1
    /\ g_wpcp_lws = "null"
    /\ mutex = Null
    /\ thread = [t \in Thread |-> "out"]
    /\ force_exit = FALSE
    /\ crash = "no"

(* The main thread goes on from one place to another.                      *)
Goes(from, to) ==
    /\ crash = "no" /\ main = from
    /\ main' = to

(* What crash becomes when memory of the service is used.                  *)
UsesService == crash' = IF g_wpcp_lws = "live" THEN crash ELSE "freed"

-----------------------------------------------------------------------------
(* The main function.                                                      *)
InitHook ==
    /\ Goes("init", "parse")
    /\ UNCHANGED <<service, network, reconnect, g_wpcp_lws, locking, force_exit, crash>>

(* With a wrong argument no service is created.                            *)
ParseArguments ==
    /\ Goes("parse", "create") \/ Goes("parse", "cleanup")
    /\ UNCHANGED <<service, network, reconnect, g_wpcp_lws, locking, force_exit, crash>>

(* wpcp_lws_create; without memory or context there is no service.         *)
Create ==
    /\ \/ Goes("create", "start") /\ g_wpcp_lws' = "live"
       \/ Goes("create", "cleanup") /\ UNCHANGED g_wpcp_lws
    /\ UNCHANGED <<service, network, reconnect, locking, force_exit, crash>>

StartHook ==
    /\ Goes("start", "loop")
    /\ UNCHANGED <<service, network, reconnect, g_wpcp_lws, locking, force_exit, crash>>

(* Mutant: the loop does not look at the flag.                             *)
Loop_Blind ==
    /\ Goes("loop", "connect")
    /\ UNCHANGED <<service, network, reconnect, g_wpcp_lws, locking, force_exit, crash>>

Loop ==
    /\ Goes("loop", IF force_exit THEN "stop" ELSE "connect")
    /\ UNCHANGED <<service, network, reconnect, g_wpcp_lws, locking, force_exit, crash>>

ServiceHook ==
    /\ Goes("hook", "loop")
    /\ UNCHANGED <<service, network, reconnect, g_wpcp_lws, locking, force_exit, crash>>

(* The application has told its threads to end, and waits for them.        *)
StopHook ==
    /\ Goes("stop", "destroy")
    /\ \A t \in Thread : thread[t] = "out"
    /\ UNCHANGED <<service, network, reconnect, g_wpcp_lws, locking, force_exit, crash>>

(* wpcp_lws_delete, when all connections are closed.                       *)
Free ==
    /\ Goes("destroy", "cleanup")
    /\ callback = "none" /\ \A w \in Wsi : connection[w] = "none"
    /\ g_wpcp_lws' = "freed"
    /\ UNCHANGED <<service, network, reconnect, locking, force_exit, crash>>

CleanupHook ==
    /\ Goes("cleanup", "done")
    /\ UNCHANGED <<service, network, reconnect, g_wpcp_lws, locking, force_exit, crash>>

(* sighandler: the flag, and then the service, which must be there.        *)
Signal ==
    /\ crash = "no" /\ main # "done"
    /\ force_exit' = TRUE
    /\ crash' = IF g_wpcp_lws = "live" THEN "no" ELSE "signal"
    /\ UNCHANGED <<main, service, network, reconnect, g_wpcp_lws, locking>>

-----------------------------------------------------------------------------
(* wpcp_lws_service: the reconnecting client.                              *)

(* Mutant: the time of the next attempt is over when it is reached.        *)
MayConnect_Early == Reverse /\ client = Null /\ due <= 0

MayConnect == Reverse /\ client = Null /\ due < 0

(* next_client_connect, from now.                                          *)
NextConnect == Interval

(* An attempt either fails at once or gives a connection.                  *)
Connect ==
    /\ Goes("connect", "poll")
    /\ MayConnect
    /\ due' = NextConnect
    /\ since' = 0
    /\ \/ UNCHANGED <<client, connection>>
       \/ \E w \in Wsi :
            /\ connection[w] = "none"
            /\ connection' = [connection EXCEPT ![w] = "connecting"]
            /\ client' = w
    /\ UNCHANGED <<service, ready, session, g_wpcp_lws, locking, force_exit, crash>>

NoConnect ==
    /\ Goes("connect", "poll")
    /\ ~MayConnect
    /\ UNCHANGED <<service, network, reconnect, g_wpcp_lws, locking, force_exit, crash>>

(* A second passes.                                                        *)
Tick ==
    /\ crash = "no"
    /\ due' = IF due > -1 THEN due - 1 ELSE -1
    /\ since' = IF since <= Interval THEN since + 1 ELSE since
    /\ UNCHANGED <<main, service, network, client, g_wpcp_lws, locking, force_exit, crash>>

-----------------------------------------------------------------------------
(* lws_service: some connections are ready, then each is called back for.  *)
Poll ==
    /\ Goes("poll", "events")
    /\ ready' \in SUBSET Wsi
    /\ UNCHANGED <<service, connection, session, reconnect, g_wpcp_lws, locking,
                   force_exit, crash>>

PollEnds ==
    /\ Goes("events", "hook")
    /\ callback = "none" /\ ready = {}
    /\ UNCHANGED <<service, network, reconnect, g_wpcp_lws, locking, force_exit, crash>>

(* Connection w is next.                                                   *)
Serves(w) ==
    /\ crash = "no" /\ main = "events" /\ callback = "none"
    /\ w \in ready
    /\ ready' = ready \ {w}

(* ESTABLISHED, of a client that called or of the connection to a server.  *)
(* It does not take the mutex: nobody else knows the session yet.          *)
Established(w) ==
    /\ Serves(w)
    /\ connection[w] \in {"none", "connecting"}
    /\ connection' = [connection EXCEPT ![w] =
                        IF @ = "none" THEN "server" ELSE "client"]
    /\ \E created \in {"open", "null"} : session' = [session EXCEPT ![w] = created]
    /\ UNCHANGED <<main, service, reconnect, g_wpcp_lws, locking, force_exit, crash>>

(* A connection that has nothing to report after all, or is too early.     *)
NothingHappens(w) ==
    /\ Serves(w)
    /\ UNCHANGED <<main, service, connection, session, reconnect, g_wpcp_lws, locking,
                   force_exit, crash>>

(* WRITEABLE, RECEIVE, or the end of a connection.                         *)
CallsBack(w, event) ==
    /\ Serves(w)
    /\ connection[w] \in {"client", "server"}
    /\ callback' = event
    /\ wsi' = w
    /\ UNCHANGED <<main, connection, session, reconnect, g_wpcp_lws, locking,
                   force_exit, crash>>

(* The attempt to connect failed.                                          *)
Refused(w) ==
    /\ Serves(w)
    /\ connection[w] = "connecting"
    /\ callback' = "destroy"
    /\ wsi' = w
    /\ UNCHANGED <<main, connection, session, reconnect, g_wpcp_lws, locking,
                   force_exit, crash>>

(* lws_context_destroy goes on to the next connection.                     *)
Disconnect(w) ==
    /\ crash = "no" /\ main = "destroy" /\ callback = "none"
    /\ connection[w] # "none"
    /\ callback' = IF connection[w] = "connecting" THEN "destroy" ELSE "closed"
    /\ wsi' = w
    /\ UNCHANGED <<main, network, reconnect, g_wpcp_lws, locking, force_exit, crash>>

-----------------------------------------------------------------------------
(* The websocket callback.                                                 *)
Waiting == {"writeable", "recheck", "receive", "closed"}

Inside == {"writeable in", "recheck in", "receive in", "closed in"}

Entered(event) ==
    CASE event = "writeable" -> "writeable in"
      [] event = "recheck"   -> "recheck in"
      [] event = "receive"   -> "receive in"
      [] event = "closed"    -> "closed in"

(* wpcp_lws_lock.                                                          *)
Lock ==
    /\ crash = "no" /\ callback \in Waiting
    /\ mutex = Null
    /\ mutex' = Main
    /\ callback' = Entered(callback)
    /\ UsesService
    /\ UNCHANGED <<main, wsi, network, reconnect, g_wpcp_lws, thread, force_exit>>

(* Under the mutex, in a callback for a session that exists.               *)
In(event) ==
    /\ crash = "no" /\ callback = event
    /\ session[wsi] = "open"

(* The mutex is left, and the callback goes on or returns.                 *)
Unlocks(to) ==
    /\ mutex' = Null
    /\ callback' = to
    /\ wsi' = IF to = "none" THEN Null ELSE wsi
    /\ UNCHANGED <<main, ready, connection, reconnect, g_wpcp_lws, thread,
                   force_exit, crash>>

(* WRITEABLE: no message, one to write, or one that could not be made.     *)
Writeable ==
    /\ In("writeable in")
    /\ \E to \in {"none", "write", "closed"} : Unlocks(to)
    /\ UNCHANGED session

(* lws_write without the mutex; when it fails the callback returns -1.     *)
Write ==
    /\ crash = "no" /\ callback = "write"
    /\ callback' \in {"recheck", "closed"}
    /\ UNCHANGED <<main, wsi, network, reconnect, g_wpcp_lws, locking, force_exit, crash>>

Recheck ==
    /\ In("recheck in")
    /\ Unlocks("none")
    /\ UNCHANGED session

Receive ==
    /\ In("receive in")
    /\ Unlocks("none")
    /\ UNCHANGED session

(* Mutant: the mutex is not left.                                          *)
ReceiveFails_Locked ==
    /\ In("receive in")
    /\ callback' = "closed"
    /\ UNCHANGED <<main, wsi, network, reconnect, g_wpcp_lws, locking, force_exit, crash>>

(* A message that can not be handled: the callback returns -1.             *)
ReceiveFails ==
    /\ In("receive in")
    /\ Unlocks("closed")
    /\ UNCHANGED session

(* CLOSED: the session is deleted.                                         *)
Closed ==
    /\ In("closed in")
    /\ session' = [session EXCEPT ![wsi] = "none"]
    /\ Unlocks("destroy")

(* Any of them for a session there was no memory for.                      *)
UsesNullSession ==
    /\ crash = "no" /\ callback \in Inside
    /\ session[wsi] = "null"
    /\ crash' = "session"
    /\ UNCHANGED <<main, service, network, reconnect, g_wpcp_lws, locking, force_exit>>

(* Mutant: a client that is destroyed is not forgotten.                    *)
ClientAfterDestroy_Kept == client

ClientAfterDestroy == IF client = wsi THEN Null ELSE client

(* WSI_DESTROY, to the callback of the first protocol.                     *)
WsiDestroy ==
    /\ crash = "no" /\ callback = "destroy"
    /\ client' = ClientAfterDestroy
    /\ connection' = [connection EXCEPT ![wsi] = "none"]
    /\ callback' = "none"
    /\ wsi' = Null
    /\ UsesService
    /\ UNCHANGED <<main, ready, session, clock, g_wpcp_lws, locking, force_exit>>

-----------------------------------------------------------------------------
(* The threads of the application.                                         *)
ThreadLocks(t) ==
    /\ crash = "no" /\ thread[t] = "out"
    /\ main \in {"loop", "connect", "poll", "events", "hook"}
    /\ thread' = [thread EXCEPT ![t] = "waiting"]
    /\ UNCHANGED <<main, service, network, reconnect, g_wpcp_lws, mutex, force_exit, crash>>

ThreadEnters(t) ==
    /\ crash = "no" /\ thread[t] = "waiting"
    /\ mutex = Null
    /\ mutex' = t
    /\ thread' = [thread EXCEPT ![t] = "in"]
    /\ UsesService
    /\ UNCHANGED <<main, service, network, reconnect, g_wpcp_lws, force_exit>>

ThreadUnlocks(t) ==
    /\ crash = "no" /\ thread[t] = "in"
    /\ mutex' = Null
    /\ thread' = [thread EXCEPT ![t] = "out"]
    /\ UsesService
    /\ UNCHANGED <<main, service, network, reconnect, g_wpcp_lws, force_exit>>

-----------------------------------------------------------------------------
(* What the main thread does on its own, outside of callbacks.             *)
MainStep ==
    \/ InitHook \/ ParseArguments \/ Create \/ StartHook
    \/ Loop \/ Connect \/ NoConnect \/ Poll \/ PollEnds \/ ServiceHook
    \/ StopHook \/ Free \/ CleanupHook

(* libwebsockets turns to a connection.                                    *)
Dispatch ==
    \E w \in Wsi :
        \/ Established(w) \/ NothingHappens(w) \/ Refused(w) \/ Disconnect(w)
        \/ \E event \in {"writeable", "receive", "closed"} : CallsBack(w, event)

(* A callback goes on, waiting for the mutex apart.                        *)
CallbackStep ==
    \/ Writeable \/ Write \/ Recheck \/ Receive \/ ReceiveFails \/ Closed
    \/ UsesNullSession \/ WsiDestroy

ThreadStep == \E t \in Thread : ThreadLocks(t) \/ ThreadEnters(t) \/ ThreadUnlocks(t)

Next == MainStep \/ Dispatch \/ Lock \/ CallbackStep \/ ThreadStep \/ Signal \/ Tick

Spec == Init /\ [][Next]_vars

(* Every thread that can run does, time passes, and whoever waits for the  *)
(* mutex gets it when it is free often enough.                             *)
FairSpec ==
    /\ Spec
    /\ WF_vars(MainStep) /\ WF_vars(Dispatch) /\ WF_vars(CallbackStep)
    /\ WF_vars(Tick)
    /\ SF_vars(Lock)
    /\ \A t \in Thread : SF_vars(ThreadEnters(t)) /\ WF_vars(ThreadUnlocks(t))

-----------------------------------------------------------------------------
(* The next attempt is never more than the interval away.                  *)
ClockOK == due \in -1..Interval /\ since \in 0..(Interval + 1)

(* Every variable has a value the program can give it.                     *)
TypeOK ==
    /\ main \in {"init", "parse", "create", "start", "loop", "connect", "poll",
                 "events", "hook", "stop", "destroy", "cleanup", "done"}
    /\ callback \in {"none", "write", "destroy"} \cup Waiting \cup Inside
    /\ wsi \in Wsi \cup {Null}
    /\ ready \subseteq Wsi
    /\ connection \in [Wsi -> {"none", "connecting", "client", "server"}]
    /\ session \in [Wsi -> {"none", "open", "null"}]
    /\ client \in Wsi \cup {Null}
    /\ ClockOK
    /\ g_wpcp_lws \in {"null", "live", "freed"}
    /\ mutex \in Thread \cup {Main, Null}
    /\ thread \in [Thread -> {"out", "waiting", "in"}]
    /\ force_exit \in BOOLEAN
    /\ crash \in {"no", "session", "signal", "freed"}

(* The mutex belongs to the one who works under it, on every path through  *)
(* the callbacks, the error paths included (wpcp_lws.c:161, 187, 201): no  *)
(* two of them are ever inside, and none leaves it locked behind.          *)
MutexHeld ==
    /\ mutex = Main <=> callback \in Inside
    /\ \A t \in Thread : mutex = t <=> thread[t] = "in"

(* client is the one connection to the server, from the attempt until it   *)
(* is destroyed (wpcp_lws.c:239, 410): there are never two of them, and    *)
(* none that is closed is still waited for.                                *)
OneClient ==
    \A w \in Wsi : connection[w] \in {"connecting", "client"} <=> client = w

(* A connection has a session exactly while it is established, whichever   *)
(* way it ends: no session outlives its connection, and none is used       *)
(* after it was deleted.                                                   *)
SessionsAgree ==
    \A w \in Wsi :
        session[w] # "none" <=>
            connection[w] \in {"client", "server"} /\ ~(callback = "destroy" /\ wsi = w)

(* Neither callback nor thread uses the service, its mutex included, after *)
(* wpcp_lws_delete has freed it (wpcp_lws.c:446): the connections are      *)
(* closed first, which calls back, and the threads have ended before.      *)
NoUseAfterFree == crash # "freed"

(* Attempts to connect are more than client_reconnect_interval apart,      *)
(* however often lws_service returns in between and however they end       *)
(* (wpcp_lws.c:412).                                                       *)
Spaced == [][Connect => since > Interval]_vars

(* After SIGINT the program ends, whatever its callbacks and threads are   *)
(* doing, unless something is used that is not there (main.c:191).         *)
Exits == force_exit ~> main = "done" \/ crash # "no"

Connected == \E w \in Wsi : connection[w] \in {"connecting", "client"}

(* A service that lost its server, or never reached it, tries again.       *)
Reconnects ==
    Reverse /\ main = "loop" /\ ~Connected
        ~> since = 0 \/ force_exit \/ crash # "no"
=============================================================================
