---------------------------- MODULE ExecSessions ----------------------------
(* The sessions of an exec-server: connections attach to a session, lose their  *)
(* transport, detach, and another connection resumes the session before it      *)
(* expires or finds it expired (exec-server/src/server/session_registry.rs,     *)
(* handler.rs, processor.rs), with the processes the session keeps              *)
(* (exec-server/src/local_process.rs).                                          *)
(*                                                                              *)
(* A step is one critical section, or one future polled to its next await.      *)
(* Time is what is left until each deadline.  Requests that only fail without   *)
(* changing anything (an unknown or attached session, a process id in use, a    *)
(* request before `initialized`) are not steps.                                 *)
EXTENDS Naturals, FiniteSets

CONSTANTS
    Conns,        \* transport connections, each with its handler
    Sessions,     \* session ids
    Procs,        \* process ids
    Ttl,          \* DETACHED_SESSION_TTL, in ticks
    NoConn, NoSession, NoProc, NoTime

ASSUME SessionConstants ==
    /\ Ttl \in Nat /\ NoTime \notin Nat
    /\ NoConn \notin Conns /\ NoSession \notin Sessions /\ NoProc \notin Procs

VARIABLES
    registry,     \* SessionRegistry.sessions
    attachment,   \* AttachmentState of every session ever created
    sender,       \* the connection that LocalProcess.notifications sends to
    entry,        \* LocalProcess.processes
    child,        \* the operating system's processes
    conn,         \* each connection's loop and handler
    timers,       \* sleeping expire_if_detached tasks
    expiring      \* sessions an expire_if_detached task is about to shut down

session == <<registry, attachment, sender>>
processes == <<entry, child>>
vars == <<session, processes, conn, timers, expiring>>

Detached == [current |-> NoConn, detached |-> NoConn, left |-> NoTime]

Init ==
    /\ registry = {}
    /\ attachment = [s \in Sessions |-> Detached]
    /\ sender = [s \in Sessions |-> NoConn]
    /\ entry = [s \in Sessions |-> [p \in Procs |-> "none"]]
    /\ child = [s \in Sessions |-> [p \in Procs |-> "none"]]
    /\ conn = [c \in Conns |-> [at |-> "open", session |-> NoSession,
                                initialized |-> FALSE, serving |-> NoProc]]
    /\ timers = {}
    /\ expiring = {}

-----------------------------------------------------------------------------
(* LocalProcess *)

\* shutdown: the map is emptied and what was running is terminated.
Emptied(s) == [entry EXCEPT ![s] = [p \in Procs |-> "none"]]
Terminated(s) ==
    [child EXCEPT ![s] = [p \in Procs |->
        IF entry[s][p] = "Running" /\ @[p] = "alive" THEN "dead" ELSE @[p]]]

Goto(c, step) == conn' = [conn EXCEPT ![c].at = step]

\* What a request handler requires: require_initialized_for.
Serves(c) ==
    /\ conn[c].at = "open" /\ conn[c].initialized
    /\ attachment[conn[c].session].current = c

\* start_process, up to the reservation of the id.
StartProcess(c, p) ==
    /\ Serves(c)
    /\ entry[conn[c].session][p] = "none"
    /\ entry' = [entry EXCEPT ![conn[c].session][p] = "Starting"]
    /\ conn' = [conn EXCEPT ![c].at = "spawning", ![c].serving = p]
    /\ UNCHANGED <<session, child, timers, expiring>>

\* start_process, the child runs and is entered.
Spawned(c) ==
    /\ conn[c].at = "spawning"
    /\ LET s == conn[c].session
           p == conn[c].serving
       IN  /\ entry' = [entry EXCEPT ![s][p] = "Running"]
           /\ child' = [child EXCEPT ![s][p] = "alive"]
    /\ conn' = [conn EXCEPT ![c].at = "open", ![c].serving = NoProc]
    /\ UNCHANGED <<session, timers, expiring>>

\* Faulty: a failed spawn leaves the reservation.
FaultySpawnFails(c) ==
    /\ conn[c].at = "spawning"
    /\ conn' = [conn EXCEPT ![c].at = "open", ![c].serving = NoProc]
    /\ UNCHANGED <<session, processes, timers, expiring>>

\* start_process, the spawn fails.
SpawnFails(c) ==
    /\ conn[c].at = "spawning"
    /\ entry' = [entry EXCEPT ![conn[c].session][conn[c].serving] =
                   IF @ = "Starting" THEN "none" ELSE @]
    /\ conn' = [conn EXCEPT ![c].at = "open", ![c].serving = NoProc]
    /\ UNCHANGED <<session, child, timers, expiring>>

\* terminate_process.
TerminateProcess(c, p) ==
    /\ Serves(c)
    /\ entry[conn[c].session][p] = "Running"
    /\ child[conn[c].session][p] = "alive"
    /\ child' = [child EXCEPT ![conn[c].session][p] = "dead"]
    /\ UNCHANGED <<session, entry, conn, timers, expiring>>

\* The child exits by itself.
ChildExits(s, p) ==
    /\ child[s][p] = "alive"
    /\ child' = [child EXCEPT ![s][p] = "dead"]
    /\ UNCHANGED <<session, entry, conn, timers, expiring>>

\* maybe_emit_closed, once the exit and the end of the output are seen.
Closes(s, p) ==
    /\ entry[s][p] = "Running" /\ child[s][p] = "dead"
    /\ entry' = [entry EXCEPT ![s][p] = "Closed"]
    /\ UNCHANGED <<session, child, conn, timers, expiring>>

\* The retention of a closed process ends, and its id may be used again.
Cleanup(s, p) ==
    /\ entry[s][p] = "Closed"
    /\ entry' = [entry EXCEPT ![s][p] = "none"]
    /\ UNCHANGED <<session, child, conn, timers, expiring>>

-----------------------------------------------------------------------------
(* initialize: SessionRegistry::attach *)

Attached(c) == [current |-> c, detached |-> NoConn, left |-> NoTime]

\* A fresh session, with an id nobody has used.
AttachNew(c, s) ==
    /\ conn[c].at = "open" /\ conn[c].session = NoSession
    /\ s \notin registry /\ attachment[s] = Detached
    /\ registry' = registry \union {s}
    /\ attachment' = [attachment EXCEPT ![s] = Attached(c)]
    /\ sender' = [sender EXCEPT ![s] = c]
    /\ conn' = [conn EXCEPT ![c].session = s]
    /\ UNCHANGED <<processes, timers, expiring>>

IsExpired(s) == attachment[s].left = 0

\* Faulty: the old deadline survives the new attachment.
FaultyResume(c, s) ==
    /\ conn[c].at = "open" /\ conn[c].session = NoSession
    /\ s \in registry /\ ~IsExpired(s) /\ attachment[s].current = NoConn
    /\ sender' = [sender EXCEPT ![s] = c]
    /\ attachment' = [attachment EXCEPT ![s].current = c]
    /\ conn' = [conn EXCEPT ![c].session = s]
    /\ UNCHANGED <<registry, processes, timers, expiring>>

\* A detached session that has not expired.
Resume(c, s) ==
    /\ conn[c].at = "open" /\ conn[c].session = NoSession
    /\ s \in registry /\ ~IsExpired(s) /\ attachment[s].current = NoConn
    /\ sender' = [sender EXCEPT ![s] = c]
    /\ attachment' = [attachment EXCEPT ![s] = Attached(c)]
    /\ conn' = [conn EXCEPT ![c].session = s]
    /\ UNCHANGED <<registry, processes, timers, expiring>>

\* An expired session is removed by the connection that asked for it, which then
\* awaits the shutdown of its processes.
ResumeExpired(c, s) ==
    /\ conn[c].at = "open" /\ conn[c].session = NoSession
    /\ s \in registry /\ IsExpired(s)
    /\ registry' = registry \ {s}
    /\ conn' = [conn EXCEPT ![c].at = "expired", ![c].session = s]
    /\ UNCHANGED <<attachment, sender, processes, timers, expiring>>

\* Faulty: only the registry forgets the session.
FaultyShutdownExpired(c) ==
    /\ conn[c].at = "expired"
    /\ conn' = [conn EXCEPT ![c].at = "open", ![c].session = NoSession]
    /\ UNCHANGED <<session, processes, timers, expiring>>

\* The shutdown is done and `initialize` fails; the client may try again.
ShutdownExpired(c) ==
    /\ conn[c].at = "expired"
    /\ entry' = Emptied(conn[c].session)
    /\ child' = Terminated(conn[c].session)
    /\ conn' = [conn EXCEPT ![c].at = "open", ![c].session = NoSession]
    /\ UNCHANGED <<session, timers, expiring>>

\* The `initialized` notification.
Initialized(c) ==
    /\ conn[c].at = "open" /\ conn[c].session # NoSession /\ ~conn[c].initialized
    /\ attachment[conn[c].session].current = c
    /\ conn' = [conn EXCEPT ![c].initialized = TRUE]
    /\ UNCHANGED <<session, processes, timers, expiring>>

-----------------------------------------------------------------------------
(* run_connection after its loop, and SessionHandle::detach *)

\* The loop ends between two requests.
Disconnect(c) ==
    /\ conn[c].at = "open"
    /\ Goto(c, "closing")
    /\ UNCHANGED <<session, processes, timers, expiring>>

\* The transport is lost while a request is handled and its future is dropped: a
\* child spawned but not entered is terminated with its handle, its reservation
\* stays, and a shutdown that was awaited does not happen.  The handler of a failed
\* `initialize` has no session to detach from.
RequestDropped(c) ==
    /\ conn[c].at \in {"spawning", "expired"}
    /\ Goto(c, IF conn[c].at = "spawning" THEN "closing" ELSE "lost")
    /\ UNCHANGED <<session, processes, timers, expiring>>

\* Faulty: a deadline counted from the end of the sleep.
FaultyDetach(c) ==
    /\ conn[c].at = "closing"
    /\ LET s == conn[c].session
       IN  IF s # NoSession /\ attachment[s].current = c
           THEN /\ attachment' = [attachment EXCEPT ![s] =
                      [current |-> NoConn, detached |-> c, left |-> 2 * Ttl]]
                /\ Goto(c, "clear")
           ELSE Goto(c, "gone") /\ UNCHANGED attachment
    /\ UNCHANGED <<registry, sender, processes, timers, expiring>>

\* SessionEntry::detach, under the lock of the attachment.
Detach(c) ==
    /\ conn[c].at = "closing"
    /\ LET s == conn[c].session
       IN  IF s # NoSession /\ attachment[s].current = c
           THEN /\ attachment' = [attachment EXCEPT ![s] =
                      [current |-> NoConn, detached |-> c, left |-> Ttl]]
                /\ Goto(c, "clear")
           ELSE Goto(c, "gone") /\ UNCHANGED attachment
    /\ UNCHANGED <<registry, sender, processes, timers, expiring>>

\* Faulty: no task will look whether the session has expired.
FaultyClearSender(c) ==
    /\ conn[c].at = "clear"
    /\ sender' = [sender EXCEPT ![conn[c].session] = NoConn]
    /\ Goto(c, "gone")
    /\ UNCHANGED <<registry, attachment, processes, timers, expiring>>

\* set_notification_sender(None), whoever the sender is by now, and the timer.
ClearSender(c) ==
    /\ conn[c].at = "clear"
    /\ sender' = [sender EXCEPT ![conn[c].session] = NoConn]
    /\ timers' = timers \union {[session |-> conn[c].session, conn |-> c, left |-> Ttl]}
    /\ Goto(c, "gone")
    /\ UNCHANGED <<registry, attachment, processes, expiring>>

-----------------------------------------------------------------------------
(* expire_if_detached *)

\* Faulty: any sleeper expires a session that nobody is attached to.
FaultyExpires(s, c) == s \in registry /\ attachment[s].current = NoConn

\* is_detached_connection_expired, for a session still in the registry.
Expires(s, c) ==
    /\ s \in registry
    /\ attachment[s].current = NoConn
    /\ attachment[s].detached = c
    /\ attachment[s].left = 0

TimerFires(t) ==
    /\ t \in timers /\ t.left = 0
    /\ timers' = timers \ {t}
    /\ IF Expires(t.session, t.conn)
       THEN /\ registry' = registry \ {t.session}
            /\ expiring' = expiring \union {t.session}
       ELSE UNCHANGED <<registry, expiring>>
    /\ UNCHANGED <<attachment, sender, processes, conn>>

\* The processes of the removed session are shut down.
ShutdownSession(s) ==
    /\ s \in expiring
    /\ expiring' = expiring \ {s}
    /\ entry' = Emptied(s)
    /\ child' = Terminated(s)
    /\ UNCHANGED <<session, conn, timers>>

Less(n) == IF n \in Nat /\ n > 0 THEN n - 1 ELSE n

\* Time passes for every deadline and every sleeper.
Tick ==
    /\ \/ \E s \in Sessions : attachment[s].left # Less(attachment[s].left)
       \/ \E t \in timers : t.left > 0
    /\ attachment' = [s \in Sessions |-> [attachment[s] EXCEPT !.left = Less(@)]]
    /\ timers' = {[t EXCEPT !.left = Less(@)] : t \in timers}
    /\ UNCHANGED <<registry, sender, processes, conn, expiring>>

-----------------------------------------------------------------------------
ConnStep(c) ==
    \/ \E s \in Sessions : AttachNew(c, s) \/ Resume(c, s) \/ ResumeExpired(c, s)
    \/ ShutdownExpired(c)
    \/ Initialized(c)
    \/ \E p \in Procs : StartProcess(c, p) \/ TerminateProcess(c, p)
    \/ Spawned(c)
    \/ SpawnFails(c)
    \/ Disconnect(c)
    \/ RequestDropped(c)
    \/ Detach(c)
    \/ ClearSender(c)

Next ==
    \/ \E c \in Conns : ConnStep(c)
    \/ \E s \in Sessions, p \in Procs : ChildExits(s, p) \/ Closes(s, p) \/ Cleanup(s, p)
    \/ \E t \in timers : TimerFires(t)
    \/ \E s \in Sessions : ShutdownSession(s)
    \/ Tick

Spec == Init /\ [][Next]_vars

\* Time passes, tasks that can go on are scheduled.  No client need disconnect,
\* resume or call anything, and no child need exit.
FairSpec ==
    /\ Spec
    /\ WF_vars(Tick)
    /\ WF_vars(\E t \in timers : TimerFires(t))
    /\ \A s \in Sessions : WF_vars(ShutdownSession(s))
    /\ \A c \in Conns :
         /\ WF_vars(ShutdownExpired(c))
         /\ WF_vars(Detach(c))
         /\ WF_vars(ClearSender(c))

-----------------------------------------------------------------------------
Attachments ==
    [current : Conns \union {NoConn}, detached : Conns \union {NoConn},
     left : 0..Ttl \union {NoTime}]
Handlers ==
    [at : {"open", "expired", "lost", "spawning", "closing", "clear", "gone"},
     session : Sessions \union {NoSession}, initialized : BOOLEAN,
     serving : Procs \union {NoProc}]

TypeOK ==
    /\ registry \subseteq Sessions /\ expiring \subseteq Sessions
    /\ attachment \in [Sessions -> Attachments]
    /\ sender \in [Sessions -> Conns \union {NoConn}]
    /\ entry \in [Sessions -> [Procs -> {"none", "Starting", "Running", "Closed"}]]
    /\ child \in [Sessions -> [Procs -> {"none", "alive", "dead"}]]
    /\ conn \in [Conns -> Handlers]
    /\ timers \subseteq [session : Sessions, conn : Conns, left : 0..Ttl]

Holds(c, s) == conn[c].session = s /\ conn[c].at \in {"open", "spawning", "closing"}

\* A connection keeps the session it attached to until it detaches itself: no
\* other connection's resume and no timer of an earlier detachment takes the
\* session from it or removes it (attach, expire_if_detached).
KeepsSession ==
    \A c \in Conns, s \in Sessions :
        Holds(c, s) => s \in registry /\ attachment[s].current = c

\* Whoever removed the session shuts its processes down, or was to when its request
\* was dropped.
Abandoned(s) == \E c \in Conns : conn[c].at = "lost" /\ conn[c].session = s
ShutdownDue(s) ==
    s \in expiring \/ \E c \in Conns : conn[c].at \in {"expired", "lost"} /\ conn[c].session = s

\* No child outlives its session: a running child is entered in a session that is in
\* the registry or about to be shut down, unless the request that was to shut it down
\* was dropped with its connection.
NoOrphan ==
    \A s \in Sessions, p \in Procs : child[s][p] = "alive" =>
        entry[s][p] = "Running" /\ (s \in registry \/ ShutdownDue(s))

\* The connection reserved the id, and is starting the process or was lost meanwhile.
Reserved(c, s, p) ==
    /\ conn[c].session = s /\ conn[c].serving = p
    /\ conn[c].at \in {"spawning", "closing", "clear", "gone"}

\* A reserved process id is being started by a connection, so it ends up running or
\* free again, unless that connection was lost while it was starting it (start_process).
StartIsOwned ==
    \A s \in Sessions, p \in Procs : entry[s][p] = "Starting" =>
        \E c \in Conns : Reserved(c, s, p)

\* A session is given up only when its last connection has been gone for the whole
\* TTL, however many earlier sleepers wake up (is_detached_connection_expired).
ResumeWindow ==
    [][\A s \in registry \ registry' : attachment[s].current = NoConn /\ attachment[s].left = 0]_vars

Dead(s) == \A p \in Procs : child[s][p] # "alive"

\* A session that loses its connection is resumed, or removed and its children
\* terminated; they are left running only by a connection lost while it removed the
\* session.
Reclaimed ==
    \A s \in Sessions :
        (s \in registry /\ attachment[s].current = NoConn)
            ~> (attachment[s].current # NoConn \/ (s \notin registry /\ (Dead(s) \/ Abandoned(s))))

\* Output is streamed to the connection that is attached: its sender is in place.
AttachedIsNotified ==
    \A c \in Conns, s \in Sessions : Holds(c, s) => sender[s] = c
=============================================================================
