------------------------- MODULE ExecSessionsProofs -------------------------
(* Proofs about ExecSessions for every set of connections, sessions and         *)
(* processes and every TTL.                                                     *)
EXTENDS ExecSessions, TLAPS

\* A deadline runs only while nobody is attached.
DeadlineIsDetached ==
    \A s \in Sessions : attachment[s].left # NoTime => attachment[s].current = NoConn

\* A connection that uses its session, or the one it found expired, has one.
HasSession ==
    \A c \in Conns :
        /\ conn[c].at \in {"spawning", "clear", "expired"} => conn[c].session \in Sessions
        /\ conn[c].at = "spawning" => conn[c].serving \in Procs
        /\ conn[c].at = "expired" => ~conn[c].initialized
        /\ conn[c].initialized => conn[c].session \in Sessions

\* The inductive invariant of the registry.
RInv == TypeOK /\ KeepsSession /\ DeadlineIsDetached /\ HasSession

\* The initial state satisfies the invariant of the registry.
LEMMA InitRegistry == Init => RInv
BY SessionConstants
   DEF Init, RInv, TypeOK, KeepsSession, Holds, DeadlineIsDetached, Detached, Attachments,
       Handlers, HasSession

\* StartProcess keeps the invariant of the registry.
LEMMA StartProcessR ==
    ASSUME RInv, NEW c \in Conns, NEW p \in Procs, StartProcess(c, p) PROVE RInv'
<1> USE SessionConstants DEF RInv, StartProcess, Serves, session
<1>0. /\ conn \in [Conns -> Handlers] /\ HasSession
      /\ attachment \in [Sessions -> Attachments]
  BY DEF TypeOK
<1>1. conn' = [conn EXCEPT ![c] = [conn[c] EXCEPT !.at = "spawning", !.serving = p]]
  BY <1>0 DEF HasSession, Handlers
<1>2. [conn[c] EXCEPT !.at = "spawning", !.serving = p] \in Handlers
  BY ZenonT(60), <1>0 DEF HasSession, Handlers
<1>3. conn' \in [Conns -> Handlers]
  BY <1>0, <1>1, <1>2
<1>4. attachment' \in [Sessions -> Attachments]
  BY <1>0 DEF Attachments
<1>5. entry' \in [Sessions -> [Procs -> {"none", "Starting", "Running", "Closed"}]]
  BY <1>0 DEF TypeOK, HasSession
<1>6. child' \in [Sessions -> [Procs -> {"none", "alive", "dead"}]]
  BY <1>0 DEF TypeOK, HasSession
<1>7. timers' \subseteq [session : Sessions, conn : Conns, left : 0..Ttl]
  BY <1>0 DEF TypeOK, HasSession
<1>8. TypeOK'
  BY <1>0, <1>3, <1>4, <1>5, <1>6, <1>7 DEF TypeOK, HasSession
<1>9. KeepsSession'
  <2> SUFFICES ASSUME NEW d \in Conns, NEW z \in Sessions, Holds(d, z)'
               PROVE  (z \in registry /\ attachment[z].current = d)'
    BY DEF KeepsSession
  <2>1. CASE d = c
    BY <2>1 DEF TypeOK, KeepsSession, Holds, Handlers, Attachments
  <2>2. CASE d # c
    <3>1. conn'[d] = conn[d]
      BY <2>2 DEF TypeOK
    <3>2. z \in registry /\ attachment[z].current = d
      BY <3>1 DEF KeepsSession, Holds
    <3>3. QED
      BY <2>2, <3>2 DEF TypeOK, KeepsSession, Holds, DeadlineIsDetached, Attachments
  <2>3. QED
    BY <2>1, <2>2
<1>10. DeadlineIsDetached'
  BY DEF TypeOK, DeadlineIsDetached, Attachments
<1>11. HasSession'
  BY <1>0 DEF HasSession, Handlers
<1>12. QED
  BY <1>8, <1>9, <1>10, <1>11

\* Spawned keeps the invariant of the registry.
LEMMA SpawnedR ==
    ASSUME RInv, NEW c \in Conns, Spawned(c) PROVE RInv'
<1> USE SessionConstants DEF RInv, Spawned, session
<1>0. /\ conn \in [Conns -> Handlers] /\ HasSession
      /\ attachment \in [Sessions -> Attachments]
  BY DEF TypeOK
<1>1. conn' = [conn EXCEPT ![c] = [conn[c] EXCEPT !.at = "open", !.serving = NoProc]]
  BY <1>0 DEF HasSession, Handlers
<1>2. [conn[c] EXCEPT !.at = "open", !.serving = NoProc] \in Handlers
  BY <1>0 DEF HasSession, Handlers
<1>3. conn' \in [Conns -> Handlers]
  BY <1>0, <1>1, <1>2
<1>4. attachment' \in [Sessions -> Attachments]
  BY <1>0 DEF Attachments
<1>5. entry' \in [Sessions -> [Procs -> {"none", "Starting", "Running", "Closed"}]]
  BY <1>0 DEF TypeOK, HasSession
<1>6. child' \in [Sessions -> [Procs -> {"none", "alive", "dead"}]]
  BY <1>0 DEF TypeOK, HasSession
<1>7. timers' \subseteq [session : Sessions, conn : Conns, left : 0..Ttl]
  BY <1>0 DEF TypeOK, HasSession
<1>8. TypeOK'
  BY <1>0, <1>3, <1>4, <1>5, <1>6, <1>7 DEF TypeOK, HasSession
<1>9. KeepsSession'
  <2> SUFFICES ASSUME NEW d \in Conns, NEW z \in Sessions, Holds(d, z)'
               PROVE  (z \in registry /\ attachment[z].current = d)'
    BY DEF KeepsSession
  <2>1. CASE d = c
    BY <2>1 DEF TypeOK, KeepsSession, Holds, Handlers, Attachments
  <2>2. CASE d # c
    <3>1. conn'[d] = conn[d]
      BY <2>2 DEF TypeOK
    <3>2. z \in registry /\ attachment[z].current = d
      BY <3>1 DEF KeepsSession, Holds
    <3>3. QED
      BY <2>2, <3>2 DEF TypeOK, KeepsSession, Holds, DeadlineIsDetached, Attachments
  <2>3. QED
    BY <2>1, <2>2
<1>10. DeadlineIsDetached'
  BY DEF TypeOK, DeadlineIsDetached, Attachments
<1>11. HasSession'
  BY <1>0 DEF HasSession, Handlers
<1>12. QED
  BY <1>8, <1>9, <1>10, <1>11

\* SpawnFails keeps the invariant of the registry.
LEMMA SpawnFailsR ==
    ASSUME RInv, NEW c \in Conns, SpawnFails(c) PROVE RInv'
<1> USE SessionConstants DEF RInv, SpawnFails, session
<1>0. /\ conn \in [Conns -> Handlers] /\ HasSession
      /\ attachment \in [Sessions -> Attachments]
  BY DEF TypeOK
<1>1. conn' = [conn EXCEPT ![c] = [conn[c] EXCEPT !.at = "open", !.serving = NoProc]]
  BY <1>0 DEF HasSession, Handlers
<1>2. [conn[c] EXCEPT !.at = "open", !.serving = NoProc] \in Handlers
  BY <1>0 DEF HasSession, Handlers
<1>3. conn' \in [Conns -> Handlers]
  BY <1>0, <1>1, <1>2
<1>4. attachment' \in [Sessions -> Attachments]
  BY <1>0 DEF Attachments
<1>5. entry' \in [Sessions -> [Procs -> {"none", "Starting", "Running", "Closed"}]]
  BY <1>0 DEF TypeOK, HasSession
<1>6. child' \in [Sessions -> [Procs -> {"none", "alive", "dead"}]]
  BY <1>0 DEF TypeOK, HasSession
<1>7. timers' \subseteq [session : Sessions, conn : Conns, left : 0..Ttl]
  BY <1>0 DEF TypeOK, HasSession
<1>8. TypeOK'
  BY <1>0, <1>3, <1>4, <1>5, <1>6, <1>7 DEF TypeOK, HasSession
<1>9. KeepsSession'
  <2> SUFFICES ASSUME NEW d \in Conns, NEW z \in Sessions, Holds(d, z)'
               PROVE  (z \in registry /\ attachment[z].current = d)'
    BY DEF KeepsSession
  <2>1. CASE d = c
    BY <2>1 DEF TypeOK, KeepsSession, Holds, Handlers, Attachments
  <2>2. CASE d # c
    <3>1. conn'[d] = conn[d]
      BY <2>2 DEF TypeOK
    <3>2. z \in registry /\ attachment[z].current = d
      BY <3>1 DEF KeepsSession, Holds
    <3>3. QED
      BY <2>2, <3>2 DEF TypeOK, KeepsSession, Holds, DeadlineIsDetached, Attachments
  <2>3. QED
    BY <2>1, <2>2
<1>10. DeadlineIsDetached'
  BY DEF TypeOK, DeadlineIsDetached, Attachments
<1>11. HasSession'
  BY <1>0 DEF HasSession, Handlers
<1>12. QED
  BY <1>8, <1>9, <1>10, <1>11

\* TerminateProcess keeps the invariant of the registry.
LEMMA TerminateProcessR ==
    ASSUME RInv, NEW c \in Conns, NEW p \in Procs, TerminateProcess(c, p) PROVE RInv'
<1> USE SessionConstants DEF RInv, TerminateProcess, Serves, session
<1>0. /\ conn \in [Conns -> Handlers] /\ HasSession
      /\ attachment \in [Sessions -> Attachments]
  BY DEF TypeOK
<1>3. conn' \in [Conns -> Handlers]
  BY <1>0
<1>4. attachment' \in [Sessions -> Attachments]
  BY <1>0 DEF Attachments
<1>5. entry' \in [Sessions -> [Procs -> {"none", "Starting", "Running", "Closed"}]]
  BY <1>0 DEF TypeOK, HasSession
<1>6. child' \in [Sessions -> [Procs -> {"none", "alive", "dead"}]]
  BY <1>0 DEF TypeOK, HasSession
<1>7. timers' \subseteq [session : Sessions, conn : Conns, left : 0..Ttl]
  BY <1>0 DEF TypeOK, HasSession
<1>8. TypeOK'
  BY <1>0, <1>3, <1>4, <1>5, <1>6, <1>7 DEF TypeOK, HasSession
<1>9. KeepsSession'
  <2> SUFFICES ASSUME NEW d \in Conns, NEW z \in Sessions, Holds(d, z)'
               PROVE  (z \in registry /\ attachment[z].current = d)'
    BY DEF KeepsSession
  <2>1. CASE d = c
    BY <2>1 DEF TypeOK, KeepsSession, Holds, Handlers, Attachments
  <2>2. CASE d # c
    <3>1. conn'[d] = conn[d]
      BY <2>2 DEF TypeOK
    <3>2. z \in registry /\ attachment[z].current = d
      BY <3>1 DEF KeepsSession, Holds
    <3>3. QED
      BY <2>2, <3>2 DEF TypeOK, KeepsSession, Holds, DeadlineIsDetached, Attachments
  <2>3. QED
    BY <2>1, <2>2
<1>10. DeadlineIsDetached'
  BY DEF TypeOK, DeadlineIsDetached, Attachments
<1>11. HasSession'
  BY <1>0 DEF HasSession, Handlers
<1>12. QED
  BY <1>8, <1>9, <1>10, <1>11

\* AttachNew keeps the invariant of the registry.
LEMMA AttachNewR ==
    ASSUME RInv, NEW c \in Conns, NEW s \in Sessions, AttachNew(c, s) PROVE RInv'
<1> USE SessionConstants DEF RInv, AttachNew, Attached, processes
<1>0. /\ conn \in [Conns -> Handlers] /\ HasSession
      /\ attachment \in [Sessions -> Attachments]
  BY DEF TypeOK
<1>1. conn' = [conn EXCEPT ![c] = [conn[c] EXCEPT !.session = s]]
  BY <1>0 DEF HasSession, Handlers
<1>2. [conn[c] EXCEPT !.session = s] \in Handlers
  BY <1>0 DEF HasSession, Handlers
<1>3. conn' \in [Conns -> Handlers]
  BY <1>0, <1>1, <1>2
<1>4. attachment' \in [Sessions -> Attachments]
  BY <1>0 DEF Attachments
<1>5. entry' \in [Sessions -> [Procs -> {"none", "Starting", "Running", "Closed"}]]
  BY <1>0 DEF TypeOK, HasSession
<1>6. child' \in [Sessions -> [Procs -> {"none", "alive", "dead"}]]
  BY <1>0 DEF TypeOK, HasSession
<1>7. timers' \subseteq [session : Sessions, conn : Conns, left : 0..Ttl]
  BY <1>0 DEF TypeOK, HasSession
<1>8. TypeOK'
  BY <1>0, <1>3, <1>4, <1>5, <1>6, <1>7 DEF TypeOK, HasSession
<1>9. KeepsSession'
  <2> SUFFICES ASSUME NEW d \in Conns, NEW z \in Sessions, Holds(d, z)'
               PROVE  (z \in registry /\ attachment[z].current = d)'
    BY DEF KeepsSession
  <2>1. CASE d = c
    BY <2>1 DEF TypeOK, KeepsSession, Holds, Handlers, Attachments
  <2>2. CASE d # c
    <3>1. conn'[d] = conn[d]
      BY <2>2 DEF TypeOK
    <3>2. z \in registry /\ attachment[z].current = d
      BY <3>1 DEF KeepsSession, Holds
    <3>3. QED
      BY <2>2, <3>2 DEF TypeOK, KeepsSession, Holds, DeadlineIsDetached, Attachments
  <2>3. QED
    BY <2>1, <2>2
<1>10. DeadlineIsDetached'
  BY DEF TypeOK, DeadlineIsDetached, Attachments
<1>11. HasSession'
  BY <1>0 DEF HasSession, Handlers
<1>12. QED
  BY <1>8, <1>9, <1>10, <1>11

\* Resume keeps the invariant of the registry.
LEMMA ResumeR ==
    ASSUME RInv, NEW c \in Conns, NEW s \in Sessions, Resume(c, s) PROVE RInv'
<1> USE SessionConstants DEF RInv, Resume, Attached, IsExpired, processes
<1>0. /\ conn \in [Conns -> Handlers] /\ HasSession
      /\ attachment \in [Sessions -> Attachments]
  BY DEF TypeOK
<1>1. conn' = [conn EXCEPT ![c] = [conn[c] EXCEPT !.session = s]]
  BY <1>0 DEF HasSession, Handlers
<1>2. [conn[c] EXCEPT !.session = s] \in Handlers
  BY <1>0 DEF HasSession, Handlers
<1>3. conn' \in [Conns -> Handlers]
  BY <1>0, <1>1, <1>2
<1>4. attachment' \in [Sessions -> Attachments]
  BY <1>0 DEF Attachments
<1>5. entry' \in [Sessions -> [Procs -> {"none", "Starting", "Running", "Closed"}]]
  BY <1>0 DEF TypeOK, HasSession
<1>6. child' \in [Sessions -> [Procs -> {"none", "alive", "dead"}]]
  BY <1>0 DEF TypeOK, HasSession
<1>7. timers' \subseteq [session : Sessions, conn : Conns, left : 0..Ttl]
  BY <1>0 DEF TypeOK, HasSession
<1>8. TypeOK'
  BY <1>0, <1>3, <1>4, <1>5, <1>6, <1>7 DEF TypeOK, HasSession
<1>9. KeepsSession'
  <2> SUFFICES ASSUME NEW d \in Conns, NEW z \in Sessions, Holds(d, z)'
               PROVE  (z \in registry /\ attachment[z].current = d)'
    BY DEF KeepsSession
  <2>1. CASE d = c
    BY <2>1 DEF TypeOK, KeepsSession, Holds, Handlers, Attachments
  <2>2. CASE d # c
    <3>1. conn'[d] = conn[d]
      BY <2>2 DEF TypeOK
    <3>2. z \in registry /\ attachment[z].current = d
      BY <3>1 DEF KeepsSession, Holds
    <3>3. QED
      BY <2>2, <3>2 DEF TypeOK, KeepsSession, Holds, DeadlineIsDetached, Attachments
  <2>3. QED
    BY <2>1, <2>2
<1>10. DeadlineIsDetached'
  BY DEF TypeOK, DeadlineIsDetached, Attachments
<1>11. HasSession'
  BY <1>0 DEF HasSession, Handlers
<1>12. QED
  BY <1>8, <1>9, <1>10, <1>11

\* ResumeExpired keeps the invariant of the registry.
LEMMA ResumeExpiredR ==
    ASSUME RInv, NEW c \in Conns, NEW s \in Sessions, ResumeExpired(c, s) PROVE RInv'
<1> USE SessionConstants DEF RInv, ResumeExpired, IsExpired, processes
<1>0. /\ conn \in [Conns -> Handlers] /\ HasSession
      /\ attachment \in [Sessions -> Attachments]
  BY DEF TypeOK
<1>1. conn' = [conn EXCEPT ![c] = [conn[c] EXCEPT !.at = "expired", !.session = s]]
  BY <1>0 DEF HasSession, Handlers
<1>2. [conn[c] EXCEPT !.at = "expired", !.session = s] \in Handlers
  BY <1>0 DEF HasSession, Handlers
<1>3. conn' \in [Conns -> Handlers]
  BY <1>0, <1>1, <1>2
<1>4. attachment' \in [Sessions -> Attachments]
  BY <1>0 DEF Attachments
<1>5. entry' \in [Sessions -> [Procs -> {"none", "Starting", "Running", "Closed"}]]
  BY <1>0 DEF TypeOK, HasSession
<1>6. child' \in [Sessions -> [Procs -> {"none", "alive", "dead"}]]
  BY <1>0 DEF TypeOK, HasSession
<1>7. timers' \subseteq [session : Sessions, conn : Conns, left : 0..Ttl]
  BY <1>0 DEF TypeOK, HasSession
<1>8. TypeOK'
  BY <1>0, <1>3, <1>4, <1>5, <1>6, <1>7 DEF TypeOK, HasSession
<1>9. KeepsSession'
  <2> SUFFICES ASSUME NEW d \in Conns, NEW z \in Sessions, Holds(d, z)'
               PROVE  (z \in registry /\ attachment[z].current = d)'
    BY DEF KeepsSession
  <2>1. CASE d = c
    BY <2>1 DEF TypeOK, KeepsSession, Holds, Handlers, Attachments
  <2>2. CASE d # c
    <3>1. conn'[d] = conn[d]
      BY <2>2 DEF TypeOK
    <3>2. z \in registry /\ attachment[z].current = d
      BY <3>1 DEF KeepsSession, Holds
    <3>3. QED
      BY <2>2, <3>2 DEF TypeOK, KeepsSession, Holds, DeadlineIsDetached, Attachments
  <2>3. QED
    BY <2>1, <2>2
<1>10. DeadlineIsDetached'
  BY DEF TypeOK, DeadlineIsDetached, Attachments
<1>11. HasSession'
  BY <1>0 DEF HasSession, Handlers
<1>12. QED
  BY <1>8, <1>9, <1>10, <1>11

\* ShutdownExpired keeps the invariant of the registry.
LEMMA ShutdownExpiredR ==
    ASSUME RInv, NEW c \in Conns, ShutdownExpired(c) PROVE RInv'
<1> USE SessionConstants DEF RInv, ShutdownExpired, Emptied, Terminated, session
<1>0. /\ conn \in [Conns -> Handlers] /\ HasSession
      /\ attachment \in [Sessions -> Attachments]
  BY DEF TypeOK
<1>1. conn' = [conn EXCEPT ![c] = [conn[c] EXCEPT !.at = "open", !.session = NoSession]]
  BY <1>0 DEF HasSession, Handlers
<1>2. [conn[c] EXCEPT !.at = "open", !.session = NoSession] \in Handlers
  BY <1>0 DEF HasSession, Handlers
<1>3. conn' \in [Conns -> Handlers]
  BY <1>0, <1>1, <1>2
<1>4. attachment' \in [Sessions -> Attachments]
  BY <1>0 DEF Attachments
<1>5. entry' \in [Sessions -> [Procs -> {"none", "Starting", "Running", "Closed"}]]
  BY <1>0 DEF TypeOK, HasSession
<1>6. child' \in [Sessions -> [Procs -> {"none", "alive", "dead"}]]
  BY <1>0 DEF TypeOK, HasSession
<1>7. timers' \subseteq [session : Sessions, conn : Conns, left : 0..Ttl]
  BY <1>0 DEF TypeOK, HasSession
<1>8. TypeOK'
  BY <1>0, <1>3, <1>4, <1>5, <1>6, <1>7 DEF TypeOK, HasSession
<1>9. KeepsSession'
  <2> SUFFICES ASSUME NEW d \in Conns, NEW z \in Sessions, Holds(d, z)'
               PROVE  (z \in registry /\ attachment[z].current = d)'
    BY DEF KeepsSession
  <2>1. CASE d = c
    BY SMTT(60), <2>1 DEF TypeOK, KeepsSession, Holds, Handlers, Attachments
  <2>2. CASE d # c
    <3>1. conn'[d] = conn[d]
      BY <2>2 DEF TypeOK
    <3>2. z \in registry /\ attachment[z].current = d
      BY <3>1 DEF KeepsSession, Holds
    <3>3. QED
      BY <2>2, <3>2 DEF TypeOK, KeepsSession, Holds, DeadlineIsDetached, Attachments
  <2>3. QED
    BY <2>1, <2>2
<1>10. DeadlineIsDetached'
  BY DEF TypeOK, DeadlineIsDetached, Attachments
<1>11. HasSession'
  BY <1>0 DEF HasSession, Handlers
<1>12. QED
  BY <1>8, <1>9, <1>10, <1>11

\* Initialized keeps the invariant of the registry.
LEMMA InitializedR ==
    ASSUME RInv, NEW c \in Conns, Initialized(c) PROVE RInv'
<1> USE SessionConstants DEF RInv, Initialized, session, processes
<1>0. /\ conn \in [Conns -> Handlers] /\ HasSession
      /\ attachment \in [Sessions -> Attachments]
  BY DEF TypeOK
<1>1. conn' = [conn EXCEPT ![c] = [conn[c] EXCEPT !.initialized = TRUE]]
  BY <1>0 DEF HasSession, Handlers
<1>2. [conn[c] EXCEPT !.initialized = TRUE] \in Handlers
  BY ZenonT(60), <1>0 DEF HasSession, Handlers
<1>3. conn' \in [Conns -> Handlers]
  BY <1>0, <1>1, <1>2
<1>4. attachment' \in [Sessions -> Attachments]
  BY <1>0 DEF Attachments
<1>5. entry' \in [Sessions -> [Procs -> {"none", "Starting", "Running", "Closed"}]]
  BY <1>0 DEF TypeOK, HasSession
<1>6. child' \in [Sessions -> [Procs -> {"none", "alive", "dead"}]]
  BY <1>0 DEF TypeOK, HasSession
<1>7. timers' \subseteq [session : Sessions, conn : Conns, left : 0..Ttl]
  BY <1>0 DEF TypeOK, HasSession
<1>8. TypeOK'
  BY <1>0, <1>3, <1>4, <1>5, <1>6, <1>7 DEF TypeOK, HasSession
<1>9. KeepsSession'
  <2> SUFFICES ASSUME NEW d \in Conns, NEW z \in Sessions, Holds(d, z)'
               PROVE  (z \in registry /\ attachment[z].current = d)'
    BY DEF KeepsSession
  <2>1. CASE d = c
    <3>1. conn'[c].session = conn[c].session /\ conn'[c].at = conn[c].at
      BY <1>0, <1>1 DEF Handlers
    <3>2. Holds(c, z)
      BY <2>1, <3>1 DEF Holds
    <3>3. QED
      BY <2>1, <3>2 DEF KeepsSession
  <2>2. CASE d # c
    <3>1. conn'[d] = conn[d]
      BY <2>2 DEF TypeOK
    <3>2. z \in registry /\ attachment[z].current = d
      BY <3>1 DEF KeepsSession, Holds
    <3>3. QED
      BY <2>2, <3>2 DEF TypeOK, KeepsSession, Holds, DeadlineIsDetached, Attachments
  <2>3. QED
    BY <2>1, <2>2
<1>10. DeadlineIsDetached'
  BY DEF TypeOK, DeadlineIsDetached, Attachments
<1>11. HasSession'
  BY <1>0 DEF HasSession, Handlers
<1>12. QED
  BY <1>8, <1>9, <1>10, <1>11

\* Disconnect keeps the invariant of the registry.
LEMMA DisconnectR ==
    ASSUME RInv, NEW c \in Conns, Disconnect(c) PROVE RInv'
<1> USE SessionConstants DEF RInv, Disconnect, Goto, session, processes
<1>0. /\ conn \in [Conns -> Handlers] /\ HasSession
      /\ attachment \in [Sessions -> Attachments]
  BY DEF TypeOK
<1>1. conn' = [conn EXCEPT ![c] = [conn[c] EXCEPT !.at = "closing"]]
  BY <1>0 DEF HasSession, Handlers
<1>2. [conn[c] EXCEPT !.at = "closing"] \in Handlers
  BY <1>0 DEF HasSession, Handlers
<1>3. conn' \in [Conns -> Handlers]
  BY <1>0, <1>1, <1>2
<1>4. attachment' \in [Sessions -> Attachments]
  BY <1>0 DEF Attachments
<1>5. entry' \in [Sessions -> [Procs -> {"none", "Starting", "Running", "Closed"}]]
  BY <1>0 DEF TypeOK, HasSession
<1>6. child' \in [Sessions -> [Procs -> {"none", "alive", "dead"}]]
  BY <1>0 DEF TypeOK, HasSession
<1>7. timers' \subseteq [session : Sessions, conn : Conns, left : 0..Ttl]
  BY <1>0 DEF TypeOK, HasSession
<1>8. TypeOK'
  BY <1>0, <1>3, <1>4, <1>5, <1>6, <1>7 DEF TypeOK, HasSession
<1>9. KeepsSession'
  <2> SUFFICES ASSUME NEW d \in Conns, NEW z \in Sessions, Holds(d, z)'
               PROVE  (z \in registry /\ attachment[z].current = d)'
    BY DEF KeepsSession
  <2>1. CASE d = c
    BY SMTT(60), <2>1 DEF TypeOK, KeepsSession, Holds, Handlers, Attachments
  <2>2. CASE d # c
    <3>1. conn'[d] = conn[d]
      BY <2>2 DEF TypeOK
    <3>2. z \in registry /\ attachment[z].current = d
      BY <3>1 DEF KeepsSession, Holds
    <3>3. QED
      BY <2>2, <3>2 DEF TypeOK, KeepsSession, Holds, DeadlineIsDetached, Attachments
  <2>3. QED
    BY <2>1, <2>2
<1>10. DeadlineIsDetached'
  BY DEF TypeOK, DeadlineIsDetached, Attachments
<1>11. HasSession'
  BY <1>0 DEF HasSession, Handlers
<1>12. QED
  BY <1>8, <1>9, <1>10, <1>11

\* RequestDropped keeps the invariant of the registry.
LEMMA RequestDroppedR ==
    ASSUME RInv, NEW c \in Conns, RequestDropped(c) PROVE RInv'
<1> USE SessionConstants DEF RInv, RequestDropped, Goto, session, processes
<1>0. /\ conn \in [Conns -> Handlers] /\ HasSession
      /\ attachment \in [Sessions -> Attachments]
  BY DEF TypeOK
<1>1. PICK x \in {"closing", "lost"} :
        /\ conn' = [conn EXCEPT ![c] = [conn[c] EXCEPT !.at = x]]
        /\ x = "closing" => conn[c].at = "spawning"
  BY <1>0 DEF HasSession, Handlers
<1>2. [conn[c] EXCEPT !.at = x] \in Handlers
  BY <1>0 DEF HasSession, Handlers
<1>3. conn' \in [Conns -> Handlers]
  BY <1>0, <1>1, <1>2
<1>4. attachment' \in [Sessions -> Attachments]
  BY <1>0 DEF Attachments
<1>5. entry' \in [Sessions -> [Procs -> {"none", "Starting", "Running", "Closed"}]]
  BY <1>0 DEF TypeOK, HasSession
<1>6. child' \in [Sessions -> [Procs -> {"none", "alive", "dead"}]]
  BY <1>0 DEF TypeOK, HasSession
<1>7. timers' \subseteq [session : Sessions, conn : Conns, left : 0..Ttl]
  BY <1>0 DEF TypeOK, HasSession
<1>8. TypeOK'
  BY <1>0, <1>3, <1>4, <1>5, <1>6, <1>7 DEF TypeOK, HasSession
<1>9. KeepsSession'
  <2> SUFFICES ASSUME NEW d \in Conns, NEW z \in Sessions, Holds(d, z)'
               PROVE  (z \in registry /\ attachment[z].current = d)'
    BY DEF KeepsSession
  <2>1. CASE d = c
    <3>1. conn'[c].session = z
      BY <2>1 DEF Holds
    <3>2. conn[c].at = "spawning" /\ conn[c].session = z
      BY <1>0, <1>1, <2>1, <3>1 DEF Holds, Handlers
    <3>3. QED
      BY <2>1, <3>2 DEF KeepsSession, Holds
  <2>2. CASE d # c
    <3>1. conn'[d] = conn[d]
      BY <1>0, <1>1, <2>2
    <3>2. z \in registry /\ attachment[z].current = d
      BY <3>1 DEF KeepsSession, Holds
    <3>3. QED
      BY <2>2, <3>2 DEF TypeOK, KeepsSession, Holds, DeadlineIsDetached, Attachments
  <2>3. QED
    BY <2>1, <2>2
<1>10. DeadlineIsDetached'
  BY DEF TypeOK, DeadlineIsDetached, Attachments
<1>11. HasSession'
  BY <1>0, <1>1 DEF HasSession, Handlers
<1>12. QED
  BY <1>8, <1>9, <1>10, <1>11

\* Detach keeps the invariant of the registry.
LEMMA DetachR ==
    ASSUME RInv, NEW c \in Conns, Detach(c) PROVE RInv'
<1> USE SessionConstants DEF RInv
<1>0. /\ conn \in [Conns -> Handlers] /\ HasSession
      /\ attachment \in [Sessions -> Attachments]
      /\ conn[c].at = "closing"
      /\ registry' = registry
  BY DEF TypeOK, Detach
<1>1. ASSUME NEW a \in {"clear", "gone"}, conn' = [conn EXCEPT ![c].at = a]
      PROVE  /\ conn' \in [Conns -> Handlers]
             /\ \A d \in Conns : conn'[d].session = conn[d].session
             /\ conn'[c].at = a
             /\ \A d \in Conns \ {c} : conn'[d] = conn[d]
             /\ \A d \in Conns : conn'[d].initialized = conn[d].initialized
  BY <1>0, <1>1 DEF Handlers
<1>2. CASE conn[c].session # NoSession /\ attachment[conn[c].session].current = c
  <2>1. PICK s \in Sessions : s = conn[c].session
    BY <1>0, <1>2 DEF Handlers
  <2>2. /\ conn' = [conn EXCEPT ![c].at = "clear"]
        /\ attachment' = [attachment EXCEPT ![s] =
                            [current |-> NoConn, detached |-> c, left |-> Ttl]]
    BY <1>2, <2>1 DEF Detach, Goto
  <2>3. attachment' \in [Sessions -> Attachments]
    BY <1>0, <2>2 DEF Attachments
  <2>4. TypeOK'
    BY <1>1, <2>2, <2>3 DEF TypeOK, Detach, processes
  <2>5. KeepsSession'
    BY <1>0, <1>1, <1>2, <2>1, <2>2 DEF KeepsSession, Holds
  <2>6. DeadlineIsDetached'
    BY <1>0, <2>2 DEF DeadlineIsDetached
  <2>7. HasSession'
    BY <1>0, <1>1, <2>1, <2>2 DEF HasSession
  <2>8. QED
    BY <2>4, <2>5, <2>6, <2>7
<1>3. CASE ~(conn[c].session # NoSession /\ attachment[conn[c].session].current = c)
  <2>1. conn' = [conn EXCEPT ![c].at = "gone"] /\ attachment' = attachment
    BY <1>3 DEF Detach, Goto
  <2>2. TypeOK'
    BY <1>1, <2>1 DEF TypeOK, Detach, processes
  <2>3. KeepsSession' /\ DeadlineIsDetached'
    BY <1>0, <1>1, <2>1 DEF KeepsSession, Holds, DeadlineIsDetached
  <2>4. HasSession'
    BY <1>0, <1>1, <2>1 DEF HasSession
  <2>5. QED
    BY <2>2, <2>3, <2>4
<1>4. QED
  BY <1>2, <1>3

\* ClearSender keeps the invariant of the registry.
LEMMA ClearSenderR ==
    ASSUME RInv, NEW c \in Conns, ClearSender(c) PROVE RInv'
<1> USE SessionConstants DEF RInv, ClearSender, Goto, processes
<1>0. /\ conn \in [Conns -> Handlers] /\ HasSession
      /\ attachment \in [Sessions -> Attachments]
  BY DEF TypeOK
<1>1. conn' = [conn EXCEPT ![c] = [conn[c] EXCEPT !.at = "gone"]]
  BY <1>0 DEF HasSession, Handlers
<1>2. [conn[c] EXCEPT !.at = "gone"] \in Handlers
  BY <1>0 DEF HasSession, Handlers
<1>3. conn' \in [Conns -> Handlers]
  BY <1>0, <1>1, <1>2
<1>4. attachment' \in [Sessions -> Attachments]
  BY <1>0 DEF Attachments
<1>5. entry' \in [Sessions -> [Procs -> {"none", "Starting", "Running", "Closed"}]]
  BY <1>0 DEF TypeOK, HasSession
<1>6. child' \in [Sessions -> [Procs -> {"none", "alive", "dead"}]]
  BY <1>0 DEF TypeOK, HasSession
<1>7. timers' \subseteq [session : Sessions, conn : Conns, left : 0..Ttl]
  BY <1>0 DEF TypeOK, HasSession
<1>8. TypeOK'
  BY <1>0, <1>3, <1>4, <1>5, <1>6, <1>7 DEF TypeOK, HasSession
<1>9. KeepsSession'
  <2> SUFFICES ASSUME NEW d \in Conns, NEW z \in Sessions, Holds(d, z)'
               PROVE  (z \in registry /\ attachment[z].current = d)'
    BY DEF KeepsSession
  <2>1. CASE d = c
    BY <2>1 DEF TypeOK, KeepsSession, Holds, Handlers, Attachments
  <2>2. CASE d # c
    <3>1. conn'[d] = conn[d]
      BY <2>2 DEF TypeOK
    <3>2. z \in registry /\ attachment[z].current = d
      BY <3>1 DEF KeepsSession, Holds
    <3>3. QED
      BY <2>2, <3>2 DEF TypeOK, KeepsSession, Holds, DeadlineIsDetached, Attachments
  <2>3. QED
    BY <2>1, <2>2
<1>10. DeadlineIsDetached'
  BY DEF TypeOK, DeadlineIsDetached, Attachments
<1>11. HasSession'
  BY <1>0 DEF HasSession, Handlers
<1>12. QED
  BY <1>8, <1>9, <1>10, <1>11

\* Processes keeps the invariant of the registry.
LEMMA ProcessesR ==
    ASSUME RInv, NEW s \in Sessions, NEW p \in Procs,
           ChildExits(s, p) \/ Closes(s, p) \/ Cleanup(s, p) PROVE RInv'
<1> USE DEF RInv, session
<1>1. TypeOK'
  <2>1. CASE ChildExits(s, p)
    BY <2>1 DEF TypeOK, ChildExits
  <2>2. CASE Closes(s, p)
    BY <2>2 DEF TypeOK, Closes
  <2>3. CASE Cleanup(s, p)
    BY <2>3 DEF TypeOK, Cleanup
  <2>4. QED
    BY <2>1, <2>2, <2>3
<1>2. QED
  BY <1>1 DEF KeepsSession, Holds, DeadlineIsDetached, HasSession, ChildExits, Closes, Cleanup

\* TimerFires keeps the invariant of the registry.
LEMMA TimerFiresR == ASSUME RInv, NEW t \in timers, TimerFires(t) PROVE RInv'
<1> USE DEF RInv, TimerFires, Expires, processes
<1>1. TypeOK'
  BY DEF TypeOK
<1>2. KeepsSession'
  BY SessionConstants DEF KeepsSession, Holds
<1>3. QED
  BY <1>1, <1>2 DEF DeadlineIsDetached, HasSession

\* ShutdownSession keeps the invariant of the registry.
LEMMA ShutdownSessionR == ASSUME RInv, NEW s \in Sessions, ShutdownSession(s) PROVE RInv'
<1> USE DEF RInv, ShutdownSession, session
<1>1. TypeOK'
  BY DEF TypeOK, Emptied, Terminated
<1>2. QED
  BY <1>1 DEF KeepsSession, Holds, DeadlineIsDetached, HasSession

\* What remains of a deadline stays within the TTL, and None stays None.
LEMMA LessType ==
    ASSUME NEW n \in 0..Ttl \union {NoTime}
    PROVE  /\ Less(n) \in 0..Ttl \union {NoTime}
           /\ n # NoTime => Less(n) \in 0..Ttl
           /\ n = NoTime => Less(n) = NoTime
           /\ n = 0 => Less(n) = 0
BY SessionConstants DEF Less

\* Tick keeps the invariant of the registry.
LEMMA TickR == ASSUME RInv, Tick PROVE RInv'
<1> USE SessionConstants DEF RInv
<1>1. ASSUME NEW s \in Sessions
      PROVE  /\ attachment'[s] = [attachment[s] EXCEPT !.left = Less(attachment[s].left)]
             /\ attachment[s] \in Attachments
  BY DEF TypeOK, Tick
<1>2. ASSUME NEW s \in Sessions
      PROVE  /\ attachment'[s] \in Attachments
             /\ attachment'[s].current = attachment[s].current
             /\ attachment'[s].left = Less(attachment[s].left)
             /\ attachment'[s].left # NoTime => attachment[s].left # NoTime
  <2> DEFINE n == Less(attachment[s].left)
  <2>1. /\ attachment[s] \in Attachments
        /\ attachment'[s] = [attachment[s] EXCEPT !.left = n]
    BY <1>1
  <2>2. attachment[s].left \in 0..Ttl \union {NoTime}
    BY <2>1 DEF Attachments
  <2>3. /\ n \in 0..Ttl \union {NoTime}
        /\ attachment[s].left = NoTime => n = NoTime
    BY <2>2, LessType
  <2> HIDE DEF n
  <2>4. QED
    BY <2>1, <2>3 DEF Attachments, n
<1>3. attachment' \in [Sessions -> Attachments]
  BY <1>2 DEF Tick
<1>4. timers' \subseteq [session : Sessions, conn : Conns, left : 0..Ttl]
  <2>1. ASSUME NEW t \in timers
        PROVE  [t EXCEPT !.left = Less(@)] \in [session : Sessions, conn : Conns, left : 0..Ttl]
    <3>1. t \in [session : Sessions, conn : Conns, left : 0..Ttl]
      BY DEF TypeOK
    <3>2. Less(t.left) \in 0..Ttl
      BY <3>1, LessType
    <3>3. QED
      BY <3>1, <3>2
  <2>2. QED
    BY <2>1 DEF Tick
<1>5. TypeOK'
  BY <1>3, <1>4 DEF TypeOK, Tick, processes
<1>6. KeepsSession'
  BY <1>2 DEF KeepsSession, Holds, Tick
<1>7. DeadlineIsDetached'
  BY <1>2 DEF DeadlineIsDetached
<1>8. QED
  BY <1>5, <1>6, <1>7 DEF HasSession, Tick

\* Every step keeps the invariant of the registry.
LEMMA StepRegistry == RInv /\ [Next]_vars => RInv'
<1> SUFFICES ASSUME RInv, [Next]_vars PROVE RInv'
  OBVIOUS
<1>1. CASE UNCHANGED vars
  BY <1>1 DEF RInv, vars, session, processes, TypeOK, KeepsSession, Holds,
              DeadlineIsDetached, HasSession
<1>2. ASSUME NEW c \in Conns, ConnStep(c) PROVE RInv'
  BY <1>2, AttachNewR, ResumeR, ResumeExpiredR, ShutdownExpiredR, InitializedR,
     StartProcessR, TerminateProcessR, SpawnedR, SpawnFailsR, DisconnectR, RequestDroppedR,
     DetachR, ClearSenderR DEF ConnStep
<1>3. QED
  BY <1>1, <1>2, ProcessesR, TimerFiresR, ShutdownSessionR, TickR DEF Next

\* The registry keeps its types.
THEOREM SessionTypes == Spec => []TypeOK
<1>1. RInv => TypeOK
  BY DEF RInv
<1>2. QED
  BY <1>1, InitRegistry, StepRegistry, PTL DEF Spec

\* Nobody takes or removes the session of an attached connection: a resume needs
\* current = None, and an expiry needs a deadline, which only detach sets.
THEOREM KeepsSessionTheorem == Spec => []KeepsSession
<1>1. RInv => KeepsSession
  BY DEF RInv
<1>2. QED
  BY <1>1, InitRegistry, StepRegistry, PTL DEF Spec

\* Only two steps remove a session, and both find it expired.
LEMMA StepWindow ==
    RInv /\ [Next]_vars =>
        [\A s \in registry \ registry' : attachment[s].current = NoConn /\ attachment[s].left = 0]_vars
<1> SUFFICES ASSUME RInv, Next, NEW s \in registry, s \notin registry'
             PROVE  attachment[s].current = NoConn /\ attachment[s].left = 0
  OBVIOUS
<1>0. s \in Sessions /\ NoTime \notin Nat
  BY SessionConstants DEF RInv, TypeOK
<1>1. ASSUME NEW c \in Conns, ConnStep(c) PROVE attachment[s].left = 0
  <2>1. PICK z \in Sessions : ResumeExpired(c, z)
    BY <1>1 DEF ConnStep, AttachNew, Resume, ShutdownExpired, Initialized, StartProcess,
                TerminateProcess, Spawned, SpawnFails, Disconnect, RequestDropped, Detach,
                ClearSender, session
  <2>2. QED
    BY <2>1 DEF ResumeExpired, IsExpired
<1>2. ASSUME NEW t \in timers, TimerFires(t) PROVE attachment[s].left = 0
  BY <1>2 DEF TimerFires, Expires
<1>3. attachment[s].left = 0
  BY <1>1, <1>2 DEF Next, ChildExits, Closes, Cleanup, ShutdownSession, Tick, session
<1>4. attachment[s].left # NoTime
  BY <1>0, <1>3
<1>5. QED
  BY <1>0, <1>3, <1>4 DEF RInv, DeadlineIsDetached

\* A session is given up only when its last connection has been gone for the whole
\* TTL: a resume clears the deadline, so an earlier sleeper finds none.
THEOREM ResumeWindowTheorem == Spec => ResumeWindow
BY InitRegistry, StepRegistry, StepWindow, PTL DEF Spec, ResumeWindow


-----------------------------------------------------------------------------
(* Children *)

\* A running child is entered as such.
AliveIsRunning ==
    \A s \in Sessions, p \in Procs : child[s][p] = "alive" => entry[s][p] = "Running"

\* A session with processes is in the registry or will be shut down, unless the request
\* that was to do it was dropped.
EntryIsKept ==
    \A s \in Sessions, p \in Procs : entry[s][p] # "none" => s \in registry \/ ShutdownDue(s)

\* A connection that spawns holds the reservation.
SpawnIsReserved ==
    \A c \in Conns : conn[c].at = "spawning" => entry[conn[c].session][conn[c].serving] = "Starting"

\* A session that will be shut down is out of the registry, and stays expired.
DueIsExpired ==
    \A s \in Sessions : ShutdownDue(s) => s \notin registry /\ attachment[s].left = 0

OInv == RInv /\ AliveIsRunning /\ EntryIsKept /\ SpawnIsReserved /\ DueIsExpired /\ StartIsOwned

\* StartProcess keeps the invariant of the children.
LEMMA StartProcessO ==
    ASSUME OInv, NEW c \in Conns, NEW p \in Procs, StartProcess(c, p), RInv' PROVE OInv'
<1> USE SessionConstants DEF OInv, RInv, StartProcess, Serves, session, processes
<1>1. AliveIsRunning'
  BY DEF TypeOK, AliveIsRunning, HasSession
<1>2. EntryIsKept'
  <2>1. conn[c].session \in registry /\ conn[c].session \in Sessions
    BY DEF HasSession, KeepsSession, Holds
  <2>2. \A d \in Conns : conn[d].at \in {"expired", "lost"} => conn'[d] = conn[d]
    BY DEF TypeOK, Handlers
  <2>3. \A z \in Sessions : ShutdownDue(z) => ShutdownDue(z)'
    BY <2>2 DEF ShutdownDue
  <2>4. \A z \in Sessions, q \in Procs : z # conn[c].session => entry'[z][q] = entry[z][q]
    BY <2>1 DEF TypeOK
  <2>5. QED
    BY <2>1, <2>3, <2>4 DEF EntryIsKept
<1>3. SpawnIsReserved'
  BY SMTT(60) DEF TypeOK, SpawnIsReserved, HasSession, KeepsSession, Holds, DueIsExpired,
         ShutdownDue,
         Handlers, Attachments
<1>4. DueIsExpired'
  BY DEF TypeOK, DueIsExpired, ShutdownDue, KeepsSession, Holds, Handlers, Attachments,
         HasSession
<1>5. StartIsOwned'
  <2> SUFFICES ASSUME NEW z \in Sessions, NEW q \in Procs, entry'[z][q] = "Starting"
               PROVE  \E d \in Conns : Reserved(d, z, q)'
    BY DEF StartIsOwned
  <2>1. CASE z = conn[c].session /\ q = p
    <3>1. Reserved(c, z, q)'
      BY <2>1 DEF TypeOK, Handlers, Reserved
    <3>2. QED
      BY <3>1
  <2>2. CASE ~(z = conn[c].session /\ q = p)
    <3>1. entry[z][q] = "Starting"
      BY <2>2 DEF TypeOK
    <3>2. PICK d \in Conns : Reserved(d, z, q)
      BY <3>1 DEF StartIsOwned
    <3>3. conn'[d] = conn[d]
      BY <3>2 DEF TypeOK, Reserved
    <3>4. QED
      BY <3>2, <3>3 DEF Reserved
  <2>3. QED
    BY <2>1, <2>2
<1>6. QED
  BY <1>1, <1>2, <1>3, <1>4, <1>5

\* Spawned keeps the invariant of the children.
LEMMA SpawnedO ==
    ASSUME OInv, NEW c \in Conns, Spawned(c), RInv' PROVE OInv'
<1> USE SessionConstants DEF OInv, RInv, Spawned, session, processes
<1>1. AliveIsRunning'
  BY DEF TypeOK, AliveIsRunning, HasSession
<1>2. EntryIsKept'
  BY SMTT(60) DEF TypeOK, EntryIsKept, ShutdownDue, HasSession, KeepsSession, Holds, Handlers,
         Attachments
<1>3. SpawnIsReserved'
  BY SMTT(60) DEF TypeOK, SpawnIsReserved, HasSession, KeepsSession, Holds, DueIsExpired,
         ShutdownDue,
         Handlers, Attachments
<1>4. DueIsExpired'
  BY SMTT(60) DEF TypeOK, DueIsExpired, ShutdownDue, KeepsSession, Holds, Handlers, Attachments,
         HasSession
<1>5. StartIsOwned'
  BY SMTT(60) DEF TypeOK, StartIsOwned, Reserved, HasSession, KeepsSession, Holds, Handlers
<1>6. QED
  BY <1>1, <1>2, <1>3, <1>4, <1>5

\* SpawnFails keeps the invariant of the children.
LEMMA SpawnFailsO ==
    ASSUME OInv, NEW c \in Conns, SpawnFails(c), RInv' PROVE OInv'
<1> USE SessionConstants DEF OInv, RInv, SpawnFails, session, processes
<1>1. AliveIsRunning'
  BY DEF TypeOK, AliveIsRunning, HasSession
<1>2. EntryIsKept'
  <2> SUFFICES ASSUME NEW z \in Sessions, NEW q \in Procs, entry'[z][q] # "none"
               PROVE  z \in registry' \/ ShutdownDue(z)'
    BY DEF EntryIsKept
  <2>1. conn[c].session \in Sessions /\ conn[c].serving \in Procs
    BY DEF HasSession
  <2>2. entry[z][q] # "none"
    BY <2>1 DEF TypeOK
  <2>3. UNCHANGED <<registry, expiring>>
    OBVIOUS
  <2>4. \A d \in Conns : conn[d].at \in {"expired", "lost"} => conn'[d] = conn[d]
    BY DEF TypeOK, Handlers
  <2>5. z \in registry \/ ShutdownDue(z)
    BY <2>2 DEF EntryIsKept
  <2> HIDE DEF OInv, RInv, SpawnFails
  <2>6. ShutdownDue(z) => ShutdownDue(z)'
    BY <2>2, <2>3, <2>4 DEF ShutdownDue
  <2>7. QED
    BY <2>3, <2>5, <2>6
<1>3. SpawnIsReserved'
  <2> SUFFICES ASSUME NEW d \in Conns, conn'[d].at = "spawning"
               PROVE  entry'[conn'[d].session][conn'[d].serving] = "Starting"
    BY DEF SpawnIsReserved
  <2>1. d # c /\ conn'[d] = conn[d]
    BY DEF TypeOK, Handlers
  <2>2. /\ conn[c].session \in Sessions /\ conn[d].session \in Sessions
        /\ conn[d].session # conn[c].session
    BY <2>1 DEF HasSession, KeepsSession, Holds
  <2>3. entry'[conn[d].session] = entry[conn[d].session]
    BY <2>2 DEF TypeOK
  <2>4. QED
    BY <2>1, <2>3 DEF SpawnIsReserved
<1>4. DueIsExpired'
  BY DEF TypeOK, DueIsExpired, ShutdownDue, KeepsSession, Holds, Handlers, Attachments,
         HasSession
<1>5. StartIsOwned'
  <2> SUFFICES ASSUME NEW z \in Sessions, NEW q \in Procs, entry'[z][q] = "Starting"
               PROVE  \E d \in Conns : Reserved(d, z, q)'
    BY DEF StartIsOwned
  <2>1. conn[c].session \in Sessions /\ conn[c].serving \in Procs
    BY DEF HasSession
  <2>2. entry[z][q] = "Starting" /\ ~(z = conn[c].session /\ q = conn[c].serving)
    BY <2>1 DEF TypeOK
  <2>3. PICK d \in Conns : Reserved(d, z, q)
    BY <2>2 DEF StartIsOwned
  <2>4. conn'[d] = conn[d]
    BY <2>2, <2>3 DEF TypeOK, Reserved
  <2>5. QED
    BY <2>3, <2>4 DEF Reserved
<1>6. QED
  BY <1>1, <1>2, <1>3, <1>4, <1>5

\* TerminateProcess keeps the invariant of the children.
LEMMA TerminateProcessO ==
    ASSUME OInv, NEW c \in Conns, NEW p \in Procs, TerminateProcess(c, p), RInv' PROVE OInv'
<1> USE SessionConstants DEF OInv, RInv, TerminateProcess, Serves, session, processes
<1>1. AliveIsRunning'
  BY DEF TypeOK, AliveIsRunning, HasSession
<1>2. EntryIsKept'
  BY DEF TypeOK, EntryIsKept, ShutdownDue, HasSession, KeepsSession, Holds, Handlers,
         Attachments
<1>3. SpawnIsReserved'
  BY DEF TypeOK, SpawnIsReserved, HasSession, KeepsSession, Holds, DueIsExpired, ShutdownDue,
         Handlers, Attachments
<1>4. DueIsExpired'
  BY DEF TypeOK, DueIsExpired, ShutdownDue, KeepsSession, Holds, Handlers, Attachments,
         HasSession
<1>5. StartIsOwned'
  BY DEF TypeOK, StartIsOwned, Reserved, HasSession, KeepsSession, Holds, Handlers
<1>6. QED
  BY <1>1, <1>2, <1>3, <1>4, <1>5

\* AttachNew keeps the invariant of the children.
LEMMA AttachNewO ==
    ASSUME OInv, NEW c \in Conns, NEW s \in Sessions, AttachNew(c, s), RInv' PROVE OInv'
<1> USE SessionConstants DEF OInv, RInv, AttachNew, Attached, Detached, session, processes
<1>1. AliveIsRunning'
  BY DEF TypeOK, AliveIsRunning, HasSession
<1>2. EntryIsKept'
  BY DEF TypeOK, EntryIsKept, ShutdownDue, HasSession, KeepsSession, Holds, Handlers,
         Attachments
<1>3. SpawnIsReserved'
  BY DEF TypeOK, SpawnIsReserved, HasSession, KeepsSession, Holds, DueIsExpired, ShutdownDue,
         Handlers, Attachments
<1>4. DueIsExpired'
  BY DEF TypeOK, DueIsExpired, ShutdownDue, KeepsSession, Holds, Handlers, Attachments,
         HasSession
<1>5. StartIsOwned'
  BY DEF TypeOK, StartIsOwned, Reserved, HasSession, KeepsSession, Holds, Handlers
<1>6. QED
  BY <1>1, <1>2, <1>3, <1>4, <1>5

\* Resume keeps the invariant of the children.
LEMMA ResumeO ==
    ASSUME OInv, NEW c \in Conns, NEW s \in Sessions, Resume(c, s), RInv' PROVE OInv'
<1> USE SessionConstants DEF OInv, RInv, Resume, Attached, session, processes
<1>1. AliveIsRunning'
  BY DEF TypeOK, AliveIsRunning, HasSession
<1>2. EntryIsKept'
  BY DEF TypeOK, EntryIsKept, ShutdownDue, HasSession, KeepsSession, Holds, Handlers,
         Attachments
<1>3. SpawnIsReserved'
  BY DEF TypeOK, SpawnIsReserved, HasSession, KeepsSession, Holds, DueIsExpired, ShutdownDue,
         Handlers, Attachments
<1>4. DueIsExpired'
  BY DEF TypeOK, DueIsExpired, ShutdownDue, KeepsSession, Holds, Handlers, Attachments,
         HasSession
<1>5. StartIsOwned'
  BY DEF TypeOK, StartIsOwned, Reserved, HasSession, KeepsSession, Holds, Handlers
<1>6. QED
  BY <1>1, <1>2, <1>3, <1>4, <1>5

\* ResumeExpired keeps the invariant of the children.
LEMMA ResumeExpiredO ==
    ASSUME OInv, NEW c \in Conns, NEW s \in Sessions, ResumeExpired(c, s), RInv' PROVE OInv'
<1> USE SessionConstants DEF OInv, RInv, ResumeExpired, IsExpired, session, processes
<1>1. AliveIsRunning'
  BY DEF TypeOK, AliveIsRunning, HasSession
<1>2. EntryIsKept'
  <2>1. \A d \in Conns : conn[d].at # "open" => conn'[d] = conn[d]
    BY DEF TypeOK
  <2>2. conn'[c].at = "expired" /\ conn'[c].session = s
    BY DEF TypeOK, Handlers
  <2>3. \A z \in Sessions : ShutdownDue(z) => ShutdownDue(z)'
    BY <2>1 DEF ShutdownDue
  <2>4. ShutdownDue(s)'
    BY <2>2 DEF ShutdownDue
  <2>5. QED
    BY <2>3, <2>4 DEF EntryIsKept
<1>3. SpawnIsReserved'
  BY DEF TypeOK, SpawnIsReserved, HasSession, KeepsSession, Holds, DueIsExpired, ShutdownDue,
         Handlers, Attachments
<1>4. DueIsExpired'
  BY DEF TypeOK, DueIsExpired, ShutdownDue, KeepsSession, Holds, Handlers, Attachments,
         HasSession
<1>5. StartIsOwned'
  <2>1. \A d \in Conns : conn[d].at # "open" => conn'[d] = conn[d]
    BY DEF TypeOK
  <2>2. entry' = entry /\ StartIsOwned
    OBVIOUS
  <2>3. ASSUME NEW z \in Sessions, NEW q \in Procs, entry'[z][q] = "Starting"
        PROVE  \E d \in Conns : Reserved(d, z, q)'
    <3>1. PICK d \in Conns : Reserved(d, z, q)
      BY <2>2, <2>3 DEF StartIsOwned
    <3>2. conn'[d] = conn[d]
      BY <2>1, <3>1 DEF Reserved
    <3>3. QED
      BY <3>1, <3>2 DEF Reserved
  <2>4. QED
    BY <2>3 DEF StartIsOwned
<1>6. QED
  BY <1>1, <1>2, <1>3, <1>4, <1>5

\* ShutdownExpired keeps the invariant of the children.
LEMMA ShutdownExpiredO ==
    ASSUME OInv, NEW c \in Conns, ShutdownExpired(c), RInv' PROVE OInv'
<1> USE SessionConstants DEF OInv, RInv, ShutdownExpired, Emptied, Terminated, session, processes
<1>1. AliveIsRunning'
  BY DEF TypeOK, AliveIsRunning, HasSession
<1>2. EntryIsKept'
  <2> SUFFICES ASSUME NEW z \in Sessions, NEW q \in Procs, entry'[z][q] # "none"
               PROVE  z \in registry' \/ ShutdownDue(z)'
    BY DEF EntryIsKept
  <2>1. conn[c].session \in Sessions
    BY DEF HasSession
  <2>2. z # conn[c].session /\ entry[z][q] # "none"
    BY <2>1 DEF TypeOK
  <2>3. UNCHANGED <<registry, expiring>>
    OBVIOUS
  <2>4. \A d \in Conns \ {c} : conn'[d] = conn[d]
    BY DEF TypeOK
  <2>5. z \in registry \/ ShutdownDue(z)
    BY <2>2 DEF EntryIsKept
  <2> HIDE DEF OInv, RInv, ShutdownExpired
  <2>6. ShutdownDue(z) => ShutdownDue(z)'
    BY <2>2, <2>3, <2>4 DEF ShutdownDue
  <2>7. QED
    BY <2>3, <2>5, <2>6
<1>3. SpawnIsReserved'
  <2> SUFFICES ASSUME NEW d \in Conns, conn'[d].at = "spawning"
               PROVE  entry'[conn'[d].session][conn'[d].serving] = "Starting"
    BY DEF SpawnIsReserved
  <2>1. conn'[d] = conn[d]
    BY DEF TypeOK, Handlers
  <2>2. conn[d].session \in registry /\ conn[d].session \in Sessions
    BY <2>1 DEF HasSession, KeepsSession, Holds
  <2>3. conn[c].session \in Sessions /\ conn[c].session \notin registry
    BY DEF HasSession, DueIsExpired, ShutdownDue
  <2>4. entry'[conn[d].session] = entry[conn[d].session]
    BY <2>2, <2>3 DEF TypeOK
  <2>5. QED
    BY <2>1, <2>4 DEF SpawnIsReserved
<1>4. DueIsExpired'
  BY SMTT(60) DEF TypeOK, DueIsExpired, ShutdownDue, KeepsSession, Holds, Handlers, Attachments,
         HasSession
<1>5. StartIsOwned'
  BY SMTT(60) DEF TypeOK, StartIsOwned, Reserved, HasSession, KeepsSession, Holds, Handlers
<1>6. QED
  BY <1>1, <1>2, <1>3, <1>4, <1>5

\* Initialized keeps the invariant of the children.
LEMMA InitializedO ==
    ASSUME OInv, NEW c \in Conns, Initialized(c), RInv' PROVE OInv'
<1> USE SessionConstants DEF OInv, RInv, Initialized, session, processes
<1>1. AliveIsRunning'
  BY DEF TypeOK, AliveIsRunning, HasSession
<1>2. EntryIsKept'
  BY DEF TypeOK, EntryIsKept, ShutdownDue, HasSession, KeepsSession, Holds, Handlers,
         Attachments
<1>3. SpawnIsReserved'
  BY DEF TypeOK, SpawnIsReserved, HasSession, KeepsSession, Holds, DueIsExpired, ShutdownDue,
         Handlers, Attachments
<1>4. DueIsExpired'
  BY DEF TypeOK, DueIsExpired, ShutdownDue, KeepsSession, Holds, Handlers, Attachments,
         HasSession
<1>5. StartIsOwned'
  BY DEF TypeOK, StartIsOwned, Reserved, HasSession, KeepsSession, Holds, Handlers
<1>6. QED
  BY <1>1, <1>2, <1>3, <1>4, <1>5

\* Disconnect keeps the invariant of the children.
LEMMA DisconnectO ==
    ASSUME OInv, NEW c \in Conns, Disconnect(c), RInv' PROVE OInv'
<1> USE SessionConstants DEF OInv, RInv, Disconnect, Goto, session, processes
<1>1. AliveIsRunning'
  BY DEF TypeOK, AliveIsRunning, HasSession
<1>2. EntryIsKept'
  BY DEF TypeOK, EntryIsKept, ShutdownDue, HasSession, KeepsSession, Holds, Handlers,
         Attachments
<1>3. SpawnIsReserved'
  BY DEF TypeOK, SpawnIsReserved, HasSession, KeepsSession, Holds, DueIsExpired, ShutdownDue,
         Handlers, Attachments
<1>4. DueIsExpired'
  BY DEF TypeOK, DueIsExpired, ShutdownDue, KeepsSession, Holds, Handlers, Attachments,
         HasSession
<1>5. StartIsOwned'
  BY DEF TypeOK, StartIsOwned, Reserved, HasSession, KeepsSession, Holds, Handlers
<1>6. QED
  BY <1>1, <1>2, <1>3, <1>4, <1>5

\* RequestDropped keeps the invariant of the children.
LEMMA RequestDroppedO ==
    ASSUME OInv, NEW c \in Conns, RequestDropped(c), RInv' PROVE OInv'
<1> USE SessionConstants DEF OInv, RInv, RequestDropped, Goto, session, processes
<1>0. \A d \in Conns :
        /\ conn'[d].session = conn[d].session /\ conn'[d].serving = conn[d].serving
        /\ conn'[d].at = "spawning" => conn[d].at = "spawning"
        /\ conn'[d].at \in {"expired", "lost"} <=> conn[d].at \in {"expired", "lost"}
        /\ conn[d].at \in {"spawning", "closing", "clear", "gone"} =>
              conn'[d].at \in {"spawning", "closing", "clear", "gone"}
  <2>1. PICK x \in {"closing", "lost"} :
          /\ conn' = [conn EXCEPT ![c].at = x]
          /\ x = "closing" <=> conn[c].at = "spawning"
    OBVIOUS
  <2>2. QED
    BY <2>1 DEF TypeOK, Handlers
<1>a. \A z \in Sessions : ShutdownDue(z) <=> ShutdownDue(z)'
  BY <1>0 DEF ShutdownDue
<1>1. AliveIsRunning'
  BY DEF AliveIsRunning
<1>2. EntryIsKept'
  BY <1>a DEF EntryIsKept
<1>3. SpawnIsReserved'
  BY <1>0 DEF SpawnIsReserved
<1>4. DueIsExpired'
  BY <1>a DEF DueIsExpired
<1>5. StartIsOwned'
  BY <1>0 DEF StartIsOwned, Reserved
<1>6. QED
  BY <1>1, <1>2, <1>3, <1>4, <1>5

\* Detach keeps the invariant of the children.
LEMMA DetachO ==
    ASSUME OInv, NEW c \in Conns, Detach(c), RInv' PROVE OInv'
<1> USE SessionConstants DEF OInv, RInv, Detach, Goto, session, processes
<1>0. \A d \in Conns :
        /\ conn'[d].session = conn[d].session /\ conn'[d].serving = conn[d].serving
        /\ conn'[d].at = "spawning" <=> conn[d].at = "spawning"
        /\ conn'[d].at \in {"expired", "lost"} <=> conn[d].at \in {"expired", "lost"}
        /\ conn[d].at \in {"spawning", "closing", "clear", "gone"} =>
              conn'[d].at \in {"spawning", "closing", "clear", "gone"}
  <2>1. PICK x \in {"clear", "gone"} : conn' = [conn EXCEPT ![c].at = x]
    OBVIOUS
  <2>2. QED
    BY <2>1 DEF TypeOK, Handlers
<1>a. \A z \in Sessions : ShutdownDue(z) <=> ShutdownDue(z)'
  BY <1>0 DEF ShutdownDue
<1>b. \A z \in Sessions : attachment'[z] # attachment[z] => z \in registry
  <2>1. CASE conn[c].session # NoSession /\ attachment[conn[c].session].current = c
    <3>1. conn[c].session \in registry
      BY <2>1 DEF TypeOK, Handlers, KeepsSession, Holds
    <3>2. attachment' = [attachment EXCEPT ![conn[c].session] =
                            [current |-> NoConn, detached |-> c, left |-> Ttl]]
      BY <2>1
    <3>3. QED
      BY <3>1, <3>2 DEF TypeOK
  <2>2. CASE ~(conn[c].session # NoSession /\ attachment[conn[c].session].current = c)
    BY <2>2
  <2>3. QED
    BY <2>1, <2>2
<1>c. UNCHANGED <<registry, entry, child>>
  OBVIOUS
<1>1. AliveIsRunning'
  BY DEF TypeOK, AliveIsRunning, HasSession
<1>2. EntryIsKept'
  BY <1>a, <1>c DEF EntryIsKept
<1>3. SpawnIsReserved'
  BY <1>0, <1>c DEF SpawnIsReserved
<1>4. DueIsExpired'
  BY <1>a, <1>b, <1>c DEF DueIsExpired
<1>5. StartIsOwned'
  BY <1>0, <1>c DEF StartIsOwned, Reserved
<1>6. QED
  BY <1>1, <1>2, <1>3, <1>4, <1>5

\* ClearSender keeps the invariant of the children.
LEMMA ClearSenderO ==
    ASSUME OInv, NEW c \in Conns, ClearSender(c), RInv' PROVE OInv'
<1> USE SessionConstants DEF OInv, RInv, ClearSender, Goto, session, processes
<1>1. AliveIsRunning'
  BY DEF TypeOK, AliveIsRunning, HasSession
<1>2. EntryIsKept'
  <2>1. \A d \in Conns : conn[d].at \in {"expired", "lost"} => conn'[d] = conn[d]
    BY DEF TypeOK
  <2>2. \A z \in Sessions : ShutdownDue(z) => ShutdownDue(z)'
    BY <2>1 DEF ShutdownDue
  <2>3. QED
    BY <2>2 DEF EntryIsKept
<1>3. SpawnIsReserved'
  BY DEF TypeOK, SpawnIsReserved, HasSession, KeepsSession, Holds, DueIsExpired, ShutdownDue,
         Handlers, Attachments
<1>4. DueIsExpired'
  BY DEF TypeOK, DueIsExpired, ShutdownDue, KeepsSession, Holds, Handlers, Attachments,
         HasSession
<1>5. StartIsOwned'
  BY DEF TypeOK, StartIsOwned, Reserved, HasSession, KeepsSession, Holds, Handlers
<1>6. QED
  BY <1>1, <1>2, <1>3, <1>4, <1>5

\* ChildExits keeps the invariant of the children.
LEMMA ChildExitsO ==
    ASSUME OInv, NEW s \in Sessions, NEW p \in Procs, ChildExits(s, p), RInv' PROVE OInv'
<1> USE SessionConstants DEF OInv, RInv, ChildExits, session, processes
<1>1. AliveIsRunning'
  BY DEF TypeOK, AliveIsRunning, HasSession
<1>2. EntryIsKept'
  BY DEF TypeOK, EntryIsKept, ShutdownDue, HasSession, KeepsSession, Holds, Handlers,
         Attachments
<1>3. SpawnIsReserved'
  BY DEF TypeOK, SpawnIsReserved, HasSession, KeepsSession, Holds, DueIsExpired, ShutdownDue,
         Handlers, Attachments
<1>4. DueIsExpired'
  BY DEF TypeOK, DueIsExpired, ShutdownDue, KeepsSession, Holds, Handlers, Attachments,
         HasSession
<1>5. StartIsOwned'
  BY DEF TypeOK, StartIsOwned, Reserved, HasSession, KeepsSession, Holds, Handlers
<1>6. QED
  BY <1>1, <1>2, <1>3, <1>4, <1>5

\* Closes keeps the invariant of the children.
LEMMA ClosesO ==
    ASSUME OInv, NEW s \in Sessions, NEW p \in Procs, Closes(s, p), RInv' PROVE OInv'
<1> USE SessionConstants DEF OInv, RInv, Closes, session, processes
<1>1. AliveIsRunning'
  BY DEF TypeOK, AliveIsRunning, HasSession
<1>2. EntryIsKept'
  BY DEF TypeOK, EntryIsKept, ShutdownDue, HasSession, KeepsSession, Holds, Handlers,
         Attachments
<1>3. SpawnIsReserved'
  BY DEF TypeOK, SpawnIsReserved, HasSession, KeepsSession, Holds, DueIsExpired, ShutdownDue,
         Handlers, Attachments
<1>4. DueIsExpired'
  BY DEF TypeOK, DueIsExpired, ShutdownDue, KeepsSession, Holds, Handlers, Attachments,
         HasSession
<1>5. StartIsOwned'
  BY DEF TypeOK, StartIsOwned, Reserved, HasSession, KeepsSession, Holds, Handlers
<1>6. QED
  BY <1>1, <1>2, <1>3, <1>4, <1>5

\* Cleanup keeps the invariant of the children.
LEMMA CleanupO ==
    ASSUME OInv, NEW s \in Sessions, NEW p \in Procs, Cleanup(s, p), RInv' PROVE OInv'
<1> USE SessionConstants DEF OInv, RInv, Cleanup, session, processes
<1>1. AliveIsRunning'
  BY DEF TypeOK, AliveIsRunning, HasSession
<1>2. EntryIsKept'
  BY DEF TypeOK, EntryIsKept, ShutdownDue, HasSession, KeepsSession, Holds, Handlers,
         Attachments
<1>3. SpawnIsReserved'
  BY DEF TypeOK, SpawnIsReserved, HasSession, KeepsSession, Holds, DueIsExpired, ShutdownDue,
         Handlers, Attachments
<1>4. DueIsExpired'
  BY DEF TypeOK, DueIsExpired, ShutdownDue, KeepsSession, Holds, Handlers, Attachments,
         HasSession
<1>5. StartIsOwned'
  BY DEF TypeOK, StartIsOwned, Reserved, HasSession, KeepsSession, Holds, Handlers
<1>6. QED
  BY <1>1, <1>2, <1>3, <1>4, <1>5

\* TimerFires keeps the invariant of the children.
LEMMA TimerFiresO ==
    ASSUME OInv, NEW t \in timers, TimerFires(t), RInv' PROVE OInv'
<1> USE SessionConstants DEF OInv, RInv, TimerFires, Expires, session, processes
<1>1. AliveIsRunning'
  BY DEF TypeOK, AliveIsRunning, HasSession
<1>2. EntryIsKept'
  BY DEF TypeOK, EntryIsKept, ShutdownDue, HasSession, KeepsSession, Holds, Handlers,
         Attachments
<1>3. SpawnIsReserved'
  BY DEF TypeOK, SpawnIsReserved, HasSession, KeepsSession, Holds, DueIsExpired, ShutdownDue,
         Handlers, Attachments
<1>4. DueIsExpired'
  BY DEF TypeOK, DueIsExpired, ShutdownDue, KeepsSession, Holds, Handlers, Attachments,
         HasSession
<1>5. StartIsOwned'
  BY DEF TypeOK, StartIsOwned, Reserved, HasSession, KeepsSession, Holds, Handlers
<1>6. QED
  BY <1>1, <1>2, <1>3, <1>4, <1>5

\* ShutdownSession keeps the invariant of the children.
LEMMA ShutdownSessionO ==
    ASSUME OInv, NEW s \in Sessions, ShutdownSession(s), RInv' PROVE OInv'
<1> USE SessionConstants DEF OInv, RInv, ShutdownSession, Emptied, Terminated, session, processes
<1>1. AliveIsRunning'
  BY DEF TypeOK, AliveIsRunning, HasSession
<1>2. EntryIsKept'
  BY DEF TypeOK, EntryIsKept, ShutdownDue, HasSession, KeepsSession, Holds, Handlers,
         Attachments
<1>3. SpawnIsReserved'
  <2> SUFFICES ASSUME NEW d \in Conns, conn[d].at = "spawning"
               PROVE  entry'[conn[d].session][conn[d].serving] = "Starting"
    BY DEF SpawnIsReserved
  <2>1. conn[d].session \in registry /\ conn[d].session \in Sessions
    BY DEF HasSession, KeepsSession, Holds
  <2>2. s \notin registry
    BY DEF DueIsExpired, ShutdownDue
  <2>3. entry'[conn[d].session] = entry[conn[d].session]
    BY <2>1, <2>2 DEF TypeOK
  <2>4. QED
    BY <2>3 DEF SpawnIsReserved
<1>4. DueIsExpired'
  BY DEF TypeOK, DueIsExpired, ShutdownDue, KeepsSession, Holds, Handlers, Attachments,
         HasSession
<1>5. StartIsOwned'
  BY DEF TypeOK, StartIsOwned, Reserved, HasSession, KeepsSession, Holds, Handlers
<1>6. QED
  BY <1>1, <1>2, <1>3, <1>4, <1>5

\* Tick keeps the invariant of the children.
LEMMA TickO == ASSUME OInv, Tick, RInv' PROVE OInv'
<1> USE DEF OInv, RInv, Tick, processes
<1>1. \A s \in Sessions : ShutdownDue(s) <=> ShutdownDue(s)'
  BY DEF ShutdownDue
<1>2. \A s \in Sessions : attachment[s].left = 0 => attachment'[s].left = 0
  BY DEF TypeOK, Attachments, Less
<1>3. DueIsExpired'
  BY <1>1, <1>2 DEF DueIsExpired
<1>4. QED
  BY <1>1, <1>3 DEF AliveIsRunning, EntryIsKept, SpawnIsReserved, StartIsOwned, Reserved

\* The initial state has no process.
LEMMA InitOwned == Init => OInv
BY InitRegistry DEF Init, OInv, AliveIsRunning, EntryIsKept, SpawnIsReserved, DueIsExpired,
                    ShutdownDue, StartIsOwned, Reserved

\* Every step keeps children, reservations and sessions in line.
LEMMA StepOwned == OInv /\ [Next]_vars => OInv'
<1> SUFFICES ASSUME OInv, [Next]_vars PROVE OInv'
  OBVIOUS
<1>1. RInv'
  BY StepRegistry DEF OInv
<1>2. CASE UNCHANGED vars
  BY <1>1, <1>2 DEF OInv, vars, session, processes, AliveIsRunning, EntryIsKept,
                    SpawnIsReserved, DueIsExpired, ShutdownDue, StartIsOwned, Reserved
<1>3. ASSUME NEW c \in Conns, ConnStep(c) PROVE OInv'
  BY <1>1, <1>3, AttachNewO, ResumeO, ResumeExpiredO, ShutdownExpiredO, InitializedO,
     StartProcessO, TerminateProcessO, SpawnedO, SpawnFailsO, DisconnectO, RequestDroppedO,
     DetachO, ClearSenderO DEF ConnStep
<1>4. QED
  BY <1>1, <1>2, <1>3, ChildExitsO, ClosesO, CleanupO, TimerFiresO, ShutdownSessionO, TickO
     DEF Next

\* No child outlives its session, except by a request dropped half way: the step that
\* takes a session out of the registry leaves its shutdown to somebody, and only that
\* shutdown takes the children's entries away.
THEOREM NoOrphanTheorem == Spec => []NoOrphan
<1>1. OInv => NoOrphan
  BY DEF OInv, AliveIsRunning, EntryIsKept, NoOrphan
<1>2. QED
  BY <1>1, StepOwned, InitOwned, PTL DEF Spec

\* A reserved process id is being started, or its request was dropped half way: the
\* reservation ends with the connection's request.
THEOREM StartIsOwnedTheorem == Spec => []StartIsOwned
<1>1. OInv => StartIsOwned
  BY DEF OInv
<1>2. QED
  BY <1>1, StepOwned, InitOwned, PTL DEF Spec

=============================================================================
