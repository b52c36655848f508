--------------------------- MODULE CommandLogProofs --------------------------
(***************************************************************************)
(* Proofs about what the decider lets into the log, for any projects,      *)
(* threads and commands, however many and whatever they ask for.           *)
(***************************************************************************)
EXTENDS CommandLog, SequenceTheorems, FiniteSetTheorems, TLAPS

Markers == {"thread.created", "thread.archived", "thread.unarchived"}

\* What a thread's history says of event i: nothing comes before its creation ...
CreatedFirst(i, t) ==
    log[i].body.thread = t =>
        IF log[i].body.type = "thread.created"
        THEN \A j \in 1..(i - 1) : log[j].body.thread # t
        ELSE \E j \in 1..(i - 1) :
                log[j].body.thread = t /\ log[j].body.type = "thread.created"

\* ... and it is archived when it is not, and unarchived when it is.
Alternates(i, t) ==
    /\ At(i, "thread.archived", t) =>
          \A j \in 1..(i - 1) : At(j, "thread.archived", t) =>
              \E k \in (j + 1)..(i - 1) : At(k, "thread.unarchived", t)
    /\ At(i, "thread.unarchived", t) =>
          \E j \in 1..(i - 1) :
              /\ At(j, "thread.archived", t)
              /\ \A k \in (j + 1)..(i - 1) : ~At(k, "thread.unarchived", t)

Histories == \A t \in Threads, i \in 1..Len(log) : CreatedFirst(i, t) /\ Alternates(i, t)

\* A thread is created in a project.
InProjects ==
    \A i \in 1..Len(log) : log[i].body.type = "thread.created" =>
        \E t \in Threads, p \in Projects : log[i].body = ThreadCreated(t, p)

LogInv == TypeOK /\ InProjects /\ Histories /\ DeletionCascades

-----------------------------------------------------------------------------
(* The shapes of a decision. *)

\* Events on existing threads and on projects.
Plain(rm, d) ==
    \A i \in 1..Len(d) :
        /\ d[i].type \notin Markers
        /\ d[i].thread = NoThread \/ ThreadExists(rm, d[i].thread)

Creates(rm, c, d) ==
    /\ ~ThreadExists(rm, c.thread)
    /\ Len(d) >= 1 /\ d[1] = ThreadCreated(c.thread, c.project)
    /\ \A i \in 2..Len(d) : d[i] = ThreadEvent("thread.message-sent", c.thread)

Archives(rm, c, d) ==
    /\ ThreadExists(rm, c.thread) /\ ~ThreadArchived(rm, c.thread)
    /\ Len(d) = 1 /\ d[1] = ThreadEvent("thread.archived", c.thread)

Unarchives(rm, c, d) ==
    /\ ThreadExists(rm, c.thread) /\ ThreadArchived(rm, c.thread)
    /\ Len(d) = 1 /\ d[1] = ThreadEvent("thread.unarchived", c.thread)

\* The active threads of a project, then the project.
DeletesAll(rm, p, d) ==
    \E s \in InCreationOrder(rm, ActiveThreads(rm, p)) :
        LET n == Cardinality(ActiveThreads(rm, p)) IN
        /\ n \in Nat /\ s \in [1..n -> ActiveThreads(rm, p)]
        /\ Len(d) = n + 1 /\ d[n + 1] = ProjectEvent("project.deleted", p)
        /\ \A i \in 1..n : d[i] = ThreadEvent("thread.deleted", s[i])

NoDeletion(d) == \A i \in 1..Len(d) : d[i].type # "project.deleted"

LEMMA EventBodies ==
    /\ \A t \in Threads, k \in EventTypes :
          ThreadEvent(k, t) \in Body /\ <<ThreadEvent(k, t)>> \in Seq(Body)
    /\ \A p \in Projects, k \in EventTypes :
          ProjectEvent(k, p) \in Body /\ <<ProjectEvent(k, p)>> \in Seq(Body)
    /\ \A t \in Threads, p \in Projects : ThreadCreated(t, p) \in Body
<1>1. \A t \in Threads, k \in EventTypes : ThreadEvent(k, t) \in Body
  BY DEF ThreadEvent, Body
<1>2. \A p \in Projects, k \in EventTypes : ProjectEvent(k, p) \in Body
  BY DEF ProjectEvent, Body
<1>3. \A t \in Threads, p \in Projects : ThreadCreated(t, p) \in Body
  BY DEF ThreadCreated, Body, EventTypes
<1>4. \A e \in Body : <<e>> \in Seq(Body)
  OBVIOUS
<1>. QED  BY <1>1, <1>2, <1>3, <1>4

\* The one event of a command on an existing thread is neither a creation nor an
\* archiving, nor is anything deleted by it.
LEMMA RecordedEvents ==
    ASSUME NEW type, NEW e, <<type, e>> \in FieldEvents \cup TurnEvents
    PROVE  e \in EventTypes /\ e \notin Markers /\ e # "project.deleted"
<1>1. e \in EventTypes
  BY DEF EventTypes
<1>2. e \notin Markers /\ e # "project.deleted"
  BY DEF FieldEvents, TurnEvents, Markers
<1>. QED  BY <1>1, <1>2

LEMMA DeleteProjectShape ==
    ASSUME NEW rm, NEW c \in CommandContent, NEW d \in DeleteProject(rm, c)
    PROVE  d \in Seq(Body) /\ DeletesAll(rm, c.project, d)
<1>. DEFINE S == ActiveThreads(rm, c.project)
            n == Cardinality(S)
<1>1. PICK s \in InCreationOrder(rm, S) :
         d = Append([i \in DOMAIN s |-> ThreadEvent("thread.deleted", s[i])],
                    ProjectEvent("project.deleted", c.project))
  BY Zenon DEF DeleteProject
<1>2. S \subseteq Threads
  BY DEF ActiveThreads
<1>3. n \in Nat
  BY <1>2, DeciderAssumption, FS_Subset, FS_CardinalityType
<1>4. s \in [1..n -> S]
  BY DEF InCreationOrder
<1>. DEFINE deletions == [i \in DOMAIN s |-> ThreadEvent("thread.deleted", s[i])]
<1>5. /\ deletions \in [1..n -> Body]
      /\ \A i \in 1..n : deletions[i] = ThreadEvent("thread.deleted", s[i])
  BY <1>2, <1>4, EventBodies DEF EventTypes
<1>6. d = Append(deletions, ProjectEvent("project.deleted", c.project))
  BY <1>1
<1>7. ProjectEvent("project.deleted", c.project) \in Body
  BY EventBodies DEF EventTypes, CommandContent
<1>. HIDE DEF deletions
<1>8. deletions \in Seq(Body) /\ Len(deletions) = n
  BY <1>3, <1>5
<1>9. /\ d \in Seq(Body) /\ Len(d) = n + 1
      /\ d[n + 1] = ProjectEvent("project.deleted", c.project)
      /\ \A i \in 1..n : d[i] = deletions[i]
  BY <1>6, <1>7, <1>8, AppendProperties
<1>. QED  BY <1>1, <1>3, <1>4, <1>5, <1>9 DEF DeletesAll

LEMMA CreateThreadShape ==
    ASSUME NEW rm, NEW c \in CommandContent, NEW d \in CreateThread(rm, c)
    PROVE  d \in Seq(Body) /\ Creates(rm, c, d)
<1>. DEFINE n == c.seeds + 1
            s == [i \in 1..n |-> IF i = 1 THEN ThreadCreated(c.thread, c.project)
                                  ELSE ThreadEvent("thread.message-sent", c.thread)]
<1>1. d = s /\ ~ThreadExists(rm, c.thread)
  BY DEF CreateThread, When
<1>2. /\ n \in Nat /\ n >= 1
      /\ c.thread \in Threads /\ c.project \in Projects
  BY DEF CommandContent
<1>3. "thread.message-sent" \in EventTypes
  BY DEF EventTypes
<1>4. /\ s \in [1..n -> Body]
      /\ s[1] = ThreadCreated(c.thread, c.project)
      /\ \A i \in 2..n : s[i] = ThreadEvent("thread.message-sent", c.thread)
  BY <1>2, <1>3, EventBodies
<1>. HIDE DEF s, n
<1>5. s \in Seq(Body) /\ Len(s) = n
  BY <1>2, <1>4
<1>. QED  BY <1>1, <1>2, <1>4, <1>5 DEF Creates

LEMMA DecisionShapes ==
    ASSUME NEW rm, NEW c \in CommandContent, NEW d \in Decisions(rm, c)
    PROVE  /\ d \in Seq(Body)
           /\ \/ DeletesAll(rm, c.project, d)
              \/ Plain(rm, d) /\ NoDeletion(d)
              \/ Creates(rm, c, d) \/ Archives(rm, c, d) \/ Unarchives(rm, c, d)
<1>. c.project \in Projects /\ c.thread \in Threads
  BY DEF CommandContent
<1>1. CASE c.type \in {"project.create", "project.meta.update"}
  <2>1. PICK k \in {"project.created", "project.meta-updated"} :
           d = <<ProjectEvent(k, c.project)>>
    BY <1>1 DEF Decisions, CreateProject, UpdateProject, When
  <2>2. k \in EventTypes /\ k \notin Markers /\ k # "project.deleted"
    BY <2>1 DEF EventTypes, Markers
  <2>3. d \in Seq(Body) /\ Len(d) = 1 /\ d[1] = ProjectEvent(k, c.project)
    BY <2>1, <2>2, EventBodies
  <2>. QED  BY <2>2, <2>3 DEF Plain, NoDeletion, ProjectEvent
<1>2. CASE c.type = "project.delete"
  <2>1. Decisions(rm, c) = DeleteProject(rm, c)
    BY <1>2 DEF Decisions
  <2>. QED  BY <2>1, DeleteProjectShape
<1>3. CASE c.type = "thread.create"
  <2>1. Decisions(rm, c) = CreateThread(rm, c)
    BY <1>3 DEF Decisions
  <2>. QED  BY <2>1, CreateThreadShape
<1>4. CASE c.type = "thread.delete"
  <2>1. d = <<ThreadEvent("thread.deleted", c.thread)>> /\ ThreadExists(rm, c.thread)
    BY <1>4 DEF Decisions, DeleteThread, When
  <2>2. d \in Seq(Body) /\ Len(d) = 1 /\ d[1] = ThreadEvent("thread.deleted", c.thread)
    BY <2>1, EventBodies DEF EventTypes
  <2>. QED  BY <2>1, <2>2 DEF Plain, NoDeletion, ThreadEvent, Markers
<1>5. CASE c.type = "thread.archive"
  <2>1. /\ d = <<ThreadEvent("thread.archived", c.thread)>>
        /\ ThreadExists(rm, c.thread) /\ ~ThreadArchived(rm, c.thread)
    BY <1>5 DEF Decisions, ArchiveThread, When
  <2>2. d \in Seq(Body) /\ Len(d) = 1 /\ d[1] = ThreadEvent("thread.archived", c.thread)
    BY <2>1, EventBodies DEF EventTypes
  <2>. QED  BY <2>1, <2>2 DEF Archives
<1>6. CASE c.type = "thread.unarchive"
  <2>1. /\ d = <<ThreadEvent("thread.unarchived", c.thread)>>
        /\ ThreadExists(rm, c.thread) /\ ThreadArchived(rm, c.thread)
    BY <1>6 DEF Decisions, UnarchiveThread, When
  <2>2. d \in Seq(Body) /\ Len(d) = 1 /\ d[1] = ThreadEvent("thread.unarchived", c.thread)
    BY <2>1, EventBodies DEF EventTypes
  <2>. QED  BY <2>1, <2>2 DEF Unarchives
<1>7. CASE c.type = "thread.turn.start"
  <2>1. /\ d = <<ThreadEvent("thread.message-sent", c.thread),
                 ThreadEvent("thread.turn-start-requested", c.thread)>>
        /\ ThreadExists(rm, c.thread)
    BY <1>7 DEF Decisions, StartTurn, When
  <2>2. /\ ThreadEvent("thread.message-sent", c.thread) \in Body
        /\ ThreadEvent("thread.turn-start-requested", c.thread) \in Body
    BY EventBodies DEF EventTypes
  <2>3. /\ d \in Seq(Body) /\ Len(d) = 2
        /\ \A i \in 1..Len(d) : \E k \in {"thread.message-sent", "thread.turn-start-requested"} :
              d[i] = ThreadEvent(k, c.thread)
    BY <2>1, <2>2
  <2>. QED  BY <2>1, <2>3 DEF Plain, NoDeletion, ThreadEvent, Markers
<1>8. CASE c.type \notin {"project.create", "project.meta.update", "project.delete",
                          "thread.create", "thread.delete", "thread.archive",
                          "thread.unarchive", "thread.turn.start"}
  <2>1. Decisions(rm, c) = RecordOnThread(rm, c)
    BY <1>8 DEF Decisions
  <2>2. PICK e \in EventTypes :
           /\ d = <<ThreadEvent(e, c.thread)>> /\ ThreadExists(rm, c.thread)
           /\ <<c.type, e>> \in FieldEvents \cup TurnEvents
    BY <2>1 DEF RecordOnThread
  <2>3. e \notin Markers /\ e # "project.deleted"
    BY <2>2, RecordedEvents
  <2>4. d \in Seq(Body) /\ Len(d) = 1 /\ d[1] = ThreadEvent(e, c.thread)
    BY <2>2, EventBodies
  <2>. QED  BY <2>2, <2>3, <2>4 DEF Plain, NoDeletion, ThreadEvent
<1>. QED  BY <1>1, <1>2, <1>3, <1>4, <1>5, <1>6, <1>7, <1>8

-----------------------------------------------------------------------------
(* The log after a command. *)

LEMMA AppendedLog ==
    ASSUME TypeOK, NEW c \in Commands, NEW d \in Seq(Body), log' = log \o Saved(Len(log), c, d)
    PROVE  /\ log' \in Seq(Event) /\ Len(log) \in Nat /\ Len(d) \in Nat
           /\ Len(log') = Len(log) + Len(d)
           /\ DOMAIN log = 1..Len(log) /\ DOMAIN log' = 1..Len(log')
           /\ \A i \in 1..Len(log) : i \in 1..Len(log') /\ log'[i] = log[i]
           /\ \A k \in 1..Len(d) :
                 Len(log) + k \in 1..Len(log') /\ log'[Len(log) + k].body = d[k]
           /\ \A i \in 1..Len(log') :
                 i \in 1..Len(log) \/ \E k \in 1..Len(d) : i = Len(log) + k
<1>. DEFINE new == Saved(Len(log), c, d)
<1>1. /\ log \in Seq(Event) /\ Len(log) \in Nat /\ Len(d) \in Nat
      /\ DOMAIN log = 1..Len(log) /\ DOMAIN d = 1..Len(d)
      /\ \A k \in 1..Len(d) : d[k] \in Body
  BY LenProperties, ElementOfSeq DEF TypeOK
<1>2. /\ new \in [1..Len(d) -> Event]
      /\ \A k \in 1..Len(d) : new[k].body = d[k]
  BY <1>1 DEF Saved, Event
<1>. HIDE DEF new
<1>3. new \in Seq(Event) /\ Len(new) = Len(d)
  BY <1>1, <1>2
<1>4. log' = log \o new
  BY DEF new
<1>5. /\ log' \in Seq(Event)
      /\ Len(log') = Len(log) + Len(new)
      /\ \A i \in 1..Len(log) + Len(new) :
            log'[i] = IF i <= Len(log) THEN log[i] ELSE new[i - Len(log)]
  <2>1. log \in Seq(Event) /\ new \in Seq(Event)
    BY <1>1, <1>3
  <2>2. /\ log \o new \in Seq(Event)
        /\ Len(log \o new) = Len(log) + Len(new)
        /\ \A i \in 1..Len(log) + Len(new) :
              (log \o new)[i] = IF i <= Len(log) THEN log[i] ELSE new[i - Len(log)]
    BY ONLY <2>1, ConcatProperties, Zenon
  <2>. QED  BY ONLY <1>4, <2>2
<1>6. DOMAIN log' = 1..Len(log')
  BY <1>5, LenProperties
<1>7. \A i \in 1..Len(log) : i \in 1..Len(log') /\ log'[i] = log[i]
  BY <1>1, <1>3, <1>5
<1>8. ASSUME NEW k \in 1..Len(d)
      PROVE  Len(log) + k \in 1..Len(log') /\ log'[Len(log) + k].body = d[k]
  <2>. DEFINE i == Len(log) + k
  <2>1. i \in 1..Len(log) + Len(new) /\ ~(i <= Len(log)) /\ i - Len(log) = k
    BY <1>1, <1>3
  <2>. HIDE DEF i
  <2>2. log'[i] = new[k] /\ i \in 1..Len(log')
    BY <2>1, <1>5
  <2>3. new[k].body = d[k]
    BY <1>2
  <2>. QED  BY <2>2, <2>3 DEF i
<1>9. ASSUME NEW i \in 1..Len(log'), i \notin 1..Len(log)
      PROVE  \E k \in 1..Len(d) : i = Len(log) + k
  <2>1. i - Len(log) \in 1..Len(d) /\ i = Len(log) + (i - Len(log))
    BY <1>1, <1>3, <1>5, <1>9
  <2>. QED  BY <2>1
<1>. QED  BY <1>1, <1>3, <1>5, <1>6, <1>7, <1>8, <1>9

\* The log only grows.
Grows ==
    /\ Len(log) \in Nat /\ Len(log') \in Nat
    /\ DOMAIN log = 1..Len(log) /\ DOMAIN log' = 1..Len(log')
    /\ \A i \in 1..Len(log) : i \in 1..Len(log') /\ log'[i] = log[i]

LEMMA OldHistories ==
    ASSUME LogInv, Grows, NEW i \in 1..Len(log), NEW t \in Threads
    PROVE  CreatedFirst(i, t)' /\ Alternates(i, t)'
<1>1. i \in Nat /\ log'[i] = log[i]
      /\ \A j \in 1..(i - 1) : j \in 1..Len(log) /\ log'[j] = log[j]
  BY DEF Grows
<1>2. CreatedFirst(i, t) /\ Alternates(i, t)
  BY DEF LogInv, Histories
<1>3. CreatedFirst(i, t)'
  BY <1>1, <1>2 DEF CreatedFirst
<1>4. \A type : /\ At(i, type, t)' <=> At(i, type, t)
                /\ \A j \in 1..(i - 1) : At(j, type, t)' <=> At(j, type, t)
  BY <1>1 DEF At
<1>5. \A j \in 1..(i - 1) : \A k \in (j + 1)..(i - 1) : k \in 1..(i - 1)
  BY <1>1
<1>6. Alternates(i, t)'
  BY <1>2, <1>4, <1>5 DEF Alternates
<1>. QED  BY <1>3, <1>6

\* A thread that exists has been created.
LEMMA CreatedBeforeEnd ==
    ASSUME Grows, NEW t \in Threads, ThreadExists(log, t), NEW i \in Nat, i > Len(log)
    PROVE  \E j \in 1..(i - 1) :
              log'[j].body.thread = t /\ log'[j].body.type = "thread.created"
<1>1. PICK j \in 1..Len(log), p \in Projects : log[j].body = ThreadCreated(t, p)
  BY DEF ThreadExists, InProject, Grows
<1>2. j \in 1..(i - 1) /\ log'[j] = log[j]
  BY DEF Grows
<1>. QED  BY <1>1, <1>2 DEF ThreadCreated

\* Nothing has happened to a thread that does not exist.
LEMMA NothingBefore ==
    ASSUME LogInv, Grows, NEW t \in Threads, ~ThreadExists(log, t), NEW j \in 1..Len(log)
    PROVE  log[j].body.thread # t
<1>. SUFFICES ASSUME log[j].body.thread = t PROVE FALSE
  OBVIOUS
<1>1. PICK k \in 1..Len(log) : log[k].body.thread = t /\ log[k].body.type = "thread.created"
  BY DEF LogInv, Histories, CreatedFirst, Grows
<1>2. PICK u \in Threads, p \in Projects : log[k].body = ThreadCreated(u, p)
  BY <1>1 DEF LogInv, InProjects
<1>3. u = t
  BY <1>1, <1>2 DEF ThreadCreated
<1>. QED  BY <1>1, <1>2, <1>3 DEF ThreadExists, InProject, Grows

-----------------------------------------------------------------------------
(* The new events. *)

Appends(d) ==
    /\ Grows
    /\ Len(d) \in Nat /\ Len(log') = Len(log) + Len(d)
    /\ \A k \in 1..Len(d) : Len(log) + k \in 1..Len(log') /\ log'[Len(log) + k].body = d[k]
    /\ \A i \in 1..Len(log') : i \in 1..Len(log) \/ \E k \in 1..Len(d) : i = Len(log) + k

\* An event that is neither a creation nor an archiving fits any history that has
\* a creation.
LEMMA UnmarkedEvent ==
    ASSUME NEW i \in 1..Len(log'), NEW t \in Threads, log'[i].body.type \notin Markers,
           log'[i].body.thread = t =>
               \E j \in 1..(i - 1) :
                  log'[j].body.thread = t /\ log'[j].body.type = "thread.created"
    PROVE  CreatedFirst(i, t)' /\ Alternates(i, t)'
BY DEF CreatedFirst, Alternates, At, ThreadEvent, Markers

LEMMA PlainInv ==
    ASSUME LogInv, NEW d, Appends(d), Plain(log, d)
    PROVE  InProjects' /\ Histories'
<1>1. ASSUME NEW i \in 1..Len(log'), NEW t \in Threads
      PROVE  CreatedFirst(i, t)' /\ Alternates(i, t)'
  <2>1. CASE i \in 1..Len(log)
    BY <2>1, OldHistories DEF Appends
  <2>2. CASE \E k \in 1..Len(d) : i = Len(log) + k
    <3>1. PICK k \in 1..Len(d) : i = Len(log) + k
      BY <2>2
    <3>2. log'[i].body = d[k] /\ i \in Nat /\ i > Len(log)
      BY <3>1 DEF Appends, Grows
    <3>3. d[k].type \notin Markers /\ (d[k].thread = t => ThreadExists(log, t))
      BY DeciderAssumption DEF Plain
    <3>4. log'[i].body.thread = t =>
             \E j \in 1..(i - 1) :
                log'[j].body.thread = t /\ log'[j].body.type = "thread.created"
      BY <3>2, <3>3, CreatedBeforeEnd DEF Appends
    <3>5. log'[i].body.type \notin Markers
      BY <3>2, <3>3
    <3>. QED  BY ONLY <3>4, <3>5, UnmarkedEvent, i \in 1..Len(log'), t \in Threads
  <2>. QED  BY <2>1, <2>2 DEF Appends
<1>2. InProjects'
  <2>. SUFFICES ASSUME NEW i \in 1..Len(log'), log'[i].body.type = "thread.created"
                PROVE  \E t \in Threads, p \in Projects : log'[i].body = ThreadCreated(t, p)
    BY DEF InProjects
  <2>1. i \in 1..Len(log)
    BY DEF Appends, Plain, Markers
  <2>. QED  BY <2>1 DEF Appends, Grows, LogInv, InProjects
<1>. QED  BY <1>1, <1>2 DEF Histories

LEMMA CreatesInv ==
    ASSUME LogInv, NEW c \in CommandContent, NEW d, Appends(d), Creates(log, c, d)
    PROVE  InProjects' /\ Histories'
<1>. DEFINE first == Len(log) + 1
<1>1. c.thread \in Threads /\ c.project \in Projects
  BY DEF CommandContent
<1>2. 1 \in 1..Len(d) /\ Len(log) \in Nat /\ Len(d) \in Nat
  BY DEF Creates, Appends, Grows
<1>3. first \in 1..Len(log') /\ log'[first].body = ThreadCreated(c.thread, c.project)
  BY <1>2 DEF Creates, Appends
<1>4. ASSUME NEW i \in 1..Len(log')
      PROVE  \/ i \in 1..Len(log) \/ i = first
             \/ i > first /\ log'[i].body = ThreadEvent("thread.message-sent", c.thread)
  <2>1. CASE \E k \in 1..Len(d) : i = Len(log) + k
    <3>1. PICK k \in 1..Len(d) : i = Len(log) + k
      BY <2>1
    <3>2. log'[i].body = d[k] /\ (k = 1 \/ k \in 2..Len(d))
      BY <1>2, <3>1 DEF Appends
    <3>. QED  BY <1>2, <3>1, <3>2 DEF Creates
  <2>. QED  BY <2>1 DEF Appends
<1>5. ASSUME NEW i \in 1..Len(log'), NEW t \in Threads
      PROVE  CreatedFirst(i, t)' /\ Alternates(i, t)'
  <2>1. CASE i \in 1..Len(log)
    BY <2>1, OldHistories DEF Appends
  <2>2. CASE i = first
    <3>1. \A j \in 1..(i - 1) : j \in 1..Len(log) /\ log'[j] = log[j]
      BY <1>2, <2>2 DEF Appends, Grows
    <3>2. ~ThreadExists(log, c.thread)
      BY DEF Creates
    <3>3. \A j \in 1..(i - 1) : log'[j].body.thread # c.thread
      BY <1>1, <3>1, <3>2, NothingBefore DEF Appends
    <3>4. CreatedFirst(i, t)'
      BY <1>3, <2>2, <3>3 DEF CreatedFirst, ThreadCreated
    <3>5. Alternates(i, t)'
      BY <1>3, <2>2 DEF Alternates, At, ThreadEvent, ThreadCreated
    <3>. QED  BY <3>4, <3>5
  <2>3. CASE i > first /\ log'[i].body = ThreadEvent("thread.message-sent", c.thread)
    <3>1. log'[i].body.type \notin Markers /\ log'[i].body.thread = c.thread
      BY <2>3 DEF ThreadEvent, Markers
    <3>2. first \in 1..(i - 1)
      BY <1>2, <2>3
    <3>3. log'[first].body.thread = c.thread /\ log'[first].body.type = "thread.created"
      BY <1>3 DEF ThreadCreated
    <3>. HIDE DEF first
    <3>. QED  BY <3>1, <3>2, <3>3, UnmarkedEvent
  <2>. QED  BY <2>1, <2>2, <2>3, <1>4
<1>6. InProjects'
  <2>. SUFFICES ASSUME NEW i \in 1..Len(log'), log'[i].body.type = "thread.created"
                PROVE  \E t \in Threads, p \in Projects : log'[i].body = ThreadCreated(t, p)
    BY DEF InProjects
  <2>1. CASE i \in 1..Len(log)
    BY <2>1 DEF Appends, Grows, LogInv, InProjects
  <2>2. CASE i = first
    BY <1>1, <1>3, <2>2
  <2>3. CASE i > first /\ log'[i].body = ThreadEvent("thread.message-sent", c.thread)
    BY <2>3 DEF ThreadEvent
  <2>. QED  BY <2>1, <2>2, <2>3, <1>4
<1>. QED  BY <1>5, <1>6 DEF Histories

\* One event that archives a thread that is not archived, or unarchives one that is.
LEMMA ArchivesInv ==
    ASSUME LogInv, NEW c \in CommandContent, NEW d, Appends(d),
           Archives(log, c, d) \/ Unarchives(log, c, d)
    PROVE  InProjects' /\ Histories'
<1>0. PICK last \in Nat : last = Len(log) + 1
  BY DEF Appends, Grows
<1>1. c.thread \in Threads /\ ThreadExists(log, c.thread)
  BY DEF CommandContent, Archives, Unarchives
<1>2. /\ Len(log) \in Nat /\ last \in Nat /\ last > Len(log) /\ last \in 1..Len(log')
      /\ log'[last].body = d[1]
      /\ \A i \in 1..Len(log') : i \in 1..Len(log) \/ i = last
  <2>1. Len(log) \in Nat /\ Len(d) = 1 /\ 1 \in 1..Len(d)
    BY DEF Archives, Unarchives, Appends, Grows
  <2>2. last > Len(log) /\ last \in 1..Len(log') /\ log'[last].body = d[1]
    BY <1>0, <2>1 DEF Appends
  <2>3. \A i \in 1..Len(log') : i \in 1..Len(log) \/ i = last
    BY <1>0, <2>1 DEF Appends
  <2>. QED  BY <2>1, <2>2, <2>3
<1>3. \A i \in 1..Len(log) : i \in 1..(last - 1) /\ log'[i] = log[i]
  BY <1>2 DEF Appends, Grows
<1>4. \A i \in 1..(last - 1) : i \in 1..Len(log)
  BY <1>2
<1>5. \E j \in 1..(last - 1) :
         log'[j].body.thread = c.thread /\ log'[j].body.type = "thread.created"
  BY <1>1, <1>2, CreatedBeforeEnd DEF Appends
<1>6. ASSUME NEW t \in Threads PROVE CreatedFirst(last, t)'
  <2>1. log'[last].body.thread = c.thread /\ log'[last].body.type # "thread.created"
    BY <1>2 DEF Archives, Unarchives, ThreadEvent
  <2>. QED  BY <2>1, <1>5 DEF CreatedFirst
<1>7. ASSUME NEW t \in Threads PROVE Alternates(last, t)'
  <2>1. CASE Archives(log, c, d)
    <3>1. log'[last].body = ThreadEvent("thread.archived", c.thread)
      BY <1>2, <2>1 DEF Archives
    <3>2. ASSUME t = c.thread, NEW j \in 1..(last - 1), At(j, "thread.archived", t)'
          PROVE  \E k \in (j + 1)..(last - 1) : At(k, "thread.unarchived", t)'
      <4>1. j \in 1..Len(log) /\ log[j].body = ThreadEvent("thread.archived", t)
        BY <1>3, <1>4, <3>2 DEF At
      <4>2. PICK k \in 1..Len(log) :
               log[k].body = ThreadEvent("thread.unarchived", t) /\ ~(k < j)
        BY <2>1, <3>2, <4>1 DEF Archives, ThreadArchived, Appends, Grows
      <4>3. k # j
        BY <4>1, <4>2 DEF ThreadEvent
      <4>4. k \in (j + 1)..(last - 1)
        BY <4>2, <4>3, <1>3
      <4>. QED  BY <4>2, <4>4, <1>3 DEF At
    <3>. QED  BY <3>1, <3>2 DEF Alternates, At, ThreadEvent
  <2>2. CASE Unarchives(log, c, d)
    <3>1. log'[last].body = ThreadEvent("thread.unarchived", c.thread)
      BY <1>2, <2>2 DEF Unarchives
    <3>2. PICK j \in 1..Len(log) :
             /\ log[j].body = ThreadEvent("thread.archived", c.thread)
             /\ \A k \in 1..Len(log) :
                   log[k].body = ThreadEvent("thread.unarchived", c.thread) => k < j
      BY <2>2 DEF Unarchives, ThreadArchived, Appends, Grows
    <3>3. j \in 1..(last - 1) /\ log'[j].body = ThreadEvent("thread.archived", c.thread)
      BY <3>2, <1>3
    <3>4. ASSUME NEW k \in (j + 1)..(last - 1)
          PROVE  log'[k].body # ThreadEvent("thread.unarchived", c.thread)
      <4>1. k \in 1..(last - 1) /\ ~(k < j)
        BY <1>2, <3>3
      <4>. QED  BY <4>1, <1>3, <1>4, <3>2
    <3>. QED  BY <3>1, <3>3, <3>4 DEF Alternates, At, ThreadEvent
  <2>. QED  BY <2>1, <2>2
<1>8. Histories'
  <2>. SUFFICES ASSUME NEW i \in 1..Len(log'), NEW t \in Threads
                PROVE  CreatedFirst(i, t)' /\ Alternates(i, t)'
    BY DEF Histories
  <2>1. CASE i \in 1..Len(log)
    BY <2>1, OldHistories DEF Appends
  <2>2. CASE i = last
    BY <2>2, <1>6, <1>7
  <2>. QED  BY <2>1, <2>2, <1>2
<1>9. InProjects'
  <2>. SUFFICES ASSUME NEW i \in 1..Len(log'), log'[i].body.type = "thread.created"
                PROVE  \E t \in Threads, p \in Projects : log'[i].body = ThreadCreated(t, p)
    BY DEF InProjects
  <2>1. i \in 1..Len(log)
    BY <1>2 DEF Archives, Unarchives, ThreadEvent
  <2>. QED  BY <2>1 DEF Appends, Grows, LogInv, InProjects
<1>. QED  BY <1>8, <1>9

-----------------------------------------------------------------------------
(* The deletion of a project. *)

LEMMA DeletesAllPlain ==
    ASSUME NEW rm, NEW p \in Projects, NEW d, DeletesAll(rm, p, d)
    PROVE  Plain(rm, d)
<1>1. PICK s \in InCreationOrder(rm, ActiveThreads(rm, p)), n \in Nat :
         /\ s \in [1..n -> ActiveThreads(rm, p)]
         /\ Len(d) = n + 1 /\ d[n + 1] = ProjectEvent("project.deleted", p)
         /\ \A i \in 1..n : d[i] = ThreadEvent("thread.deleted", s[i])
  BY DEF DeletesAll
<1>2. \A i \in 1..Len(d) : i \in 1..n \/ i = n + 1
  BY <1>1
<1>3. \A i \in 1..n : ThreadExists(rm, s[i])
  BY <1>1 DEF ActiveThreads, ThreadExists
<1>4. ASSUME NEW i \in 1..Len(d)
      PROVE  d[i].type \notin Markers /\ (d[i].thread = NoThread \/ ThreadExists(rm, d[i].thread))
  <2>1. CASE i \in 1..n
    <3>1. d[i].type = "thread.deleted" /\ d[i].thread = s[i]
      <4>1. d[i] = ThreadEvent("thread.deleted", s[i])
        BY <1>1, <2>1
      <4>. QED  BY ONLY <4>1 DEF ThreadEvent
    <3>. QED  BY <2>1, <3>1, <1>3 DEF Markers
  <2>2. CASE i = n + 1
    <3>1. d[i].type = "project.deleted" /\ d[i].thread = NoThread
      BY <1>1, <2>2 DEF ProjectEvent
    <3>. QED  BY <3>1 DEF Markers
  <2>. QED  BY <2>1, <2>2, <1>2
<1>. QED  BY <1>4 DEF Plain

\* Threads are created once, so the order of their creation lists each once, and a
\* list as long as there are threads lists them all.
LEMMA ListsAll ==
    ASSUME LogInv, NEW p \in Projects, NEW s \in InCreationOrder(log, ActiveThreads(log, p)),
           NEW t \in ActiveThreads(log, p)
    PROVE  \E k \in 1..Cardinality(ActiveThreads(log, p)) : s[k] = t
<1>. DEFINE S == ActiveThreads(log, p)
            n == Cardinality(S)
<1>1. S \subseteq Threads
  BY DEF ActiveThreads
<1>2. IsFiniteSet(S) /\ n \in Nat
  BY <1>1, DeciderAssumption, FS_Subset, FS_CardinalityType
<1>3. s \in [1..n -> S] /\ \A i, j \in 1..n : i < j => CreatedBefore(log, s[i], s[j])
  BY DEF InCreationOrder
<1>4. ASSUME NEW u \in Threads PROVE ~CreatedBefore(log, u, u)
  <2>. SUFFICES ASSUME CreatedBefore(log, u, u) PROVE FALSE
    OBVIOUS
  <2>1. PICK i \in 1..Len(log), j \in 1..Len(log) :
           /\ i < j
           /\ log[i].body.thread = u
           /\ log[j].body.thread = u /\ log[j].body.type = "thread.created"
    BY LenProperties DEF CreatedBefore, ThreadCreated, LogInv, TypeOK
  <2>2. i \in 1..(j - 1)
    BY <2>1
  <2>. QED  BY <2>1, <2>2 DEF LogInv, Histories, CreatedFirst
<1>5. \A i, j \in 1..n : s[i] = s[j] => i = j
  <2>. SUFFICES ASSUME NEW i \in 1..n, NEW j \in 1..n, s[i] = s[j], i # j PROVE FALSE
    OBVIOUS
  <2>1. s[i] \in Threads
    BY <1>1, <1>3
  <2>2. i < j \/ j < i
    BY <1>2
  <2>. QED  BY <2>1, <2>2, <1>3, <1>4
<1>. HIDE DEF S, n
<1>6. IsFiniteSet(1..n) /\ Cardinality(1..n) = n
  <2>1. IsFiniteSet(1..n) /\ Cardinality(1..n) = IF 1 > n THEN 0 ELSE n - 1 + 1
    BY <1>2, FS_Interval
  <2>. QED  BY <2>1, <1>2
<1>7. s \in Injection(1..n, S)
  BY <1>3, <1>5 DEF Injection, IsInjective
<1>8. s \in Surjection(1..n, S)
  BY <1>2, <1>6, <1>7, FS_Injection DEF n
<1>9. \E k \in 1..n : s[k] = t
  BY <1>8 DEF Surjection, S
<1>. QED  BY <1>9 DEF n, S

\* What has been appended says nothing of the past.
LEMMA OldCascades ==
    ASSUME LogInv, Grows, NEW i \in 1..Len(log), NEW p \in Projects,
           log'[i].body = ProjectEvent("project.deleted", p), NEW t \in Threads,
           NEW j \in 1..(i - 1), log'[j].body = ThreadCreated(t, p)
    PROVE  \E k \in (j + 1)..(i - 1) : At(k, "thread.deleted", t)'
<1>1. \A k \in 1..i : k \in 1..Len(log) /\ log'[k] = log[k]
  BY DEF Grows
<1>2. i \in DOMAIN log /\ i \in Nat
  BY DEF Grows
<1>3. log[i].body = ProjectEvent("project.deleted", p) /\ log[j].body = ThreadCreated(t, p)
  BY <1>1, <1>2
<1>4. PICK k \in (j + 1)..(i - 1) : At(k, "thread.deleted", t)
  BY <1>2, <1>3 DEF LogInv, DeletionCascades
<1>. QED  BY <1>1, <1>2, <1>4 DEF At

LEMMA NoDeletionCascades ==
    ASSUME LogInv, NEW d, Appends(d), NoDeletion(d)
    PROVE  DeletionCascades'
<1>. SUFFICES ASSUME NEW p \in Projects, NEW i \in 1..Len(log'),
                     log'[i].body = ProjectEvent("project.deleted", p), NEW t \in Threads,
                     NEW j \in 1..(i - 1), log'[j].body = ThreadCreated(t, p)
              PROVE  \E k \in (j + 1)..(i - 1) : At(k, "thread.deleted", t)'
  BY DEF DeletionCascades, Appends, Grows
<1>1. i \in 1..Len(log)
  <2>. SUFFICES ASSUME i \notin 1..Len(log) PROVE FALSE
    OBVIOUS
  <2>1. PICK k \in 1..Len(d) : i = Len(log) + k
    BY DEF Appends
  <2>2. d[k].type = "project.deleted"
    BY <2>1 DEF Appends, ProjectEvent
  <2>. QED  BY <2>2 DEF NoDeletion
<1>. QED  BY <1>1, OldCascades DEF Appends

LEMMA DeletesAllCascades ==
    ASSUME LogInv, NEW q \in Projects, NEW d, Appends(d), DeletesAll(log, q, d)
    PROVE  DeletionCascades'
<1>. SUFFICES ASSUME NEW p \in Projects, NEW i \in 1..Len(log'),
                     log'[i].body = ProjectEvent("project.deleted", p), NEW t \in Threads,
                     NEW j \in 1..(i - 1), log'[j].body = ThreadCreated(t, p)
              PROVE  \E k \in (j + 1)..(i - 1) : At(k, "thread.deleted", t)'
  BY DEF DeletionCascades, Appends, Grows
<1>1. CASE i \in 1..Len(log)
  BY <1>1, OldCascades DEF Appends
<1>2. CASE i \notin 1..Len(log)
  <2>1. PICK s \in InCreationOrder(log, ActiveThreads(log, q)), n \in Nat :
           /\ n = Cardinality(ActiveThreads(log, q))
           /\ Len(d) = n + 1 /\ d[n + 1] = ProjectEvent("project.deleted", q)
           /\ \A k \in 1..n : d[k] = ThreadEvent("thread.deleted", s[k])
    BY DEF DeletesAll
  <2>1a. ASSUME NEW k \in 1..n PROVE d[k].type = "thread.deleted"
    <3>1. d[k] = ThreadEvent("thread.deleted", s[k])
      BY <2>1
    <3>. QED  BY ONLY <3>1 DEF ThreadEvent
  <2>2. /\ Len(log) \in Nat /\ \A k \in 1..n : k \in 1..Len(d)
        /\ n + 1 \in 1..Len(d) /\ \A k \in 1..Len(d) : k \in 1..n \/ k = n + 1
    BY <2>1 DEF Appends, Grows
  <2>3. i = Len(log) + n + 1 /\ p = q
    <3>1. PICK k \in 1..Len(d) : i = Len(log) + k
      BY <1>2 DEF Appends
    <3>2. d[k] = ProjectEvent("project.deleted", p)
      BY <3>1 DEF Appends
    <3>3. k = n + 1
      <4>1. d[k].type = "project.deleted"
        BY <3>2 DEF ProjectEvent
      <4>. QED  BY <2>2, <2>1a, <4>1
    <3>. QED  BY <2>1, <2>2, <3>1, <3>2, <3>3 DEF ProjectEvent
  <2>4. j \in 1..Len(log) /\ log[j].body = ThreadCreated(t, p)
    <3>1. j \in 1..Len(log)
      <4>. SUFFICES ASSUME j \notin 1..Len(log) PROVE FALSE
        OBVIOUS
      <4>1. PICK k \in 1..Len(d) : j = Len(log) + k
        BY <2>2, <2>3 DEF Appends
      <4>2. d[k] = ThreadCreated(t, p)
        BY <4>1 DEF Appends
      <4>3. d[k].type = "thread.created"
        BY <4>2 DEF ThreadCreated
      <4>4. d[n + 1].type = "project.deleted"
        BY <2>1 DEF ProjectEvent
      <4>. QED  BY <2>2, <2>1a, <4>3, <4>4
    <3>. QED  BY <3>1 DEF Appends, Grows
  <2>5. CASE ThreadDeleted(log, t)
    <3>1. PICK k \in 1..Len(log) : log[k].body = ThreadEvent("thread.deleted", t)
      BY <2>5 DEF ThreadDeleted, Appends, Grows
    <3>2. PICK m \in 1..(k - 1) :
             log[m].body.thread = t /\ log[m].body.type = "thread.created"
      BY <3>1 DEF LogInv, Histories, CreatedFirst, ThreadEvent
    <3>3. m \in 1..Len(log) /\ m < k
      BY <2>2
    <3>4. ~(m < j)
      <4>1. log[j].body.thread = t /\ log[j].body.type = "thread.created"
        BY <2>4 DEF ThreadCreated
      <4>2. \A l \in 1..(j - 1) : log[l].body.thread # t
        BY <2>4, <4>1 DEF LogInv, Histories, CreatedFirst
      <4>. QED  BY <3>2, <3>3, <4>2
    <3>5. k \in (j + 1)..(i - 1) /\ log'[k] = log[k]
      BY <2>2, <2>3, <2>4, <3>3, <3>4 DEF Appends, Grows
    <3>. QED  BY <3>1, <3>5 DEF At
  <2>6. CASE ~ThreadDeleted(log, t)
    <3>1. t \in ActiveThreads(log, q)
      BY <2>3, <2>4, <2>6 DEF ActiveThreads, InProject, Appends, Grows
    <3>2. PICK k \in 1..n : s[k] = t
      BY <2>1, <3>1, ListsAll
    <3>3. PICK l \in Nat : l = Len(log) + k
      BY <2>2, <3>2
    <3>4. log'[l].body = ThreadEvent("thread.deleted", t)
      BY <2>1, <2>2, <3>2, <3>3 DEF Appends
    <3>5. l \in (j + 1)..(i - 1)
      <4>1. j \in Nat /\ j <= Len(log) /\ k \in Nat /\ 1 <= k /\ k <= n
        BY <2>2, <2>4, <3>2
      <4>2. n \in Nat /\ l \in Nat /\ Len(log) \in Nat /\ l = Len(log) + k /\ i = Len(log) + n + 1
        BY <2>2, <2>3, <3>3
      <4>. QED  BY ONLY <4>1, <4>2
    <3>. QED  BY <3>4, <3>5 DEF At
  <2>. QED  BY <2>5, <2>6
<1>. QED  BY <1>1, <1>2

-----------------------------------------------------------------------------
(* The steps. *)

LEMMA InitInv == Init => LogInv
<1>. SUFFICES ASSUME Init PROVE LogInv
  OBVIOUS
<1>1. log = <<>> /\ Len(log) = 0 /\ DOMAIN log = {} /\ log \in Seq(Event)
  BY EmptySeq DEF Init
<1>2. TypeOK
  BY <1>1 DEF Init, TypeOK, Outcome
<1>. QED  BY <1>1, <1>2 DEF LogInv, InProjects, Histories, DeletionCascades

LEMMA AcceptInv ==
    ASSUME LogInv, NEW c \in Commands, Accept(c)
    PROVE  LogInv'
<1>1. Content[c] \in CommandContent
  BY DeciderAssumption
<1>2. PICK d \in Decisions(log, Content[c]) : log' = log \o Saved(Len(log), c, d)
  BY DEF Accept
<1>3. /\ d \in Seq(Body)
      /\ \/ DeletesAll(log, Content[c].project, d)
         \/ Plain(log, d) /\ NoDeletion(d)
         \/ Creates(log, Content[c], d)
         \/ Archives(log, Content[c], d) \/ Unarchives(log, Content[c], d)
  BY <1>1, DecisionShapes
<1>4. Appends(d) /\ log' \in Seq(Event)
  <2>1. TypeOK /\ d \in Seq(Body)
    BY <1>3 DEF LogInv
  <2>2. /\ log' \in Seq(Event) /\ Len(log) \in Nat /\ Len(d) \in Nat
        /\ Len(log') = Len(log) + Len(d)
        /\ DOMAIN log = 1..Len(log) /\ DOMAIN log' = 1..Len(log')
        /\ \A i \in 1..Len(log) : i \in 1..Len(log') /\ log'[i] = log[i]
        /\ \A k \in 1..Len(d) :
              Len(log) + k \in 1..Len(log') /\ log'[Len(log) + k].body = d[k]
        /\ \A i \in 1..Len(log') :
              i \in 1..Len(log) \/ \E k \in 1..Len(d) : i = Len(log) + k
    BY <1>2, <2>1, AppendedLog
  <2>3. Len(log') \in Nat
    BY <2>2
  <2>. QED  BY ONLY <2>2, <2>3 DEF Appends, Grows
<1>5. TypeOK'
  <2>1. Len(log') \in Nat
    BY <1>4 DEF Appends, Grows
  <2>2. outcome' = [outcome EXCEPT ![c] = [status |-> "accepted", sequence |-> Len(log')]]
    BY DEF Accept
  <2>. QED  BY <1>4, <2>1, <2>2 DEF LogInv, TypeOK, Outcome
<1>6. CASE DeletesAll(log, Content[c].project, d)
  <2>1. Content[c].project \in Projects
    BY <1>1 DEF CommandContent
  <2>. QED  BY <1>4, <1>5, <1>6, <2>1, DeletesAllPlain, PlainInv, DeletesAllCascades DEF LogInv
<1>7. CASE Plain(log, d) /\ NoDeletion(d)
  BY <1>4, <1>5, <1>7, PlainInv, NoDeletionCascades DEF LogInv
<1>8. CASE Creates(log, Content[c], d)
  <2>1. \A i \in 1..Len(d) : i = 1 \/ i \in 2..Len(d)
    BY <1>4 DEF Appends
  <2>2. NoDeletion(d)
    BY <1>8, <2>1 DEF NoDeletion, Creates, ThreadCreated, ThreadEvent
  <2>. QED  BY <1>1, <1>4, <1>5, <1>8, <2>2, CreatesInv, NoDeletionCascades DEF LogInv
<1>9. CASE Archives(log, Content[c], d) \/ Unarchives(log, Content[c], d)
  <2>1. NoDeletion(d)
    BY <1>9 DEF NoDeletion, Archives, Unarchives, ThreadEvent
  <2>. QED  BY <1>1, <1>4, <1>5, <1>9, <2>1, ArchivesInv, NoDeletionCascades DEF LogInv
<1>. QED  BY <1>3, <1>6, <1>7, <1>8, <1>9

LEMMA NextInv == LogInv /\ [Next]_vars => LogInv'
<1>. SUFFICES ASSUME LogInv, [Next]_vars PROVE LogInv'
  OBVIOUS
<1>1. CASE \E c \in Commands : Accept(c)
  BY <1>1, AcceptInv
<1>2. CASE \E c \in Commands : Reject(c)
  <2>1. PICK c \in Commands : Reject(c)
    BY <1>2
  <2>2. log' = log /\ Len(log) \in Nat
    BY <2>1, LenProperties DEF Reject, LogInv, TypeOK
  <2>3. TypeOK'
    BY <2>1, <2>2 DEF Reject, LogInv, TypeOK, Outcome
  <2>. QED
    BY <2>2, <2>3 DEF LogInv, InProjects, Histories, CreatedFirst, Alternates, At, DeletionCascades
<1>3. CASE UNCHANGED vars
  BY <1>3 DEF vars, LogInv, TypeOK, InProjects, Histories, CreatedFirst, Alternates, At,
              DeletionCascades
<1>. QED  BY <1>1, <1>2, <1>3 DEF Next

LEMMA Invariance == Spec => []LogInv
BY InitInv, NextInv, PTL DEF Spec

\* Whatever commands are decided in whatever order, the log tells of each thread
\* that it was created once, before all else, and archived and unarchived in turn.
THEOREM HistoriesWellFormed == Spec => []ThreadHistoriesWellFormed
<1>1. LogInv => ThreadHistoriesWellFormed
  <2>. SUFFICES ASSUME LogInv PROVE ThreadHistoriesWellFormed
    OBVIOUS
  <2>1. DOMAIN log = 1..Len(log)
    BY LenProperties DEF LogInv, TypeOK
  <2>. QED
    BY <2>1 DEF LogInv, Histories, CreatedFirst, Alternates, ThreadHistoriesWellFormed
<1>. QED  BY <1>1, Invariance, PTL

\* However its threads were created, forked, archived or deleted before, a project
\* that is deleted leaves no thread behind.
THEOREM DeletionsCascade == Spec => []DeletionCascades
<1>1. LogInv => DeletionCascades
  BY DEF LogInv
<1>. QED  BY <1>1, Invariance, PTL
=============================================================================
