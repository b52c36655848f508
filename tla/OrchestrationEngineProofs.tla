----------------------- MODULE OrchestrationEngineProofs ---------------------
(***************************************************************************)
(* Proofs about the orchestration engine, for every value of its           *)
(* constants: its invariants, and that it implements the command log and   *)
(* the event feed.                                                         *)
(***************************************************************************)
EXTENDS OrchestrationEngine, SequenceTheorems, FiniteSetTheorems, TLAPS

-----------------------------------------------------------------------------
(* The decider. *)

\* Whatever the read model, a decision is a non-empty sequence of event bodies
\* that one read of the log can return in full.
LEMMA DecisionsType ==
    ASSUME NEW rm, NEW c \in CommandContent, NEW d \in Decisions(rm, c)
    PROVE  d \in Seq(Body) /\ d # <<>> /\ Len(d) <= ReadLimit
<1>. USE DeciderAssumption, EngineAssumption
<1>. \A e \in Body : <<e>> \in Seq(Body) /\ <<e>> # <<>> /\ Len(<<e>>) <= ReadLimit
  OBVIOUS
<1>. \A t \in Threads, k \in EventTypes : ThreadEvent(k, t) \in Body
  BY DEF ThreadEvent, Body
<1>. \A p \in Projects, k \in EventTypes : ProjectEvent(k, p) \in Body
  BY DEF ProjectEvent, Body
<1>. /\ c.project \in Projects /\ c.thread \in Threads
     /\ c.seeds \in Nat /\ c.type \in CommandTypes
  BY DEF CommandContent
<1>1. CASE c.type = "project.create"
  <2>1. Decisions(rm, c) = CreateProject(rm, c)
    BY <1>1 DEF Decisions
  <2>2. d = <<ProjectEvent("project.created", c.project)>>
    BY <2>1 DEF CreateProject, When
  <2>. QED  BY <2>2 DEF EventTypes
<1>2. CASE c.type = "project.meta.update"
  <2>1. Decisions(rm, c) = UpdateProject(rm, c)
    BY <1>2 DEF Decisions
  <2>2. d = <<ProjectEvent("project.meta-updated", c.project)>>
    BY <2>1 DEF UpdateProject, When
  <2>. QED  BY <2>2 DEF EventTypes
<1>3. CASE c.type = "project.delete"
  <2>. DEFINE S == ActiveThreads(rm, c.project)
  <2>0. Decisions(rm, c) = DeleteProject(rm, c)
    BY <1>3 DEF Decisions
  <2>1. PICK s \in InCreationOrder(rm, S) :
           d = Append([i \in DOMAIN s |-> ThreadEvent("thread.deleted", s[i])],
                      ProjectEvent("project.deleted", c.project))
    BY <2>0, Zenon DEF DeleteProject
  <2>2. S \subseteq Threads
    BY DEF ActiveThreads
  <2>3. /\ Cardinality(S) \in Nat
        /\ Cardinality(S) <= Cardinality(Threads)
        /\ Cardinality(Threads) \in Nat
    BY <2>2, FS_Subset, FS_CardinalityType
  <2>4. s \in [1..Cardinality(S) -> S]
    BY DEF InCreationOrder
  <2>. DEFINE deletions == [i \in DOMAIN s |-> ThreadEvent("thread.deleted", s[i])]
  <2>5. deletions \in Seq(Body) /\ Len(deletions) = Cardinality(S)
    <3>1. deletions \in [1..Cardinality(S) -> Body]
      BY <2>2, <2>4 DEF EventTypes
    <3>. QED  BY <2>3, <3>1
  <2>6. ProjectEvent("project.deleted", c.project) \in Body
    BY DEF EventTypes
  <2>7. d = Append(deletions, ProjectEvent("project.deleted", c.project))
    BY <2>1
  <2>. HIDE DEF deletions, S
  <2>. QED  BY <2>3, <2>5, <2>6, <2>7
<1>4. CASE c.type = "thread.create"
  <2>. DEFINE n == c.seeds + 1
              s == [i \in 1..n |-> IF i = 1 THEN ThreadCreated(c.thread, c.project)
                                    ELSE ThreadEvent("thread.message-sent", c.thread)]
  <2>0. Decisions(rm, c) = CreateThread(rm, c)
    BY <1>4 DEF Decisions
  <2>1. d = s /\ c.seeds <= MaxSeedMessages
    BY <2>0 DEF CreateThread, When
  <2>2. ThreadCreated(c.thread, c.project) \in Body
    BY DEF ThreadCreated, Body, EventTypes
  <2>3. s \in [1..n -> Body]
    BY <2>2 DEF EventTypes
  <2>4. n \in Nat /\ n > 0 /\ n <= ReadLimit
    BY <2>1
  <2>. HIDE DEF s, n
  <2>5. s \in Seq(Body) /\ Len(s) = n
    BY <2>3, <2>4
  <2>. QED  BY <2>1, <2>4, <2>5
<1>5. CASE c.type \in {"thread.delete", "thread.archive", "thread.unarchive"}
  <2>1. \/ Decisions(rm, c) = DeleteThread(rm, c)
        \/ Decisions(rm, c) = ArchiveThread(rm, c)
        \/ Decisions(rm, c) = UnarchiveThread(rm, c)
    BY <1>5 DEF Decisions
  <2>2. PICK k \in EventTypes : d = <<ThreadEvent(k, c.thread)>>
    BY <2>1 DEF DeleteThread, ArchiveThread, UnarchiveThread, When, EventTypes
  <2>. QED  BY <2>2
<1>6. CASE c.type = "thread.turn.start"
  <2>1. Decisions(rm, c) = StartTurn(rm, c)
    BY <1>6 DEF Decisions
  <2>2. d = <<ThreadEvent("thread.message-sent", c.thread),
              ThreadEvent("thread.turn-start-requested", c.thread)>>
    BY <2>1 DEF StartTurn, When
  <2>3. /\ ThreadEvent("thread.message-sent", c.thread) \in Body
        /\ ThreadEvent("thread.turn-start-requested", c.thread) \in Body
    BY DEF EventTypes
  <2>. QED  BY <2>2, <2>3
<1>7. CASE c.type \notin {"project.create", "project.meta.update", "project.delete",
                          "thread.create", "thread.delete", "thread.archive",
                          "thread.unarchive", "thread.turn.start"}
  <2>1. Decisions(rm, c) = RecordOnThread(rm, c)
    BY <1>7 DEF Decisions
  <2>2. PICK k \in EventTypes : d = <<ThreadEvent(k, c.thread)>>
    BY <2>1 DEF RecordOnThread
  <2>. QED  BY <2>2
<1>. QED
  BY <1>1, <1>2, <1>3, <1>4, <1>5, <1>6, <1>7

-----------------------------------------------------------------------------
(* The log. *)

LEMMA SavedProperties ==
    ASSUME NEW n \in Nat, NEW c \in Commands, NEW bodies \in Seq(Body)
    PROVE  /\ Saved(n, c, bodies) \in Seq(Event)
           /\ Len(Saved(n, c, bodies)) = Len(bodies)
           /\ \A i \in 1..Len(bodies) :
                 Saved(n, c, bodies)[i] =
                     [sequence |-> n + i, command |-> c, body |-> bodies[i]]
<1>1. Saved(n, c, bodies) \in [1..Len(bodies) -> Event]
  BY DEF Saved, Event
<1>. QED  BY <1>1 DEF Saved

\* What one read of the log returns, from a sequence within reach.
LEMMA ReadProperties ==
    ASSUME TypeOK, NEW n \in 0..Len(log)
    PROVE  /\ ReadFromSequence(n) \in Seq(Event)
           /\ Len(log) <= n + ReadLimit =>
                 /\ ReadFromSequence(n) = SubSeq(log, n + 1, Len(log))
                 /\ SubSeq(log, 1, n) \o ReadFromSequence(n) = log
<1>. USE EngineAssumption DEF TypeOK
<1>. DEFINE last == IF n + ReadLimit < Len(log) THEN n + ReadLimit ELSE Len(log)
<1>0. Len(log) \in Nat /\ n \in Nat /\ n <= Len(log) /\ ReadLimit \in Nat
  OBVIOUS
<1>1. last \in Nat /\ n <= last /\ last <= Len(log)
  BY <1>0
<1>2. ReadFromSequence(n) = SubSeq(log, n + 1, last)
  BY DEF ReadFromSequence
<1>. HIDE DEF last
<1>3. SubSeq(log, n + 1, last) \in Seq(Event)
  <2>1. \A i \in (n + 1)..last : log[i] \in Event
    BY <1>0, <1>1
  <2>. QED  BY <1>0, <1>1, <2>1, SubSeqProperties
<1>4. SubSeq(log, 1, n) \o SubSeq(log, n + 1, Len(log)) = log
  <2>1. /\ 1 \in 1..Len(log) + 1
        /\ n \in (1 - 1)..Len(log)
        /\ Len(log) \in n..Len(log)
    BY <1>0
  <2>2. SubSeq(log, 1, n) \o SubSeq(log, n + 1, Len(log)) = SubSeq(log, 1, Len(log))
    BY <2>1, ConcatAdjacentSubSeq
  <2>. QED  BY <2>2, SubSeqFull
<1>5. ASSUME Len(log) <= n + ReadLimit
      PROVE  /\ ReadFromSequence(n) = SubSeq(log, n + 1, Len(log))
             /\ SubSeq(log, 1, n) \o ReadFromSequence(n) = log
  <2>1. last = Len(log)
    BY <1>0, <1>5 DEF last
  <2>. QED  BY <1>2, <1>4, <2>1
<1>. QED  BY <1>2, <1>3, <1>5

\* The snapshotSequence of a model that folded events 1, 2, ... is their number.
LEMMA LastSequence ==
    ASSUME NEW s \in Seq(Event), \A i \in 1..Len(s) : s[i].sequence = i
    PROVE  SnapshotSequence(s) = Len(s)
<1>1. CASE s = <<>>
  BY <1>1 DEF SnapshotSequence
<1>2. CASE s # <<>>
  <2>1. Len(s) \in 1..Len(s)
    BY <1>2, EmptySeq
  <2>. QED  BY <1>2, <2>1 DEF SnapshotSequence
<1>. QED  BY <1>1, <1>2

LEMMA SnapshotIsLength ==
    ASSUME TypeOK, ReadModelFollowsLog, LogWellFormed
    PROVE  /\ phase # "down" => SnapshotSequence(readModel) = Len(readModel)
           /\ SnapshotSequence(log) = Len(log)
<1>1. log \in Seq(Event) /\ readModel \in Seq(Event)
  BY DEF TypeOK
<1>2. \A i \in 1..Len(log) : log[i].sequence = i
  BY <1>1 DEF LogWellFormed
<1>3. ASSUME phase # "down" PROVE SnapshotSequence(readModel) = Len(readModel)
  <2>1. readModel = SubSeq(log, 1, Len(readModel)) /\ Len(readModel) <= Len(log)
    BY <1>3 DEF ReadModelFollowsLog
  <2>2. \A i \in 1..Len(readModel) : readModel[i] = log[i]
    BY <1>1, <2>1
  <2>. QED  BY <1>1, <1>2, <2>1, <2>2, LastSequence
<1>. QED  BY <1>1, <1>2, <1>3, LastSequence

-----------------------------------------------------------------------------
(* The transaction. *)

\* What CommitEvents does to the database.
LEMMA CommitProperties ==
    ASSUME IInv, phase = "transaction", CommitEvents
    PROVE  /\ pending \in Seq(Body) /\ pending # <<>>
           /\ log' \in Seq(Event) /\ pending' \in Seq(Event)
           /\ Len(pending) \in 1..ReadLimit /\ Len(log') = Len(log) + Len(pending)
           /\ \A i \in 1..Len(log) : log'[i] = log[i]
           /\ \A i \in 1..Len(pending) :
                 log'[Len(log) + i] =
                    [sequence |-> Len(log) + i, command |-> command, body |-> pending[i]]
           /\ SubSeq(log', 1, Len(log)) = log
           /\ pending' = SubSeq(log', Len(log) + 1, Len(log'))
           /\ log' = log \o pending'
           /\ projections' = log'
           /\ LogWellFormed'
<1>. DEFINE saved == Saved(Len(log), command, pending)
<1>1. log \in Seq(Event) /\ command \in Commands /\ Content[command] \in CommandContent
  BY DeciderAssumption DEF IInv, TypeOK
<1>2. pending \in Seq(Body) /\ pending # <<>> /\ Len(pending) <= ReadLimit
  BY <1>1, DecisionsType DEF IInv, Verdict
<1>3. Len(log) \in Nat /\ Len(pending) \in Nat /\ Len(pending) >= 1
  BY <1>1, <1>2, EmptySeq
<1>4. /\ saved \in Seq(Event) /\ Len(saved) = Len(pending)
      /\ \A i \in 1..Len(pending) :
            saved[i] = [sequence |-> Len(log) + i, command |-> command, body |-> pending[i]]
  BY <1>1, <1>2, <1>3, SavedProperties
<1>5. log' = log \o saved /\ projections' = log \o saved /\ pending' = saved
  BY DEF IInv, LogWellFormed, CommitEvents
<1>. HIDE DEF saved
<1>. log \in Seq(Event) /\ saved \in Seq(Event)
  BY <1>1, <1>4
<1>6. /\ log' \in Seq(Event) /\ Len(log') = Len(log) + Len(pending)
      /\ \A i \in 1..Len(log) + Len(saved) :
            log'[i] = IF i <= Len(log) THEN log[i] ELSE saved[i - Len(log)]
  <2>1. /\ log \o saved \in Seq(Event) /\ Len(log \o saved) = Len(log) + Len(saved)
        /\ \A i \in 1..Len(log) + Len(saved) :
              (log \o saved)[i] = IF i <= Len(log) THEN log[i] ELSE saved[i - Len(log)]
    BY ONLY log \in Seq(Event), saved \in Seq(Event), ConcatProperties
  <2>. QED  BY <1>4, <1>5, <2>1, Zenon
<1>7. \A i \in 1..Len(log) : log'[i] = log[i]
  BY <1>3, <1>4, <1>6
<1>8. \A i \in 1..Len(pending) : log'[Len(log) + i] = saved[i]
  BY <1>3, <1>4, <1>6
<1>9. SubSeq(log', 1, Len(log)) = log
  <2>1. \A i \in 1..Len(log) : log'[i] \in Event
    BY <1>1, <1>7
  <2>2. /\ SubSeq(log', 1, Len(log)) \in Seq(Event)
        /\ Len(SubSeq(log', 1, Len(log))) = Len(log)
        /\ \A i \in 1..Len(log) : SubSeq(log', 1, Len(log))[i] = log'[i]
    <3>1. /\ Len(log) - 1 + 1 = Len(log)
          /\ 1 <= Len(log) \/ Len(log) = 0
          /\ \A i \in 1..Len(log) : 1 + i - 1 = i
      BY <1>3
    <3>. QED  BY <1>3, <2>1, <3>1, SubSeqProperties
  <2>. QED  BY <1>1, <1>7, <2>2, SeqEqual
<1>10. saved = SubSeq(log', Len(log) + 1, Len(log'))
  <2>1. \A i \in Len(log) + 1..Len(log') : log'[i] \in Event
    BY <1>3, <1>6
  <2>. DEFINE rest == SubSeq(log', Len(log) + 1, Len(log'))
  <2>2. /\ rest \in Seq(Event)
        /\ Len(rest) = Len(pending)
        /\ \A i \in 1..Len(pending) : rest[i] = log'[Len(log) + 1 + i - 1]
    BY <1>3, <1>6, <2>1, SubSeqProperties
  <2>3. \A i \in 1..Len(pending) : rest[i] = saved[i]
    BY <1>3, <1>8, <2>2
  <2>. HIDE DEF rest
  <2>4. rest = saved
    BY <1>4, <2>2, <2>3, SeqEqual
  <2>. QED  BY <2>4 DEF rest
<1>11. \A i \in 1..Len(log') : log'[i].sequence = i
  <2>. SUFFICES ASSUME NEW i \in 1..Len(log') PROVE log'[i].sequence = i
    OBVIOUS
  <2>1. CASE i <= Len(log)
    BY <1>1, <1>3, <1>6, <1>7, <2>1 DEF IInv, LogWellFormed
  <2>2. CASE i > Len(log)
    <3>. DEFINE k == i - Len(log)
    <3>1. k \in 1..Len(pending) /\ i = Len(log) + k
      BY <1>3, <1>6, <2>2
    <3>. HIDE DEF k
    <3>2. log'[i] = [sequence |-> i, command |-> command, body |-> pending[k]]
      BY <1>4, <1>8, <3>1, Zenon
    <3>. QED  BY <3>2
  <2>. QED  BY <1>3, <1>6, <2>1, <2>2
<1>12. LogWellFormed'
  <2>1. DOMAIN log' = 1..Len(log')
    BY <1>6
  <2>. QED  BY <1>5, <1>11, <2>1, Zenon DEF LogWellFormed
<1>13. Len(pending) \in 1..ReadLimit
  BY <1>2, <1>3, EngineAssumption
<1>14. \A i \in 1..Len(pending) :
          log'[Len(log) + i] =
             [sequence |-> Len(log) + i, command |-> command, body |-> pending[i]]
  BY <1>4, <1>8, Zenon
<1>. QED
  BY <1>2, <1>4, <1>5, <1>6, <1>7, <1>9, <1>10, <1>12, <1>13, <1>14, Zenon

\* The blocks of the accepted commands lie inside the log.
LEMMA AcceptedInLog ==
    ASSUME TypeOK, AppendedOnceAsDecided, NEW c \in Commands,
           receipts[c].status = "accepted"
    PROVE  /\ receipts[c].sequence \in 1..Len(log)
           /\ log[receipts[c].sequence].command = c
<1>1. log \in Seq(Event) /\ receipts[c].sequence \in Nat
  BY DEF TypeOK, Receipt
<1>2. PICK first \in 1..receipts[c].sequence : EventsOf(c) = first..receipts[c].sequence
  BY DEF AppendedOnceAsDecided
<1>3. receipts[c].sequence \in EventsOf(c)
  BY <1>1, <1>2
<1>. QED  BY <1>1, <1>3 DEF EventsOf

\* The other commands keep their events; the committed one gets its block.
LEMMA CommitAppendsOnce ==
    ASSUME IInv, phase = "transaction", CommitEvents, command' = command
    PROVE  /\ AppendedOnceAsDecided'
           /\ receipts' = [receipts EXCEPT ![command] =
                             [status |-> "accepted", sequence |-> Len(log')]]
<1>. USE CommitProperties
<1>1. /\ log \in Seq(Event) /\ command \in Commands
      /\ receipts \in [Commands -> Receipt]
      /\ Len(log) \in Nat
  BY DEF IInv, TypeOK
<1>2. /\ pending \in Seq(Body) /\ Len(pending) \in Nat /\ Len(pending) >= 1
      /\ log' \in Seq(Event) /\ Len(log') \in Nat /\ Len(log') = Len(log) + Len(pending)
      /\ DOMAIN log = 1..Len(log) /\ DOMAIN log' = 1..Len(log')
  BY <1>1, EngineAssumption
<1>3. \A i \in 1..Len(log) : log'[i] = log[i]
  OBVIOUS
<1>4. \A i \in Len(log) + 1..Len(log') :
         log'[i].command = command /\ log'[i].body = pending[i - Len(log)]
  <2>. SUFFICES ASSUME NEW i \in Len(log) + 1..Len(log')
                PROVE  log'[i].command = command /\ log'[i].body = pending[i - Len(log)]
    OBVIOUS
  <2>1. i - Len(log) \in 1..Len(pending) /\ i = Len(log) + (i - Len(log))
    BY <1>1, <1>2
  <2>2. log'[i] = [sequence |-> i, command |-> command, body |-> pending[i - Len(log)]]
    BY <2>1
  <2>. QED  BY <2>2
<1>5. receipts' = [receipts EXCEPT ![command] = [status |-> "accepted", sequence |-> Len(log')]]
  BY DEF CommitEvents
<1>6. /\ receipts[command].status = "none"
      /\ pending \in Decisions(log, Content[command])
  BY DEF IInv, Verdict
<1>7. EventsOf(command) = {}
  BY <1>1, <1>6 DEF IInv, AppendedOnceAsDecided
<1>. DEFINE Block(c) ==
        \E first \in 1..receipts[c].sequence :
            /\ EventsOf(c) = first..receipts[c].sequence
            /\ Bodies(first, receipts[c].sequence)
                  \in Decisions(SubSeq(log, 1, first - 1), Content[c])
<1>8. ASSUME NEW c \in Commands, c # command
      PROVE  EventsOf(c)' = EventsOf(c) /\ receipts'[c] = receipts[c]
  BY <1>1, <1>2, <1>3, <1>4, <1>5, <1>8 DEF EventsOf
<1>9. ASSUME NEW c \in Commands, c # command, receipts[c].status = "accepted"
      PROVE  Block(c)'
  <2>1. PICK first \in 1..receipts[c].sequence :
           /\ EventsOf(c) = first..receipts[c].sequence
           /\ Bodies(first, receipts[c].sequence)
                 \in Decisions(SubSeq(log, 1, first - 1), Content[c])
    BY <1>9 DEF IInv, AppendedOnceAsDecided
  <2>2. receipts[c].sequence \in 1..Len(log)
    BY <1>9, AcceptedInLog DEF IInv
  <2>3. Bodies(first, receipts[c].sequence)' = Bodies(first, receipts[c].sequence)
    <3>1. \A i \in 1..receipts[c].sequence - first + 1 : first + i - 1 \in 1..Len(log)
      BY <1>1, <2>2
    <3>2. \A i \in 1..receipts[c].sequence - first + 1 :
             log'[first + i - 1].body = log[first + i - 1].body
      BY <1>3, <3>1
    <3>3. receipts'[c] = receipts[c]
      BY <1>8, <1>9
    <3>. QED  BY <3>2, <3>3 DEF Bodies
  <2>4. SubSeq(log', 1, first - 1) = SubSeq(log, 1, first - 1)
    <3>1. first - 1 \in Nat /\ first - 1 <= Len(log)
      BY <1>1, <2>2
    <3>2. /\ \A i \in 1..first - 1 : log[i] \in Event /\ log'[i] \in Event /\ log'[i] = log[i]
          /\ 1 \in Int /\ first - 1 \in Int
      BY <1>1, <1>3, <3>1
    <3>. QED  BY <1>1, <1>3, <3>1, <3>2
  <2>. QED  BY <1>8, <1>9, <2>1, <2>3, <2>4
<1>10. Block(command)'
  <2>0. PICK first \in Nat, last \in Nat : first = Len(log) + 1 /\ last = Len(log')
    BY <1>1, <1>2
  <2>1. receipts'[command] = [status |-> "accepted", sequence |-> last]
    BY <1>1, <1>5, <2>0
  <2>2. first \in 1..last /\ first - 1 = Len(log)
    BY <1>1, <1>2, <2>0
  <2>3. EventsOf(command)' = first..last
    <3>1. \A i \in 1..Len(log) : log'[i].command # command
      BY <1>2, <1>3, <1>7 DEF EventsOf
    <3>2. \A i \in 1..Len(log') : log'[i].command = command <=> i \in first..last
      BY <1>1, <1>2, <1>4, <2>0, <3>1
    <3>. QED  BY <1>1, <1>2, <2>0, <3>2 DEF EventsOf
  <2>4. Bodies(first, last)' = pending
    <3>1. last - first + 1 = Len(pending)
      BY <1>1, <1>2, <2>0
    <3>2. \A i \in 1..Len(pending) : log'[first + i - 1].body = pending[i]
      <4>. SUFFICES ASSUME NEW i \in 1..Len(pending)
                    PROVE  log'[first + i - 1].body = pending[i]
        OBVIOUS
      <4>0. /\ first + i - 1 \in Len(log) + 1..Len(log')
            /\ first + i - 1 - Len(log) = i
        BY <1>1, <1>2, <2>0
      <4>1. PICK j \in Len(log) + 1..Len(log') : j = first + i - 1 /\ j - Len(log) = i
        BY ONLY <4>0
      <4>2. log'[j].body = pending[j - Len(log)]
        BY <1>4, <4>1
      <4>. QED  BY <4>1, <4>2
    <3>3. Bodies(first, last)' = [i \in 1..(last - first + 1) |-> log'[first + i - 1].body]
      BY DEF Bodies
    <3>4. Bodies(first, last)' = [i \in 1..Len(pending) |-> pending[i]]
      BY <3>1, <3>2, <3>3
    <3>5. pending \in [1..Len(pending) -> Body]
      BY <1>2, LenProperties
    <3>. QED  BY <3>4, <3>5
  <2>5. SubSeq(log', 1, first - 1) = log
    BY <2>2
  <2>6. pending \in Decisions(SubSeq(log', 1, first - 1), Content[command])
    BY <1>6, <2>5
  <2>. QED  BY <2>1, <2>2, <2>3, <2>4, <2>6
<1>11. ASSUME NEW c \in Commands
       PROVE  IF receipts'[c].status = "accepted" THEN Block(c)' ELSE EventsOf(c)' = {}
  <2>1. CASE c = command
    BY <1>1, <1>5, <1>10, <2>1
  <2>2. CASE c # command /\ receipts[c].status = "accepted"
    BY <1>8, <1>9, <2>2
  <2>3. CASE c # command /\ receipts[c].status # "accepted"
    BY <1>8, <2>3 DEF IInv, AppendedOnceAsDecided
  <2>. QED  BY <2>1, <2>2, <2>3
<1>. QED  BY <1>5, <1>11 DEF AppendedOnceAsDecided

-----------------------------------------------------------------------------
(* The inductive invariant, action by action. *)

LEMMA RepliesStayDurable ==
    ASSUME TypeOK, TypeOK', RepliesDurable, AppendedOnceAsDecided', replies' = replies,
           \A c \in Commands : receipts[c].status # "none" => receipts'[c] = receipts[c]
    PROVE  RepliesDurable'
<1>. SUFFICES ASSUME NEW r \in replies
     PROVE  /\ r.result.status = "accepted" =>
                 /\ receipts'[r.command] = [status |-> "accepted", sequence |-> r.result.sequence]
                 /\ log'[r.result.sequence].command = r.command
            /\ r.result.status = "previouslyRejected" =>
                 receipts'[r.command].status = "rejected" /\ EventsOf(r.command)' = {}
  BY DEF RepliesDurable, EventsOf
<1>1. r.command \in Commands
  BY DEF TypeOK
<1>2. ASSUME r.result.status = "accepted"
      PROVE  /\ receipts'[r.command] = [status |-> "accepted", sequence |-> r.result.sequence]
             /\ log'[r.result.sequence].command = r.command
  <2>1. receipts'[r.command] = [status |-> "accepted", sequence |-> r.result.sequence]
    BY <1>1, <1>2 DEF RepliesDurable
  <2>2. PICK c \in Commands : c = r.command
    BY <1>1
  <2>3. receipts'[c].status = "accepted" /\ receipts'[c].sequence = r.result.sequence
    BY <2>1, <2>2
  <2>4. log'[receipts'[c].sequence].command = c
    <3>1. PICK first \in 1..receipts'[c].sequence :
             EventsOf(c)' = first..receipts'[c].sequence
      BY <2>3 DEF AppendedOnceAsDecided
    <3>2. receipts'[c].sequence \in EventsOf(c)'
      <4>1. receipts'[c].sequence \in Nat
        BY <2>2 DEF TypeOK, Receipt
      <4>. QED  BY <3>1, <4>1
    <3>. QED  BY <3>2 DEF EventsOf
  <2>. QED  BY <2>1, <2>2, <2>3, <2>4
<1>3. ASSUME r.result.status = "previouslyRejected"
      PROVE  receipts'[r.command].status = "rejected" /\ EventsOf(r.command)' = {}
  <2>1. receipts'[r.command].status = "rejected"
    BY <1>1, <1>3 DEF RepliesDurable
  <2>. QED  BY <1>1, <2>1 DEF AppendedOnceAsDecided
<1>. QED  BY <1>2, <1>3

LEMMA InitInv == Init => IInv
<1>. SUFFICES ASSUME Init PROVE IInv
  OBVIOUS
<1>. USE DEF Init
<1>1. TypeOK
  <2>1. NoReceipt \in Receipt /\ NoResult \in Result
    BY DEF Receipt, NoReceipt, Result, NoResult
  <2>2. receipts \in [Commands -> Receipt] /\ result \in Result
    BY <2>1
  <2>3. dispatches \in 0..MaxDispatches /\ crashes \in 0..MaxCrashes
    BY EngineAssumption
  <2>4. /\ log \in Seq(Event) /\ projections \in Seq(Event) /\ readModel \in Seq(Event)
        /\ queue \in Seq(Commands) /\ pending \in Seq(Body) /\ published \in Seq(Nat)
    OBVIOUS
  <2>5. replies \in SUBSET [command : Commands, result : Result]
    OBVIOUS
  <2>6. /\ phase = "down" /\ command \in Commands /\ startSequence = 0
        /\ faulted = FALSE /\ base = 0
    OBVIOUS
  <2>. QED  BY ONLY <2>2, <2>3, <2>4, <2>5, <2>6 DEF TypeOK
<1>2. AppendedOnceAsDecided
  BY DEF AppendedOnceAsDecided, EventsOf, NoReceipt
<1>3. RepliesDurable /\ ReadModelFollowsLog /\ LiveStreamContiguous
  BY DEF RepliesDurable, ReadModelFollowsLog, LiveStreamContiguous
<1>4. LogWellFormed /\ Cursors /\ Verdict
  BY DEF LogWellFormed, Cursors, Verdict
<1>. QED  BY <1>1, <1>2, <1>3, <1>4 DEF IInv

\* The actions that leave alone the database and what clients were told.
LEMMA ControlStep ==
    ASSUME IInv, UNCHANGED <<log, projections, receipts, replies>>
    PROVE  AppendedOnceAsDecided' /\ RepliesDurable' /\ LogWellFormed'
<1>1. AppendedOnceAsDecided'
  BY DEF IInv, AppendedOnceAsDecided, EventsOf, Bodies
<1>2. RepliesDurable'
  BY DEF IInv, RepliesDurable, EventsOf
<1>. QED  BY <1>1, <1>2 DEF IInv, LogWellFormed

LEMMA DispatchInv ==
    ASSUME IInv, NEW c \in Commands, Dispatch(c)
    PROVE  IInv'
<1>. USE DEF database, worker, feed
<1>1. AppendedOnceAsDecided' /\ RepliesDurable' /\ LogWellFormed'
  BY ControlStep DEF Dispatch
<1>2. TypeOK'
  BY EngineAssumption DEF IInv, TypeOK, Dispatch
<1>3. ReadModelFollowsLog' /\ LiveStreamContiguous' /\ Cursors' /\ Verdict'
  BY DEF IInv, Dispatch, ReadModelFollowsLog, LiveStreamContiguous, Cursors, Verdict
<1>. QED  BY <1>1, <1>2, <1>3 DEF IInv

LEMMA TakeInv ==
    ASSUME IInv, Take
    PROVE  IInv'
<1>. USE DEF database, worker, feed, counters
<1>1. AppendedOnceAsDecided' /\ RepliesDurable' /\ LogWellFormed'
  BY ControlStep DEF Take
<1>2. startSequence' = Len(readModel)
  BY SnapshotIsLength DEF IInv, Take
<1>3. TypeOK'
  <2>1. queue \in Seq(Commands) /\ queue # <<>>
    BY DEF IInv, TypeOK, Take
  <2>2. command' \in Commands /\ queue' \in Seq(Commands)
    BY <2>1, HeadTailProperties DEF Take
  <2>3. startSequence' \in Nat
    BY <1>2 DEF IInv, TypeOK
  <2>4. result' \in Result
    BY DEF Take, Result, NoResult
  <2>5. pending' \in Seq(Body) /\ phase' = "lookup" /\ faulted' = FALSE
    BY DEF Take
  <2>6. UNCHANGED <<log, projections, receipts, readModel, base, published, replies,
                    dispatches, crashes>>
    BY DEF Take
  <2>. QED  BY <2>2, <2>3, <2>4, <2>5, <2>6 DEF IInv, TypeOK
<1>4. ReadModelFollowsLog' /\ LiveStreamContiguous'
  BY DEF IInv, Take, ReadModelFollowsLog, LiveStreamContiguous
<1>5. Cursors' /\ Verdict'
  BY <1>2 DEF IInv, Take, Cursors, Verdict
<1>. QED  BY <1>1, <1>3, <1>4, <1>5 DEF IInv

LEMMA LookupInv ==
    ASSUME IInv, AnswerFromReceipt \/ Decide \/ DecideInvariantError
    PROVE  IInv'
<1>. USE DEF database, worker, feed, counters, AnswerFromReceipt, Decide, DecideInvariantError
<1>1. AppendedOnceAsDecided' /\ RepliesDurable' /\ LogWellFormed'
  BY ControlStep
<1>2. phase = "lookup" /\ readModel = log
  BY DEF IInv, ReadModelFollowsLog
<1>3. TypeOK'
  <2>1. result' \in Result
    BY DEF IInv, TypeOK, Receipt, Result, Failed
  <2>2. pending' \in Seq(Body) \cup Seq(Event)
    <3>1. CASE pending' = pending
      BY <3>1 DEF IInv, TypeOK
    <3>2. CASE pending' \in Decisions(readModel, Content[command])
      <4>1. Content[command] \in CommandContent
        BY DeciderAssumption DEF IInv, TypeOK
      <4>. QED  BY <3>2, <4>1, DecisionsType
    <3>. QED  BY <3>1, <3>2
  <2>. QED  BY <2>1, <2>2 DEF IInv, TypeOK
<1>4. ReadModelFollowsLog' /\ LiveStreamContiguous'
  BY <1>2 DEF IInv, ReadModelFollowsLog, LiveStreamContiguous
<1>5. Cursors'
  <2>1. log \in Seq(Event) /\ readModel \in Seq(Event)
    BY DEF IInv, TypeOK
  <2>2. Len(log) <= Len(readModel) + ReadLimit
    BY <1>2, <2>1, EngineAssumption
  <2>3. startSequence' = Len(readModel') /\ base' + Len(published') = Len(readModel')
    BY <1>2 DEF IInv, Cursors, LiveStreamContiguous
  <2>. QED  BY <1>2, <2>2, <2>3 DEF Cursors
<1>6. Verdict'
  <2>1. receipts[command].status \in {"none", "accepted", "rejected"}
    BY DEF IInv, TypeOK, Receipt
  <2>2. CASE AnswerFromReceipt
    <3>1. receipts[command] = [status |-> receipts[command].status,
                               sequence |-> receipts[command].sequence]
      BY DEF IInv, TypeOK, Receipt
    <3>. QED  BY <2>1, <2>2, <3>1 DEF Verdict, Failed
  <2>3. CASE Decide
    BY <1>2, <2>3 DEF Verdict
  <2>4. CASE DecideInvariantError
    BY <1>2, <2>4 DEF Verdict, Failed
  <2>. QED  BY <2>2, <2>3, <2>4
<1>. QED  BY <1>1, <1>3, <1>4, <1>5, <1>6 DEF IInv

LEMMA StorageErrorInv ==
    ASSUME IInv, StorageError
    PROVE  IInv'
<1>. USE DEF database, worker, feed, counters, StorageError
<1>1. AppendedOnceAsDecided' /\ RepliesDurable' /\ LogWellFormed'
  BY ControlStep
<1>2. readModel = log
  BY DEF IInv, ReadModelFollowsLog
<1>3. TypeOK'
  <2>1. result' \in Result
    BY DEF Result, Failed
  <2>2. pending' \in Seq(Body)
    OBVIOUS
  <2>. QED  BY <2>1, <2>2 DEF IInv, TypeOK
<1>4. ReadModelFollowsLog' /\ LiveStreamContiguous'
  BY <1>2 DEF IInv, ReadModelFollowsLog, LiveStreamContiguous
<1>5. Cursors'
  <2>1. Len(log) <= Len(readModel) + ReadLimit
    BY <1>2, EngineAssumption DEF IInv, TypeOK
  <2>. QED  BY <1>2, <2>1 DEF IInv, Cursors, LiveStreamContiguous
<1>6. Verdict'
  BY DEF Verdict, Failed
<1>. QED  BY <1>1, <1>3, <1>4, <1>5, <1>6 DEF IInv

\* Both outcomes of a durable transaction, as the worker sees it.
LEMMA CommitInv ==
    ASSUME IInv, Commit \/ CommitUnacknowledged
    PROVE  IInv'
<1>. USE DEF worker, feed, counters, Commit, CommitUnacknowledged
<1>0. /\ phase = "transaction" /\ CommitEvents
      /\ UNCHANGED <<readModel, queue, command, startSequence, base, published, replies,
                     dispatches, crashes>>
  OBVIOUS
<1>1. /\ log \in Seq(Event) /\ readModel = log
      /\ startSequence = Len(readModel) /\ base + Len(published) = Len(log)
      /\ Len(log) \in Nat
  BY <1>0 DEF IInv, TypeOK, ReadModelFollowsLog, LiveStreamContiguous, Cursors
<1>2. AppendedOnceAsDecided'
  BY <1>0, CommitAppendsOnce
<1>3. LogWellFormed' /\ log' \in Seq(Event) /\ projections' \in Seq(Event)
  BY <1>0, CommitProperties
<1>4. /\ Len(log') \in Nat /\ Len(log) < Len(log') /\ Len(log') <= Len(log) + ReadLimit
      /\ SubSeq(log', 1, Len(log)) = log
      /\ pending' \in Seq(Event)
      /\ pending' = SubSeq(log', Len(log) + 1, Len(log'))
  BY <1>0, <1>1, CommitProperties, EngineAssumption
<1>5. receipts' = [receipts EXCEPT ![command] =
                     [status |-> "accepted", sequence |-> Len(log')]]
  BY <1>0, CommitAppendsOnce
<1>6. TypeOK'
  <2>1. [status |-> "accepted", sequence |-> Len(log')] \in Receipt
    BY <1>4 DEF Receipt
  <2>2. receipts' \in [Commands -> Receipt]
    BY <1>5, <2>1 DEF IInv, TypeOK
  <2>3. result' \in Result
    BY <1>4 DEF Result, Failed
  <2>. QED  BY <1>0, <1>3, <1>4, <2>2, <2>3 DEF IInv, TypeOK
<1>7. RepliesDurable'
  <2>1. receipts[command].status = "none"
    BY <1>0 DEF IInv, Verdict
  <2>2. \A c \in Commands : receipts[c].status # "none" => receipts'[c] = receipts[c]
    BY <1>5, <2>1 DEF IInv, TypeOK
  <2>. QED  BY <1>0, <1>2, <1>6, <2>2, RepliesStayDurable DEF IInv
<1>8. ReadModelFollowsLog'
  BY <1>0, <1>1, <1>4 DEF ReadModelFollowsLog
<1>9. LiveStreamContiguous'
  BY <1>0, <1>1 DEF IInv, LiveStreamContiguous
<1>10. Cursors'
  <2>1. CASE Commit
    BY <1>0, <1>1, <1>4, <2>1 DEF Cursors
  <2>2. CASE CommitUnacknowledged
    BY <1>0, <1>1, <1>4, <2>2 DEF Cursors
  <2>. QED  BY <2>1, <2>2
<1>11. Verdict'
  <2>1. CASE Commit
    <3>1. receipts'[command] = [status |-> "accepted", sequence |-> Len(log')]
      BY <1>5 DEF IInv, TypeOK
    <3>. QED  BY <1>0, <2>1, <3>1 DEF Verdict
  <2>2. CASE CommitUnacknowledged
    BY <2>2 DEF Verdict, Failed
  <2>. QED  BY <2>1, <2>2
<1>. QED  BY <1>2, <1>3, <1>6, <1>7, <1>8, <1>9, <1>10, <1>11 DEF IInv

\* A prefix of the log and its remaining events are the log.
LEMMA FoldRest ==
    ASSUME TypeOK, readModel = SubSeq(log, 1, Len(readModel)), Len(readModel) <= Len(log)
    PROVE  readModel \o SubSeq(log, Len(readModel) + 1, Len(log)) = log
<1>1. log \in Seq(Event) /\ Len(log) \in Nat /\ Len(readModel) \in Nat
  BY DEF TypeOK
<1>. DEFINE k == Len(readModel)
<1>2. 1 \in 1..Len(log) + 1 /\ k \in (1 - 1)..Len(log) /\ Len(log) \in k..Len(log)
  BY <1>1
<1>3. SubSeq(log, 1, k) \o SubSeq(log, k + 1, Len(log)) = SubSeq(log, 1, Len(log))
  BY <1>1, <1>2, ConcatAdjacentSubSeq
<1>4. SubSeq(log, 1, Len(log)) = log
  BY <1>1, SubSeqFull
<1>. QED  BY <1>3, <1>4, Zenon

LEMMA AdoptInv ==
    ASSUME IInv, Adopt
    PROVE  IInv'
<1>. USE DEF database, worker, feed, counters, Adopt
<1>0. pending = SubSeq(log, Len(readModel) + 1, Len(log))
  BY DEF IInv, Cursors
<1>1. readModel' = log
  BY <1>0, FoldRest DEF IInv, ReadModelFollowsLog
<1>2. log \in Seq(Event) /\ Len(log) \in Nat /\ SubSeq(log, 1, Len(log)) = log
  BY SubSeqFull DEF IInv, TypeOK
<1>3. TypeOK'
  BY <1>1, <1>2 DEF IInv, TypeOK
<1>4. AppendedOnceAsDecided' /\ RepliesDurable' /\ LogWellFormed'
  BY ControlStep
<1>5. ReadModelFollowsLog'
  BY <1>1, <1>2 DEF ReadModelFollowsLog
<1>6. LiveStreamContiguous'
  <2>0. \A i \in DOMAIN published' : published'[i] = base' + i
    BY DEF IInv, LiveStreamContiguous
  <2>1. Len(readModel) <= Len(log) /\ base + Len(published) = Len(readModel)
    BY DEF IInv, ReadModelFollowsLog, Cursors
  <2>2. Len(log) \in Nat /\ Len(readModel) \in Nat /\ Len(readModel') = Len(log)
    BY <1>1, <1>2 DEF IInv, TypeOK
  <2>3. base' + Len(published') = Len(readModel)
    BY <2>1
  <2>4. base' + Len(published') <= Len(readModel')
    BY ONLY <2>1, <2>2, <2>3
  <2>. QED  BY <2>0, <2>4 DEF LiveStreamContiguous
<1>7. Cursors' /\ Verdict'
  BY DEF IInv, Cursors, Verdict
<1>. QED  BY <1>3, <1>4, <1>5, <1>6, <1>7 DEF IInv

LEMMA ReconcileInv ==
    ASSUME IInv, Reconcile
    PROVE  IInv'
<1>. USE DEF database, worker, feed, counters, Reconcile
<1>1. /\ readModel = SubSeq(log, 1, Len(readModel)) /\ Len(readModel) <= Len(log)
      /\ startSequence = Len(readModel) /\ base + Len(published) = Len(readModel)
      /\ Len(log) <= Len(readModel) + ReadLimit
      /\ log \in Seq(Event) /\ Len(log) \in Nat /\ Len(readModel) \in 0..Len(log)
  <2>1. /\ readModel = SubSeq(log, 1, Len(readModel)) /\ Len(readModel) <= Len(log)
    BY DEF IInv, ReadModelFollowsLog
  <2>2. /\ startSequence = Len(readModel) /\ base + Len(published) = Len(readModel)
        /\ Len(log) <= Len(readModel) + ReadLimit
    BY DEF IInv, Cursors
  <2>3. log \in Seq(Event) /\ Len(log) \in Nat /\ Len(readModel) \in Nat
    BY DEF IInv, TypeOK
  <2>. QED  BY <2>1, <2>2, <2>3
<1>2. /\ pending' \in Seq(Event)
      /\ pending' = SubSeq(log, Len(readModel) + 1, Len(log))
  BY <1>1, ReadProperties DEF IInv
<1>3. readModel' = log
  BY <1>1, <1>2, FoldRest DEF IInv
<1>4. TypeOK'
  BY <1>1, <1>2, <1>3 DEF IInv, TypeOK
<1>5. AppendedOnceAsDecided' /\ RepliesDurable' /\ LogWellFormed'
  BY ControlStep
<1>6. ReadModelFollowsLog'
  <2>1. log = SubSeq(log, 1, Len(log))
    BY <1>1, SubSeqFull
  <2>. QED  BY <1>1, <1>3, <2>1 DEF ReadModelFollowsLog
<1>7. LiveStreamContiguous'
  <2>1. \A i \in DOMAIN published' : published'[i] = base' + i
    BY DEF IInv, LiveStreamContiguous
  <2>2. Len(readModel') = Len(log) /\ base' + Len(published') = Len(readModel)
    BY <1>1, <1>3
  <2>3. base' + Len(published') <= Len(readModel')
    BY <1>1, <2>2
  <2>. QED  BY <2>1, <2>3 DEF LiveStreamContiguous
<1>8. Cursors'
  BY <1>1, <1>2 DEF Cursors
<1>9. Verdict'
  BY DEF IInv, Verdict
<1>. QED  BY <1>4, <1>5, <1>6, <1>7, <1>8, <1>9 DEF IInv

LEMMA ReconcileErrorInv ==
    ASSUME IInv, ReconcileError
    PROVE  IInv'
<1>. USE DEF database, worker, feed, counters, ReconcileError
<1>1. /\ readModel = log /\ base + Len(published) = Len(log)
      /\ log \in Seq(Event) /\ Len(log) \in Nat
  <2>1. readModel = log /\ base + Len(published) = Len(readModel)
    BY DEF IInv, Cursors
  <2>2. log \in Seq(Event) /\ Len(log) \in Nat
    BY DEF IInv, TypeOK
  <2>. QED  BY <2>1, <2>2
<1>2. TypeOK'
  <2>1. pending' \in Seq(Event)
    OBVIOUS
  <2>. QED  BY <2>1 DEF IInv, TypeOK
<1>3. AppendedOnceAsDecided' /\ RepliesDurable' /\ LogWellFormed'
  BY ControlStep
<1>4. ReadModelFollowsLog' /\ LiveStreamContiguous'
  BY <1>1 DEF IInv, ReadModelFollowsLog, LiveStreamContiguous
<1>5. Cursors'
  <2>1. SubSeq(log, Len(log) + 1, Len(log)) = <<>>
    BY <1>1, SubSeqEmpty
  <2>. QED  BY <1>1, <2>1 DEF Cursors
<1>6. Verdict'
  BY DEF IInv, Verdict
<1>. QED  BY <1>2, <1>3, <1>4, <1>5, <1>6 DEF IInv

LEMMA PublishNextInv ==
    ASSUME IInv, PublishNext
    PROVE  IInv'
<1>. USE DEF database, worker, feed, counters, PublishNext
<1>. DEFINE n == base + Len(published)
<1>1. /\ readModel = log /\ log \in Seq(Event) /\ Len(log) \in Nat
      /\ pending = SubSeq(log, n + 1, Len(log)) /\ pending # <<>>
      /\ published \in Seq(Nat) /\ base \in Nat /\ n \in Nat /\ n <= Len(log)
  BY DEF IInv, TypeOK, ReadModelFollowsLog, Cursors, LiveStreamContiguous
<1>2. n < Len(log)
  BY <1>1, SubSeqEmpty
<1>3. /\ Head(pending) = log[n + 1]
      /\ Tail(pending) = SubSeq(log, n + 2, Len(log))
  <2>1. n + 1 \in 1..Len(log) /\ Len(log) \in n + 1..Len(log) /\ (n + 1) + 1 = n + 2
    BY <1>1, <1>2
  <2>. HIDE DEF n
  <2>. QED  BY <1>1, <2>1, HeadTailOfSubSeq
<1>4. Head(pending).sequence = n + 1
  <2>1. n + 1 \in DOMAIN log
    BY <1>1, <1>2
  <2>. QED  BY <1>3, <2>1 DEF IInv, LogWellFormed
<1>5. /\ published' \in Seq(Nat) /\ Len(published') = Len(published) + 1
      /\ \A i \in 1..Len(published) : published'[i] = published[i]
      /\ published'[Len(published) + 1] = n + 1
  BY <1>1, <1>4, AppendProperties
<1>6. TypeOK'
  <2>1. Tail(pending) \in Seq(Event)
    <3>1. \A i \in n + 2..Len(log) : log[i] \in Event
      BY <1>1
    <3>2. n + 2 \in Int /\ Len(log) \in Int
      BY <1>1
    <3>. HIDE DEF n
    <3>. QED  BY <1>3, <3>1, <3>2, SubSeqProperties
  <2>. QED  BY <1>5, <2>1 DEF IInv, TypeOK
<1>7. AppendedOnceAsDecided' /\ RepliesDurable' /\ LogWellFormed'
  BY ControlStep
<1>8. ReadModelFollowsLog'
  BY DEF IInv, ReadModelFollowsLog
<1>9. LiveStreamContiguous'
  <2>1. DOMAIN published = 1..Len(published) /\ DOMAIN published' = 1..Len(published')
    BY <1>1, <1>5
  <2>2. \A i \in 1..Len(published') : published'[i] = base + i
    <3>1. \A i \in 1..Len(published) : published[i] = base + i
      BY <2>1 DEF IInv, LiveStreamContiguous
    <3>2. Len(published) \in Nat /\ base + (Len(published) + 1) = n + 1
      BY <1>1
    <3>. HIDE DEF n
    <3>. QED  BY <1>5, <3>1, <3>2
  <2>3. base' + Len(published') <= Len(readModel')
    BY <1>1, <1>2, <1>5
  <2>. QED  BY <2>1, <2>2, <2>3 DEF LiveStreamContiguous
<1>10. Cursors'
  <2>1. base' + Len(published') + 1 = n + 2
    BY <1>1, <1>5
  <2>. HIDE DEF n
  <2>. QED  BY <1>3, <2>1 DEF Cursors
<1>11. Verdict'
  BY DEF IInv, Verdict
<1>. QED  BY <1>6, <1>7, <1>8, <1>9, <1>10, <1>11 DEF IInv

LEMMA PublishDoneInv ==
    ASSUME IInv, PublishDone
    PROVE  IInv'
<1>. USE DEF database, worker, feed, counters, PublishDone
<1>1. /\ readModel = log /\ log \in Seq(Event) /\ Len(log) \in Nat
      /\ SubSeq(log, base + Len(published) + 1, Len(log)) = <<>>
      /\ published \in Seq(Nat) /\ base \in Nat /\ base + Len(published) <= Len(log)
  <2>1. /\ log \in Seq(Event) /\ Len(log) \in Nat
        /\ published \in Seq(Nat) /\ base \in Nat
    BY DEF IInv, TypeOK
  <2>2. readModel = log
    BY DEF IInv, ReadModelFollowsLog
  <2>3. SubSeq(log, base + Len(published) + 1, Len(log)) = <<>>
    BY DEF IInv, Cursors
  <2>4. base + Len(published) <= Len(readModel)
    BY DEF IInv, LiveStreamContiguous
  <2>. QED  BY <2>1, <2>2, <2>3, <2>4
<1>2. base + Len(published) = Len(log)
  <2>. SUFFICES ASSUME base + Len(published) < Len(log) PROVE FALSE
    BY <1>1
  <2>1. /\ base + Len(published) + 1 \in 1..Len(log)
        /\ \A i \in base + Len(published) + 1..Len(log) : log[i] \in Event
    BY <1>1
  <2>2. Len(SubSeq(log, base + Len(published) + 1, Len(log))) # 0
    BY <1>1, <2>1, SubSeqProperties
  <2>. QED  BY <1>1, <2>2, EmptySeq
<1>3. TypeOK'
  BY DEF IInv, TypeOK
<1>4. AppendedOnceAsDecided' /\ RepliesDurable' /\ LogWellFormed'
  BY ControlStep
<1>5. ReadModelFollowsLog' /\ LiveStreamContiguous'
  BY <1>1, <1>2 DEF IInv, ReadModelFollowsLog, LiveStreamContiguous
<1>6. Cursors'
  BY DEF IInv, Cursors
<1>7. Verdict'
  BY DEF IInv, Verdict, Cursors
<1>. QED  BY <1>3, <1>4, <1>5, <1>6, <1>7 DEF IInv

LEMMA RecordRejectionInv ==
    ASSUME IInv, RecordRejection
    PROVE  IInv'
<1>. USE DEF worker, feed, counters, RecordRejection
<1>1. /\ readModel = log /\ log \in Seq(Event) /\ Len(log) \in Nat
      /\ SnapshotSequence(readModel) = Len(log)
      /\ receipts \in [Commands -> Receipt] /\ command \in Commands
      /\ receipts[command].status = "none"
  <2>1. readModel = log
    BY DEF IInv, ReadModelFollowsLog
  <2>2. /\ log \in Seq(Event) /\ Len(log) \in Nat
        /\ receipts \in [Commands -> Receipt] /\ command \in Commands
    BY DEF IInv, TypeOK
  <2>3. receipts[command].status = "none"
    BY DEF IInv, Verdict
  <2>. QED  BY <2>1, <2>2, <2>3, SnapshotIsLength DEF IInv
<1>2. receipts' = [receipts EXCEPT ![command] = [status |-> "rejected", sequence |-> Len(log)]]
  BY <1>1
<1>3. TypeOK'
  <2>1. receipts' \in [Commands -> Receipt]
    BY <1>1, <1>2 DEF Receipt
  <2>. QED  BY <2>1 DEF IInv, TypeOK
<1>4. AppendedOnceAsDecided'
  <2>1. EventsOf(command) = {}
    BY <1>1 DEF IInv, AppendedOnceAsDecided
  <2>2. ASSUME NEW c \in Commands
        PROVE  IF receipts'[c].status = "accepted"
               THEN \E first \in 1..receipts'[c].sequence :
                       /\ EventsOf(c) = first..receipts'[c].sequence
                       /\ Bodies(first, receipts'[c].sequence)
                            \in Decisions(SubSeq(log, 1, first - 1), Content[c])
               ELSE EventsOf(c) = {}
    <3>1. CASE c = command
      BY <1>1, <1>2, <2>1, <3>1
    <3>2. CASE c # command
      <4>1. receipts'[c] = receipts[c]
        BY <1>1, <1>2, <3>2
      <4>. QED  BY <4>1 DEF IInv, AppendedOnceAsDecided
    <3>. QED  BY <3>1, <3>2
  <2>. QED  BY <2>2 DEF AppendedOnceAsDecided, EventsOf, Bodies
<1>5. RepliesDurable'
  <2>1. \A c \in Commands : receipts[c].status # "none" => receipts'[c] = receipts[c]
    BY <1>1, <1>2
  <2>. QED  BY <1>3, <1>4, <2>1, RepliesStayDurable DEF IInv
<1>6. ReadModelFollowsLog' /\ LiveStreamContiguous'
  BY DEF IInv, ReadModelFollowsLog, LiveStreamContiguous
<1>7. LogWellFormed' /\ Cursors'
  BY DEF IInv, LogWellFormed, Cursors
<1>8. Verdict'
  <2>1. result.status = "invariant"
    BY DEF IInv, Verdict
  <2>. QED  BY <2>1 DEF Verdict
<1>. QED  BY <1>3, <1>4, <1>5, <1>6, <1>7, <1>8 DEF IInv

LEMMA RecordRejectionErrorInv ==
    ASSUME IInv, RecordRejectionError
    PROVE  IInv'
<1>. USE DEF database, worker, feed, counters, RecordRejectionError
<1>1. AppendedOnceAsDecided' /\ RepliesDurable' /\ LogWellFormed'
  BY ControlStep
<1>2. TypeOK'
  BY DEF IInv, TypeOK
<1>3. ReadModelFollowsLog' /\ LiveStreamContiguous' /\ Cursors'
  BY DEF IInv, ReadModelFollowsLog, LiveStreamContiguous, Cursors
<1>4. Verdict'
  <2>1. result.status = "invariant"
    BY DEF IInv, Verdict
  <2>. QED  BY <2>1 DEF Verdict
<1>. QED  BY <1>1, <1>2, <1>3, <1>4 DEF IInv

LEMMA ReplyInv ==
    ASSUME IInv, Reply
    PROVE  IInv'
<1>. USE DEF database, worker, feed, counters, Reply
<1>1. AppendedOnceAsDecided' /\ LogWellFormed'
  BY DEF IInv, AppendedOnceAsDecided, EventsOf, Bodies, LogWellFormed
<1>2. command \in Commands /\ result \in Result
  BY DEF IInv, TypeOK
<1>3. TypeOK'
  BY <1>2 DEF IInv, TypeOK
<1>4. RepliesDurable'
  <2>1. ASSUME result.status = "accepted"
        PROVE  /\ receipts[command] = [status |-> "accepted", sequence |-> result.sequence]
               /\ log[result.sequence].command = command
    <3>1. receipts[command] = [status |-> "accepted", sequence |-> result.sequence]
      BY <2>1 DEF IInv, Verdict
    <3>2. receipts[command].status = "accepted" /\ receipts[command].sequence = result.sequence
      BY <3>1
    <3>. QED  BY <1>2, <3>1, <3>2, AcceptedInLog DEF IInv
  <2>2. ASSUME result.status = "previouslyRejected"
        PROVE  receipts[command].status = "rejected" /\ EventsOf(command) = {}
    BY <1>2, <2>2 DEF IInv, Verdict, AppendedOnceAsDecided
  <2>3. \A r \in replies' : r \in replies \/ (r.command = command /\ r.result = result)
    OBVIOUS
  <2>4. ASSUME NEW r \in replies'
        PROVE  /\ r.result.status = "accepted" =>
                    /\ receipts[r.command] = [status |-> "accepted", sequence |-> r.result.sequence]
                    /\ log[r.result.sequence].command = r.command
               /\ r.result.status = "previouslyRejected" =>
                    receipts[r.command].status = "rejected" /\ EventsOf(r.command) = {}
    <3>1. CASE r \in replies
      BY <3>1 DEF IInv, RepliesDurable
    <3>2. CASE r.command = command /\ r.result = result
      BY <2>1, <2>2, <3>2
    <3>. QED  BY <2>3, <3>1, <3>2
  <2>. QED  BY <2>4 DEF RepliesDurable, EventsOf
<1>5. ReadModelFollowsLog' /\ LiveStreamContiguous' /\ Cursors' /\ Verdict'
  BY DEF IInv, ReadModelFollowsLog, LiveStreamContiguous, Cursors, Verdict
<1>. QED  BY <1>1, <1>3, <1>4, <1>5 DEF IInv

LEMMA StartInv ==
    ASSUME IInv, Start
    PROVE  IInv'
<1>. USE DEF worker, counters, Start
<1>1. /\ projections = log /\ log \in Seq(Event) /\ Len(log) \in Nat
      /\ readModel = <<>> /\ base = 0 /\ published = <<>>
      /\ \A i \in 1..Len(log) : log[i].sequence = i
  BY DEF IInv, TypeOK, LogWellFormed, Cursors
<1>2. SnapshotSequence(log) = Len(log)
  BY <1>1, LastSequence
<1>3. ReadFromSequence(Len(log)) = <<>>
  <2>1. Len(log) \in 0..Len(log) /\ Len(log) <= Len(log) + ReadLimit
    BY <1>1, EngineAssumption
  <2>2. ReadFromSequence(Len(log)) = SubSeq(log, Len(log) + 1, Len(log))
    BY <2>1, ReadProperties DEF IInv
  <2>. QED  BY <1>1, <2>2, SubSeqEmpty
<1>4. projections' = log /\ readModel' = log /\ base' = Len(log) /\ published' = <<>>
  <2>1. log \o <<>> = log
    BY <1>1, ConcatEmptySeq
  <2>. QED  BY <1>1, <1>2, <1>3, <2>1
<1>5. AppendedOnceAsDecided' /\ RepliesDurable' /\ LogWellFormed'
  BY <1>1, <1>4, ControlStep
<1>6. TypeOK'
  BY <1>1, <1>4 DEF IInv, TypeOK
<1>7. ReadModelFollowsLog'
  BY <1>1, <1>4, SubSeqFull DEF ReadModelFollowsLog
<1>8. LiveStreamContiguous'
  BY <1>1, <1>4 DEF LiveStreamContiguous
<1>9. Cursors' /\ Verdict'
  BY <1>4 DEF Cursors, Verdict
<1>. QED  BY <1>5, <1>6, <1>7, <1>8, <1>9 DEF IInv

LEMMA CrashInv ==
    ASSUME IInv, Crash
    PROVE  IInv'
<1>. USE DEF database, Crash
<1>1. AppendedOnceAsDecided' /\ RepliesDurable' /\ LogWellFormed'
  BY ControlStep
<1>2. TypeOK'
  <2>1. result' \in Result
    BY DEF Result, NoResult
  <2>2. /\ readModel' \in Seq(Event) /\ queue' \in Seq(Commands)
        /\ pending' \in Seq(Body) /\ published' \in Seq(Nat)
    OBVIOUS
  <2>3. crashes' \in 0..MaxCrashes
    BY EngineAssumption DEF IInv, TypeOK
  <2>. QED  BY <2>1, <2>2, <2>3 DEF IInv, TypeOK
<1>3. ReadModelFollowsLog' /\ LiveStreamContiguous' /\ Cursors' /\ Verdict'
  BY DEF ReadModelFollowsLog, LiveStreamContiguous, Cursors, Verdict
<1>. QED  BY <1>1, <1>2, <1>3 DEF IInv

LEMMA StutterInv ==
    ASSUME IInv, UNCHANGED vars
    PROVE  IInv'
<1>. USE DEF vars, database, worker, feed, counters
<1>1. AppendedOnceAsDecided' /\ RepliesDurable' /\ LogWellFormed'
  BY ControlStep
<1>2. TypeOK'
  BY DEF IInv, TypeOK
<1>3. ReadModelFollowsLog' /\ LiveStreamContiguous' /\ Cursors' /\ Verdict'
  BY DEF IInv, ReadModelFollowsLog, LiveStreamContiguous, Cursors, Verdict
<1>. QED  BY <1>1, <1>2, <1>3 DEF IInv

LEMMA NextInv == IInv /\ [Next]_vars => IInv'
<1>. SUFFICES ASSUME IInv, [Next]_vars PROVE IInv'
  OBVIOUS
<1>1. CASE Start  BY <1>1, StartInv
<1>2. CASE Crash  BY <1>2, CrashInv
<1>3. CASE \E c \in Commands : Dispatch(c)  BY <1>3, DispatchInv
<1>4. CASE Take  BY <1>4, TakeInv
<1>5. CASE AnswerFromReceipt \/ Decide \/ DecideInvariantError  BY <1>5, LookupInv
<1>6. CASE Commit \/ CommitUnacknowledged  BY <1>6, CommitInv
<1>7. CASE StorageError  BY <1>7, StorageErrorInv
<1>8. CASE Adopt  BY <1>8, AdoptInv
<1>9. CASE PublishNext  BY <1>9, PublishNextInv
<1>10. CASE PublishDone  BY <1>10, PublishDoneInv
<1>11. CASE Reconcile  BY <1>11, ReconcileInv
<1>12. CASE ReconcileError  BY <1>12, ReconcileErrorInv
<1>13. CASE RecordRejection  BY <1>13, RecordRejectionInv
<1>14. CASE RecordRejectionError  BY <1>14, RecordRejectionErrorInv
<1>15. CASE Reply  BY <1>15, ReplyInv
<1>16. CASE UNCHANGED vars  BY <1>16, StutterInv
<1>. QED
  BY <1>1, <1>2, <1>3, <1>4, <1>5, <1>6, <1>7, <1>8, <1>9, <1>10, <1>11, <1>12,
     <1>13, <1>14, <1>15, <1>16 DEF Next, ProcessEnvelope

LEMMA Invariance == Spec => []IInv
<1>. QED  BY InitInv, NextInv, PTL DEF Spec

-----------------------------------------------------------------------------
(* The theorems. *)

\* Every variable stays in its domain, whatever the commands, limits and
\* bounds: the worker's phases and results are those of processEnvelope.
THEOREM TypeCorrect == Spec => []TypeOK
BY Invariance, PTL DEF IInv

\* However a command is retried, raced, failed or interrupted, it is executed
\* at most once, in one block, decided on exactly the log before it.
THEOREM CommandsRunOnce == Spec => []AppendedOnceAsDecided
BY Invariance, PTL DEF IInv

\* The in-memory read model commands are decided on is the committed log.
THEOREM ReadModelIsCommittedLog == Spec => []ReadModelFollowsLog
BY Invariance, PTL DEF IInv

\* Live subscribers are given every committed event once and in order.
THEOREM NoEventLostToSubscribers == Spec => []LiveStreamContiguous
BY Invariance, PTL DEF IInv

\* No crash or retry makes a client's answer false.
THEOREM AnswersStayTrue == Spec => []RepliesDurable
BY Invariance, PTL DEF IInv

-----------------------------------------------------------------------------
(* Every step of the engine is a step of the command log, or changes nothing *)
(* that it tells of.                                                         *)

\* The instance decides as the engine does: it has the engine's constants.
LEMMA SameDecisions ==
    ASSUME NEW rm, NEW c
    PROVE  AbstractLog!Decisions(rm, c) = Decisions(rm, c)
BY DEF Decisions, CreateProject, UpdateProject, DeleteProject, CreateThread,
       DeleteThread, ArchiveThread, UnarchiveThread, RecordOnThread, StartTurn,
       When, ProjectExists, InProject, ThreadExists, ThreadDeleted, ThreadArchived,
       ActiveThreads, CreatedBefore, InCreationOrder, ProjectEvent, ThreadEvent,
       ThreadCreated, FieldEvents, TurnEvents, EventTypes,
       AbstractLog!Decisions, AbstractLog!CreateProject, AbstractLog!UpdateProject,
       AbstractLog!DeleteProject, AbstractLog!CreateThread, AbstractLog!DeleteThread,
       AbstractLog!ArchiveThread, AbstractLog!UnarchiveThread,
       AbstractLog!RecordOnThread, AbstractLog!StartTurn, AbstractLog!When,
       AbstractLog!ProjectExists, AbstractLog!InProject, AbstractLog!ThreadExists,
       AbstractLog!ThreadDeleted, AbstractLog!ThreadArchived,
       AbstractLog!ActiveThreads, AbstractLog!CreatedBefore,
       AbstractLog!InCreationOrder, AbstractLog!ProjectEvent, AbstractLog!ThreadEvent,
       AbstractLog!ThreadCreated, AbstractLog!FieldEvents, AbstractLog!TurnEvents,
       AbstractLog!EventTypes

LEMMA SameSaved ==
    ASSUME NEW n, NEW c, NEW bodies
    PROVE  AbstractLog!Saved(n, c, bodies) = Saved(n, c, bodies)
BY DEF Saved, AbstractLog!Saved

LEMMA CommitIsAccept ==
    ASSUME IInv, Commit \/ CommitUnacknowledged
    PROVE  AbstractLog!Accept(command)
<1>1. phase = "transaction" /\ CommitEvents /\ command' = command
  BY DEF Commit, CommitUnacknowledged
<1>2. /\ receipts[command].status = "none"
      /\ pending \in AbstractLog!Decisions(log, Content[command])
  BY <1>1, SameDecisions DEF IInv, Verdict
<1>3. log' = log \o AbstractLog!Saved(Len(log), command, pending)
  BY <1>1, SameSaved DEF CommitEvents
<1>4. receipts' = [receipts EXCEPT ![command] = [status |-> "accepted", sequence |-> Len(log')]]
  BY <1>1, CommitAppendsOnce
<1>. QED  BY <1>2, <1>3, <1>4 DEF AbstractLog!Accept

LEMMA RecordIsReject ==
    ASSUME IInv, RecordRejection
    PROVE  AbstractLog!Reject(command)
<1>1. /\ receipts[command].status = "none"
      /\ AbstractLog!Decisions(log, Content[command]) = {}
  BY SameDecisions DEF IInv, Verdict, RecordRejection
<1>2. readModel = log /\ log' = log
  BY DEF IInv, ReadModelFollowsLog, RecordRejection
<1>3. SnapshotSequence(readModel) = Len(log)
  BY <1>2, SnapshotIsLength DEF IInv
<1>. QED  BY <1>1, <1>2, <1>3 DEF AbstractLog!Reject, RecordRejection

\* Every other step leaves the log and the receipts alone.
LEMMA CommandLogStep == IInv /\ [Next]_vars => [AbstractLog!Next]_(AbstractLog!vars)
<1>. SUFFICES ASSUME IInv, [Next]_vars
              PROVE  AbstractLog!Next \/ UNCHANGED AbstractLog!vars
  OBVIOUS
<1>0. command \in Commands
  BY DEF IInv, TypeOK
<1>1. CASE Commit \/ CommitUnacknowledged
  BY <1>0, <1>1, CommitIsAccept DEF AbstractLog!Next
<1>2. CASE RecordRejection
  BY <1>0, <1>2, RecordIsReject DEF AbstractLog!Next
<1>3. CASE \/ Start \/ Crash \/ \E c \in Commands : Dispatch(c)
  BY <1>3 DEF AbstractLog!vars, Start, Crash, Dispatch, database
<1>4. CASE \/ Take \/ AnswerFromReceipt \/ Decide \/ DecideInvariantError
           \/ StorageError \/ Adopt \/ PublishNext \/ PublishDone
           \/ Reconcile \/ ReconcileError \/ RecordRejectionError \/ Reply
  BY <1>4 DEF AbstractLog!vars, Take, AnswerFromReceipt, Decide, DecideInvariantError,
     StorageError, Adopt, PublishNext, PublishDone, Reconcile, ReconcileError,
     RecordRejectionError, Reply, database
<1>5. CASE UNCHANGED vars
  BY <1>5 DEF AbstractLog!vars, vars, database
<1>. QED  BY <1>1, <1>2, <1>3, <1>4, <1>5 DEF Next, ProcessEnvelope

\* Queueing, retries, storage failures, lost acknowledgements and crashes are
\* invisible in the log and the receipts.
THEOREM EngineImplementsCommandLog == Spec => ImplementsCommandLog
<1>1. Init => AbstractLog!Init
  BY DEF Init, AbstractLog!Init, NoReceipt
<1>. QED
  BY <1>1, CommandLogStep, Invariance, PTL DEF Spec, ImplementsCommandLog, AbstractLog!Spec

-----------------------------------------------------------------------------
(* The same of the feed that readers and subscribers rely on. *)

LEMMA FeedStep == IInv /\ [Next]_vars => [Feed!Next]_(Feed!vars)
<1>. SUFFICES ASSUME IInv, [Next]_vars
              PROVE  Feed!Next \/ UNCHANGED Feed!vars
  OBVIOUS
<1>0. /\ Len(log) \in Nat /\ Len(readModel) \in Nat /\ Len(published) \in Nat
      /\ log \in Seq(Event) /\ base \in Nat
  BY DEF IInv, TypeOK
<1>1. CASE Start
  <2>1. projections = log /\ published = <<>>
    BY <1>1 DEF IInv, LogWellFormed, Cursors, Start
  <2>2. readModel' = log /\ base' = Len(log)
    <3>1. ReadModelFollowsLog' /\ LiveStreamContiguous' /\ phase' = "idle" /\ log' = log
      BY <1>1, StartInv DEF IInv, Start
    <3>2. readModel' = log
      BY <3>1 DEF ReadModelFollowsLog
    <3>3. base' + Len(published') = Len(log')
      BY <3>1 DEF LiveStreamContiguous
    <3>4. published' = <<>> /\ base' \in Nat
      BY <1>1, <2>1, StartInv DEF IInv, TypeOK, Start
    <3>. QED  BY <3>1, <3>2, <3>3, <3>4
  <2>3. Len(published') = 0
    BY <1>1, <2>1 DEF Start
  <2>. QED
    BY <1>0, <1>1, <2>2, <2>3 DEF Start, Feed!Next, Feed!Start
<1>2. CASE Crash
  BY <1>2 DEF Crash, database, Feed!Next, Feed!Stop
<1>3. CASE Commit \/ CommitUnacknowledged
  <2>1. phase = "transaction" /\ CommitEvents /\ phase' \in {"adopt", "reconcile"}
    BY <1>3 DEF Commit, CommitUnacknowledged
  <2>2. Len(log') > Len(log)
    BY <1>0, <2>1, CommitProperties, EngineAssumption
  <2>3. base + Len(published) = Len(log)
    BY <2>1 DEF IInv, LiveStreamContiguous
  <2>4. UNCHANGED <<readModel, base, published>>
    BY <1>3 DEF Commit, CommitUnacknowledged, feed
  <2>. QED  BY <2>1, <2>2, <2>3, <2>4 DEF Feed!Next, Feed!Commit
<1>4. CASE Adopt \/ Reconcile
  <2>1. phase \in {"adopt", "reconcile"} /\ phase' = "publish"
        /\ UNCHANGED <<log, base, published>>
    BY <1>4 DEF Adopt, Reconcile, database, feed
  <2>2. readModel' = log
    BY <1>4, <2>1, AdoptInv, ReconcileInv DEF IInv, ReadModelFollowsLog
  <2>3. Len(readModel) <= Len(log) /\ readModel = SubSeq(log, 1, Len(readModel))
    BY <2>1 DEF IInv, ReadModelFollowsLog
  <2>4. CASE Len(readModel) < Len(log)
    BY <2>1, <2>2, <2>4 DEF Feed!Next, Feed!Adopt
  <2>5. CASE Len(readModel) = Len(log)
    BY <2>1, <2>2, <2>5 DEF Feed!vars
  <2>. QED  BY <1>0, <2>3, <2>4, <2>5
<1>5. CASE PublishNext
  <2>1. phase = "publish" /\ phase' = "publish" /\ UNCHANGED <<log, readModel, base>>
    BY <1>5 DEF PublishNext, database
  <2>2. Len(published') = Len(published) + 1
    BY <1>5 DEF PublishNext, IInv, TypeOK
  <2>3. base + Len(published) + 1 <= Len(readModel)
    BY <1>0, <1>5, <2>1, <2>2, PublishNextInv DEF IInv, LiveStreamContiguous
  <2>. QED  BY <1>0, <2>1, <2>2, <2>3 DEF Feed!Next, Feed!Publish
<1>6. CASE \/ Take \/ AnswerFromReceipt \/ Decide \/ DecideInvariantError
           \/ StorageError \/ PublishDone \/ ReconcileError
           \/ RecordRejection \/ RecordRejectionError \/ Reply
  BY <1>6 DEF Feed!vars, Take, AnswerFromReceipt, Decide, DecideInvariantError,
     StorageError, PublishDone, ReconcileError, RecordRejection, RecordRejectionError,
     Reply, database, feed, worker
<1>7. CASE \E c \in Commands : Dispatch(c)
  BY <1>7 DEF Feed!vars, Dispatch, database, feed
<1>8. CASE UNCHANGED vars
  BY <1>8 DEF Feed!vars, vars, database, feed
<1>. QED  BY <1>1, <1>2, <1>3, <1>4, <1>5, <1>6, <1>7, <1>8 DEF Next, ProcessEnvelope

\* The cursors a reader can observe -- what is committed, what the read model
\* has folded, what was published -- move as the feed promises.
THEOREM EngineImplementsEventFeed == Spec => ImplementsEventFeed
<1>1. Init => Feed!Init
  BY DEF Init, Feed!Init
<1>. QED
  BY <1>1, FeedStep, Invariance, PTL DEF Spec, ImplementsEventFeed, Feed!Spec
=============================================================================
