----------------------- MODULE CheckpointReactorProofs -----------------------
(***************************************************************************)
(* Proofs about the checkpoints of a thread, for any number of turns,      *)
(* edits, reverts, failures and crashes.                                   *)
(*                                                                         *)
(* Most of the invariant holds while no known gap has been met (Clean).    *)
(* Its core is what is known of a turn between its start and its           *)
(* checkpoint: the turn is in the provider's conversation, and either      *)
(* shown or on its way to be (Conversation); a count chosen and not yet    *)
(* recorded is still the right one, or will be seen to be taken (Counts).  *)
(* The last part is apart: which reverts are still to be answered, and     *)
(* which never will be because their failure activity has failed.          *)
(***************************************************************************)
EXTENDS CheckpointReactor, SequenceTheorems, FiniteSetTheorems, WellFoundedInduction, TLAPS

\* TypeOK without its count of the unanswered reverts, and the counts are bounded.
Types ==
    /\ checkpoints \subseteq CheckpointSet /\ rows \subseteq CheckpointSet
    /\ activeTurn \in 0..MaxTurns
    /\ work \subseteq Edits
    /\ DOMAIN refs \subseteq Nat /\ \A n \in DOMAIN refs : refs[n] \subseteq Edits
    /\ running \in 0..MaxTurns /\ session \in BOOLEAN /\ conv \in Seq(Turns)
    /\ started \in 0..MaxTurns /\ requested \in 0..MaxTurns
    /\ ingest \in Seq(Events) /\ runtimeIn \in Seq(Events) /\ domainIn \in Seq(Inputs)
    /\ placeholder = None \/ placeholder \in [turn : Turns, count : Nat]
    /\ job \in [step : RevertSteps \cup {"idle", "baseline", "capture", "record"},
                turn : 0..MaxTurns, count : Nat, status : Statuses \cup {"none"},
                rolled : Nat, stale : SUBSET Nat]
    /\ job.step \in {"capture", "record"} => job.turn \in Turns /\ job.status \in Statuses
    /\ events \in Nat
    /\ \E n \in Nat : \A c \in checkpoints \cup rows : c.count <= n

Capturing == job.step \in {"capture", "record"}

Reverting == job.step \in RevertSteps

\* A captured checkpoint has its ref, or a revert is about to drop it.
HasRef(c) ==
    c.git /\ c.count \notin DOMAIN refs =>
        job.step \in {"delete", "complete"} /\ c.count > job.count

RefsKept ==
    /\ spoiled # "torn" => \A c \in checkpoints \cup rows : HasRef(c)
    /\ job.step = "record" => job.count \in DOMAIN refs
    /\ Reverting => \A n \in job.stale : n > job.count

OnePerTurn ==
    /\ \A c, d \in checkpoints : c.turn = d.turn => c = d
    /\ \A c, d \in rows : c.turn = d.turn => c = d

Uncaptured == Capturing => ~CapturedFor(job.turn)

\* What is known of a turn: that it is in the provider's conversation, that its
\* end or its placeholder waits for the reactor, that the thread shows it.
InConv(t) == t \in Range(conv)

Completing(t) == \E e \in Range(runtimeIn) : e.kind = "completed" /\ e.turn = t

Diffing(t) == \E e \in Range(domainIn) : e.kind = "diff" /\ e.turn = t

Shown(t) == \E c \in checkpoints : c.turn = t

Coming(t) == running = t \/ Completing(t) \/ (Capturing /\ job.turn = t)

\* The counts follow the order of the turns, from 1 and without a gap.
Numbers ==
    /\ \A c, d \in checkpoints : c.turn < d.turn => c.count < d.count
    /\ \A c \in checkpoints : c.count > 0
    /\ \A n \in 1..CurrentTurnCount : \E c \in checkpoints : c.count = n

\* A count is that of another turn by now, or the turn's own, or the next one.
WellCounted(t, n) ==
    \/ \E c \in checkpoints : c.turn # t /\ c.count = n
    \/ \E c \in checkpoints : c.turn = t /\ c.count = n
    \/ n = CurrentTurnCount + 1 /\ ~Shown(t)

Counts ==
    /\ Capturing => WellCounted(job.turn, job.count)
    /\ placeholder # None => WellCounted(placeholder.turn, placeholder.count)
    /\ \A e \in Range(domainIn) :
          e.kind = "diff" => \E c \in checkpoints : c.turn = e.turn /\ c.count = e.count

\* Whatever concerns a turn, the conversation has the turn.
Remembered ==
    /\ job.step \notin {"delete", "complete"} => \A c \in checkpoints : InConv(c.turn)
    /\ \A e \in Range(runtimeIn) : e.kind = "completed" => InConv(e.turn)
    /\ \A e \in Range(ingest) : e.kind = "diff" => InConv(e.turn)
    /\ placeholder # None => InConv(placeholder.turn)
    /\ Capturing => InConv(job.turn)

\* Its turns are in order, and each is shown or coming.
Conversation ==
    /\ \A i, j \in DOMAIN conv : i < j => conv[i] < conv[j]
    /\ \A i \in DOMAIN conv : conv[i] <= started
    /\ \A t \in Range(conv) : Shown(t) \/ Coming(t)
    /\ running # 0 => conv # <<>> /\ running = started /\ conv[Len(conv)] = started
    /\ running # 0 => ~CapturedFor(running) /\ ~(job.step = "record" /\ job.turn = running)

FilesOf(n) == IF n \in DOMAIN refs THEN refs[n] ELSE {}

\* The conversation consists of the turns of the first n checkpoints.
Follows(n) ==
    /\ Len(conv) = n
    /\ \A c \in checkpoints : c.count <= n => conv[c.count] = c.turn

Reverts ==
    Reverting =>
        /\ Settled
        /\ job.count = 0 \/ \E c \in checkpoints : c.count = job.count
        /\ job.rolled = CurrentTurnCount - job.count
        /\ Follows(IF job.step \in {"restore", "rollback"} THEN CurrentTurnCount ELSE job.count)
        /\ job.step # "restore" => work = FilesOf(job.count)

LastTurn == conv[Len(conv)]

\* The files are those of the latest checkpoint, or the last turn has them still
\* to be captured.
Files ==
    /\ job.step = "record" /\ running = 0 /\ job.turn = LastTurn => FilesOf(job.count) = work
    /\ ~Reverting =>
        \/ work = Latest
        \/ running # 0
        \/ conv # <<>> /\ Capturing /\ job.turn = LastTurn
        \/ conv # <<>> /\ ~CapturedFor(LastTurn) /\ (Completing(LastTurn) \/ Diffing(LastTurn))

Clean == Numbers /\ Counts /\ Remembered /\ Conversation /\ Reverts /\ Files

\* The inductive invariant.
ReactorInv ==
    /\ Types /\ RefsKept /\ OnePerTurn /\ Uncaptured
    /\ spoiled = "no" => Clean

-----------------------------------------------------------------------------
(* Sequences, and the greatest of bounded numbers. *)

LEMMA RangeTyped ==
    ASSUME NEW S, NEW q \in Seq(S)
    PROVE  Range(q) \subseteq S
  BY DEF Range

LEMMA EmptyRange == Range(<<>>) = {}
  BY DEF Range

LEMMA AppendRange ==
    ASSUME NEW S, NEW q \in Seq(S), NEW e \in S
    PROVE  Append(q, e) \in Seq(S) /\ Range(Append(q, e)) = Range(q) \cup {e}
<1>. DEFINE a == Append(q, e)
<1>1. /\ a \in Seq(S) /\ Len(a) = Len(q) + 1 /\ Len(q) \in Nat
      /\ \A i \in 1..Len(q) : a[i] = q[i]
      /\ a[Len(q) + 1] = e
  BY AppendProperties
<1>2. DOMAIN a = 1..(Len(q) + 1) /\ DOMAIN q = 1..Len(q)
  BY <1>1
<1>. HIDE DEF a
<1>3. Range(a) \subseteq Range(q) \cup {e}
  BY <1>1, <1>2 DEF Range
<1>4. Range(q) \subseteq Range(a) /\ e \in Range(a)
  BY <1>1, <1>2 DEF Range
<1>. QED  BY <1>1, <1>3, <1>4 DEF a

LEMMA TailRange ==
    ASSUME NEW S, NEW q \in Seq(S), q # <<>>
    PROVE  /\ Tail(q) \in Seq(S) /\ Head(q) \in S
           /\ Head(q) \in Range(q) /\ Range(q) = Range(Tail(q)) \cup {Head(q)}
<1>. DEFINE t == Tail(q)
<1>1. /\ t \in Seq(S) /\ Head(q) \in S /\ Len(t) = Len(q) - 1 /\ Len(q) \in Nat \ {0}
      /\ \A i \in 1..Len(t) : t[i] = q[i + 1]
  BY HeadTailProperties, EmptySeq
<1>2. DOMAIN t = 1..(Len(q) - 1) /\ DOMAIN q = 1..Len(q) /\ Head(q) = q[1]
  BY <1>1
<1>. HIDE DEF t
<1>3. Range(t) \subseteq Range(q) /\ q[1] \in Range(q)
  BY SMTT(30), <1>1, <1>2 DEF Range
<1>4. ASSUME NEW i \in 1..Len(q) PROVE q[i] \in Range(t) \cup {q[1]}
  <2>1. CASE i = 1
    BY <2>1
  <2>2. CASE i # 1
    <3>1. i - 1 \in 1..Len(t) /\ t[i - 1] = q[i]
      BY <1>1, <2>2
    <3>. QED  BY <3>1, <1>1, <1>2 DEF Range
  <2>. QED  BY <2>1, <2>2
<1>5. Range(q) \subseteq Range(t) \cup {q[1]}
  BY <1>2, <1>4 DEF Range
<1>. QED  BY <1>1, <1>2, <1>3, <1>5 DEF t

LEMMA Smallest ==
    ASSUME NEW T, T \subseteq Nat, T # {}
    PROVE  \E x \in T : \A y \in T : x <= y
<1>. DEFINE R == {p \in Nat \X Nat : p[1] < p[2]}
<1>1. IsWellFoundedOn(R, Nat)
  BY NatLessThanWellFounded DEF OpToRel
<1>. HIDE DEF R
<1>2. PICK x \in T : \A y \in T : ~ (<<y, x>> \in R)
  BY <1>1, WFMin
<1>3. ASSUME NEW y \in T PROVE x <= y
  <2>1. x \in Nat /\ y \in Nat /\ <<y, x>> \notin R
    BY <1>2
  <2>2. ~(y < x)
    BY <2>1 DEF R
  <2>. QED  BY <2>1, <2>2
<1>. QED  BY <1>3

LEMMA Greatest ==
    ASSUME NEW S, S \subseteq Nat, S # {}, NEW bound \in Nat, \A s \in S : s <= bound
    PROVE  Max(S) \in S /\ \A s \in S : s <= Max(S)
<1>. DEFINE U == {n \in Nat : \A s \in S : s <= n}
<1>1. U \subseteq Nat /\ U # {}
  OBVIOUS
<1>2. PICK m \in U : \A u \in U : m <= u
  BY <1>1, Smallest
<1>3. m \in S
  <2>1. SUFFICES ASSUME m \notin S PROVE FALSE
    OBVIOUS
  <2>2. m \in Nat /\ \A s \in S : s \in Nat /\ s < m
    BY <1>2, <2>1
  <2>3. PICK s \in S : s \in Nat /\ s < m
    BY <2>2
  <2>4. m - 1 \in Nat
    BY <2>2, <2>3
  <2>5. ASSUME NEW x \in S PROVE x <= m - 1
    BY <2>2
  <2>6. m - 1 \in U
    BY <2>4, <2>5
  <2>. QED  BY <1>2, <2>2, <2>6
<1>4. \E x \in S : \A y \in S : x >= y
  BY <1>2, <1>3
<1>5. Max(S) \in S /\ \A y \in S : Max(S) >= y
  BY <1>4 DEF Max
<1>. QED  BY <1>5

\* The current turn count is the greatest count, or 0 without a checkpoint.
LEMMA GreatestCount ==
    ASSUME NEW S, S \subseteq CheckpointSet, NEW bound \in Nat, \A c \in S : c.count <= bound
    PROVE  LET m == Max({c.count : c \in S} \cup {0})
           IN  /\ m \in Nat /\ \A c \in S : c.count <= m
               /\ m = 0 \/ \E c \in S : c.count = m
<1>. DEFINE N == {c.count : c \in S} \cup {0}
<1>1. N \subseteq Nat /\ N # {} /\ \A n \in N : n <= bound
  BY DEF CheckpointSet
<1>2. Max(N) \in N /\ \A n \in N : n <= Max(N)
  BY <1>1, Greatest
<1>. QED  BY <1>1, <1>2

LEMMA CurrentCount ==
    ASSUME Types
    PROVE  /\ CurrentTurnCount \in Nat
           /\ \A c \in checkpoints : c.count \in Nat /\ c.count <= CurrentTurnCount
           /\ CurrentTurnCount = 0 \/ \E c \in checkpoints : c.count = CurrentTurnCount
<1>1. PICK n \in Nat : \A c \in checkpoints \cup rows : c.count <= n
  BY DEF Types
<1>2. checkpoints \subseteq CheckpointSet
  BY DEF Types
<1>. QED  BY <1>1, <1>2, GreatestCount DEF CurrentTurnCount, CheckpointSet

LEMMA CurrentCountNext ==
    ASSUME Types'
    PROVE  /\ CurrentTurnCount' \in Nat
           /\ \A c \in checkpoints' : c.count \in Nat /\ c.count <= CurrentTurnCount'
           /\ CurrentTurnCount' = 0 \/ \E c \in checkpoints' : c.count = CurrentTurnCount'
<1>1. PICK n \in Nat : \A c \in checkpoints' \cup rows' : c.count <= n
  BY DEF Types
<1>2. checkpoints' \subseteq CheckpointSet
  BY DEF Types, CheckpointSet, Turns, Statuses
<1>. QED  BY <1>1, <1>2, GreatestCount DEF CurrentTurnCount, CheckpointSet

-----------------------------------------------------------------------------
(* Types. *)

JobSet == [step : RevertSteps \cup {"idle", "baseline", "capture", "record"},
           turn : 0..MaxTurns, count : Nat, status : Statuses \cup {"none"},
           rolled : Nat, stale : SUBSET Nat]

ThreadTypes ==
    /\ checkpoints \subseteq CheckpointSet /\ rows \subseteq CheckpointSet
    /\ activeTurn \in 0..MaxTurns
    /\ \E n \in Nat : \A c \in checkpoints \cup rows : c.count <= n

GitTypes ==
    /\ work \subseteq Edits
    /\ DOMAIN refs \subseteq Nat /\ \A n \in DOMAIN refs : refs[n] \subseteq Edits

ProviderTypes ==
    /\ running \in 0..MaxTurns /\ session \in BOOLEAN /\ conv \in Seq(Turns)
    /\ started \in 0..MaxTurns /\ requested \in 0..MaxTurns

QueueTypes ==
    /\ ingest \in Seq(Events) /\ runtimeIn \in Seq(Events) /\ domainIn \in Seq(Inputs)
    /\ placeholder = None \/ placeholder \in [turn : Turns, count : Nat]

JobTypes ==
    /\ job \in JobSet
    /\ job.step \in {"capture", "record"} => job.turn \in Turns /\ job.status \in Statuses

LEMMA TypesParts ==
    Types <=> ThreadTypes /\ GitTypes /\ ProviderTypes /\ QueueTypes /\ JobTypes /\ events \in Nat
  BY DEF Types, ThreadTypes, GitTypes, ProviderTypes, QueueTypes, JobTypes, JobSet

LEMMA TypesPartsNext ==
    Types' <=> ThreadTypes' /\ GitTypes' /\ ProviderTypes' /\ QueueTypes' /\ JobTypes'
                  /\ events' \in Nat
  BY DEF Types, ThreadTypes, GitTypes, ProviderTypes, QueueTypes, JobTypes, JobSet

LEMMA SameTypes ==
    /\ ThreadTypes /\ UNCHANGED thread => ThreadTypes'
    /\ GitTypes /\ UNCHANGED git => GitTypes'
    /\ ProviderTypes /\ UNCHANGED provider => ProviderTypes'
    /\ QueueTypes /\ UNCHANGED <<ingester, inputs>> => QueueTypes'
    /\ JobTypes /\ UNCHANGED job => JobTypes'
<1>1. ThreadTypes /\ UNCHANGED thread => ThreadTypes'
  BY DEF ThreadTypes, thread
<1>2. GitTypes /\ UNCHANGED git => GitTypes'
  BY DEF GitTypes, git
<1>3. ProviderTypes /\ UNCHANGED provider => ProviderTypes'
  BY DEF ProviderTypes, provider
<1>4. QueueTypes /\ UNCHANGED <<ingester, inputs>> => QueueTypes'
  BY DEF QueueTypes, ingester, inputs
<1>5. JobTypes /\ UNCHANGED job => JobTypes'
  BY DEF JobTypes
<1>. QED  BY <1>1, <1>2, <1>3, <1>4, <1>5

LEMMA IdleTyped == job' = Idle => JobTypes'
  BY CheckpointAssumption DEF JobTypes, JobSet, Idle, RevertSteps, Statuses

LEMMA QueuesTyped ==
    ASSUME QueueTypes
    PROVE  /\ ingest # <<>> => Head(ingest) \in Events /\ Tail(ingest) \in Seq(Events)
           /\ runtimeIn # <<>> => Head(runtimeIn) \in Events /\ Tail(runtimeIn) \in Seq(Events)
           /\ domainIn # <<>> => Head(domainIn) \in Inputs /\ Tail(domainIn) \in Seq(Inputs)
  BY HeadTailProperties DEF QueueTypes

\* A checkpoint is recorded.
LEMMA RecordedSubset ==
    ASSUME NEW c, TurnDiffCompleted(c)
    PROVE  /\ checkpoints' \subseteq InMemory(c) /\ rows' = InRows(c)
           /\ checkpoints' \subseteq checkpoints \cup {c} /\ rows' \subseteq rows \cup {c}
           /\ spoiled' = "no" => ~Misnumbered(c) /\ checkpoints' = InMemory(c) /\ spoiled = "no"
           /\ spoiled' \in {spoiled, Spoiled("misnumbered"), Spoiled("trimmed")}
<1>1. checkpoints' \subseteq InMemory(c) /\ rows' = InRows(c)
  BY DEF TurnDiffCompleted, Newest
<1>2. checkpoints' \subseteq checkpoints \cup {c} /\ rows' \subseteq rows \cup {c}
  BY <1>1 DEF InMemory, InRows
<1>3. /\ spoiled' = "no" => ~Misnumbered(c) /\ checkpoints' = InMemory(c) /\ spoiled = "no"
      /\ spoiled' \in {spoiled, Spoiled("misnumbered"), Spoiled("trimmed")}
  BY DEF TurnDiffCompleted, Spoiled
<1>. QED  BY <1>1, <1>2, <1>3

LEMMA RecordingTyped ==
    ASSUME ThreadTypes, QueueTypes, NEW c \in CheckpointSet, TurnDiffCompleted(c),
           activeTurn' = activeTurn, ingest' = ingest, runtimeIn' = runtimeIn
    PROVE  /\ ThreadTypes' /\ domainIn' \in Seq(Inputs)
<1>1. PICK n \in Nat : \A d \in checkpoints \cup rows : d.count <= n
  BY DEF ThreadTypes
<1>2. checkpoints' \subseteq checkpoints \cup {c} /\ rows' \subseteq rows \cup {c}
  BY RecordedSubset
<1>3. c.count \in Nat /\ c.turn \in Turns
  BY DEF CheckpointSet
<1>4. \E m \in Nat : \A d \in checkpoints' \cup rows' : d.count <= m
  <2>1. CASE c.count <= n
    BY <1>1, <1>2, <2>1
  <2>2. CASE ~(c.count <= n)
    <3>1. \A d \in checkpoints \cup rows : d.count \in Nat
      BY DEF ThreadTypes, CheckpointSet
    <3>2. \A d \in checkpoints' \cup rows' : d.count <= c.count
      BY <1>1, <1>2, <1>3, <2>2, <3>1
    <3>. QED  BY <1>3, <3>2
  <2>. QED  BY <2>1, <2>2
<1>5. [kind |-> "diff", turn |-> c.turn, count |-> c.count] \in Inputs
  BY <1>3 DEF Inputs
<1>6. domainIn' \in Seq(Inputs)
  BY <1>5, AppendProperties DEF TurnDiffCompleted, QueueTypes
<1>7. ThreadTypes'
  <2>1. checkpoints' \subseteq CheckpointSet /\ rows' \subseteq CheckpointSet
    BY <1>2 DEF ThreadTypes
  <2>. QED  BY <1>4, <2>1 DEF ThreadTypes, CheckpointSet, Turns, Statuses
<1>. QED  BY <1>6, <1>7

LEMMA BaselineTyped ==
    ASSUME Types, Baseline
    PROVE  JobTypes'
<1>1. CurrentTurnCount \in Nat
  BY CurrentCount
<1>2. CASE job' = [Idle EXCEPT !.step = "baseline", !.count = CurrentTurnCount]
  <2>1. /\ job' = [step |-> "baseline", turn |-> 0, count |-> CurrentTurnCount,
                   status |-> "none", rolled |-> 0, stale |-> {}]
    BY <1>2 DEF Idle
  <2>. QED  BY <1>1, <2>1, CheckpointAssumption DEF JobTypes, JobSet, RevertSteps, Statuses
<1>. QED  BY <1>2, IdleTyped DEF Baseline

LEMMA EnvironmentTyped ==
    ASSUME Types, Environment
    PROVE  Types'
<1>. USE TypesParts, TypesPartsNext, SameTypes, CheckpointAssumption
<1>1. CASE RequestTurn
  <2>1. [kind |-> "turnStart"] \in Inputs
    BY DEF Inputs
  <2>2. QueueTypes'
    BY <1>1, <2>1, AppendProperties DEF RequestTurn, QueueTypes, ingester
  <2>3. ProviderTypes'
    BY <1>1 DEF RequestTurn, ProviderTypes
  <2>. QED  BY <1>1, <2>2, <2>3 DEF RequestTurn, counters
<1>2. ASSUME NEW n \in 0..MaxTurns, RequestRevert(n) PROVE Types'
  <2>1. [kind |-> "revert", count |-> n] \in Inputs
    BY DEF Inputs
  <2>2. QueueTypes'
    BY <1>2, <2>1, AppendProperties DEF RequestRevert, QueueTypes, ingester
  <2>. QED  BY <1>2, <2>2 DEF RequestRevert, Count
<1>3. ASSUME NEW fresh \in BOOLEAN, StartTurn(fresh) PROVE Types'
  <2>1. started + 1 \in Turns
    BY SMTT(30), <1>3 DEF StartTurn, ProviderTypes, Turns
  <2>2. [kind |-> "started", turn |-> started + 1] \in Events
    BY <2>1 DEF Events
  <2>3. QueueTypes'
    BY <1>3, <2>2, AppendProperties DEF StartTurn, Emit, QueueTypes
  <2>4. ProviderTypes'
    <3>1. Append(conv, started + 1) \in Seq(Turns) /\ <<started + 1>> \in Seq(Turns)
      BY <2>1, AppendProperties DEF ProviderTypes
    <3>2. /\ running' = started + 1 /\ started' = started + 1
          /\ requested' = requested /\ session' = TRUE
          /\ conv' = <<started + 1>> \/ conv' = Append(conv, started + 1)
      BY <1>3 DEF StartTurn
    <3>3. requested \in 0..MaxTurns /\ started + 1 \in 0..MaxTurns
      BY <2>1 DEF ProviderTypes, Turns
    <3>. QED  BY <3>1, <3>2, <3>3 DEF ProviderTypes
  <2>5. ThreadTypes'
    BY <1>3 DEF StartTurn, ThreadTypes
  <2>. QED  BY <1>3, <2>3, <2>4, <2>5 DEF StartTurn, counters
<1>4. CASE Edit
  <2>1. GitTypes'
    BY <1>4 DEF Edit, GitTypes
  <2>. QED  BY <1>4, <2>1 DEF Edit, counters
<1>5. CASE ReportDiff
  <2>1. [kind |-> "diff", turn |-> running] \in Events
    BY SMTT(30), <1>5 DEF ReportDiff, ProviderTypes, Events, Turns
  <2>2. QueueTypes'
    BY <1>5, <2>1, AppendProperties DEF ReportDiff, QueueTypes, inputs
  <2>. QED  BY <1>5, <2>2 DEF ReportDiff, Count
<1>6. ASSUME NEW state \in EndStates, EndTurn(state) PROVE Types'
  <2>1. [kind |-> "completed", turn |-> running, state |-> state] \in Events
    BY <1>6 DEF EndTurn, ProviderTypes, Events, Turns
  <2>2. QueueTypes'
    BY <1>6, <2>1, AppendProperties DEF EndTurn, Emit, QueueTypes
  <2>3. ProviderTypes'
    BY <1>6 DEF EndTurn, ProviderTypes
  <2>. QED  BY <1>6, <2>2, <2>3 DEF EndTurn, Count
<1>7. CASE EndSession
  <2>1. [kind |-> "exited"] \in Events
    BY DEF Events
  <2>2. QueueTypes'
    BY <1>7, <2>1, AppendProperties DEF EndSession, inputs, QueueTypes
  <2>3. running' \in 0..MaxTurns
    BY <1>7 DEF EndSession
  <2>4. ProviderTypes'
    BY <1>7, <2>3 DEF EndSession, ProviderTypes
  <2>5. activeTurn' \in 0..MaxTurns
    BY <1>7 DEF EndSession, ThreadTypes
  <2>6. ThreadTypes'
    BY <1>7, <2>5 DEF EndSession, ThreadTypes
  <2>. QED  BY <1>7, <2>2, <2>4, <2>6 DEF EndSession, Count
<1>. QED  BY <1>1, <1>2, <1>3, <1>4, <1>5, <1>6, <1>7 DEF Environment

LEMMA IngestionTyped ==
    ASSUME Types, Ingestion
    PROVE  Types'
<1>. USE TypesParts, TypesPartsNext, SameTypes, QueuesTyped, CheckpointAssumption
<1>1. CASE IngestLifecycle
  <2>1. QueueTypes'
    BY <1>1 DEF IngestLifecycle, QueueTypes, inputs
  <2>2. Head(ingest).kind \in {"started", "completed"} => Head(ingest).turn \in 0..MaxTurns
    BY <1>1 DEF IngestLifecycle, Events, Turns
  <2>3. activeTurn' \in 0..MaxTurns
    BY <1>1, <2>2 DEF IngestLifecycle, ThreadTypes
  <2>4. ThreadTypes'
    BY <1>1, <2>3 DEF IngestLifecycle, ThreadTypes
  <2>. QED  BY <1>1, <2>1, <2>4 DEF IngestLifecycle, counters
<1>2. CASE IngestDiff
  <2>1. CurrentTurnCount \in Nat /\ Head(ingest).turn \in Turns
    BY <1>2, CurrentCount DEF IngestDiff, Events
  <2>2. placeholder' = None \/ placeholder' \in [turn : Turns, count : Nat]
    BY <1>2, <2>1 DEF IngestDiff
  <2>3. QueueTypes'
    BY <1>2, <2>2 DEF IngestDiff, QueueTypes, inputs
  <2>. QED  BY <1>2, <2>3 DEF IngestDiff, counters
<1>3. CASE RecordPlaceholder
  <2>. DEFINE c == Checkpoint(placeholder.turn, placeholder.count, "missing", FALSE)
  <2>1. c \in CheckpointSet
    BY <1>3 DEF RecordPlaceholder, Checkpoint, CheckpointSet, QueueTypes, Statuses
  <2>2. /\ TurnDiffCompleted(c) /\ activeTurn' = activeTurn
        /\ ingest' = ingest /\ runtimeIn' = runtimeIn
    BY <1>3 DEF RecordPlaceholder
  <2>3. ThreadTypes' /\ domainIn' \in Seq(Inputs)
    <3>. HIDE DEF c
    <3>. QED  BY <2>1, <2>2, RecordingTyped
  <2>4. QueueTypes'
    BY <1>3, <2>3 DEF RecordPlaceholder, QueueTypes
  <2>. QED  BY <1>3, <2>3, <2>4 DEF RecordPlaceholder, counters
<1>. QED  BY <1>1, <1>2, <1>3 DEF Ingestion

\* The count of a turn is that of its checkpoint, or the next one.
LEMMA CountForTyped ==
    ASSUME Types, OnePerTurn, NEW t
    PROVE  /\ CountFor(t) \in Nat
           /\ ~Shown(t) => CountFor(t) = CurrentTurnCount + 1
           /\ Shown(t) => \E c \in checkpoints : c.turn = t /\ c.count = CountFor(t)
<1>. DEFINE own == {c.count : c \in {d \in checkpoints : d.turn = t}}
<1>0. CurrentTurnCount \in Nat /\ \A c \in checkpoints : c.count \in Nat /\ c.count <= CurrentTurnCount
  BY CurrentCount
<1>1. CASE ~Shown(t)
  <2>1. own = {}
    BY <1>1 DEF Shown
  <2>. QED  BY <1>0, <1>1, <2>1 DEF CountFor
<1>2. CASE Shown(t)
  <2>1. own # {} /\ own \subseteq Nat /\ \A n \in own : n <= CurrentTurnCount
    BY <1>0, <1>2 DEF Shown
  <2>2. Max(own) \in own
    <3>. HIDE DEF own
    <3>. QED  BY <1>0, <2>1, Greatest
  <2>. QED  BY <1>2, <2>1, <2>2 DEF CountFor
<1>. QED  BY <1>1, <1>2

LEMMA TakingTyped ==
    ASSUME Types, OnePerTurn, TakeTurnStart \/ TakeStarted \/ TakeCompleted \/ TakePlaceholder
    PROVE  Types'
<1>. USE TypesParts, TypesPartsNext, SameTypes, QueuesTyped
<1>1. CASE TakeTurnStart
  <2>1. QueueTypes'
    BY <1>1 DEF TakeTurnStart, CanTake, QueueTypes, ingester
  <2>. QED  BY <1>1, <2>1, BaselineTyped DEF TakeTurnStart, Baseline, counters
<1>2. CASE TakeStarted
  <2>1. QueueTypes'
    BY <1>2 DEF TakeStarted, CanTake, QueueTypes, ingester
  <2>. QED  BY <1>2, <2>1, BaselineTyped DEF TakeStarted, Baseline, counters
<1>3. CASE TakeCompleted
  <2>. DEFINE event == Head(runtimeIn)
  <2>1. QueueTypes'
    BY <1>3 DEF TakeCompleted, CanTake, QueueTypes, ingester
  <2>2. event.turn \in Turns /\ event \in Events
    BY <1>3 DEF TakeCompleted, CanTake, Events
  <2>3. checkpointStatusFromRuntime(event.state) \in Statuses
    BY DEF checkpointStatusFromRuntime, Statuses
  <2>4. CountFor(event.turn) \in Nat
    BY CountForTyped
  <2>5. CASE job' = CaptureFor(event.turn, CountFor(event.turn),
                               checkpointStatusFromRuntime(event.state))
    <3>. HIDE DEF event
    <3>1. job' = [step |-> "capture", turn |-> event.turn, count |-> CountFor(event.turn),
                  status |-> checkpointStatusFromRuntime(event.state), rolled |-> 0, stale |-> {}]
      BY <2>5 DEF CaptureFor, Idle
    <3>2. JobTypes'
      BY <2>2, <2>3, <2>4, <3>1, CheckpointAssumption DEF JobTypes, JobSet, Turns
    <3>. QED  BY <1>3, <2>1, <3>2 DEF TakeCompleted, counters
  <2>6. CASE job' = Idle \/ job' = job
    BY <1>3, <2>1, <2>6, IdleTyped DEF TakeCompleted, counters
  <2>. QED  BY <1>3, <2>5, <2>6 DEF TakeCompleted
<1>4. CASE TakePlaceholder
  <2>. DEFINE event == Head(domainIn)
  <2>1. QueueTypes'
    BY <1>4 DEF TakePlaceholder, CanTake, QueueTypes, ingester
  <2>2. event.turn \in Turns /\ event.count \in Nat
    BY <1>4 DEF TakePlaceholder, CanTake, Inputs
  <2>3. CASE job' = CaptureFor(event.turn, event.count, "ready")
    <3>. HIDE DEF event
    <3>1. job' = [step |-> "capture", turn |-> event.turn, count |-> event.count,
                  status |-> "ready", rolled |-> 0, stale |-> {}]
      BY <2>3 DEF CaptureFor, Idle
    <3>2. JobTypes'
      BY <2>2, <3>1, CheckpointAssumption DEF JobTypes, JobSet, Turns, Statuses
    <3>. QED  BY <1>4, <2>1, <3>2 DEF TakePlaceholder, counters
  <2>4. CASE job' = Idle
    BY <1>4, <2>1, <2>4, IdleTyped DEF TakePlaceholder, counters
  <2>. QED  BY <1>4, <2>3, <2>4 DEF TakePlaceholder
<1>. QED  BY <1>1, <1>2, <1>3, <1>4

LEMMA TakeRevertTyped ==
    ASSUME Types, TakeRevert
    PROVE  Types'
<1>. USE TypesParts, TypesPartsNext, SameTypes, QueuesTyped
<1>. DEFINE n == Head(domainIn).count
            stale == {c.count : c \in {d \in checkpoints : d.count > n /\ d.git}}
<1>1. QueueTypes'
  BY DEF TakeRevert, CanTake, QueueTypes, ingester
<1>2. n \in Nat
  BY DEF TakeRevert, CanTake, Inputs
<1>3. CurrentTurnCount \in Nat /\ \A c \in checkpoints : c.count \in Nat
  BY CurrentCount
<1>6. events' \in Nat
  BY DEF TakeRevert, counters, Count
<1>4. CASE /\ n <= CurrentTurnCount
           /\ job' = [Idle EXCEPT !.step = "restore", !.count = n,
                                  !.rolled = CurrentTurnCount - n, !.stale = stale]
  <2>1. stale \in SUBSET Nat /\ CurrentTurnCount - n \in Nat
    BY <1>2, <1>3, <1>4
  <2>. HIDE DEF n, stale
  <2>2. job' = [step |-> "restore", turn |-> 0, count |-> n, status |-> "none",
                rolled |-> CurrentTurnCount - n, stale |-> stale]
    BY <1>4 DEF Idle
  <2>3. JobTypes'
    BY <1>2, <2>1, <2>2, CheckpointAssumption DEF JobTypes, JobSet, RevertSteps, Statuses
  <2>. QED  BY <1>1, <1>6, <2>3 DEF TakeRevert
<1>5. CASE job' = job
  BY <1>1, <1>5, <1>6 DEF TakeRevert
<1>. QED  BY <1>4, <1>5 DEF TakeRevert

\* The job goes on to its next step.
LEMMA NextStepTyped ==
    ASSUME JobTypes, NEW step \in RevertSteps \cup {"record"}, job' = [job EXCEPT !.step = step],
           step = "record" => job.turn \in Turns /\ job.status \in Statuses
    PROVE  JobTypes'
<1>1. /\ job' = [step |-> step, turn |-> job.turn, count |-> job.count, status |-> job.status,
                 rolled |-> job.rolled, stale |-> job.stale]
  BY DEF JobTypes, JobSet
<1>2. /\ job.turn \in 0..MaxTurns /\ job.count \in Nat /\ job.status \in Statuses \cup {"none"}
      /\ job.rolled \in Nat /\ job.stale \in SUBSET Nat
  BY DEF JobTypes, JobSet
<1>. QED  BY <1>1, <1>2 DEF JobTypes, JobSet, RevertSteps

\* A revert goes on to its next step; of its fields only the stale counts change.
LEMMA NextRevertStep ==
    ASSUME JobTypes, RestoreFiles \/ RollBackConversation \/ DeleteRefs
    PROVE  /\ JobTypes'
           /\ job.step \in {"restore", "rollback", "delete"}
           /\ job'.step \in {"rollback", "delete", "complete"}
           /\ job'.count = job.count /\ job'.rolled = job.rolled /\ job'.stale \subseteq job.stale
           /\ RestoreFiles => job.step = "restore" /\ (job'.step = "rollback" => job.rolled > 0)
                                /\ (job'.step # "rollback" => ~(job.rolled > 0))
           /\ RollBackConversation => job.step = "rollback" /\ job'.step # "rollback"
           /\ DeleteRefs => job.step = "delete" /\ job'.step # "rollback"
<1>0. /\ job \in JobSet /\ job.turn \in 0..MaxTurns /\ job.count \in Nat
      /\ job.status \in Statuses \cup {"none"} /\ job.rolled \in Nat /\ job.stale \in SUBSET Nat
  BY DEF JobTypes, JobSet
<1>1. PICK step, S : /\ step \in {"rollback", "delete", "complete"} /\ S \subseteq job.stale
                     /\ job' = [step |-> step, turn |-> job.turn, count |-> job.count,
                                status |-> job.status, rolled |-> job.rolled, stale |-> S]
                     /\ RestoreFiles => (step = "rollback" <=> job.rolled > 0)
                     /\ ~RestoreFiles => step # "rollback"
  <2>1. CASE RestoreFiles
    <3>1. CASE job.rolled > 0
      <4>1. job' = [job EXCEPT !.step = "rollback"]
        BY <2>1, <3>1 DEF RestoreFiles, AfterRestore
      <4>. QED  BY <1>0, <2>1, <3>1, <4>1 DEF JobSet
    <3>2. CASE ~(job.rolled > 0)
      <4>1. PICK x \in {"delete", "complete"} : job' = [job EXCEPT !.step = x]
        BY <2>1, <3>2 DEF RestoreFiles, AfterRestore, Dropping
      <4>. QED  BY <1>0, <2>1, <3>2, <4>1 DEF JobSet
    <3>. QED  BY <3>1, <3>2
  <2>2. CASE RollBackConversation
    <3>1. PICK x \in {"delete", "complete"} : job' = [job EXCEPT !.step = x]
      BY <2>2 DEF RollBackConversation, Dropping
    <3>2. ~RestoreFiles
      BY <2>2 DEF RestoreFiles, RollBackConversation
    <3>. QED  BY <1>0, <3>1, <3>2 DEF JobSet
  <2>3. CASE DeleteRefs
    <3>1. PICK n \in job.stale : job' = Dropping([job EXCEPT !.stale = @ \ {n}])
      BY <2>3 DEF DeleteRefs
    <3>2. PICK x \in {"delete", "complete"} :
             job' = [[job EXCEPT !.stale = @ \ {n}] EXCEPT !.step = x]
      BY <3>1 DEF Dropping
    <3>3. job' = [step |-> x, turn |-> job.turn, count |-> job.count, status |-> job.status,
                  rolled |-> job.rolled, stale |-> job.stale \ {n}]
      BY <1>0, <3>2 DEF JobSet
    <3>4. ~RestoreFiles
      BY <2>3 DEF RestoreFiles, DeleteRefs
    <3>. QED  BY <3>3, <3>4
  <2>. QED  BY <2>1, <2>2, <2>3
<1>2. /\ job'.step = step /\ job'.count = job.count /\ job'.rolled = job.rolled
      /\ job'.stale = S /\ S \in SUBSET Nat
  BY <1>0, <1>1
<1>3. JobTypes'
  BY <1>0, <1>1, <1>2 DEF JobTypes, JobSet, RevertSteps
<1>4. /\ RestoreFiles => job.step = "restore"
      /\ RollBackConversation => job.step = "rollback"
      /\ DeleteRefs => job.step = "delete"
  BY DEF RestoreFiles, RollBackConversation, DeleteRefs
<1>. QED  BY <1>1, <1>2, <1>3, <1>4

LEMMA WithRefTyped ==
    ASSUME GitTypes, NEW n \in Nat
    PROVE  /\ DOMAIN WithRef(n) = DOMAIN refs \cup {n}
           /\ \A m \in DOMAIN WithRef(n) : WithRef(n)[m] \subseteq Edits
           /\ WithRef(n)[n] = work
           /\ \A m \in DOMAIN refs : m # n => WithRef(n)[m] = refs[m]
  BY DEF WithRef, GitTypes

LEMMA RefMoved ==
    ASSUME GitTypes, NEW n \in Nat, refs' = WithRef(n), work' = work
    PROVE  GitTypes'
<1>1. /\ DOMAIN refs' = DOMAIN refs \cup {n}
      /\ \A m \in DOMAIN refs' : refs'[m] \subseteq Edits
  BY WithRefTyped
<1>. QED  BY <1>1 DEF GitTypes

LEMMA CapturingTyped ==
    ASSUME Types, CaptureBaseline \/ Capture \/ Record
    PROVE  Types'
<1>. USE TypesParts, TypesPartsNext, SameTypes
<1>0. job.count \in Nat
  BY DEF JobTypes, JobSet
<1>1. CASE CaptureBaseline
  <2>1. refs' = WithRef(job.count) /\ work' = work
    BY <1>1 DEF CaptureBaseline
  <2>2. GitTypes'
    BY <1>0, <2>1, RefMoved
  <2>. QED  BY <1>1, <2>2, IdleTyped DEF CaptureBaseline, counters
<1>2. CASE Capture
  <2>1. refs' = WithRef(job.count) /\ work' = work
    BY <1>2 DEF Capture
  <2>2. GitTypes'
    BY <1>0, <2>1, RefMoved
  <2>3. JobTypes'
    BY <1>2, NextStepTyped DEF Capture, JobTypes
  <2>. QED  BY <1>2, <2>2, <2>3 DEF Capture, counters
<1>3. CASE Record
  <2>. DEFINE c == Checkpoint(job.turn, job.count, job.status, TRUE)
  <2>1. c \in CheckpointSet
    BY <1>0, <1>3 DEF Record, Checkpoint, CheckpointSet, JobTypes
  <2>2. /\ TurnDiffCompleted(c) /\ activeTurn' = activeTurn
        /\ ingest' = ingest /\ runtimeIn' = runtimeIn
    BY <1>3 DEF Record, ingester
  <2>3. ThreadTypes' /\ domainIn' \in Seq(Inputs)
    <3>. HIDE DEF c
    <3>. QED  BY <2>1, <2>2, RecordingTyped
  <2>4. QueueTypes'
    BY <1>3, <2>3 DEF Record, QueueTypes, ingester
  <2>. QED  BY <1>3, <2>3, <2>4, IdleTyped DEF Record, counters
<1>. QED  BY <1>1, <1>2, <1>3

LEMMA RevertingTyped ==
    ASSUME Types, RestoreFiles \/ RollBackConversation \/ DeleteRefs \/ CompleteRevert
    PROVE  Types'
<1>. USE TypesParts, TypesPartsNext, SameTypes
<1>1. CASE RestoreFiles
  <2>1. GitTypes'
    BY <1>1 DEF RestoreFiles, GitTypes
  <2>2. JobTypes'
    BY <1>1, NextRevertStep
  <2>. QED  BY <1>1, <2>1, <2>2 DEF RestoreFiles, counters
<1>2. CASE RollBackConversation
  <2>1. conv' = <<>> \/ \E n \in Nat : n <= Len(conv) /\ conv' = SubSeq(conv, 1, n)
    <3>1. Len(conv) \in Nat /\ job.rolled \in Nat
      BY DEF ProviderTypes, JobTypes, JobSet
    <3>. DEFINE n == IF Len(conv) > job.rolled THEN Len(conv) - job.rolled ELSE 0
    <3>2. n \in Nat /\ n <= Len(conv)
      BY <3>1
    <3>3. conv' = <<>> \/ conv' = SubSeq(conv, 1, n)
      BY <1>2 DEF RollBackConversation
    <3>. QED  BY <3>2, <3>3
  <2>2. conv' \in Seq(Turns)
    <3>1. CASE conv' = <<>>
      BY <3>1
    <3>2. CASE \E n \in Nat : n <= Len(conv) /\ conv' = SubSeq(conv, 1, n)
      BY <3>2, SubSeqProperties DEF ProviderTypes
    <3>. QED  BY <2>1, <3>1, <3>2
  <2>3. ProviderTypes'
    BY <1>2, <2>2 DEF RollBackConversation, ProviderTypes
  <2>4. JobTypes'
    BY <1>2, NextRevertStep
  <2>. QED  BY <1>2, <2>3, <2>4 DEF RollBackConversation, counters
<1>3. CASE DeleteRefs
  <2>1. GitTypes'
    BY <1>3 DEF DeleteRefs, GitTypes, Restrict
  <2>2. JobTypes'
    BY <1>3, NextRevertStep
  <2>3. events' \in Nat
    BY <1>3 DEF DeleteRefs, Count
  <2>. QED  BY <1>3, <2>1, <2>2, <2>3 DEF DeleteRefs
<1>4. CASE CompleteRevert
  <2>0. checkpoints' \subseteq checkpoints /\ rows' \subseteq rows
    BY <1>4 DEF CompleteRevert, Newest
  <2>1. ThreadTypes'
    BY <1>4, <2>0 DEF CompleteRevert, ThreadTypes
  <2>. QED  BY <1>4, <2>1, IdleTyped DEF CompleteRevert
<1>. QED  BY <1>1, <1>2, <1>3, <1>4

LEMMA StoppingTyped ==
    ASSUME Types, Fail \/ Crash
    PROVE  Types'
<1>. USE TypesParts, TypesPartsNext, SameTypes
<1>1. CASE Fail
  BY <1>1, IdleTyped DEF Fail, Count
<1>2. CASE Crash
  <2>1. ThreadTypes'
    BY <1>2 DEF Crash, ThreadTypes
  <2>2. GitTypes'
    BY <1>2 DEF Crash, git, GitTypes
  <2>3. ProviderTypes'
    <3>1. running' \in 0..MaxTurns
      BY <1>2, CheckpointAssumption DEF Crash
    <3>. QED  BY <1>2, <3>1 DEF Crash, ProviderTypes
  <2>4. QueueTypes'
    BY <1>2 DEF Crash, QueueTypes
  <2>. QED  BY <1>2, <2>1, <2>2, <2>3, <2>4, IdleTyped DEF Crash, Count
<1>. QED  BY <1>1, <1>2

LEMMA TypesNext ==
    ASSUME Types, OnePerTurn, Next
    PROVE  Types'
  BY EnvironmentTyped, IngestionTyped, TakingTyped, TakeRevertTyped, CapturingTyped,
     RevertingTyped, StoppingTyped DEF Next, Worker

-----------------------------------------------------------------------------
(* One checkpoint per turn, and refs.  Two actions record a checkpoint.  *)

\* Neither records anything nor takes a checkpoint away.
Quiescent == UNCHANGED <<checkpoints, rows>>

Recording ==
    \/ RecordPlaceholder
          /\ TurnDiffCompleted(Checkpoint(placeholder.turn, placeholder.count, "missing", FALSE))
    \/ Record /\ TurnDiffCompleted(Checkpoint(job.turn, job.count, job.status, TRUE))

LEMMA ThreadChanges ==
    ASSUME Next
    PROVE  Quiescent \/ Recording \/ CompleteRevert \/ Crash
<1>1. CASE Environment
  BY <1>1 DEF Environment, RequestTurn, RequestRevert, StartTurn, Edit, ReportDiff, EndSession, EndTurn,
              thread, Quiescent
<1>2. CASE Ingestion
  BY <1>2 DEF Ingestion, IngestLifecycle, IngestDiff, RecordPlaceholder, thread, Quiescent, Recording
<1>3. CASE Worker
  BY <1>3 DEF Worker, TakeTurnStart, TakeStarted, TakeCompleted, TakePlaceholder, TakeRevert,
              CaptureBaseline, Capture, Record, RestoreFiles, RollBackConversation, DeleteRefs,
              thread, Quiescent, Recording
<1>4. CASE Fail
  BY <1>4 DEF Fail, thread, Quiescent
<1>. QED  BY <1>1, <1>2, <1>3, <1>4 DEF Next

LEMMA RecordedOnce ==
    ASSUME OnePerTurn, NEW c, TurnDiffCompleted(c)
    PROVE  OnePerTurn'
  BY RecordedSubset DEF InMemory, InRows, OnePerTurn

LEMMA OnePerTurnNext ==
    ASSUME OnePerTurn, Next
    PROVE  OnePerTurn'
<1>1. CASE Quiescent
  BY <1>1 DEF Quiescent, OnePerTurn
<1>2. CASE Recording
  BY <1>2, RecordedOnce DEF Recording
<1>3. CASE CompleteRevert
  BY <1>3 DEF CompleteRevert, Newest, OnePerTurn
<1>4. CASE Crash
  BY <1>4 DEF Crash, OnePerTurn
<1>. QED  BY <1>1, <1>2, <1>3, <1>4, ThreadChanges

\* A torn revert is never forgotten.
LEMMA TornSticks ==
    ASSUME Next, spoiled = "torn"
    PROVE  spoiled' = "torn"
<1>1. CASE Environment
  BY <1>1 DEF Environment, RequestTurn, RequestRevert, StartTurn, Edit, ReportDiff, EndSession, EndTurn, Spoiled
<1>2. CASE Ingestion
  BY <1>2, RecordedSubset DEF Ingestion, IngestLifecycle, IngestDiff, RecordPlaceholder, Spoiled
<1>3. CASE Worker
  <2>1. CASE TakeTurnStart \/ TakeStarted \/ TakeCompleted \/ TakePlaceholder \/ TakeRevert
    BY <2>1 DEF TakeTurnStart, TakeStarted, TakeCompleted, TakePlaceholder, TakeRevert, Baseline,
                Spoiled
  <2>2. CASE CaptureBaseline \/ Capture \/ Record
    BY <2>2, RecordedSubset DEF CaptureBaseline, Capture, Record, Spoiled
  <2>3. CASE RestoreFiles \/ RollBackConversation \/ DeleteRefs \/ CompleteRevert
    BY <2>3 DEF RestoreFiles, RollBackConversation, DeleteRefs, CompleteRevert, Spoiled
  <2>. QED  BY <1>3, <2>1, <2>2, <2>3 DEF Worker
<1>4. CASE Fail \/ Crash
  BY <1>4 DEF Fail, Crash, Ended, Spoiled
<1>. QED  BY <1>1, <1>2, <1>3, <1>4 DEF Next

LEMMA JobFields ==
    /\ Idle.step = "idle" /\ Idle.count = 0
    /\ \A n : [Idle EXCEPT !.step = "baseline", !.count = n].step = "baseline"
    /\ \A n : [Idle EXCEPT !.step = "baseline", !.count = n].count = n
    /\ \A t, n, s : /\ CaptureFor(t, n, s).step = "capture" /\ CaptureFor(t, n, s).turn = t
                    /\ CaptureFor(t, n, s).count = n /\ CaptureFor(t, n, s).status = s
    /\ \A n, r, S : LET j == [Idle EXCEPT !.step = "restore", !.count = n, !.rolled = r, !.stale = S]
                    IN  j.step = "restore" /\ j.count = n /\ j.rolled = r /\ j.stale = S
  BY DEF Idle, CaptureFor

\* The job that an input begins.
LEMMA Taken ==
    ASSUME TakeTurnStart \/ TakeStarted \/ TakeCompleted \/ TakePlaceholder
    PROVE  /\ job = Idle /\ UNCHANGED <<checkpoints, rows, refs, work>>
           /\ job'.step \in {"idle", "baseline", "capture"}
<1>1. CASE TakeTurnStart
  BY <1>1, JobFields DEF TakeTurnStart, CanTake, Baseline, thread, git
<1>2. CASE TakeStarted
  BY <1>2, JobFields DEF TakeStarted, CanTake, Baseline, thread, git
<1>3. CASE TakeCompleted
  BY <1>3, JobFields DEF TakeCompleted, CanTake, thread, git
<1>4. CASE TakePlaceholder
  BY <1>4, JobFields DEF TakePlaceholder, CanTake, thread, git
<1>. QED  BY <1>1, <1>2, <1>3, <1>4

LEMMA RevertTaken ==
    ASSUME TakeRevert
    PROVE  LET n == Head(domainIn).count
           IN  /\ job = Idle /\ UNCHANGED <<checkpoints, rows, refs, work>>
               /\ \/ job' = job /\ spoiled' = spoiled
                  \/ /\ n <= CurrentTurnCount
                     /\ n = 0 \/ \E c \in checkpoints : c.count = n
                     /\ job'.step = "restore" /\ job'.count = n
                     /\ job'.rolled = CurrentTurnCount - n
                     /\ \A m \in job'.stale : m > n
                     /\ spoiled' = IF Settled THEN spoiled ELSE Spoiled("overlapped")
<1>. DEFINE n == Head(domainIn).count
            stale == {c.count : c \in {d \in checkpoints : d.count > n /\ d.git}}
<1>1. job = Idle /\ UNCHANGED <<checkpoints, rows, refs, work>>
  BY DEF TakeRevert, CanTake, thread, git
<1>2. \/ job' = job /\ spoiled' = spoiled
      \/ /\ n <= CurrentTurnCount
         /\ n = 0 \/ \E c \in checkpoints : c.count = n
         /\ job' = [Idle EXCEPT !.step = "restore", !.count = n,
                                !.rolled = CurrentTurnCount - n, !.stale = stale]
         /\ spoiled' = IF Settled THEN spoiled ELSE Spoiled("overlapped")
  BY DEF TakeRevert
<1>3. \A m \in stale : m > n
  OBVIOUS
<1>. HIDE DEF n, stale
<1>4. job' = [Idle EXCEPT !.step = "restore", !.count = n,
                         !.rolled = CurrentTurnCount - n, !.stale = stale]
      => /\ job'.step = "restore" /\ job'.count = n /\ job'.rolled = CurrentTurnCount - n
         /\ job'.stale = stale
  BY DEF Idle
<1>5. \/ job' = job /\ spoiled' = spoiled
      \/ /\ n <= CurrentTurnCount
         /\ n = 0 \/ \E c \in checkpoints : c.count = n
         /\ job'.step = "restore" /\ job'.count = n
         /\ job'.rolled = CurrentTurnCount - n
         /\ \A m \in job'.stale : m > n
         /\ spoiled' = IF Settled THEN spoiled ELSE Spoiled("overlapped")
  BY <1>2, <1>3, <1>4
<1>. QED  BY <1>1, <1>5 DEF n

LEMMA RefsKeptNext ==
    ASSUME Types, Types', RefsKept, Next
    PROVE  RefsKept'
<1>0. spoiled' # "torn" => spoiled # "torn"
  BY TornSticks
<1>1. CASE UNCHANGED <<checkpoints, rows, refs, job>>
  BY <1>0, <1>1 DEF RefsKept, HasRef, Reverting
<1>2. CASE RecordPlaceholder
  <2>. DEFINE c == Checkpoint(placeholder.turn, placeholder.count, "missing", FALSE)
  <2>1. TurnDiffCompleted(c) /\ UNCHANGED <<refs, job>> /\ c.git = FALSE
    BY <1>2 DEF RecordPlaceholder, Checkpoint, git
  <2>. HIDE DEF c
  <2>2. checkpoints' \subseteq checkpoints \cup {c} /\ rows' \subseteq rows \cup {c}
    BY <2>1, RecordedSubset
  <2>. QED  BY <1>0, <2>1, <2>2 DEF RefsKept, HasRef, Reverting
<1>3. CASE Record
  <2>. DEFINE c == Checkpoint(job.turn, job.count, job.status, TRUE)
  <2>1. /\ TurnDiffCompleted(c) /\ refs' = refs /\ job' = Idle /\ job.step = "record"
        /\ c.count = job.count
    BY <1>3 DEF Record, Checkpoint, git
  <2>. HIDE DEF c
  <2>2. checkpoints' \subseteq checkpoints \cup {c} /\ rows' \subseteq rows \cup {c}
    BY <2>1, RecordedSubset
  <2>3. c.count \in DOMAIN refs
    BY <2>1 DEF RefsKept
  <2>. QED  BY <1>0, <2>1, <2>2, <2>3 DEF RefsKept, HasRef, Reverting, RevertSteps, Idle
<1>4. CASE TakeTurnStart \/ TakeStarted \/ TakeCompleted \/ TakePlaceholder
  <2>1. /\ job = Idle /\ UNCHANGED <<checkpoints, rows, refs>>
        /\ job'.step \in {"idle", "baseline", "capture"}
    BY <1>4, Taken
  <2>. QED  BY <1>0, <2>1 DEF RefsKept, HasRef, Reverting, RevertSteps, Idle
<1>5. CASE TakeRevert
  <2>. DEFINE n == Head(domainIn).count
  <2>1. /\ job = Idle /\ UNCHANGED <<checkpoints, rows, refs>>
        /\ \/ job' = job
           \/ job'.step = "restore" /\ job'.count = n /\ \A m \in job'.stale : m > n
    BY <1>5, RevertTaken
  <2>. HIDE DEF n
  <2>. QED  BY <1>0, <2>1, JobFields DEF RefsKept, HasRef, Reverting
<1>6. CASE CaptureBaseline \/ Capture
  <2>1. /\ UNCHANGED <<checkpoints, rows>> /\ refs' = WithRef(job.count)
        /\ job.step \in {"baseline", "capture"}
        /\ job' = Idle \/ job' = [job EXCEPT !.step = "record"]
    BY <1>6 DEF CaptureBaseline, Capture, thread
  <2>2. /\ job' = Idle \/ (job'.step = "record" /\ job'.count = job.count)
    BY <2>1 DEF Types
  <2>3. DOMAIN refs' = DOMAIN refs \cup {job.count}
    BY <2>1 DEF WithRef
  <2>. QED  BY <1>0, <2>1, <2>2, <2>3 DEF RefsKept, HasRef, Reverting, RevertSteps, Idle
<1>7. CASE RestoreFiles \/ RollBackConversation
  <2>1. UNCHANGED <<checkpoints, rows, refs>>
    BY <1>7 DEF RestoreFiles, RollBackConversation, thread, git
  <2>2. /\ job.step \in {"restore", "rollback"} /\ job'.step \in {"rollback", "delete", "complete"}
        /\ job'.count = job.count /\ job'.stale \subseteq job.stale
    BY <1>7, TypesParts, NextRevertStep
  <2>. QED  BY <1>0, <2>1, <2>2 DEF RefsKept, HasRef, Reverting, RevertSteps
<1>8. CASE DeleteRefs
  <2>1. PICK n \in job.stale : refs' = Restrict(refs, DOMAIN refs \ {n}) \/ refs' = refs
    BY <1>8 DEF DeleteRefs
  <2>2. /\ UNCHANGED <<checkpoints, rows>> /\ job.step = "delete"
        /\ job'.step \in {"delete", "complete"}
        /\ job'.count = job.count /\ job'.stale \subseteq job.stale
    BY <1>8, TypesParts, NextRevertStep DEF DeleteRefs, thread
  <2>3. DOMAIN refs \ {n} \subseteq DOMAIN refs'
    BY <2>1 DEF Restrict
  <2>4. n > job.count
    BY <2>2 DEF RefsKept, Reverting, RevertSteps
  <2>. QED  BY <1>0, <2>2, <2>3, <2>4 DEF RefsKept, HasRef, Reverting, RevertSteps
<1>9. CASE CompleteRevert
  <2>1. /\ checkpoints' \subseteq {c \in checkpoints : c.count <= job.count}
        /\ rows' = {c \in rows : c.count <= job.count}
        /\ refs' = refs /\ job.step = "complete" /\ job' = Idle
    BY <1>9 DEF CompleteRevert, Newest, git
  <2>2. ASSUME NEW c \in checkpoints' \cup rows' PROVE ~(c.count > job.count)
    <3>1. c.count <= job.count /\ c.count \in Nat /\ job.count \in Nat
      BY <2>1 DEF Types, CheckpointSet
    <3>. QED  BY <3>1
  <2>. QED  BY <1>0, <2>1, <2>2 DEF RefsKept, HasRef, Reverting, RevertSteps, Idle
<1>10. CASE Fail \/ Crash
  <2>1. /\ refs' = refs /\ job' = Idle /\ checkpoints' \cup rows' \subseteq checkpoints \cup rows
        /\ job.step \in {"delete", "complete"} => spoiled' = "torn"
    BY <1>10 DEF Fail, Crash, Ended, git, thread, Spoiled
  <2>. QED  BY <1>0, <2>1 DEF RefsKept, HasRef, Reverting, RevertSteps, Idle
<1>11. CASE Environment \/ IngestLifecycle \/ IngestDiff
  BY <1>1, <1>11 DEF Environment, RequestTurn, RequestRevert, StartTurn, Edit, ReportDiff, EndSession, EndTurn,
                     IngestLifecycle, IngestDiff, thread, git
<1>. QED  BY <1>2, <1>3, <1>4, <1>5, <1>6, <1>7, <1>8, <1>9, <1>10, <1>11 DEF Next, Worker, Ingestion

\* Only the reactor itself gives a turn a captured checkpoint.
LEMMA CapturedNext ==
    ASSUME Next, ~Record, ~Crash, NEW t, CapturedFor(t)'
    PROVE  CapturedFor(t)
<1>1. CASE Quiescent
  BY <1>1 DEF Quiescent, CapturedFor
<1>2. CASE RecordPlaceholder /\ Recording
  <2>1. PICK c : TurnDiffCompleted(c) /\ c.status = "missing"
    BY <1>2 DEF Recording, Checkpoint
  <2>2. checkpoints' \subseteq checkpoints \cup {c}
    BY <2>1, RecordedSubset
  <2>. QED  BY <2>1, <2>2 DEF CapturedFor
<1>3. CASE CompleteRevert
  BY <1>3 DEF CompleteRevert, Newest, CapturedFor
<1>. QED  BY <1>1, <1>2, <1>3, ThreadChanges DEF Recording

LEMMA UncapturedNext ==
    ASSUME Types, Uncaptured, Next
    PROVE  Uncaptured'
<1>1. CASE UNCHANGED job /\ ~Record /\ ~Crash
  BY <1>1, CapturedNext DEF Uncaptured, Capturing
<1>2. CASE Record \/ Crash \/ Fail \/ CompleteRevert \/ CaptureBaseline
  <2>1. job' = Idle
    BY <1>2 DEF Record, Crash, Fail, CompleteRevert, CaptureBaseline
  <2>. QED  BY <2>1 DEF Uncaptured, Capturing, Idle
<1>3. CASE TakeTurnStart \/ TakeStarted \/ TakeRevert
  <2>1. job'.step \in {"idle", "baseline", "restore"}
    <3>1. CASE TakeTurnStart
      BY <3>1, JobFields DEF TakeTurnStart, CanTake, Baseline
    <3>2. CASE TakeStarted
      BY <3>2, JobFields DEF TakeStarted, CanTake, Baseline
    <3>3. CASE TakeRevert
      BY <3>3, RevertTaken, JobFields
    <3>. QED  BY <1>3, <3>1, <3>2, <3>3
  <2>. QED  BY <2>1 DEF Uncaptured, Capturing
<1>4. CASE TakeCompleted \/ TakePlaceholder
  <2>1. /\ checkpoints' = checkpoints /\ job = Idle
        /\ \/ job' = Idle
           \/ \E t, n, s : job' = CaptureFor(t, n, s) /\ ~CapturedFor(t)
    BY <1>4 DEF TakeCompleted, TakePlaceholder, CanTake, thread
  <2>2. CASE job' = Idle
    BY <2>2 DEF Uncaptured, Capturing, Idle
  <2>3. CASE \E t, n, s : job' = CaptureFor(t, n, s) /\ ~CapturedFor(t)
    <3>1. PICK t, n, s : job' = CaptureFor(t, n, s) /\ ~CapturedFor(t)
      BY <2>3
    <3>2. job'.turn = t
      BY <3>1 DEF CaptureFor, Idle
    <3>. QED  BY <2>1, <3>1, <3>2 DEF Uncaptured, CapturedFor
  <2>. QED  BY <2>1, <2>2, <2>3
<1>5. CASE Capture
  <2>1. /\ checkpoints' = checkpoints /\ job.step = "capture"
        /\ job' = [job EXCEPT !.step = "record"]
    BY <1>5 DEF Capture, thread
  <2>2. job'.turn = job.turn
    BY <2>1 DEF Types
  <2>. QED  BY <2>1, <2>2 DEF Uncaptured, Capturing, CapturedFor
<1>6. CASE RestoreFiles \/ RollBackConversation \/ DeleteRefs
  <2>1. job'.step \in {"rollback", "delete", "complete"}
    BY <1>6, TypesParts, NextRevertStep
  <2>. QED  BY <2>1 DEF Uncaptured, Capturing
<1>7. ASSUME Environment \/ Ingestion PROVE job' = job
  BY <1>7 DEF Environment, RequestTurn, RequestRevert, StartTurn, Edit, ReportDiff, EndSession, EndTurn,
              Ingestion, IngestLifecycle, IngestDiff, RecordPlaceholder
<1>8. ASSUME Environment \/ Ingestion, Record \/ Crash PROVE Uncaptured'
  BY <1>2, <1>8
<1>. QED  BY <1>1, <1>2, <1>3, <1>4, <1>5, <1>6, <1>7, <1>8 DEF Next, Worker

-----------------------------------------------------------------------------
(* Counts: what is recorded keeps their order.  Once nothing is under way,  *)
(* the conversation and the checkpoints number the same turns.              *)

\* A checkpoint that is not seen to be misnumbered has its own count or the next.
LEMMA WellRecorded ==
    ASSUME Types, Types', OnePerTurn, Numbers, NEW c \in CheckpointSet,
           WellCounted(c.turn, c.count), ~Misnumbered(c), checkpoints' = InMemory(c)
    PROVE  /\ Numbers'
           /\ \A t : Shown(t)' <=> Shown(t) \/ t = c.turn
           /\ \A d \in checkpoints : d.turn # c.turn => d \in checkpoints'
           /\ \A d \in checkpoints' : d.turn # c.turn => d \in checkpoints
           /\ \A d \in checkpoints \cup checkpoints' : d.turn = c.turn => d.count = c.count
           /\ \A t, n : WellCounted(t, n) => WellCounted(t, n)'
           /\ Shown(c.turn) => CurrentTurnCount' = CurrentTurnCount
           /\ ~Shown(c.turn) => CurrentTurnCount' = CurrentTurnCount + 1
<1>1. /\ c.turn \in Nat /\ c.count \in Nat
      /\ \A d \in checkpoints \cup checkpoints' : d.turn \in Nat /\ d.count \in Nat
  <2>1. checkpoints \subseteq CheckpointSet /\ checkpoints' \subseteq checkpoints \cup {c}
    BY DEF Types, InMemory
  <2>2. \A d \in CheckpointSet : d.turn \in Nat /\ d.count \in Nat
    BY DEF CheckpointSet, Turns
  <2>. QED  BY <2>1, <2>2
<1>2. \A d \in checkpoints : /\ d.turn < c.turn => d.count < c.count
                             /\ d.turn > c.turn => d.count > c.count
  BY <1>1 DEF Misnumbered
<1>3. \A d \in checkpoints : d.turn = c.turn => d.count = c.count
  BY <1>1, <1>2 DEF WellCounted, OnePerTurn, Shown
<1>4. /\ \A d \in checkpoints : d.turn # c.turn => d \in checkpoints'
      /\ \A d \in checkpoints' : d.turn # c.turn => d \in checkpoints
      /\ \A d \in checkpoints' : d.turn = c.turn => d.count = c.count
      /\ Shown(c.turn)'
  BY <1>3 DEF InMemory, CapturedFor, Shown
<1>5. \A t : Shown(t)' <=> Shown(t) \/ t = c.turn
  BY <1>4 DEF Shown
<1>6. \A d, e \in checkpoints' : d.turn < e.turn => d.count < e.count
  <2>1. SUFFICES ASSUME NEW d \in checkpoints', NEW e \in checkpoints', d.turn < e.turn
                 PROVE  d.count < e.count
    OBVIOUS
  <2>2. CASE d.turn = c.turn
    BY <1>1, <1>2, <1>4, <2>1, <2>2
  <2>3. CASE e.turn = c.turn
    BY <1>1, <1>2, <1>4, <2>1, <2>3
  <2>4. CASE d.turn # c.turn /\ e.turn # c.turn
    BY <1>4, <2>1, <2>4 DEF Numbers
  <2>. QED  BY <2>2, <2>3, <2>4
<1>7. /\ CurrentTurnCount \in Nat /\ \A d \in checkpoints : d.count <= CurrentTurnCount
      /\ CurrentTurnCount = 0 \/ \E d \in checkpoints : d.count = CurrentTurnCount
  BY CurrentCount
<1>8. /\ CurrentTurnCount' \in Nat /\ \A d \in checkpoints' : d.count <= CurrentTurnCount'
      /\ CurrentTurnCount' = 0 \/ \E d \in checkpoints' : d.count = CurrentTurnCount'
  BY CurrentCountNext
<1>. HIDE DEF CurrentTurnCount
<1>9. CASE Shown(c.turn)
  <2>1. /\ \A d \in checkpoints : \E e \in checkpoints' : e.count = d.count
        /\ \A d \in checkpoints' : \E e \in checkpoints : e.count = d.count
    BY <1>3, <1>4, <1>9 DEF Shown
  <2>2. CurrentTurnCount' = CurrentTurnCount
    <3>1. CurrentTurnCount' <= CurrentTurnCount
      BY <1>7, <1>8, <2>1
    <3>2. CurrentTurnCount <= CurrentTurnCount'
      BY <1>7, <1>8, <2>1
    <3>. QED  BY <1>7, <1>8, <3>1, <3>2
  <2>3. Numbers'
    BY <1>6, <2>1, <2>2 DEF Numbers
  <2>4. ASSUME NEW t, NEW n, WellCounted(t, n) PROVE WellCounted(t, n)'
    <3>1. CASE \E d \in checkpoints : d.count = n
      <4>1. PICK e \in checkpoints' : e.count = n
        BY <2>1, <3>1
      <4>. QED  BY <4>1 DEF WellCounted
    <3>2. CASE n = CurrentTurnCount + 1 /\ ~Shown(t)
      BY <1>5, <1>9, <2>2, <3>2 DEF WellCounted
    <3>. QED  BY <2>4, <3>1, <3>2 DEF WellCounted
  <2>. QED  BY <1>3, <1>4, <1>5, <1>9, <2>2, <2>3, <2>4
<1>10. CASE ~Shown(c.turn)
  <2>1. c.count = CurrentTurnCount + 1
    BY <1>1, <1>2, <1>10 DEF WellCounted, Shown
  <2>2. checkpoints' = checkpoints \cup {c}
    BY <1>10 DEF InMemory, CapturedFor, Shown
  <2>3. CurrentTurnCount' = CurrentTurnCount + 1
    <3>1. CurrentTurnCount + 1 <= CurrentTurnCount'
      BY <1>8, <2>1, <2>2
    <3>2. \A d \in checkpoints' : d.count <= CurrentTurnCount + 1
      BY <1>1, <1>7, <2>1, <2>2
    <3>. QED  BY <1>7, <1>8, <3>1, <3>2
  <2>4. Numbers'
    <3>1. \A d \in checkpoints' : d.count > 0
      BY <1>7, <2>1, <2>2 DEF Numbers
    <3>2. ASSUME NEW n \in 1..CurrentTurnCount' PROVE \E d \in checkpoints' : d.count = n
      <4>1. CASE n = CurrentTurnCount + 1
        BY <2>1, <2>2, <4>1
      <4>2. CASE n # CurrentTurnCount + 1
        <5>1. n \in 1..CurrentTurnCount
          BY <1>7, <2>3, <4>2
        <5>. QED  BY <2>2, <5>1 DEF Numbers
      <4>. QED  BY <4>1, <4>2
    <3>. QED  BY <1>6, <3>1, <3>2 DEF Numbers
  <2>5. ASSUME NEW t, NEW n, WellCounted(t, n) PROVE WellCounted(t, n)'
    BY <2>1, <2>2, <2>5 DEF WellCounted
  <2>. QED  BY <1>3, <1>4, <1>5, <1>10, <2>3, <2>4, <2>5
<1>. QED  BY <1>9, <1>10

\* An increasing enumeration of 1..N is the identity.
Enumerates(K, L, N) ==
    /\ L \in Nat /\ N \in Nat /\ K \in [1..L -> 1..N]
    /\ \A i, j \in 1..L : i < j => K[i] < K[j]
    /\ \A n \in 1..N : \E i \in 1..L : K[i] = n

LEMMA IncreasingOnto ==
    ASSUME NEW L, NEW N, NEW K, Enumerates(K, L, N)
    PROVE  L = N /\ \A p \in 1..L : K[p] = p
<1>0. /\ L \in Nat /\ N \in Nat /\ K \in [1..L -> 1..N]
      /\ \A i, j \in 1..L : i < j => K[i] < K[j]
      /\ \A n \in 1..N : \E i \in 1..L : K[i] = n
  BY DEF Enumerates
<1>. USE <1>0
<1>1. ASSUME NEW p \in 0..L, NEW m \in 0..N,
             \A i \in 1..p : K[i] \in 1..m,
             \A n \in 1..m : \E i \in 1..p : K[i] = n
      PROVE  p = m
  <2>. DEFINE R == [i \in 1..p |-> K[i]]
  <2>1. R \in [1..p -> 1..m] /\ \A i \in 1..p : R[i] = K[i]
    BY <1>1
  <2>. HIDE DEF R
  <2>2. \A i, j \in 1..p : R[i] = R[j] => i = j
    <3>1. SUFFICES ASSUME NEW i \in 1..p, NEW j \in 1..p, R[i] = R[j], i # j PROVE FALSE
      OBVIOUS
    <3>2. i \in 1..L /\ j \in 1..L /\ (i < j \/ j < i)
      BY <3>1
    <3>3. K[i] = K[j] /\ K[i] \in Int
      <4>1. R[i] = K[i] /\ R[j] = K[j]
        BY <2>1
      <4>2. K[i] \in Int
        <5>1. i \in 1..L
          BY <3>2
        <5>. QED  BY <5>1
      <4>. QED  BY <3>1, <4>1, <4>2
    <3>4. K[i] < K[j] \/ K[j] < K[i]
      BY <3>2
    <3>. QED  BY <3>3, <3>4
  <2>3. R \in Bijection(1..p, 1..m)
    <3>1. IsInjective(R)
      BY <2>1, <2>2 DEF IsInjective
    <3>2. \A n \in 1..m : \E i \in 1..p : R[i] = n
      BY <1>1, <2>1
    <3>. QED  BY <2>1, <3>1, <3>2 DEF Bijection, Injection, Surjection
  <2>4. ExistsBijection(1..p, 1..m)
    BY <2>3 DEF ExistsBijection
  <2>5. IsFiniteSet(1..p) /\ Cardinality(1..p) = p /\ Cardinality(1..m) = m
    <3>1. p \in Nat /\ m \in Nat /\ 1 \in Int /\ p \in Int /\ m \in Int
      OBVIOUS
    <3>2. /\ IsFiniteSet(1..p) /\ Cardinality(1..p) = IF 1 > p THEN 0 ELSE p - 1 + 1
          /\ Cardinality(1..m) = IF 1 > m THEN 0 ELSE m - 1 + 1
      BY <3>1, FS_Interval
    <3>. QED  BY <3>1, <3>2
  <2>6. Cardinality(1..p) = Cardinality(1..m)
    BY <2>4, <2>5, FS_Bijection
  <2>. QED  BY <2>5, <2>6
<1>2. L = N
  <2>1. L \in 0..L /\ N \in 0..N /\ \A i \in 1..L : K[i] \in 1..N
    OBVIOUS
  <2>. QED  BY <1>1, <2>1
<1>3. ASSUME NEW p \in 1..L PROVE K[p] = p
  <2>1. K[p] \in 1..N
    OBVIOUS
  <2>2. \A i \in 1..p : K[i] \in 1..K[p]
    <3>1. SUFFICES ASSUME NEW i \in 1..p PROVE K[i] \in 1..K[p]
      OBVIOUS
    <3>2. K[i] \in 1..N /\ (i = p \/ K[i] < K[p])
      OBVIOUS
    <3>. QED  BY <2>1, <3>2
  <2>3. ASSUME NEW n \in 1..K[p] PROVE \E i \in 1..p : K[i] = n
    <3>1. n \in 1..N
      BY <2>1
    <3>2. PICK i \in 1..L : K[i] = n
      BY <3>1
    <3>3. ~(p < i)
      <4>1. p < i => K[p] < K[i]
        OBVIOUS
      <4>. QED  BY <2>1, <3>1, <3>2, <4>1
    <3>4. i \in 1..p
      BY <3>3
    <3>. QED  BY <3>2, <3>4
  <2>4. p \in 0..L /\ K[p] \in 0..N
    BY <2>1
  <2>. HIDE DEF ExistsBijection
  <2>. QED  BY <1>1, <2>2, <2>3, <2>4
<1>. QED  BY <1>2, <1>3

LEMMA ConvTyped ==
    ASSUME Types
    PROVE  /\ Len(conv) \in Nat /\ DOMAIN conv = 1..Len(conv)
           /\ \A i \in 1..Len(conv) : conv[i] \in Turns /\ conv[i] \in Nat \ {0}
           /\ conv # <<>> => Len(conv) \in 1..Len(conv)
<1>1. conv \in Seq(Turns) /\ Turns \subseteq Nat \ {0}
  BY DEF Types, Turns
<1>2. /\ Len(conv) \in Nat /\ DOMAIN conv = 1..Len(conv)
      /\ \A i \in 1..Len(conv) : conv[i] \in Turns
      /\ conv # <<>> => Len(conv) \in Nat \ {0}
  BY <1>1, LenProperties, EmptySeq
<1>3. \A i \in 1..Len(conv) : conv[i] \in Nat \ {0}
  BY <1>1, <1>2
<1>4. conv # <<>> => Len(conv) \in 1..Len(conv)
  <2>. DEFINE n == Len(conv)
  <2>1. conv # <<>> => n \in Nat \ {0}
    BY <1>2
  <2>. HIDE DEF n
  <2>2. n \in Nat \ {0} => n \in 1..n
    OBVIOUS
  <2>3. conv # <<>> => n \in 1..n
    BY <2>1, <2>2
  <2>. QED  BY <2>3 DEF n
<1>. QED  BY <1>2, <1>3, <1>4

LEMMA SettledFollows ==
    ASSUME Types, OnePerTurn, Numbers, Conversation, Settled, ~Capturing,
           \A c \in checkpoints : InConv(c.turn)
    PROVE  Follows(CurrentTurnCount)
<1>. DEFINE L == Len(conv)
            N == CurrentTurnCount
            K == [i \in 1..L |-> (CHOOSE c \in checkpoints : c.turn = conv[i]).count]
<1>1. L \in Nat /\ DOMAIN conv = 1..L /\ \A i \in 1..L : conv[i] \in Nat \ {0}
  BY ConvTyped
<1>2. /\ N \in Nat
      /\ \A c \in checkpoints : c.count \in 1..N
  BY CurrentCount DEF Numbers
<1>3. \A i \in 1..L : \E c \in checkpoints : c.turn = conv[i]
  <2>1. \A i \in 1..L : ~Coming(conv[i])
    BY <1>1, EmptyRange DEF Settled, Coming, Completing
  <2>. QED  BY <1>1, <2>1 DEF Conversation, Range, Shown
<1>. HIDE DEF N, L
<1>4. \A i \in 1..L : \E c \in checkpoints : c.turn = conv[i] /\ c.count = K[i]
  BY <1>3
<1>. HIDE DEF K
<1>5. K \in [1..L -> 1..N]
  <2>1. \A i \in 1..L : K[i] \in 1..N
    BY <1>2, <1>4
  <2>2. K = [i \in 1..L |-> K[i]]
    BY DEF K
  <2>. QED  BY <2>1, <2>2
<1>6. ASSUME NEW i \in 1..L, NEW j \in 1..L, i < j PROVE K[i] < K[j]
  <2>1. conv[i] < conv[j]
    BY <1>1, <1>6 DEF Conversation
  <2>2. PICK c \in checkpoints : c.turn = conv[i] /\ c.count = K[i]
    BY <1>4
  <2>3. PICK d \in checkpoints : d.turn = conv[j] /\ d.count = K[j]
    BY <1>4
  <2>. QED  BY <2>1, <2>2, <2>3 DEF Numbers
<1>7. ASSUME NEW c \in checkpoints PROVE \E i \in 1..L : conv[i] = c.turn /\ K[i] = c.count
  <2>1. PICK i \in 1..L : conv[i] = c.turn
    BY <1>1 DEF InConv, Range
  <2>2. PICK d \in checkpoints : d.turn = conv[i] /\ d.count = K[i]
    BY <1>4
  <2>3. d = c
    BY <2>1, <2>2 DEF OnePerTurn
  <2>. QED  BY <2>1, <2>2, <2>3
<1>8. \A n \in 1..N : \E i \in 1..L : K[i] = n
  <2>1. ASSUME NEW n \in 1..N PROVE \E i \in 1..L : K[i] = n
    <3>1. PICK c \in checkpoints : c.count = n
      BY DEF Numbers, N
    <3>. QED  BY <3>1, <1>7
  <2>. QED  BY <2>1
<1>9. L = N /\ \A p \in 1..L : K[p] = p
  <2>1. L \in Nat /\ N \in Nat
    BY <1>1, <1>2
  <2>2. \A i, j \in 1..L : i < j => K[i] < K[j]
    BY <1>6
  <2>3. Enumerates(K, L, N)
    BY <2>1, <2>2, <1>5, <1>8 DEF Enumerates
  <2>. QED  BY <2>3, IncreasingOnto
<1>10. \A c \in checkpoints : conv[c.count] = c.turn
  BY <1>7, <1>9
<1>. QED  BY <1>9, <1>10 DEF Follows, N, L

\* Each number up to the current turn count is that of one checkpoint.
LEMMA CheckpointsCounted ==
    ASSUME Types, OnePerTurn, Numbers
    PROVE  Cardinality(checkpoints) = CurrentTurnCount
<1>. DEFINE N == CurrentTurnCount
            G == [n \in 1..N |-> CHOOSE c \in checkpoints : c.count = n]
<1>1. N \in Nat /\ \A c \in checkpoints : c.count \in 1..N
  BY CurrentCount DEF Numbers
<1>2. \A n \in 1..N : \E c \in checkpoints : c.count = n
  BY DEF Numbers
<1>. HIDE DEF N
<1>3. \A n \in 1..N : G[n] \in checkpoints /\ G[n].count = n
  BY <1>2
<1>4. G \in [1..N -> checkpoints]
  BY <1>3
<1>. HIDE DEF G
<1>5. \A c, d \in checkpoints : c.count = d.count => c = d
  <2>1. SUFFICES ASSUME NEW c \in checkpoints, NEW d \in checkpoints, c.count = d.count PROVE c = d
    OBVIOUS
  <2>2. c.turn \in Nat /\ d.turn \in Nat /\ c.count \in Nat
    <3>1. c \in CheckpointSet /\ d \in CheckpointSet
      BY DEF Types
    <3>. QED  BY <3>1 DEF CheckpointSet, Turns
  <2>3. c.turn = d.turn
    BY <2>1, <2>2 DEF Numbers
  <2>. QED  BY <2>3 DEF OnePerTurn
<1>6. IsInjective(G)
  BY <1>3, <1>4 DEF IsInjective
<1>7. \A c \in checkpoints : \E n \in 1..N : G[n] = c
  BY <1>1, <1>3, <1>5
<1>8. G \in Bijection(1..N, checkpoints)
  BY <1>4, <1>6, <1>7 DEF Bijection, Injection, Surjection
<1>9. ExistsBijection(1..N, checkpoints)
  BY <1>8 DEF ExistsBijection
<1>10. IsFiniteSet(1..N) /\ Cardinality(1..N) = N
  <2>1. 1 \in Int /\ N \in Int
    BY <1>1
  <2>2. IsFiniteSet(1..N) /\ Cardinality(1..N) = IF 1 > N THEN 0 ELSE N - 1 + 1
    BY <2>1, FS_Interval
  <2>. QED  BY <1>1, <2>2
<1>. QED  BY <1>9, <1>10, FS_Bijection DEF N

\* What the invariant says of a quiet state.
LEMMA QuietConversation ==
    ASSUME ReactorInv
    PROVE  ConversationFollowsCheckpoints
<1>1. SUFFICES ASSUME Quiet, spoiled = "no"
               PROVE  /\ Len(conv) = Cardinality(checkpoints)
                      /\ \A c \in checkpoints : c.count \in DOMAIN conv /\ conv[c.count] = c.turn
  BY DEF ConversationFollowsCheckpoints
<1>2. Types /\ OnePerTurn /\ Clean
  BY <1>1 DEF ReactorInv
<1>3. ~Capturing /\ job.step = "idle" /\ Settled
  BY <1>1, JobFields DEF Quiet, Capturing
<1>4. Follows(CurrentTurnCount)
  BY <1>2, <1>3, SettledFollows DEF Clean, Remembered
<1>5. /\ CurrentTurnCount \in Nat
      /\ \A c \in checkpoints : c.count \in 1..CurrentTurnCount
  BY <1>2, CurrentCount DEF Clean, Numbers
<1>6. Cardinality(checkpoints) = CurrentTurnCount
  BY <1>2, CheckpointsCounted DEF Clean
<1>7. DOMAIN conv = 1..Len(conv)
  BY <1>2, ConvTyped
<1>. QED  BY <1>4, <1>5, <1>6, <1>7 DEF Follows

LEMMA QuietFiles ==
    ASSUME ReactorInv
    PROVE  QuietWorkspaceCheckpointed
<1>1. SUFFICES ASSUME Quiet, spoiled = "no" PROVE work = Latest
  BY DEF QuietWorkspaceCheckpointed
<1>2. Files
  BY <1>1 DEF ReactorInv, Clean
<1>3. ~Capturing /\ ~Reverting /\ running = 0
  BY <1>1, JobFields DEF Quiet, Settled, Capturing, Reverting, RevertSteps
<1>4. \A t : ~Completing(t) /\ ~Diffing(t)
  BY <1>1, EmptyRange DEF Quiet, Settled, Completing, Diffing
<1>. QED  BY <1>2, <1>3, <1>4 DEF Files

-----------------------------------------------------------------------------
(* The clean part: the user, the provider and the ingestion. *)

LEMMA SettledRange ==
    /\ Settled <=> /\ running = 0 /\ placeholder = None /\ runtimeIn = <<>>
                   /\ \A e \in Range(ingest) : e.kind = "exited"
                   /\ \A e \in Range(domainIn) : e.kind # "diff"
    /\ Settled' <=> /\ running' = 0 /\ placeholder' = None /\ runtimeIn' = <<>>
                    /\ \A e \in Range(ingest') : e.kind = "exited"
                    /\ \A e \in Range(domainIn') : e.kind # "diff"
  BY DEF Settled, Range

\* Whatever a turn is known for outside the conversation, it is one of its turns.
LEMMA TurnsKnown ==
    ASSUME Types, Conversation, NEW t, InConv(t)
    PROVE  /\ t \in Nat \ {0} /\ t <= started
           /\ LastTurn \in Nat /\ t <= LastTurn /\ conv # <<>>
<1>. DEFINE L == Len(conv)
<1>1. /\ L \in Nat /\ DOMAIN conv = 1..L /\ LastTurn = conv[L]
      /\ \A i \in 1..L : conv[i] \in Nat \ {0}
  BY ConvTyped DEF LastTurn
<1>2. PICK i \in 1..L : conv[i] = t
  BY <1>1 DEF InConv, Range
<1>3. conv # <<>>
  BY <1>1, <1>2
<1>. HIDE DEF L
<1>4. L \in 1..L
  BY <1>1, <1>2
<1>5. i = L \/ i < L
  BY <1>1, <1>2
<1>6. i < L => conv[i] < conv[L]
  BY <1>1, <1>4 DEF Conversation
<1>7. LastTurn \in Nat /\ t <= LastTurn
  BY <1>1, <1>2, <1>4, <1>5, <1>6
<1>8. t <= started
  BY <1>1, <1>2 DEF Conversation
<1>. QED  BY <1>1, <1>2, <1>3, <1>7, <1>8

LEMMA LastInConv ==
    ASSUME Types, conv # <<>>
    PROVE  InConv(LastTurn)
<1>1. DOMAIN conv = 1..Len(conv) /\ Len(conv) \in 1..Len(conv)
  BY ConvTyped
<1>. QED  BY <1>1 DEF InConv, Range, LastTurn

\* A step that changes only what waits to be handled.
LEMMA CleanQueues ==
    ASSUME Clean,
           UNCHANGED <<checkpoints, work, refs, running, started, conv, job, runtimeIn>>,
           \A e \in Range(domainIn') : e.kind = "diff" => e \in Range(domainIn),
           \A e \in Range(domainIn) : e.kind = "diff" => e \in Range(domainIn'),
           \A e \in Range(ingest') : e.kind = "diff" => InConv(e.turn),
           placeholder' # None =>
               InConv(placeholder'.turn) /\ WellCounted(placeholder'.turn, placeholder'.count),
           Reverting => Settled'
    PROVE  Clean'
<1>1. /\ \A t : Shown(t)' <=> Shown(t)
      /\ \A t : CapturedFor(t)' <=> CapturedFor(t)
      /\ \A t : InConv(t)' <=> InConv(t)
      /\ \A t : Completing(t)' <=> Completing(t)
      /\ \A t : Diffing(t)' <=> Diffing(t)
      /\ Capturing' <=> Capturing
      /\ Reverting' <=> Reverting
      /\ CurrentTurnCount' = CurrentTurnCount
      /\ Latest' = Latest
      /\ LastTurn' = LastTurn
      /\ \A n : FilesOf(n)' = FilesOf(n)
  BY DEF Shown, CapturedFor, InConv, Completing, Diffing, Capturing, Reverting, CurrentTurnCount,
         Latest, LastTurn, FilesOf
<1>2. \A t, n : WellCounted(t, n)' <=> WellCounted(t, n)
  BY <1>1 DEF WellCounted
<1>3. \A t : Coming(t)' <=> Coming(t)
  BY <1>1 DEF Coming
<1>4. \A n : Follows(n)' <=> Follows(n)
  BY DEF Follows
<1>5. Numbers'
  BY <1>1 DEF Clean, Numbers
<1>6. Counts'
  BY <1>1, <1>2 DEF Clean, Counts
<1>7. Remembered'
  BY <1>1 DEF Clean, Remembered
<1>8. Conversation'
  BY <1>1, <1>3 DEF Clean, Conversation
<1>9. Reverts'
  <2>1. CASE Reverting
    <3>1. /\ Settled'
          /\ job.count = 0 \/ \E c \in checkpoints : c.count = job.count
          /\ job.rolled = CurrentTurnCount - job.count
          /\ Follows(IF job.step \in {"restore", "rollback"} THEN CurrentTurnCount ELSE job.count)
          /\ job.step # "restore" => work = FilesOf(job.count)
      BY <2>1 DEF Clean, Reverts
    <3>2. Follows(IF job.step \in {"restore", "rollback"} THEN CurrentTurnCount ELSE job.count)'
      BY <1>1, <1>4, <3>1
    <3>. QED  BY <1>1, <3>1, <3>2 DEF Reverts
  <2>2. CASE ~Reverting
    BY <1>1, <2>2 DEF Reverts
  <2>. QED  BY <2>1, <2>2
<1>10. Files'
  BY <1>1 DEF Clean, Files
<1>. QED  BY <1>5, <1>6, <1>7, <1>8, <1>9, <1>10 DEF Clean

LEMMA CleanRequest ==
    ASSUME Types, Clean, RequestTurn \/ \E n \in 0..MaxTurns : RequestRevert(n)
    PROVE  Clean'
<1>1. PICK e \in Inputs : /\ e.kind # "diff" /\ domainIn' = Append(domainIn, e)
                          /\ UNCHANGED <<checkpoints, work, refs, running, started, conv, job,
                                         runtimeIn, ingest, placeholder>>
  <2>1. CASE RequestTurn
    <3>1. [kind |-> "turnStart"] \in Inputs
      BY DEF Inputs
    <3>. QED  BY <2>1, <3>1 DEF RequestTurn, thread, git, ingester
  <2>2. ASSUME NEW n \in 0..MaxTurns, RequestRevert(n)
        PROVE  \E e \in Inputs : /\ e.kind # "diff" /\ domainIn' = Append(domainIn, e)
                                 /\ UNCHANGED <<checkpoints, work, refs, running, started, conv,
                                                job, runtimeIn, ingest, placeholder>>
    <3>1. [kind |-> "revert", count |-> n] \in Inputs
      BY DEF Inputs
    <3>. QED  BY <2>2, <3>1 DEF RequestRevert, thread, git, provider, ingester
  <2>. QED  BY <2>1, <2>2
<1>2. Range(domainIn') = Range(domainIn) \cup {e}
  BY <1>1, AppendRange DEF Types
<1>3. Reverting => Settled'
  BY <1>1, <1>2, SettledRange DEF Clean, Reverts
<1>. QED  BY <1>1, <1>2, <1>3, CleanQueues DEF Clean, Remembered, Counts

LEMMA CleanReportDiff ==
    ASSUME Types, Clean, ReportDiff
    PROVE  Clean'
<1>1. /\ running # 0 /\ placeholder' = placeholder /\ domainIn' = domainIn
      /\ ingest' = Append(ingest, [kind |-> "diff", turn |-> running])
      /\ UNCHANGED <<checkpoints, work, refs, running, started, conv, job, runtimeIn>>
  BY DEF ReportDiff, thread, git, provider, inputs
<1>2. [kind |-> "diff", turn |-> running] \in Events
  BY <1>1 DEF Types, Events, Turns
<1>3. Range(ingest') = Range(ingest) \cup {[kind |-> "diff", turn |-> running]}
  BY <1>1, <1>2, AppendRange DEF Types
<1>4. InConv(running)
  BY <1>1, LastInConv DEF Clean, Conversation, LastTurn
<1>5. ~Reverting
  BY <1>1 DEF Clean, Reverts, Settled
<1>6. \A e \in Range(ingest') : e.kind = "diff" => InConv(e.turn)
  BY <1>3, <1>4 DEF Clean, Remembered
<1>. QED  BY <1>1, <1>5, <1>6, CleanQueues DEF Clean, Remembered, Counts

LEMMA CleanEndSession ==
    ASSUME Types, Clean, EndSession, spoiled' = "no"
    PROVE  Clean'
<1>1. /\ running = 0 /\ running' = 0 /\ placeholder' = placeholder
      /\ ingest' = Append(ingest, [kind |-> "exited"])
      /\ UNCHANGED <<checkpoints, work, refs, started, conv, job, domainIn, runtimeIn>>
  BY DEF EndSession, Spoiled, git, inputs
<1>2. [kind |-> "exited"] \in Events
  BY DEF Events
<1>3. Range(ingest') = Range(ingest) \cup {[kind |-> "exited"]}
  BY <1>1, <1>2, AppendRange DEF Types
<1>4. Reverting => Settled'
  BY <1>1, <1>3, SettledRange DEF Clean, Reverts
<1>. QED  BY <1>1, <1>3, <1>4, CleanQueues DEF Clean, Remembered, Counts

LEMMA CleanIngest ==
    ASSUME Types, Clean, IngestLifecycle \/ IngestDiff
    PROVE  Clean'
<1>1. /\ ingest # <<>> /\ domainIn' = domainIn /\ ingest' = Tail(ingest)
      /\ UNCHANGED <<checkpoints, work, refs, running, started, conv, job, runtimeIn>>
      /\ \/ placeholder' = None
         \/ /\ placeholder' = [turn |-> Head(ingest).turn, count |-> CurrentTurnCount + 1]
            /\ Head(ingest).kind = "diff" /\ ~Shown(Head(ingest).turn)
  BY DEF IngestLifecycle, IngestDiff, thread, git, provider, inputs, Shown
<1>2. Range(ingest) = Range(ingest') \cup {Head(ingest)}
  BY <1>1, TailRange DEF Types
<1>3. Reverting => Settled'
  <2>1. Head(ingest) \in Range(ingest)
    BY <1>2
  <2>2. Reverting => Settled
    BY DEF Clean, Reverts
  <2>3. Reverting => Head(ingest).kind # "diff"
    BY <2>1, <2>2, SettledRange
  <2>. QED  BY <1>1, <1>2, <2>2, <2>3, SettledRange
<1>4. placeholder' # None =>
          InConv(placeholder'.turn) /\ WellCounted(placeholder'.turn, placeholder'.count)
  BY <1>1, <1>2 DEF Clean, Remembered, WellCounted
<1>5. \A e \in Range(ingest') : e.kind = "diff" => InConv(e.turn)
  BY <1>2 DEF Clean, Remembered
<1>. QED  BY <1>1, <1>3, <1>4, <1>5, CleanQueues

LEMMA CleanEdit ==
    ASSUME Types, Clean, Edit
    PROVE  Clean'
<1>1. /\ running # 0
      /\ UNCHANGED <<checkpoints, refs, running, started, conv, job, runtimeIn, ingest, domainIn,
                     placeholder>>
  BY DEF Edit, thread, provider, ingester, inputs
<1>2. ~Reverting
  BY <1>1 DEF Clean, Reverts, Settled
<1>3. Numbers' /\ Counts' /\ Remembered'
  <2>1. Numbers'
    BY <1>1 DEF Clean, Numbers, CurrentTurnCount
  <2>2. Counts'
    BY <1>1 DEF Clean, Counts, Capturing, WellCounted, CurrentTurnCount, Shown
  <2>3. Remembered'
    BY <1>1 DEF Clean, Remembered, Capturing, InConv
  <2>. QED  BY <2>1, <2>2, <2>3
<1>4. Conversation'
  BY <1>1 DEF Clean, Conversation, CapturedFor, Shown, Coming, Completing, Capturing
<1>5. Reverts' /\ Files'
  BY <1>1, <1>2 DEF Reverts, Files, Reverting
<1>. QED  BY <1>3, <1>4, <1>5 DEF Clean

\* A turn starts: it is the last of the conversation, and running.
LEMMA CleanStartTurn ==
    ASSUME Types, Types', Clean, NEW fresh \in BOOLEAN, StartTurn(fresh),
           spoiled = "no", spoiled' = "no"
    PROVE  Clean'
<1>. DEFINE L == Len(conv)
<1>0. PICK T, e : T = started + 1 /\ e = [kind |-> "started", turn |-> T]
  OBVIOUS
<1>1. /\ running = 0 /\ started' = T /\ running' = T
      /\ conv' = Append(conv, T)
      /\ runtimeIn' = Append(runtimeIn, e) /\ ingest' = Append(ingest, e)
      /\ UNCHANGED <<checkpoints, work, refs, job, placeholder, domainIn>>
  <2>1. ~Lost(fresh)
    BY DEF StartTurn, Spoiled
  <2>2. <<T>> = Append(<<>>, T)
    OBVIOUS
  <2>. QED  BY <1>0, <2>1, <2>2 DEF StartTurn, Emit, git, Lost
<1>2. ~Reverting
  BY DEF StartTurn, Spoiled, Reverting
<1>3. T \in Turns /\ T \in Nat /\ T # 0 /\ started \in Nat /\ e \in Events /\ T > started
      /\ e.kind = "started"
  BY <1>0 DEF StartTurn, Types, Turns, Events
<1>s. conv \in Seq(Turns) /\ runtimeIn \in Seq(Events) /\ ingest \in Seq(Events)
  BY DEF Types
<1>4. Range(conv') = Range(conv) \cup {T}
  BY <1>1, <1>3, <1>s, AppendRange
<1>5. Range(runtimeIn') = Range(runtimeIn) \cup {e} /\ Range(ingest') = Range(ingest) \cup {e}
  BY <1>1, <1>3, <1>s, AppendRange
<1>6. /\ L \in Nat /\ DOMAIN conv = 1..L /\ \A i \in 1..L : conv[i] \in Nat \ {0}
  BY ConvTyped
<1>7. /\ Len(conv') = L + 1 /\ DOMAIN conv' = 1..(L + 1)
      /\ conv'[L + 1] = T /\ \A i \in 1..L : conv'[i] = conv[i]
  BY <1>1, <1>3, <1>6, AppendProperties DEF Types
<1>. HIDE DEF L
<1>8. conv' # <<>>
  BY <1>6, <1>7
<1>9. /\ \A t : Shown(t)' <=> Shown(t)
      /\ \A t : CapturedFor(t)' <=> CapturedFor(t)
      /\ \A t : InConv(t) => InConv(t)'
      /\ InConv(T)'
      /\ \A t : Completing(t) => Completing(t)'
      /\ Capturing' <=> Capturing
      /\ CurrentTurnCount' = CurrentTurnCount
  BY <1>1, <1>3, <1>4, <1>5
     DEF Shown, CapturedFor, InConv, Completing, Capturing, CurrentTurnCount
<1>10. \A t, n : WellCounted(t, n)' <=> WellCounted(t, n)
  BY <1>1, <1>9 DEF WellCounted
<1>11. Numbers' /\ Counts'
  BY <1>1, <1>9, <1>10 DEF Clean, Numbers, Counts
<1>12. Remembered'
  <2>1. \A x \in Range(runtimeIn') : x.kind = "completed" => InConv(x.turn)'
    BY <1>3, <1>5, <1>9 DEF Clean, Remembered
  <2>2. \A x \in Range(ingest') : x.kind = "diff" => InConv(x.turn)'
    BY <1>3, <1>5, <1>9 DEF Clean, Remembered
  <2>. QED  BY <1>1, <1>9, <2>1, <2>2 DEF Clean, Remembered
<1>13. Conversation'
  <2>1. ASSUME NEW i \in DOMAIN conv', NEW j \in DOMAIN conv', i < j PROVE conv'[i] < conv'[j]
    <3>1. i \in 1..L /\ (j \in 1..L \/ j = L + 1)
      BY <1>6, <1>7, <2>1
    <3>2. conv[i] <= started /\ conv[i] \in Nat
      BY <1>6, <3>1 DEF Clean, Conversation
    <3>3. CASE j = L + 1
      BY <1>3, <1>7, <3>1, <3>2, <3>3
    <3>4. CASE j \in 1..L
      BY <1>6, <1>7, <2>1, <3>1, <3>4 DEF Clean, Conversation
    <3>. QED  BY <3>1, <3>3, <3>4
  <2>2. ASSUME NEW i \in DOMAIN conv' PROVE conv'[i] <= started'
    <3>1. CASE i = L + 1
      BY <1>1, <1>3, <1>7, <3>1
    <3>2. CASE i \in 1..L
      <4>1. conv[i] <= started /\ conv[i] \in Nat
        BY <1>6, <3>2 DEF Clean, Conversation
      <4>. QED  BY <1>1, <1>3, <1>7, <3>2, <4>1
    <3>. QED  BY <1>6, <1>7, <3>1, <3>2
  <2>3. ASSUME NEW t \in Range(conv') PROVE Shown(t)' \/ Coming(t)'
    <3>1. CASE t = T
      BY <1>1, <3>1 DEF Coming
    <3>2. CASE t \in Range(conv)
      <4>1. InConv(t)
        BY <3>2 DEF InConv
      <4>2. t # 0
        BY <4>1, TurnsKnown DEF Clean
      <4>3. Shown(t) \/ Completing(t) \/ (Capturing /\ job.turn = t)
        BY <1>1, <3>2, <4>2 DEF Clean, Conversation, Coming
      <4>. QED  BY <1>1, <1>9, <4>3 DEF Coming
    <3>. QED  BY <1>4, <3>1, <3>2
  <2>4. ~CapturedFor(T) /\ ~(job.step = "record" /\ job.turn = T)
    <3>1. \A t : InConv(t) => t <= started /\ t \in Nat
      BY TurnsKnown DEF Clean
    <3>2. ~InConv(T)
      BY <1>3, <3>1
    <3>3. \A c \in checkpoints : InConv(c.turn)
      BY <1>2 DEF Clean, Remembered, Reverting, RevertSteps
    <3>. QED  BY <3>2, <3>3 DEF Clean, Remembered, CapturedFor, Capturing
  <2>. QED  BY <1>1, <1>7, <1>8, <1>9, <2>1, <2>2, <2>3, <2>4 DEF Conversation
<1>14. Reverts' /\ Files'
  BY <1>1, <1>2, <1>3 DEF Reverts, Files, Reverting
<1>. QED  BY <1>11, <1>12, <1>13, <1>14 DEF Clean

\* The running turn ends: its end waits for the reactor.
LEMMA CleanEndTurn ==
    ASSUME Types, Types', Clean, NEW state \in EndStates, EndTurn(state)
    PROVE  Clean'
<1>0. PICK r, e : r = running /\ e = [kind |-> "completed", turn |-> r, state |-> state]
  OBVIOUS
<1>1. /\ r # 0 /\ running' = 0
      /\ runtimeIn' = Append(runtimeIn, e) /\ ingest' = Append(ingest, e)
      /\ UNCHANGED <<checkpoints, work, refs, started, conv, job, placeholder, domainIn>>
  BY <1>0 DEF EndTurn, Emit, thread, git
<1>2. ~Reverting
  BY <1>0, <1>1 DEF Clean, Reverts, Settled
<1>3. e \in Events /\ e.kind = "completed" /\ e.turn = r
  BY <1>0, <1>1 DEF Types, Events, Turns
<1>s. conv \in Seq(Turns) /\ runtimeIn \in Seq(Events) /\ ingest \in Seq(Events)
  BY DEF Types
<1>4. Range(runtimeIn') = Range(runtimeIn) \cup {e} /\ Range(ingest') = Range(ingest) \cup {e}
  BY <1>1, <1>3, <1>s, AppendRange
<1>5. conv # <<>> /\ LastTurn = r /\ InConv(r)
  BY <1>0, <1>1, LastInConv DEF Clean, Conversation, LastTurn
<1>6. /\ \A t : Shown(t)' <=> Shown(t)
      /\ \A t : CapturedFor(t)' <=> CapturedFor(t)
      /\ \A t : InConv(t)' <=> InConv(t)
      /\ \A t : Completing(t) => Completing(t)'
      /\ Completing(r)'
      /\ Capturing' <=> Capturing
      /\ CurrentTurnCount' = CurrentTurnCount
      /\ LastTurn' = LastTurn
  <2>3. Completing(r)'
    BY <1>3, <1>4 DEF Completing
  <2>. QED
    BY <1>1, <1>4, <2>3
       DEF Shown, CapturedFor, InConv, Completing, Capturing, CurrentTurnCount, LastTurn
<1>7. \A t, n : WellCounted(t, n)' <=> WellCounted(t, n)
  BY <1>1, <1>6 DEF WellCounted
<1>8. Numbers' /\ Counts'
  BY <1>1, <1>6, <1>7 DEF Clean, Numbers, Counts
<1>9. Remembered'
  <2>1. \A x \in Range(runtimeIn') : x.kind = "completed" => InConv(x.turn)'
    BY <1>3, <1>4, <1>5, <1>6 DEF Clean, Remembered
  <2>2. \A x \in Range(ingest') : x.kind = "diff" => InConv(x.turn)'
    BY <1>3, <1>4, <1>6 DEF Clean, Remembered
  <2>. QED  BY <1>1, <1>6, <2>1, <2>2 DEF Clean, Remembered
<1>10. Conversation'
  <2>1. \A t \in Range(conv') : Shown(t)' \/ Coming(t)'
    BY <1>0, <1>1, <1>6 DEF Clean, Conversation, Coming
  <2>. QED  BY <1>1, <2>1 DEF Clean, Conversation
<1>11. Reverts'
  BY <1>1, <1>2 DEF Reverts, Reverting
<1>12. Files'
  <2>1. ~CapturedFor(r) /\ ~(job.step = "record" /\ job.turn = r)
    BY <1>0, <1>1 DEF Clean, Conversation
  <2>. QED  BY <1>1, <1>2, <1>5, <1>6, <2>1 DEF Files
<1>. QED  BY <1>8, <1>9, <1>10, <1>11, <1>12 DEF Clean

\* What both ways to record a checkpoint leave of the counts.
LEMMA RecordedCounts ==
    ASSUME Types, Types', OnePerTurn, Numbers, Counts, NEW c \in CheckpointSet,
           TurnDiffCompleted(c), spoiled' = "no", WellCounted(c.turn, c.count), ~Misnumbered(c)
    PROVE  /\ \A e \in Range(domainIn') :
                 e.kind = "diff" => \E d \in checkpoints' : d.turn = e.turn /\ d.count = e.count
           /\ \A t : Diffing(t) => Diffing(t)'
           /\ c.status = "missing" => Diffing(c.turn)'
           /\ \A t : CapturedFor(t)' => CapturedFor(t) \/ (t = c.turn /\ c.status # "missing")
           /\ \A t : t # c.turn /\ CapturedFor(t) => CapturedFor(t)'
           /\ c.status # "missing" \/ ~CapturedFor(c.turn) => c \in checkpoints'
<1>. DEFINE new == [kind |-> "diff", turn |-> c.turn, count |-> c.count]
<1>1. checkpoints' = InMemory(c)
  BY RecordedSubset
<1>2. /\ \A t : Shown(t)' <=> Shown(t) \/ t = c.turn
      /\ \A d \in checkpoints : d.turn # c.turn => d \in checkpoints'
      /\ \A d \in checkpoints \cup checkpoints' : d.turn = c.turn => d.count = c.count
  BY <1>1, WellRecorded
<1>3. /\ new \in Inputs /\ new.kind = "diff" /\ new.turn = c.turn /\ new.count = c.count
      /\ domainIn \in Seq(Inputs)
  BY DEF CheckpointSet, Inputs, Types
<1>4. domainIn' = IF c.status = "missing" THEN Append(domainIn, new) ELSE domainIn
  BY DEF TurnDiffCompleted
<1>. HIDE DEF new
<1>5. Range(domainIn') = IF c.status = "missing" THEN Range(domainIn) \cup {new} ELSE Range(domainIn)
  <2>1. Range(Append(domainIn, new)) = Range(domainIn) \cup {new}
    BY <1>3, AppendRange
  <2>. QED  BY <1>4, <2>1
<1>6. \E d \in checkpoints' : d.turn = c.turn /\ d.count = c.count
  BY <1>2 DEF Shown
<1>7. ASSUME NEW e \in Range(domainIn'), e.kind = "diff"
      PROVE  \E d \in checkpoints' : d.turn = e.turn /\ d.count = e.count
  <2>1. CASE e = new
    BY <1>3, <1>6, <2>1
  <2>2. CASE e \in Range(domainIn)
    <3>1. PICK d \in checkpoints : d.turn = e.turn /\ d.count = e.count
      BY <1>7, <2>2 DEF Counts
    <3>. QED  BY <1>2, <1>6, <3>1
  <2>. QED  BY <1>5, <2>1, <2>2
<1>8. /\ \A t : Diffing(t) => Diffing(t)'
      /\ c.status = "missing" => Diffing(c.turn)'
  BY <1>3, <1>5 DEF Diffing
<1>9. /\ \A t : CapturedFor(t)' => CapturedFor(t) \/ (t = c.turn /\ c.status # "missing")
      /\ \A t : t # c.turn /\ CapturedFor(t) => CapturedFor(t)'
      /\ c.status # "missing" \/ ~CapturedFor(c.turn) => c \in checkpoints'
  BY <1>1 DEF InMemory, CapturedFor
<1>. QED  BY <1>7, <1>8, <1>9

\* Recording an earlier turn leaves the checkpoint of the last one the latest.
LEMMA LatestKept ==
    ASSUME Types, Types', OnePerTurn, Clean, NEW c \in CheckpointSet, checkpoints' = InMemory(c),
           refs' = refs, WellCounted(c.turn, c.count), ~Misnumbered(c),
           InConv(c.turn), c.turn # LastTurn, Shown(LastTurn)
    PROVE  CurrentTurnCount' = CurrentTurnCount /\ Latest' = Latest
<1>1. c.turn \in Nat /\ LastTurn \in Nat /\ c.turn < LastTurn
  <2>1. c.turn \in Nat /\ LastTurn \in Nat /\ c.turn <= LastTurn
    BY TurnsKnown DEF Clean
  <2>. QED  BY <2>1
<1>2. PICK d \in checkpoints : d.turn = LastTurn
  BY DEF Shown
<1>3. d.count > c.count
  <2>1. d.count \in Nat /\ c.count \in Nat
    BY DEF Types, CheckpointSet
  <2>2. ~(d.count <= c.count)
    BY <1>1, <1>2 DEF Misnumbered
  <2>. QED  BY <2>1, <2>2
<1>4. CurrentTurnCount \in Nat /\ d.count <= CurrentTurnCount /\ d.count \in Nat
  BY CurrentCount
<1>5. c.count \in Nat /\ c.count # CurrentTurnCount + 1
  BY <1>3, <1>4 DEF CheckpointSet
<1>6. Shown(c.turn)
  <2>1. ~ \E x \in checkpoints : x.turn # c.turn /\ x.count = c.count
    <3>1. \A x \in checkpoints : x.turn \in Nat /\ x.count \in Nat
      <4>1. checkpoints \subseteq CheckpointSet
        BY DEF Types
      <4>2. \A x \in CheckpointSet : x.turn \in Nat /\ x.count \in Nat
        BY DEF CheckpointSet, Turns
      <4>. QED  BY <4>1, <4>2
    <3>2. c.turn \in Nat /\ c.count \in Nat
      BY <1>1, <1>5
    <3>. QED  BY <3>1, <3>2 DEF Misnumbered
  <2>. QED  BY <1>5, <2>1 DEF WellCounted, Shown
<1>7. CurrentTurnCount' = CurrentTurnCount
  BY <1>6, WellRecorded DEF Clean
<1>. QED  BY <1>7 DEF Latest

LEMMA CleanRecordPlaceholder ==
    ASSUME Types, Types', OnePerTurn, Clean, RecordPlaceholder, spoiled = "no", spoiled' = "no"
    PROVE  Clean'
<1>0. PICK c : c = Checkpoint(placeholder.turn, placeholder.count, "missing", FALSE)
  OBVIOUS
<1>1. /\ placeholder # None /\ TurnDiffCompleted(c) /\ placeholder' = None
      /\ UNCHANGED <<work, refs, running, started, conv, runtimeIn, ingest, job>>
  BY <1>0 DEF RecordPlaceholder, git, provider
<1>2. c.turn = placeholder.turn /\ c.count = placeholder.count /\ c.status = "missing"
  BY <1>0 DEF Checkpoint
<1>3. c \in CheckpointSet
  BY <1>0, <1>1 DEF Checkpoint, CheckpointSet, Types, Statuses
<1>4. ~Misnumbered(c)
  BY <1>1, RecordedSubset
<1>5. WellCounted(c.turn, c.count) /\ InConv(c.turn)
  BY <1>1, <1>2 DEF Clean, Counts, Remembered
<1>6. ~Reverting
  BY <1>1 DEF Clean, Reverts, Settled
<1>7. checkpoints' = InMemory(c)
  BY <1>1, RecordedSubset
<1>8. /\ Numbers'
      /\ \A t : Shown(t)' <=> Shown(t) \/ t = c.turn
      /\ \A t, n : WellCounted(t, n) => WellCounted(t, n)'
  BY <1>3, <1>4, <1>5, <1>7, WellRecorded DEF Clean
<1>9. /\ \A e \in Range(domainIn') :
            e.kind = "diff" => \E d \in checkpoints' : d.turn = e.turn /\ d.count = e.count
      /\ \A t : Diffing(t) => Diffing(t)'
      /\ Diffing(c.turn)'
      /\ \A t : CapturedFor(t)' => CapturedFor(t)
  BY <1>1, <1>2, <1>3, <1>4, <1>5, RecordedCounts DEF Clean
<1>10. /\ \A t : InConv(t)' <=> InConv(t)
       /\ \A t : Completing(t)' <=> Completing(t)
       /\ Capturing' <=> Capturing
       /\ LastTurn' = LastTurn
  BY <1>1 DEF InConv, Completing, Capturing, LastTurn
<1>11. Counts'
  BY <1>1, <1>8, <1>9, <1>10 DEF Clean, Counts
<1>12. Remembered'
  <2>1. checkpoints' \subseteq checkpoints \cup {c}
    BY <1>7 DEF InMemory
  <2>. QED  BY <1>1, <1>5, <1>10, <2>1 DEF Clean, Remembered
<1>13. Conversation'
  <2>1. \A t \in Range(conv') : Shown(t)' \/ Coming(t)'
    BY <1>1, <1>8, <1>10 DEF Clean, Conversation, Coming
  <2>. QED  BY <1>1, <1>9, <2>1 DEF Clean, Conversation
<1>14. Reverts'
  BY <1>1, <1>6 DEF Reverts, Reverting
<1>15. Files'
  <2>0. conv # <<>> /\ InConv(LastTurn)
    BY <1>5, TurnsKnown, LastInConv DEF Clean
  <2>1. job.step = "record" /\ running = 0 /\ job.turn = LastTurn => FilesOf(job.count) = work
    BY DEF Clean, Files
  <2>2. CASE running # 0
    BY <1>1, <2>1, <2>2 DEF Files, FilesOf, LastTurn
  <2>3. CASE Capturing /\ job.turn = LastTurn
    BY <1>1, <1>10, <2>0, <2>1, <2>3 DEF Files, FilesOf
  <2>4. CASE c.turn = LastTurn /\ ~CapturedFor(c.turn)
    BY <1>1, <1>9, <1>10, <2>0, <2>1, <2>4 DEF Files, FilesOf
  <2>5. CASE ~CapturedFor(LastTurn) /\ Completing(LastTurn)
    BY <1>1, <1>9, <1>10, <2>0, <2>1, <2>5 DEF Files, FilesOf
  <2>6. CASE /\ running = 0 /\ ~(Capturing /\ job.turn = LastTurn)
             /\ ~(c.turn = LastTurn /\ ~CapturedFor(c.turn))
             /\ ~(~CapturedFor(LastTurn) /\ Completing(LastTurn))
    <3>1. Latest' = Latest
      <4>1. CASE c.turn = LastTurn
        <5>1. checkpoints' = checkpoints
          BY <1>2, <1>7, <2>6, <4>1 DEF InMemory
        <5>. QED  BY <1>1, <5>1 DEF Latest, CurrentTurnCount
      <4>2. CASE c.turn # LastTurn
        <5>1. Shown(LastTurn)
          <6>1. LastTurn # 0
            BY <2>0, TurnsKnown DEF Clean
          <6>2. Shown(LastTurn) \/ Completing(LastTurn)
            BY <2>0, <2>6, <6>1 DEF Clean, Conversation, Coming, InConv
          <6>. QED  BY <2>6, <6>2 DEF CapturedFor, Shown
        <5>. QED  BY <1>1, <1>3, <1>4, <1>5, <1>7, <4>2, <5>1, LatestKept
      <4>. QED  BY <4>1, <4>2
    <3>2. \/ work = Latest
          \/ ~CapturedFor(LastTurn) /\ (Completing(LastTurn) \/ Diffing(LastTurn))
      BY <1>6, <2>6 DEF Clean, Files
    <3>. QED  BY <1>1, <1>9, <1>10, <2>0, <2>1, <3>1, <3>2 DEF Files, FilesOf
  <2>. QED  BY <2>2, <2>3, <2>4, <2>5, <2>6
<1>. QED  BY <1>8, <1>11, <1>12, <1>13, <1>14, <1>15 DEF Clean

-----------------------------------------------------------------------------
(* The clean part: the reactor takes an input and captures. *)

\* An input is taken that begins at most a capture, of a turn it is about.
LEMMA CleanTaken ==
    ASSUME Clean, job = Idle, job'.step \in {"idle", "baseline", "capture"},
           UNCHANGED <<checkpoints, work, refs, running, started, conv, placeholder, ingest>>,
           Range(domainIn') \subseteq Range(domainIn),
           Range(runtimeIn') \subseteq Range(runtimeIn),
           \A t : Completing(t) => Completing(t)' \/ CapturedFor(t) \/ (Capturing' /\ job'.turn = t),
           \A t : Diffing(t) => Diffing(t)' \/ CapturedFor(t) \/ (Capturing' /\ job'.turn = t),
           Capturing' => InConv(job'.turn) /\ WellCounted(job'.turn, job'.count)
    PROVE  Clean'
<1>1. /\ \A t : Shown(t)' <=> Shown(t)
      /\ \A t : CapturedFor(t)' <=> CapturedFor(t)
      /\ \A t : InConv(t)' <=> InConv(t)
      /\ CurrentTurnCount' = CurrentTurnCount
      /\ Latest' = Latest
      /\ LastTurn' = LastTurn
  BY DEF Shown, CapturedFor, InConv, CurrentTurnCount, Latest, LastTurn
<1>2. \A t, n : WellCounted(t, n)' <=> WellCounted(t, n)
  BY <1>1 DEF WellCounted
<1>3. ~Capturing /\ ~Reverting /\ ~Reverting' /\ job.step = "idle" /\ job'.step # "record"
  BY JobFields DEF Capturing, Reverting, RevertSteps
<1>4. Numbers'
  BY <1>1 DEF Clean, Numbers
<1>5. Counts'
  BY <1>1, <1>2 DEF Clean, Counts
<1>6. Remembered'
  BY <1>1, <1>3 DEF Clean, Remembered
<1>7. Conversation'
  <2>1. ASSUME NEW t \in Range(conv') PROVE Shown(t)' \/ Coming(t)'
    <3>1. Shown(t) \/ running = t \/ Completing(t)
      BY <1>3 DEF Clean, Conversation, Coming
    <3>2. CapturedFor(t) => Shown(t)
      BY DEF CapturedFor, Shown
    <3>. QED  BY <1>1, <3>1, <3>2 DEF Coming
  <2>. QED  BY <1>1, <1>3, <2>1 DEF Clean, Conversation
<1>8. Reverts'
  BY <1>3 DEF Reverts
<1>9. Files'
  BY <1>1, <1>3 DEF Clean, Files
<1>. QED  BY <1>4, <1>5, <1>6, <1>7, <1>8, <1>9 DEF Clean

LEMMA CleanTakeStart ==
    ASSUME Types, Clean, TakeTurnStart \/ TakeStarted
    PROVE  Clean'
<1>1. /\ job = Idle /\ job'.step \in {"idle", "baseline"}
      /\ UNCHANGED <<checkpoints, work, refs, running, started, conv, placeholder, ingest>>
  <2>1. CASE TakeTurnStart
    BY <2>1, JobFields DEF TakeTurnStart, CanTake, Baseline, thread, git, provider, ingester
  <2>2. CASE TakeStarted
    BY <2>2, JobFields DEF TakeStarted, CanTake, Baseline, thread, git, provider, ingester
  <2>. QED  BY <2>1, <2>2
<1>2. ~Capturing'
  BY <1>1 DEF Capturing
<1>3. CASE TakeTurnStart
  <2>1. /\ domainIn # <<>> /\ Head(domainIn).kind = "turnStart" /\ domainIn' = Tail(domainIn)
        /\ runtimeIn' = runtimeIn
    BY <1>3 DEF TakeTurnStart, CanTake
  <2>2. Range(domainIn) = Range(domainIn') \cup {Head(domainIn)}
    BY <2>1, TailRange DEF Types
  <2>3. /\ \A t : Completing(t) => Completing(t)'
        /\ \A t : Diffing(t) => Diffing(t)'
    BY <2>1, <2>2 DEF Completing, Diffing
  <2>. QED  BY <1>1, <1>2, <2>1, <2>2, <2>3, CleanTaken
<1>4. CASE TakeStarted
  <2>1. /\ runtimeIn # <<>> /\ Head(runtimeIn).kind = "started" /\ runtimeIn' = Tail(runtimeIn)
        /\ domainIn' = domainIn
    BY <1>4 DEF TakeStarted, CanTake
  <2>2. Range(runtimeIn) = Range(runtimeIn') \cup {Head(runtimeIn)}
    BY <2>1, TailRange DEF Types
  <2>3. /\ \A t : Completing(t) => Completing(t)'
        /\ \A t : Diffing(t) => Diffing(t)'
    BY <2>1, <2>2 DEF Completing, Diffing
  <2>. QED  BY <1>1, <1>2, <2>1, <2>2, <2>3, CleanTaken
<1>. QED  BY <1>3, <1>4

LEMMA CleanTakeCompleted ==
    ASSUME Types, OnePerTurn, Clean, TakeCompleted, spoiled = "no", spoiled' = "no"
    PROVE  Clean'
<1>0. PICK event : event = Head(runtimeIn)
  OBVIOUS
<1>1. /\ job = Idle /\ runtimeIn # <<>> /\ event.kind = "completed" /\ runtimeIn' = Tail(runtimeIn)
      /\ UNCHANGED <<checkpoints, work, refs, running, started, conv, placeholder, ingest, domainIn>>
  BY <1>0 DEF TakeCompleted, CanTake, thread, git, provider, ingester
<1>2. \/ job' = job /\ CapturedFor(event.turn)
      \/ job' = CaptureFor(event.turn, CountFor(event.turn), checkpointStatusFromRuntime(event.state))
  BY <1>0 DEF TakeCompleted, Spoiled
<1>3. \/ job'.step = "idle" /\ CapturedFor(event.turn)
      \/ /\ job'.step = "capture" /\ job'.turn = event.turn
         /\ job'.count = CountFor(event.turn)
  BY <1>1, <1>2, JobFields
<1>4. event \in Range(runtimeIn) /\ Range(runtimeIn) = Range(runtimeIn') \cup {event}
  BY <1>0, <1>1, TailRange DEF Types
<1>5. /\ \A t : Completing(t) => Completing(t)' \/ t = event.turn
      /\ \A t : Diffing(t) => Diffing(t)'
  BY <1>1, <1>4 DEF Completing, Diffing
<1>6. InConv(event.turn)
  BY <1>1, <1>4 DEF Clean, Remembered
<1>7. WellCounted(event.turn, CountFor(event.turn))
  BY CountForTyped DEF WellCounted
<1>8. Capturing' => job'.step = "capture"
  BY <1>3 DEF Capturing
<1>9. job'.step = "capture" => Capturing'
  BY DEF Capturing
<1>. QED  BY <1>1, <1>3, <1>4, <1>5, <1>6, <1>7, <1>8, <1>9, CleanTaken

LEMMA CleanTakePlaceholder ==
    ASSUME Types, OnePerTurn, Clean, TakePlaceholder
    PROVE  Clean'
<1>0. PICK event : event = Head(domainIn)
  OBVIOUS
<1>1. /\ job = Idle /\ domainIn # <<>> /\ event.kind = "diff" /\ domainIn' = Tail(domainIn)
      /\ UNCHANGED <<checkpoints, work, refs, running, started, conv, placeholder, ingest, runtimeIn>>
  BY <1>0 DEF TakePlaceholder, CanTake, thread, git, provider, ingester
<1>2. \/ job' = Idle /\ CapturedFor(event.turn)
      \/ job' = CaptureFor(event.turn, event.count, "ready")
  BY <1>0 DEF TakePlaceholder
<1>3. \/ job'.step = "idle" /\ CapturedFor(event.turn)
      \/ job'.step = "capture" /\ job'.turn = event.turn /\ job'.count = event.count
  BY <1>2, JobFields
<1>4. event \in Range(domainIn) /\ Range(domainIn) = Range(domainIn') \cup {event}
  BY <1>0, <1>1, TailRange DEF Types
<1>5. /\ \A t : Completing(t) => Completing(t)'
      /\ \A t : Diffing(t) => Diffing(t)' \/ t = event.turn
  BY <1>1, <1>4 DEF Completing, Diffing
<1>6. \E c \in checkpoints : c.turn = event.turn /\ c.count = event.count
  BY <1>1, <1>4 DEF Clean, Counts
<1>7. WellCounted(event.turn, event.count)
  BY <1>6 DEF WellCounted
<1>8. InConv(event.turn)
  BY <1>1, <1>6, JobFields DEF Clean, Remembered
<1>9. job'.step = "capture" <=> Capturing'
  BY <1>3 DEF Capturing
<1>. QED  BY <1>1, <1>3, <1>4, <1>5, <1>7, <1>8, <1>9, CleanTaken

\* The files are captured: a count that is the current one now has them.
LEMMA CleanCapture ==
    ASSUME Types, Types', Clean, Capture \/ CaptureBaseline, spoiled = "no", spoiled' = "no"
    PROVE  Clean'
<1>0. job.count \in Nat
  BY DEF Types
<1>1. /\ refs' = WithRef(job.count)
      /\ UNCHANGED <<checkpoints, work, running, started, conv, placeholder, ingest, domainIn,
                     runtimeIn>>
      /\ ~Reverting
  BY DEF Capture, CaptureBaseline, thread, provider, ingester, inputs, Reverting, RevertSteps
<1>2. /\ \A n : n = job.count => refs'[n] = work /\ n \in DOMAIN refs'
      /\ \A n : n # job.count => /\ n \in DOMAIN refs <=> n \in DOMAIN refs'
                                 /\ n \in DOMAIN refs => refs'[n] = refs[n]
  BY <1>1 DEF WithRef
<1>3. work = Latest => work' = Latest'
  <2>1. CurrentTurnCount' = CurrentTurnCount
    BY <1>1 DEF CurrentTurnCount
  <2>. QED  BY <1>1, <1>2, <2>1 DEF Latest
<1>4. /\ \A t : Shown(t)' <=> Shown(t)
      /\ \A t : CapturedFor(t)' <=> CapturedFor(t)
      /\ \A t : InConv(t)' <=> InConv(t)
      /\ \A t : Completing(t)' <=> Completing(t)
      /\ \A t : Diffing(t)' <=> Diffing(t)
      /\ CurrentTurnCount' = CurrentTurnCount
      /\ LastTurn' = LastTurn
  BY <1>1 DEF Shown, CapturedFor, InConv, Completing, Diffing, CurrentTurnCount, LastTurn
<1>5. \A t, n : WellCounted(t, n)' <=> WellCounted(t, n)
  BY <1>1, <1>4 DEF WellCounted
<1>6. CASE CaptureBaseline
  <2>1. ~Capturing /\ ~Capturing' /\ ~Reverting' /\ job.step = "baseline" /\ job'.step = "idle"
    BY <1>6, JobFields DEF CaptureBaseline, Capturing, Reverting, RevertSteps
  <2>2. Numbers' /\ Counts' /\ Remembered'
    BY <1>1, <1>4, <1>5, <2>1 DEF Clean, Numbers, Counts, Remembered
  <2>3. Conversation'
    <3>1. \A t \in Range(conv') : Shown(t)' \/ Coming(t)'
      BY <1>1, <1>4, <2>1 DEF Clean, Conversation, Coming
    <3>. QED  BY <1>1, <1>4, <2>1, <3>1 DEF Clean, Conversation
  <2>4. Reverts' /\ Files'
    BY <1>1, <1>3, <1>4, <2>1 DEF Clean, Reverts, Files
  <2>. QED  BY <2>2, <2>3, <2>4 DEF Clean
<1>7. CASE Capture
  <2>1. /\ job.step = "capture" /\ job' = [job EXCEPT !.step = "record"] /\ running # job.turn
    BY <1>7 DEF Capture, Spoiled
  <2>2. /\ job'.step = "record" /\ job'.turn = job.turn /\ job'.count = job.count
    BY <2>1 DEF Types
  <2>3. Capturing /\ Capturing' /\ ~Reverting'
    BY <2>1, <2>2 DEF Capturing, Reverting, RevertSteps
  <2>4. Numbers' /\ Counts'
    BY <1>1, <1>4, <1>5, <2>2, <2>3 DEF Clean, Numbers, Counts
  <2>5. Remembered'
    BY <1>1, <1>4, <2>1, <2>2, <2>3 DEF Clean, Remembered
  <2>6. Conversation'
    <3>1. \A t \in Range(conv') : Shown(t)' \/ Coming(t)'
      BY <1>1, <1>4, <2>2, <2>3 DEF Clean, Conversation, Coming
    <3>. QED  BY <1>1, <1>4, <2>1, <2>2, <3>1 DEF Clean, Conversation
  <2>7. Reverts'
    BY <2>3 DEF Reverts
  <2>8. Files'
    <3>1. job'.count \in DOMAIN refs' /\ refs'[job'.count] = work'
      BY <1>1, <1>2, <2>2
    <3>. QED  BY <1>1, <1>3, <1>4, <2>2, <2>3, <3>1 DEF Clean, Files, FilesOf
  <2>. QED  BY <2>4, <2>5, <2>6, <2>7, <2>8 DEF Clean
<1>. QED  BY <1>6, <1>7

\* The checkpoint is recorded: that of the last turn is the latest now.
LEMMA CleanRecord ==
    ASSUME Types, Types', OnePerTurn, Uncaptured, Clean, Record, spoiled = "no", spoiled' = "no"
    PROVE  Clean'
<1>0. PICK c : c = Checkpoint(job.turn, job.count, job.status, TRUE)
  OBVIOUS
<1>1. /\ job.step = "record" /\ TurnDiffCompleted(c) /\ job' = Idle
      /\ UNCHANGED <<work, refs, running, started, conv, runtimeIn, ingest, placeholder>>
  BY <1>0 DEF Record, git, provider, ingester
<1>2. c.turn = job.turn /\ c.count = job.count /\ c.status = job.status
  BY <1>0 DEF Checkpoint
<1>3. c \in CheckpointSet
  <2>1. job.turn \in Turns /\ job.status \in Statuses /\ job.count \in Nat
    BY <1>1 DEF Types
  <2>. QED  BY <1>0, <2>1 DEF Checkpoint, CheckpointSet
<1>4. ~Misnumbered(c)
  BY <1>1, RecordedSubset
<1>5. Capturing /\ ~CapturedFor(c.turn)
  BY <1>1, <1>2 DEF Uncaptured, Capturing
<1>6. WellCounted(c.turn, c.count) /\ InConv(c.turn)
  BY <1>2, <1>5 DEF Clean, Counts, Remembered
<1>7. checkpoints' = InMemory(c)
  BY <1>1, RecordedSubset
<1>8. /\ Numbers'
      /\ \A t : Shown(t)' <=> Shown(t) \/ t = c.turn
      /\ \A d \in checkpoints' : d.turn # c.turn => d \in checkpoints
      /\ \A d \in checkpoints' : d.turn = c.turn => d.count = c.count
      /\ \A t, n : WellCounted(t, n) => WellCounted(t, n)'
  BY <1>3, <1>4, <1>6, <1>7, WellRecorded DEF Clean
<1>9. /\ \A e \in Range(domainIn') :
            e.kind = "diff" => \E d \in checkpoints' : d.turn = e.turn /\ d.count = e.count
      /\ \A t : Diffing(t) => Diffing(t)'
      /\ \A t : CapturedFor(t)' => CapturedFor(t) \/ t = c.turn
      /\ c \in checkpoints'
  BY <1>1, <1>3, <1>4, <1>5, <1>6, RecordedCounts DEF Clean
<1>10. /\ \A t : InConv(t)' <=> InConv(t)
       /\ \A t : Completing(t)' <=> Completing(t)
       /\ ~Capturing' /\ ~Reverting' /\ job'.step = "idle"
       /\ LastTurn' = LastTurn
  BY <1>1, JobFields DEF InConv, Completing, Capturing, Reverting, RevertSteps, LastTurn
<1>11. Counts'
  BY <1>1, <1>8, <1>9, <1>10 DEF Clean, Counts
<1>12. Remembered'
  <2>1. checkpoints' \subseteq checkpoints \cup {c}
    BY <1>7 DEF InMemory
  <2>. QED  BY <1>1, <1>6, <1>10, <2>1 DEF Clean, Remembered
<1>13. Conversation'
  <2>1. \A t \in Range(conv') : Shown(t)' \/ Coming(t)'
    BY <1>1, <1>2, <1>8, <1>10 DEF Clean, Conversation, Coming
  <2>. QED  BY <1>1, <1>2, <1>9, <1>10, <2>1 DEF Clean, Conversation
<1>14. Reverts'
  BY <1>10 DEF Reverts
<1>15. Files'
  <2>0. conv # <<>> /\ InConv(LastTurn)
    BY <1>6, TurnsKnown, LastInConv DEF Clean
  <2>1. CASE running # 0
    BY <1>1, <1>10, <2>1 DEF Files
  <2>2. CASE running = 0 /\ c.turn = LastTurn
    <3>1. FilesOf(c.count) = work
      BY <1>1, <1>2, <2>2 DEF Clean, Files
    <3>2. \A d \in checkpoints' : d.turn \in Nat /\ d.count \in Nat
      <4>1. checkpoints' \subseteq CheckpointSet
        BY DEF Types, CheckpointSet, Turns, Statuses
      <4>. QED  BY <4>1 DEF CheckpointSet, Turns
    <3>3. \A d \in checkpoints' : d.count <= c.count
      <4>1. SUFFICES ASSUME NEW d \in checkpoints', d.turn # c.turn PROVE d.count <= c.count
        BY <1>8, <1>9, <3>2
      <4>2. d \in checkpoints
        BY <1>8, <4>1
      <4>3. d.turn <= c.turn
        <5>1. InConv(d.turn)
          BY <1>1, <4>2 DEF Clean, Remembered
        <5>. QED  BY <2>2, <5>1, TurnsKnown DEF Clean
      <4>4. d.turn < c.turn /\ c.count \in Nat
        BY <1>9, <3>2, <4>1, <4>3
      <4>. QED  BY <1>4, <3>2, <4>2, <4>4 DEF Misnumbered
    <3>4. CurrentTurnCount' = c.count
      <4>1. /\ CurrentTurnCount' \in Nat /\ c.count \in Nat /\ c.count <= CurrentTurnCount'
            /\ CurrentTurnCount' = 0 \/ \E d \in checkpoints' : d.count = CurrentTurnCount'
        BY <1>9, CurrentCountNext
      <4>2. CurrentTurnCount' <= c.count
        BY <3>3, <4>1
      <4>. QED  BY <4>1, <4>2
    <3>5. Latest' = work'
      BY <1>1, <3>1, <3>4 DEF Latest, FilesOf
    <3>. QED  BY <1>10, <3>5 DEF Files
  <2>3. CASE running = 0 /\ c.turn # LastTurn
    <3>1. CASE ~CapturedFor(LastTurn) /\ (Completing(LastTurn) \/ Diffing(LastTurn))
      BY <1>1, <1>9, <1>10, <2>0, <2>3, <3>1 DEF Files
    <3>2. CASE work = Latest /\ ~Completing(LastTurn)
      <4>1. LastTurn # 0
        BY <2>0, TurnsKnown DEF Clean
      <4>2. Shown(LastTurn)
        BY <1>2, <2>0, <2>3, <3>2, <4>1 DEF Clean, Conversation, Coming, InConv
      <4>3. Latest' = Latest
        BY <1>1, <1>3, <1>4, <1>6, <1>7, <2>3, <4>2, LatestKept
      <4>. QED  BY <1>1, <1>10, <3>2, <4>3 DEF Files
    <3>3. CASE work = Latest /\ Completing(LastTurn) /\ CapturedFor(LastTurn)
      <4>1. Shown(LastTurn)
        BY <3>3 DEF CapturedFor, Shown
      <4>2. Latest' = Latest
        BY <1>1, <1>3, <1>4, <1>6, <1>7, <2>3, <4>1, LatestKept
      <4>. QED  BY <1>1, <1>10, <3>3, <4>2 DEF Files
    <3>4. ~Reverting
      BY <1>1 DEF Reverting, RevertSteps
    <3>. QED  BY <1>2, <2>3, <3>1, <3>2, <3>3, <3>4 DEF Clean, Files
  <2>. QED  BY <2>1, <2>2, <2>3
<1>. QED  BY <1>8, <1>11, <1>12, <1>13, <1>14, <1>15 DEF Clean

-----------------------------------------------------------------------------
(* The clean part: a revert. *)

\* A revert begins with everything of the turns settled.
LEMMA CleanTakeRevert ==
    ASSUME Types, OnePerTurn, Clean, TakeRevert, spoiled = "no", spoiled' = "no"
    PROVE  Clean'
<1>1. /\ domainIn # <<>> /\ Head(domainIn).kind = "revert" /\ domainIn' = Tail(domainIn)
      /\ UNCHANGED <<checkpoints, work, refs, running, started, conv, placeholder, ingest, runtimeIn>>
  BY DEF TakeRevert, CanTake, thread, git, provider, ingester
<1>2. Range(domainIn) = Range(domainIn') \cup {Head(domainIn)}
  BY <1>1, TailRange DEF Types
<1>3. job = Idle /\ ~Capturing /\ ~Reverting /\ job.step = "idle"
  BY RevertTaken, JobFields DEF Capturing, Reverting, RevertSteps
<1>4. CASE job' = job
  <2>1. placeholder' # None =>
            InConv(placeholder'.turn) /\ WellCounted(placeholder'.turn, placeholder'.count)
    BY <1>1 DEF Clean, Counts, Remembered
  <2>2. \A e \in Range(ingest') : e.kind = "diff" => InConv(e.turn)
    BY <1>1 DEF Clean, Remembered
  <2>. QED  BY <1>1, <1>2, <1>3, <1>4, <2>1, <2>2, CleanQueues
<1>5. CASE job' # job
  <2>0. PICK n : n = Head(domainIn).count
    OBVIOUS
  <2>1. /\ n = 0 \/ \E c \in checkpoints : c.count = n
        /\ job'.step = "restore" /\ job'.count = n /\ job'.rolled = CurrentTurnCount - n
        /\ Settled
    BY <1>5, <2>0, RevertTaken DEF Spoiled
  <2>2. Settled'
    BY <1>1, <1>2, <2>1, SettledRange
  <2>3. Follows(CurrentTurnCount)
    BY <1>3, <2>1, SettledFollows DEF Clean, Remembered
  <2>4. /\ \A t : Shown(t)' <=> Shown(t)
        /\ \A t : CapturedFor(t)' <=> CapturedFor(t)
        /\ \A t : InConv(t)' <=> InConv(t)
        /\ CurrentTurnCount' = CurrentTurnCount
        /\ \A t : Follows(t)' <=> Follows(t)
    BY <1>1 DEF Shown, CapturedFor, InConv, CurrentTurnCount, Follows
  <2>5. ~Capturing' /\ Reverting'
    BY <2>1 DEF Capturing, Reverting, RevertSteps
  <2>6. \A t : Coming(t)' <=> Coming(t)
    BY <1>1, <1>3, <2>5 DEF Coming, Completing
  <2>7. Numbers'
    BY <1>1, <2>4 DEF Clean, Numbers
  <2>8. Counts'
    BY <2>2, <2>5, SettledRange DEF Counts
  <2>9. Remembered'
    BY <1>1, <1>3, <2>2, <2>4, <2>5, EmptyRange, SettledRange DEF Clean, Remembered
  <2>10. Conversation'
    BY <1>1, <2>1, <2>4, <2>6 DEF Clean, Conversation
  <2>11. Reverts'
    <3>1. Follows(CurrentTurnCount)'
      BY <2>3, <2>4 DEF Follows
    <3>. QED  BY <1>1, <2>1, <2>2, <2>4, <2>5, <3>1 DEF Reverts
  <2>12. Files'
    BY <2>1, <2>5 DEF Files
  <2>. QED  BY <2>7, <2>8, <2>9, <2>10, <2>11, <2>12 DEF Clean
<1>. QED  BY <1>4, <1>5

\* What the steps of a revert before its last have in common.
LEMMA CleanRevertStep ==
    ASSUME Clean, Reverting, Reverting', Reverts',
           UNCHANGED <<checkpoints, running, started, placeholder, ingest, inputs>>,
           job'.step \in {"restore", "rollback"} => conv' = conv /\ job.step = "restore",
           \A i \in DOMAIN conv' : i \in DOMAIN conv /\ conv'[i] = conv[i]
    PROVE  Clean'
<1>0. UNCHANGED <<domainIn, runtimeIn>>
  BY DEF inputs
<1>1. /\ ~Capturing /\ ~Capturing' /\ job'.step \in RevertSteps
      /\ job'.step # "record"
  BY DEF Capturing, Reverting, RevertSteps
<1>2. Settled'
  BY DEF Reverts
<1>3. Numbers'
  BY DEF Clean, Numbers, CurrentTurnCount
<1>4. Counts'
  BY <1>1, <1>2, SettledRange DEF Counts
<1>5. Remembered'
  <2>1. ASSUME job'.step \notin {"delete", "complete"}
        PROVE  \A c \in checkpoints' : InConv(c.turn)'
    <3>1. job'.step \in {"restore", "rollback"}
      BY <1>1, <2>1 DEF RevertSteps
    <3>. QED  BY <3>1 DEF Clean, Remembered, InConv
  <2>. QED  BY <1>1, <1>2, <2>1, EmptyRange, SettledRange DEF Remembered
<1>6. Conversation'
  <2>1. running' = 0
    BY <1>2 DEF Settled
  <2>2. ASSUME NEW t \in Range(conv') PROVE Shown(t)' \/ Coming(t)'
    <3>1. t \in Range(conv)
      BY DEF Range
    <3>2. Shown(t) \/ running = t \/ Completing(t)
      BY <1>1, <3>1 DEF Clean, Conversation, Coming
    <3>. QED  BY <1>0, <3>2 DEF Shown, Coming, Completing
  <2>3. \A i, j \in DOMAIN conv' : i < j => conv'[i] < conv'[j]
    BY DEF Clean, Conversation
  <2>4. \A i \in DOMAIN conv' : conv'[i] <= started'
    BY DEF Clean, Conversation
  <2>. QED  BY <2>1, <2>2, <2>3, <2>4 DEF Conversation
<1>7. Files'
  BY <1>1 DEF Files
<1>. QED  BY <1>3, <1>4, <1>5, <1>6, <1>7 DEF Clean

\* What is known of a revert's target.
LEMMA TargetKnown ==
    ASSUME Types, Clean, Reverting
    PROVE  /\ CurrentTurnCount \in Nat /\ job.count \in 0..CurrentTurnCount
           /\ job.rolled = CurrentTurnCount - job.count
<1>1. /\ CurrentTurnCount \in Nat /\ \A c \in checkpoints : c.count <= CurrentTurnCount
      /\ job.count \in Nat
  BY CurrentCount DEF Types
<1>2. /\ job.count = 0 \/ \E c \in checkpoints : c.count = job.count
      /\ job.rolled = CurrentTurnCount - job.count
  BY DEF Clean, Reverts
<1>. QED  BY <1>1, <1>2

\* Without turns to drop, the target is the current count already.
LEMMA CleanRestore ==
    ASSUME Types, Clean, RestoreFiles
    PROVE  Clean'
<1>0. PICK n : n = job.count
  OBVIOUS
<1>1. /\ job.step = "restore" /\ work' = FilesOf(n)
      /\ UNCHANGED <<checkpoints, refs, running, started, conv, placeholder, ingest, inputs,
                     domainIn, runtimeIn>>
  BY <1>0 DEF RestoreFiles, FilesOf, thread, provider, ingester, inputs
<1>2. Reverting
  BY <1>1 DEF Reverting, RevertSteps
<1>3. /\ CurrentTurnCount \in Nat /\ n \in 0..CurrentTurnCount
      /\ job.rolled = CurrentTurnCount - n
      /\ job'.step \in {"rollback", "delete", "complete"}
      /\ job'.step = "rollback" <=> job.rolled > 0
      /\ job'.count = n /\ job'.rolled = job.rolled
  BY <1>0, <1>1, <1>2, TargetKnown, NextRevertStep, TypesParts
<1>4. /\ Settled /\ Follows(CurrentTurnCount)
      /\ n = 0 \/ \E c \in checkpoints : c.count = n
  BY <1>0, <1>1, <1>2 DEF Clean, Reverts
<1>5. Reverting'
  BY <1>3 DEF Reverting, RevertSteps
<1>6. job'.step # "rollback" => n = CurrentTurnCount
  BY <1>3
<1>7. /\ CurrentTurnCount' = CurrentTurnCount /\ Settled'
      /\ \A m : Follows(m)' <=> Follows(m)
      /\ \A m : FilesOf(m)' = FilesOf(m)
  BY <1>1, <1>4 DEF CurrentTurnCount, Settled, Follows, FilesOf
<1>8. PICK m : m = (IF job'.step \in {"restore", "rollback"} THEN CurrentTurnCount ELSE n)
  OBVIOUS
<1>9. m = CurrentTurnCount
  BY <1>3, <1>6, <1>8
<1>10. Reverts'
  <2>1. Follows(IF job.step \in {"restore", "rollback"} THEN CurrentTurnCount ELSE job.count)'
    BY <1>3, <1>4, <1>7, <1>8, <1>9 DEF Follows
  <2>2. (job.step # "restore" => work = FilesOf(job.count))'
    BY <1>1, <1>3 DEF FilesOf
  <2>. QED  BY <1>1, <1>3, <1>4, <1>7, <2>1, <2>2 DEF Reverts
<1>. QED  BY <1>1, <1>2, <1>5, <1>10, CleanRevertStep

\* The conversation keeps as many turns as the thread will keep checkpoints.
LEMMA CleanRollBack ==
    ASSUME Types, Clean, RollBackConversation, spoiled' = "no"
    PROVE  Clean'
<1>0. PICK n : n = job.count
  OBVIOUS
<1>1. /\ job.step = "rollback"
      /\ UNCHANGED <<checkpoints, work, refs, running, started, placeholder, ingest, inputs,
                     domainIn, runtimeIn>>
      /\ conv' = SubSeq(conv, 1, IF Len(conv) > job.rolled THEN Len(conv) - job.rolled ELSE 0)
  BY DEF RollBackConversation, Spoiled, thread, git, ingester, inputs
<1>2. Reverting
  BY <1>1 DEF Reverting, RevertSteps
<1>3. /\ CurrentTurnCount \in Nat /\ n \in 0..CurrentTurnCount
      /\ job.rolled = CurrentTurnCount - n
      /\ job'.step \in {"delete", "complete"} /\ job'.count = n /\ job'.rolled = job.rolled
  BY <1>0, <1>1, <1>2, TargetKnown, NextRevertStep, TypesParts
<1>4. /\ Settled /\ Len(conv) = CurrentTurnCount
      /\ \A c \in checkpoints : c.count <= CurrentTurnCount => conv[c.count] = c.turn
      /\ n = 0 \/ \E c \in checkpoints : c.count = n
      /\ work = FilesOf(n)
  BY <1>0, <1>1, <1>2 DEF Clean, Reverts, Follows
<1>5. conv' = SubSeq(conv, 1, n)
  <2>1. (IF Len(conv) > job.rolled THEN Len(conv) - job.rolled ELSE 0) = n
    BY <1>3, <1>4
  <2>. QED  BY <1>1, <2>1
<1>6. conv \in Seq(Turns) /\ DOMAIN conv = 1..Len(conv)
  BY ConvTyped DEF Types
<1>7. /\ Len(conv') = n /\ DOMAIN conv' = 1..n
      /\ \A i \in 1..n : i \in DOMAIN conv /\ conv'[i] = conv[i]
  <2>. DEFINE s == SubSeq(conv, 1, n)
  <2>1. /\ s \in Seq(Turns) /\ Len(s) = n /\ \A i \in 1..n : s[i] = conv[i]
    <3>1. 1 \in 1..(Len(conv) + 1) /\ n \in 0..Len(conv)
      BY <1>3, <1>4
    <3>2. 1 \in Int /\ n \in Int
      BY <1>3
    <3>3. /\ SubSeq(conv, 1, n) \in Seq(Turns)
          /\ Len(SubSeq(conv, 1, n)) = IF 1 <= n THEN n - 1 + 1 ELSE 0
          /\ \A i \in 1..(n - 1 + 1) : SubSeq(conv, 1, n)[i] = conv[1 + i - 1]
      BY <1>6, <3>1, SubSeqProperties
    <3>. HIDE DEF s
    <3>4. /\ Len(SubSeq(conv, 1, n)) = n
          /\ \A i \in 1..n : SubSeq(conv, 1, n)[i] = conv[i]
      BY <1>3, <3>2, <3>3
    <3>. QED  BY <3>3, <3>4 DEF s
  <2>. HIDE DEF s
  <2>2. DOMAIN s = 1..n
    BY <2>1
  <2>3. \A i \in 1..n : i \in 1..Len(conv)
    BY <1>3, <1>4
  <2>. QED  BY <1>5, <1>6, <2>1, <2>2, <2>3 DEF s
<1>8. Reverting'
  BY <1>3 DEF Reverting, RevertSteps
<1>9. Follows(n)'
  <2>1. ASSUME NEW c \in checkpoints', c.count <= n PROVE conv'[c.count] = c.turn
    <3>1. c \in checkpoints /\ c.count \in Nat /\ c.count > 0
      BY <1>1, CurrentCount DEF Clean, Numbers
    <3>2. c.count \in 1..n /\ c.count <= CurrentTurnCount
      BY <1>3, <2>1, <3>1
    <3>. QED  BY <1>4, <1>7, <3>1, <3>2
  <2>. QED  BY <1>7, <2>1 DEF Follows
<1>10. Reverts'
  <2>1. Settled' /\ CurrentTurnCount' = CurrentTurnCount
    BY <1>1, <1>4 DEF Settled, CurrentTurnCount
  <2>2. Follows(IF job.step \in {"restore", "rollback"} THEN CurrentTurnCount ELSE job.count)'
    BY <1>3, <1>9 DEF Follows
  <2>3. (job.step # "restore" => work = FilesOf(job.count))'
    BY <1>1, <1>3, <1>4 DEF FilesOf
  <2>. QED  BY <1>1, <1>3, <1>4, <2>1, <2>2, <2>3 DEF Reverts
<1>. QED  BY <1>1, <1>2, <1>3, <1>7, <1>8, <1>10, CleanRevertStep

\* The ref of the target is not among those deleted.
LEMMA CleanDelete ==
    ASSUME Types, RefsKept, Clean, DeleteRefs, spoiled' = "no"
    PROVE  Clean'
<1>0. PICK n : n = job.count
  OBVIOUS
<1>1. /\ job.step = "delete"
      /\ UNCHANGED <<checkpoints, work, running, started, conv, placeholder, ingest, inputs,
                     domainIn, runtimeIn>>
      /\ \E m \in job.stale : refs' = [k \in DOMAIN refs \ {m} |-> refs[k]]
  <2>1. \E m \in job.stale : refs' = Restrict(refs, DOMAIN refs \ {m})
    BY DEF DeleteRefs, Spoiled
  <2>. QED  BY <2>1 DEF DeleteRefs, Restrict, thread, provider, ingester, inputs
<1>2. Reverting
  BY <1>1 DEF Reverting, RevertSteps
<1>3. /\ n \in Nat /\ job'.step \in {"delete", "complete"}
      /\ job'.count = n /\ job'.rolled = job.rolled
  BY <1>0, <1>1, <1>2, TargetKnown, NextRevertStep, TypesParts
<1>4. Reverting'
  BY <1>3 DEF Reverting, RevertSteps
<1>5. n \notin job.stale
  <2>1. \A m \in job.stale : m > n
    BY <1>0, <1>2 DEF RefsKept
  <2>. QED  BY <1>3, <2>1
<1>6. FilesOf(n)' = FilesOf(n)
  BY <1>1, <1>5 DEF FilesOf
<1>7. /\ Settled /\ Follows(n)
      /\ n = 0 \/ \E c \in checkpoints : c.count = n
      /\ job.rolled = CurrentTurnCount - n
      /\ work = FilesOf(n)
  BY <1>0, <1>1, <1>2 DEF Clean, Reverts
<1>8. Reverts'
  <2>1. Settled' /\ CurrentTurnCount' = CurrentTurnCount
    BY <1>1, <1>7 DEF Settled, CurrentTurnCount
  <2>2. Follows(n)'
    BY <1>1, <1>7 DEF Follows
  <2>3. Follows(IF job.step \in {"restore", "rollback"} THEN CurrentTurnCount ELSE job.count)'
    BY <1>3, <2>2 DEF Follows
  <2>4. (job.step # "restore" => work = FilesOf(job.count))'
    BY <1>1, <1>3, <1>6, <1>7 DEF FilesOf
  <2>. QED  BY <1>1, <1>3, <1>7, <2>1, <2>3, <2>4 DEF Reverts
<1>. QED  BY <1>1, <1>2, <1>3, <1>4, <1>8, CleanRevertStep

\* The reverted thread shows the turns the conversation has kept.
LEMMA CleanComplete ==
    ASSUME Types, Types', Clean, CompleteRevert, spoiled' = "no"
    PROVE  Clean'
<1>0. PICK n : n = job.count
  OBVIOUS
<1>1. /\ job.step = "complete" /\ job' = Idle
      /\ UNCHANGED <<work, refs, running, started, conv, placeholder, ingest, domainIn, runtimeIn>>
      /\ checkpoints' = {c \in checkpoints : c.count <= n}
  BY <1>0 DEF CompleteRevert, Spoiled, git, provider, ingester, inputs
<1>2. Reverting
  BY <1>1 DEF Reverting, RevertSteps
<1>3. CurrentTurnCount \in Nat /\ n \in 0..CurrentTurnCount
  BY <1>0, <1>2, TargetKnown
<1>4. /\ Settled /\ Len(conv) = n
      /\ \A c \in checkpoints : c.count <= n => conv[c.count] = c.turn
      /\ n = 0 \/ \E c \in checkpoints : c.count = n
      /\ work = FilesOf(n)
  BY <1>0, <1>1, <1>2 DEF Clean, Reverts, Follows
<1>5. ~Capturing' /\ ~Reverting' /\ job'.step = "idle"
  BY <1>1, JobFields DEF Capturing, Reverting, RevertSteps
<1>6. Settled'
  BY <1>1, <1>4 DEF Settled
<1>7. CurrentTurnCount' = n
  <2>1. /\ CurrentTurnCount' \in Nat
        /\ \A c \in checkpoints' : c.count \in Nat /\ c.count <= CurrentTurnCount'
        /\ CurrentTurnCount' = 0 \/ \E c \in checkpoints' : c.count = CurrentTurnCount'
    BY CurrentCountNext
  <2>2. CurrentTurnCount' <= n
    BY <1>1, <1>3, <2>1
  <2>3. n <= CurrentTurnCount'
    <3>1. CASE n = 0
      BY <2>1, <3>1
    <3>2. CASE n # 0
      <4>1. PICK c \in checkpoints : c.count = n
        BY <1>4, <3>2
      <4>2. c \in checkpoints'
        BY <1>1, <1>3, <4>1
      <4>. QED  BY <2>1, <4>1, <4>2
    <3>. QED  BY <3>1, <3>2
  <2>. QED  BY <1>3, <2>1, <2>2, <2>3
<1>8. ASSUME NEW i \in 1..n PROVE \E c \in checkpoints' : c.count = i
  <2>1. i \in 1..CurrentTurnCount /\ i <= n
    BY <1>3
  <2>2. PICK c \in checkpoints : c.count = i
    BY <2>1 DEF Clean, Numbers
  <2>. QED  BY <1>1, <2>1, <2>2
<1>9. Numbers'
  BY <1>1, <1>7, <1>8 DEF Clean, Numbers
<1>10. Counts'
  BY <1>5, <1>6, SettledRange DEF Counts
<1>11. DOMAIN conv = 1..n
  BY <1>4, ConvTyped
<1>12. \A c \in checkpoints' : c.count \in 1..n /\ conv[c.count] = c.turn
  <2>1. ASSUME NEW c \in checkpoints' PROVE c.count \in 1..n /\ conv[c.count] = c.turn
    <3>1. c \in checkpoints /\ c.count <= n
      BY <1>1
    <3>2. c.count \in Nat /\ c.count > 0
      BY <3>1, CurrentCount DEF Clean, Numbers
    <3>. QED  BY <1>3, <1>4, <3>1, <3>2
  <2>. QED  BY <2>1
<1>13. Remembered'
  <2>1. \A c \in checkpoints' : InConv(c.turn)'
    BY <1>1, <1>11, <1>12 DEF InConv, Range
  <2>. QED  BY <1>5, <1>6, <2>1, EmptyRange, SettledRange DEF Remembered
<1>14. Conversation'
  <2>1. ASSUME NEW t \in Range(conv') PROVE Shown(t)'
    <3>1. PICK i \in 1..n : conv[i] = t
      BY <1>1, <1>11 DEF Range
    <3>2. PICK c \in checkpoints' : c.count = i
      BY <1>8
    <3>. QED  BY <1>12, <3>1, <3>2 DEF Shown
  <2>2. running' = 0
    BY <1>6 DEF Settled
  <2>. QED  BY <1>1, <2>1, <2>2 DEF Clean, Conversation
<1>15. Reverts'
  BY <1>5 DEF Reverts
<1>16. Files'
  <2>1. work' = Latest'
    BY <1>1, <1>4, <1>7 DEF Latest, FilesOf
  <2>. QED  BY <1>5, <2>1 DEF Files
<1>. QED  BY <1>9, <1>10, <1>13, <1>14, <1>15, <1>16 DEF Clean

\* No step takes a gap back, and a failing step and a crash are gaps.
LEMMA CleanSteps ==
    ASSUME Next, spoiled' = "no"
    PROVE  spoiled = "no" /\ ~Fail /\ ~Crash
<1>1. ~Fail /\ ~Crash
  BY DEF Fail, Crash, Ended, Spoiled
<1>2. SUFFICES spoiled = "no"
  BY <1>1
<1>3. CASE Environment
  BY <1>3 DEF Environment, RequestTurn, RequestRevert, StartTurn, Edit, ReportDiff, EndSession, EndTurn, Spoiled
<1>4. CASE Ingestion
  BY <1>4, RecordedSubset DEF Ingestion, IngestLifecycle, IngestDiff, RecordPlaceholder, Spoiled
<1>5. CASE Worker
  <2>1. CASE TakeTurnStart \/ TakeStarted \/ TakeCompleted \/ TakePlaceholder \/ TakeRevert
    BY <2>1 DEF TakeTurnStart, TakeStarted, TakeCompleted, TakePlaceholder, TakeRevert, Baseline,
                Spoiled
  <2>2. CASE CaptureBaseline \/ Capture \/ Record
    BY <2>2, RecordedSubset DEF CaptureBaseline, Capture, Record, Spoiled
  <2>3. CASE RestoreFiles \/ RollBackConversation \/ DeleteRefs \/ CompleteRevert
    BY <2>3 DEF RestoreFiles, RollBackConversation, DeleteRefs, CompleteRevert, Spoiled
  <2>. QED  BY <1>5, <2>1, <2>2, <2>3 DEF Worker
<1>. QED  BY <1>1, <1>3, <1>4, <1>5 DEF Next

LEMMA CleanNext ==
    ASSUME Types, Types', RefsKept, OnePerTurn, Uncaptured, Clean, Next,
           spoiled = "no", spoiled' = "no"
    PROVE  Clean'
<1>1. CASE Environment
  BY <1>1, CleanRequest, CleanStartTurn, CleanEdit, CleanReportDiff, CleanEndSession, CleanEndTurn
     DEF Environment
<1>2. CASE Ingestion
  BY <1>2, CleanIngest, CleanRecordPlaceholder DEF Ingestion
<1>3. CASE Worker
  BY <1>3, CleanTakeStart, CleanTakeCompleted, CleanTakePlaceholder, CleanTakeRevert, CleanCapture,
     CleanRecord, CleanRestore, CleanRollBack, CleanDelete, CleanComplete DEF Worker
<1>. QED  BY <1>1, <1>2, <1>3, CleanSteps DEF Next

-----------------------------------------------------------------------------
(* The invariant and what it says. *)

LEMMA ReactorInit == Init => ReactorInv
<1>. SUFFICES ASSUME Init PROVE ReactorInv
  OBVIOUS
<1>1. /\ checkpoints = {} /\ rows = {} /\ refs = <<>> /\ work = {} /\ conv = <<>>
      /\ running = 0 /\ started = 0 /\ domainIn = <<>> /\ runtimeIn = <<>> /\ ingest = <<>>
      /\ placeholder = None /\ job.step = "idle"
  BY JobFields DEF Init
<1>2. ThreadTypes /\ ProviderTypes /\ QueueTypes /\ events \in Nat
  <2>1. ThreadTypes
    BY CheckpointAssumption DEF Init, ThreadTypes
  <2>2. ProviderTypes
    <3>1. conv \in Seq(Turns)
      BY <1>1
    <3>2. 0 \in 0..MaxTurns
      BY CheckpointAssumption
    <3>3. session \in BOOLEAN
      BY DEF Init
    <3>4. requested = 0
      BY DEF Init
    <3>. QED  BY <1>1, <3>1, <3>2, <3>3, <3>4 DEF ProviderTypes
  <2>3. QueueTypes
    BY <1>1 DEF QueueTypes
  <2>. QED  BY <2>1, <2>2, <2>3 DEF Init
<1>3. GitTypes
  <2>1. DOMAIN refs = {}
    BY <1>1, EmptySeq
  <2>. QED  BY <1>1, <2>1 DEF GitTypes
<1>4. JobTypes
  BY CheckpointAssumption DEF Init, JobTypes, JobSet, Idle, RevertSteps, Statuses
<1>5. Types
  BY <1>2, <1>3, <1>4, TypesParts
<1>6. RefsKept /\ OnePerTurn /\ Uncaptured
  BY <1>1 DEF RefsKept, OnePerTurn, Uncaptured, Reverting, RevertSteps, Capturing
<1>7. CurrentTurnCount = 0
  BY <1>1, <1>5, CurrentCount
<1>8. Range(domainIn) = {} /\ Range(runtimeIn) = {} /\ Range(ingest) = {} /\ Range(conv) = {}
      /\ DOMAIN conv = {}
  BY <1>1, EmptyRange
<1>9. ~Capturing /\ ~Reverting
  BY <1>1 DEF Capturing, Reverting, RevertSteps
<1>10. Numbers /\ Counts /\ Remembered /\ Conversation /\ Reverts
  BY <1>1, <1>7, <1>8, <1>9 DEF Numbers, Counts, Remembered, Conversation, Reverts
<1>11. Files
  <2>1. DOMAIN refs = {}
    BY <1>1, EmptySeq
  <2>. QED  BY <1>1, <2>1 DEF Files, Latest
<1>. QED  BY <1>5, <1>6, <1>10, <1>11 DEF ReactorInv, Clean

LEMMA ReactorNext == ReactorInv /\ [Next]_vars => ReactorInv'
<1>1. ASSUME ReactorInv, Next PROVE ReactorInv'
  <2>1. Types /\ RefsKept /\ OnePerTurn /\ Uncaptured
    BY <1>1 DEF ReactorInv
  <2>2. Types'
    BY <1>1, <2>1, TypesNext
  <2>3. RefsKept' /\ OnePerTurn' /\ Uncaptured'
    BY <1>1, <2>1, <2>2, RefsKeptNext, OnePerTurnNext, UncapturedNext
  <2>4. ASSUME spoiled' = "no" PROVE Clean'
    <3>1. spoiled = "no"
      BY <1>1, <2>4, CleanSteps
    <3>2. Clean
      BY <1>1, <3>1 DEF ReactorInv
    <3>. QED  BY <1>1, <2>1, <2>2, <2>4, <3>1, <3>2, CleanNext
  <2>. QED  BY <2>2, <2>3, <2>4 DEF ReactorInv
<1>2. ASSUME ReactorInv, UNCHANGED vars PROVE ReactorInv'
  <2>1. UNCHANGED <<checkpoints, rows, activeTurn, work, refs, running, started, requested,
                    session, conv, ingest, placeholder, domainIn, runtimeIn, job, events, spoiled>>
    BY <1>2 DEF vars, thread, git, provider, ingester, inputs, counters
  <2>2. Types'
    BY <1>2, <2>1 DEF ReactorInv, Types
  <2>3. RefsKept' /\ OnePerTurn' /\ Uncaptured'
    BY <1>2, <2>1 DEF ReactorInv, RefsKept, HasRef, Reverting, OnePerTurn, Uncaptured, Capturing,
                      CapturedFor
  <2>4. ASSUME spoiled = "no" PROVE Clean'
    <3>1. Clean
      BY <1>2, <2>4 DEF ReactorInv
    <3>2. placeholder' # None =>
              InConv(placeholder'.turn) /\ WellCounted(placeholder'.turn, placeholder'.count)
      BY <2>1, <3>1 DEF Clean, Counts, Remembered
    <3>3. \A e \in Range(ingest') : e.kind = "diff" => InConv(e.turn)
      BY <2>1, <3>1 DEF Clean, Remembered
    <3>4. Reverting => Settled'
      BY <2>1, <3>1 DEF Clean, Reverts, Settled
    <3>. QED  BY <2>1, <3>1, <3>2, <3>3, <3>4, CleanQueues
  <2>. QED  BY <2>1, <2>2, <2>3, <2>4 DEF ReactorInv
<1>. QED  BY <1>1, <1>2

\* The invariant holds whatever is started, edited, reverted, failed or crashed.
THEOREM ReactorInvariant == Spec => []ReactorInv
  BY ReactorInit, ReactorNext, PTL DEF Spec

\* Every captured checkpoint a thread shows has its git ref, whatever was
\* captured, reverted or interrupted by a crash: a revert deletes refs only of the
\* checkpoints that its last step drops.  Between the first deletion and that
\* step, and after a revert that ended there, those beyond its target may lack it.
THEOREM SnapshotsExist == Spec => []ReadySnapshotsExist
<1>1. ReactorInv => ReadySnapshotsExist
  BY DEF ReactorInv, RefsKept, HasRef, ReadySnapshotsExist
<1>. QED  BY <1>1, ReactorInvariant, PTL

\* Once nothing is under way the files are those of the latest checkpoint.
THEOREM QuietFilesCheckpointed == Spec => []QuietWorkspaceCheckpointed
  BY QuietFiles, ReactorInvariant, PTL

\* Once nothing is under way the provider remembers exactly the turns that the
\* thread has checkpoints for, in the order of their counts.
THEOREM ConversationFollows == Spec => []ConversationFollowsCheckpoints
  BY QuietConversation, ReactorInvariant, PTL

\* No step but a crash turns a captured checkpoint into a placeholder.
THEOREM CapturesStay == Spec => ReadyStaysReady
<1>1. ASSUME ReactorInv, [Next]_vars, events' = events,
             NEW c \in checkpoints, NEW d \in checkpoints', c.turn = d.turn, c.status # "missing"
      PROVE  d.status # "missing"
  <2>1. \A e \in checkpoints : e.turn = c.turn => e = c
    BY <1>1 DEF ReactorInv, OnePerTurn
  <2>2. CASE d \in checkpoints
    BY <1>1, <2>1, <2>2
  <2>3. CASE Recording
    <3>1. PICK e : checkpoints' \subseteq InMemory(e)
      BY <2>3, RecordedSubset DEF Recording
    <3>2. CASE d = e /\ e.status = "missing"
      <4>1. d \in checkpoints
        BY <1>1, <3>1, <3>2 DEF InMemory, CapturedFor
      <4>. QED  BY <2>2, <4>1
    <3>3. d = e \/ d \in checkpoints
      BY <3>1 DEF InMemory
    <3>. QED  BY <2>2, <3>2, <3>3
  <2>4. CASE CompleteRevert
    BY <2>2, <2>4 DEF CompleteRevert, Newest
  <2>5. CASE Quiescent \/ UNCHANGED vars
    BY <2>2, <2>5 DEF Quiescent, vars, thread
  <2>6. ~Crash
    BY <1>1 DEF Crash, Count, ReactorInv, Types
  <2>. QED  BY <1>1, <2>3, <2>4, <2>5, <2>6, ThreadChanges
<1>2. ReactorInv /\ [Next]_vars =>
        [events' = events =>
           \A c \in checkpoints, d \in checkpoints' :
              c.turn = d.turn /\ c.status # "missing" => d.status # "missing"]_vars
  BY <1>1
<1>. QED  BY <1>2, ReactorInvariant, PTL DEF Spec, ReadyStaysReady

-----------------------------------------------------------------------------
(* The reverts that are not answered: those that wait, the one under way,  *)
(* and those whose failure activity has failed.                            *)

Waiting(q) == {i \in DOMAIN q : q[i].kind = "revert"}

Gaps == {"no", "early", "skipped", "overlapped", "misnumbered", "aborted", "fresh", "trimmed",
         "failed", "torn", "crashed"}

Answers ==
    /\ unanswered = silenced + Cardinality(Waiting(domainIn)) + (IF Reverting THEN 1 ELSE 0)
    /\ silenced \in Nat
    /\ unanswered <= events /\ events <= MaxEvents
    /\ spoiled \in Gaps

LEMMA WaitingFinite ==
    ASSUME NEW S, NEW q \in Seq(S)
    PROVE  IsFiniteSet(Waiting(q)) /\ Cardinality(Waiting(q)) \in Nat
<1>1. Len(q) \in Nat /\ DOMAIN q = 1..Len(q)
  OBVIOUS
<1>2. IsFiniteSet(1..Len(q))
  BY <1>1, FS_Interval
<1>3. IsFiniteSet(Waiting(q))
  BY <1>1, <1>2, FS_Subset DEF Waiting
<1>. QED  BY <1>3, FS_CardinalityType

LEMMA WaitingAppend ==
    ASSUME NEW S, NEW q \in Seq(S), NEW e \in S
    PROVE  Cardinality(Waiting(Append(q, e)))
               = Cardinality(Waiting(q)) + (IF e.kind = "revert" THEN 1 ELSE 0)
<1>. DEFINE a == Append(q, e)
            n == Len(q) + 1
<1>1. /\ a \in Seq(S) /\ Len(a) = n /\ Len(q) \in Nat
      /\ \A i \in 1..Len(q) : a[i] = q[i]
      /\ a[n] = e
  BY AppendProperties
<1>2. DOMAIN a = 1..n /\ DOMAIN q = 1..Len(q)
  BY <1>1
<1>3. 1..n = 1..Len(q) \cup {n} /\ n \notin 1..Len(q)
  BY <1>1
<1>4. IsFiniteSet(Waiting(q)) /\ Cardinality(Waiting(q)) \in Nat
  BY WaitingFinite
<1>. HIDE DEF a, n
<1>5. CASE e.kind = "revert"
  <2>1. Waiting(a) = Waiting(q) \cup {n} /\ n \notin Waiting(q)
    BY <1>1, <1>2, <1>3, <1>5 DEF Waiting
  <2>2. Cardinality(Waiting(a)) = Cardinality(Waiting(q)) + 1
    BY <1>4, <2>1, FS_AddElement
  <2>. QED  BY <1>5, <2>2 DEF a
<1>6. CASE e.kind # "revert"
  <2>1. Waiting(a) = Waiting(q)
    BY <1>1, <1>2, <1>3, <1>6 DEF Waiting
  <2>. QED  BY <1>4, <1>6, <2>1 DEF a
<1>. QED  BY <1>5, <1>6

LEMMA WaitingTail ==
    ASSUME NEW S, NEW q \in Seq(S), q # <<>>
    PROVE  Cardinality(Waiting(q))
               = Cardinality(Waiting(Tail(q))) + (IF Head(q).kind = "revert" THEN 1 ELSE 0)
<1>. DEFINE t == Tail(q)
            T == Waiting(t)
            M == {i \in DOMAIN q : i # 1 /\ q[i].kind = "revert"}
            f == [i \in T |-> i + 1]
<1>1. /\ t \in Seq(S) /\ Len(t) = Len(q) - 1 /\ Len(q) \in Nat \ {0}
      /\ \A i \in 1..Len(t) : t[i] = q[i + 1]
  BY HeadTailProperties, EmptySeq
<1>2. DOMAIN t = 1..(Len(q) - 1) /\ DOMAIN q = 1..Len(q) /\ Head(q) = q[1]
  BY <1>1
<1>. HIDE DEF t
<1>3. \A i \in T : i \in Nat /\ i + 1 \in M
  BY <1>1, <1>2 DEF Waiting
<1>4. \A j \in M : j - 1 \in T /\ j = (j - 1) + 1
  <2>1. ASSUME NEW j \in M PROVE j - 1 \in T /\ j = (j - 1) + 1
    <3>1. j \in 1..Len(q) /\ j # 1 /\ q[j].kind = "revert"
      BY <1>2
    <3>2. j - 1 \in 1..Len(t) /\ j = (j - 1) + 1
      BY <1>1, <3>1
    <3>. QED  BY <1>1, <1>2, <3>1, <3>2 DEF Waiting
  <2>. QED  BY <2>1
<1>5. IsFiniteSet(T) /\ Cardinality(T) \in Nat
  BY <1>1, WaitingFinite
<1>6. 1 \in DOMAIN q /\ 1 \notin M
  BY <1>1, <1>2
<1>7. Waiting(q) = IF Head(q).kind = "revert" THEN M \cup {1} ELSE M
  BY <1>2, <1>6 DEF Waiting
<1>. HIDE DEF T, M
<1>8. f \in Bijection(T, M)
  <2>1. f \in [T -> M]
    BY <1>3
  <2>2. \A i, j \in T : f[i] = f[j] => i = j
    BY <1>3
  <2>3. \A j \in M : \E i \in T : f[i] = j
    BY <1>4
  <2>. HIDE DEF f
  <2>4. IsInjective(f)
    BY <2>1, <2>2 DEF IsInjective
  <2>. QED  BY <2>1, <2>3, <2>4 DEF Bijection, Injection, Surjection
<1>9. ExistsBijection(T, M)
  BY <1>8 DEF ExistsBijection
<1>10. IsFiniteSet(M) /\ Cardinality(M) = Cardinality(T)
  BY <1>5, <1>9, FS_Bijection
<1>11. Cardinality(M \cup {1}) = Cardinality(M) + 1
  BY <1>6, <1>10, FS_AddElement
<1>12. Cardinality(Waiting(q)) = Cardinality(T) + (IF Head(q).kind = "revert" THEN 1 ELSE 0)
  BY <1>5, <1>7, <1>10, <1>11
<1>. QED  BY <1>12 DEF T, t

\* A step leaves what waits, or adds or takes one input that is not a revert.
LEMMA OthersQueued ==
    ASSUME Types, Answers, UNCHANGED <<unanswered, silenced>>, spoiled' \in Gaps,
           events' \in {events, events + 1} /\ events' <= MaxEvents /\ events \in Nat,
           Reverting' <=> Reverting,
           \/ domainIn' = domainIn
           \/ \E e \in Inputs : e.kind # "revert" /\ domainIn' = Append(domainIn, e)
           \/ domainIn # <<>> /\ Head(domainIn).kind # "revert" /\ domainIn' = Tail(domainIn)
    PROVE  Answers'
<1>1. domainIn \in Seq(Inputs)
  BY DEF Types
<1>2. Cardinality(Waiting(domainIn')) = Cardinality(Waiting(domainIn))
  <2>1. CASE domainIn' = domainIn
    BY <2>1
  <2>2. CASE \E e \in Inputs : e.kind # "revert" /\ domainIn' = Append(domainIn, e)
    <3>1. Cardinality(Waiting(domainIn)) \in Nat
      BY <1>1, WaitingFinite
    <3>. QED  BY <1>1, <2>2, <3>1, WaitingAppend
  <2>3. CASE domainIn # <<>> /\ Head(domainIn).kind # "revert" /\ domainIn' = Tail(domainIn)
    <3>1. Tail(domainIn) \in Seq(Inputs)
      BY <1>1, <2>3, TailRange
    <3>2. Cardinality(Waiting(Tail(domainIn))) \in Nat
      BY <3>1, WaitingFinite
    <3>. QED  BY <1>1, <2>3, <3>2, WaitingTail
  <2>. QED  BY <2>1, <2>2, <2>3
<1>3. unanswered' <= events' /\ events' <= MaxEvents
  <2>1. Cardinality(Waiting(domainIn)) \in Nat
    BY <1>1, WaitingFinite
  <2>2. unanswered \in Nat
    BY <2>1 DEF Answers
  <2>. QED  BY <2>2 DEF Answers
<1>. QED  BY <1>2, <1>3 DEF Answers

LEMMA GapsNext ==
    ASSUME spoiled \in Gaps, Next
    PROVE  spoiled' \in Gaps
<1>1. CASE Environment
  BY <1>1 DEF Environment, RequestTurn, RequestRevert, StartTurn, Edit, ReportDiff, EndSession, EndTurn,
              Spoiled, Gaps
<1>2. CASE Ingestion
  BY <1>2, RecordedSubset DEF Ingestion, IngestLifecycle, IngestDiff, RecordPlaceholder, Spoiled, Gaps
<1>3. CASE Worker
  <2>1. CASE TakeTurnStart \/ TakeStarted \/ TakeCompleted \/ TakePlaceholder \/ TakeRevert
    BY <2>1 DEF TakeTurnStart, TakeStarted, TakeCompleted, TakePlaceholder, TakeRevert, Baseline,
                Spoiled, Gaps
  <2>2. CASE CaptureBaseline \/ Capture \/ Record
    BY <2>2, RecordedSubset DEF CaptureBaseline, Capture, Record, Spoiled, Gaps
  <2>3. CASE RestoreFiles \/ RollBackConversation \/ DeleteRefs \/ CompleteRevert
    BY <2>3 DEF RestoreFiles, RollBackConversation, DeleteRefs, CompleteRevert, Spoiled, Gaps
  <2>. QED  BY <1>3, <2>1, <2>2, <2>3 DEF Worker
<1>4. CASE Fail \/ Crash
  BY <1>4 DEF Fail, Crash, Ended, Spoiled, Gaps
<1>. QED  BY <1>1, <1>2, <1>3, <1>4 DEF Next

LEMMA AnswersEnvironment ==
    ASSUME Types, Answers, Environment, spoiled' \in Gaps
    PROVE  Answers'
<1>0. events \in Nat /\ MaxEvents \in Nat /\ events <= MaxEvents
  BY CheckpointAssumption DEF Types, Answers
<1>1. CASE RequestTurn
  <2>1. PICK e : e = [kind |-> "turnStart"]
    OBVIOUS
  <2>2. e \in Inputs /\ e.kind # "revert"
    BY <2>1 DEF Inputs
  <2>3. /\ domainIn' = Append(domainIn, e)
        /\ UNCHANGED <<unanswered, silenced, events, job>>
    BY <1>1, <2>1 DEF RequestTurn, counters
  <2>. QED  BY <1>0, <2>2, <2>3, OthersQueued DEF Reverting
<1>2. CASE \E n \in 0..MaxTurns : RequestRevert(n)
  <2>1. PICK n \in 0..MaxTurns : RequestRevert(n)
    BY <1>2
  <2>2. PICK e : e = [kind |-> "revert", count |-> n]
    OBVIOUS
  <2>3. e \in Inputs /\ e.kind = "revert" /\ domainIn \in Seq(Inputs)
    BY <2>2 DEF Inputs, Types
  <2>4. /\ domainIn' = Append(domainIn, e) /\ events < MaxEvents /\ events' = events + 1
        /\ unanswered' = unanswered + 1 /\ UNCHANGED <<job, silenced>>
    BY <2>1, <2>2 DEF RequestRevert, Count
  <2>5. /\ Cardinality(Waiting(domainIn')) = Cardinality(Waiting(domainIn)) + 1
        /\ Cardinality(Waiting(domainIn)) \in Nat
    BY <2>3, <2>4, WaitingAppend, WaitingFinite
  <2>6. Reverting' <=> Reverting
    BY <2>4 DEF Reverting
  <2>7. unanswered \in Nat /\ silenced \in Nat /\ unanswered <= events
    BY <2>5 DEF Answers
  <2>8. unanswered' = silenced' + Cardinality(Waiting(domainIn')) + (IF Reverting' THEN 1 ELSE 0)
    <3>1. CASE Reverting
      BY <2>4, <2>5, <2>6, <2>7, <3>1 DEF Answers
    <3>2. CASE ~Reverting
      BY <2>4, <2>5, <2>6, <2>7, <3>2 DEF Answers
    <3>. QED  BY <3>1, <3>2
  <2>9. unanswered' <= events' /\ events' <= MaxEvents /\ silenced' \in Nat
    BY <1>0, <2>4, <2>7
  <2>. QED  BY <2>8, <2>9 DEF Answers
<1>3. CASE \/ \E fresh \in BOOLEAN : StartTurn(fresh)
           \/ Edit \/ ReportDiff \/ EndSession \/ \E state \in EndStates : EndTurn(state)
  <2>1. /\ domainIn' = domainIn /\ UNCHANGED <<unanswered, silenced, job>>
        /\ events' = events \/ (events < MaxEvents /\ events' = events + 1)
    BY <1>3 DEF StartTurn, Edit, ReportDiff, EndSession, EndTurn, Count, inputs, counters
  <2>2. events' \in {events, events + 1} /\ events' <= MaxEvents
    BY <1>0, <2>1
  <2>. QED  BY <1>0, <2>1, <2>2, OthersQueued DEF Reverting
<1>. QED  BY <1>1, <1>2, <1>3 DEF Environment

\* A checkpoint is recorded: at most a placeholder is queued.
LEMMA RecordedQueued ==
    ASSUME NEW c \in CheckpointSet, TurnDiffCompleted(c)
    PROVE  \/ domainIn' = domainIn
           \/ \E e \in Inputs : e.kind # "revert" /\ domainIn' = Append(domainIn, e)
<1>. DEFINE new == [kind |-> "diff", turn |-> c.turn, count |-> c.count]
<1>1. new \in Inputs /\ new.kind # "revert"
  BY DEF CheckpointSet, Inputs
<1>2. domainIn' = Append(domainIn, new) \/ domainIn' = domainIn
  BY DEF TurnDiffCompleted
<1>. QED  BY <1>1, <1>2

LEMMA AnswersIngestion ==
    ASSUME Types, Answers, Ingestion, spoiled' \in Gaps
    PROVE  Answers'
<1>0. events \in Nat /\ events <= MaxEvents
  BY DEF Types, Answers
<1>1. CASE IngestLifecycle \/ IngestDiff
  <2>1. UNCHANGED <<domainIn, unanswered, silenced, events, job>>
    BY <1>1 DEF IngestLifecycle, IngestDiff, inputs, counters
  <2>. QED  BY <1>0, <2>1, OthersQueued DEF Reverting
<1>2. CASE RecordPlaceholder
  <2>0. PICK c : c = Checkpoint(placeholder.turn, placeholder.count, "missing", FALSE)
    OBVIOUS
  <2>1. TurnDiffCompleted(c) /\ placeholder # None /\ UNCHANGED <<unanswered, silenced, events, job>>
    BY <1>2, <2>0 DEF RecordPlaceholder, counters
  <2>2. c \in CheckpointSet
    BY <2>0, <2>1 DEF Checkpoint, CheckpointSet, Types, Statuses
  <2>. QED  BY <1>0, <2>1, <2>2, RecordedQueued, OthersQueued DEF Reverting
<1>. QED  BY <1>1, <1>2 DEF Ingestion

\* A step of a revert, or its end, with what it does to the count.
LEMMA AnswersRevert ==
    ASSUME Types, Answers, TakeRevert, spoiled' \in Gaps
    PROVE  Answers'
<1>1. /\ domainIn \in Seq(Inputs) /\ domainIn # <<>> /\ Head(domainIn).kind = "revert"
      /\ domainIn' = Tail(domainIn)
      /\ events' = events \/ (events < MaxEvents /\ events' = events + 1)
  BY DEF TakeRevert, CanTake, Count, counters, Types
<1>2. /\ Cardinality(Waiting(domainIn)) = Cardinality(Waiting(domainIn')) + 1
      /\ Cardinality(Waiting(domainIn')) \in Nat
  <2>1. Tail(domainIn) \in Seq(Inputs)
    BY <1>1, TailRange
  <2>. QED  BY <1>1, <2>1, WaitingTail, WaitingFinite
<1>3. ~Reverting
  BY RevertTaken, JobFields DEF Reverting, RevertSteps
<1>4. events \in Nat /\ MaxEvents \in Nat
  BY CheckpointAssumption DEF Types
<1>5. \/ Reverting' /\ unanswered' = unanswered /\ silenced' = silenced
      \/ ~Reverting' /\ unanswered' = unanswered - 1 /\ silenced' = silenced
      \/ ~Reverting' /\ unanswered' = unanswered /\ silenced' = silenced + 1
  <2>. DEFINE n == Head(domainIn).count
              stale == {c.count : c \in {d \in checkpoints : d.count > n /\ d.git}}
              restore == [Idle EXCEPT !.step = "restore", !.count = n,
                                      !.rolled = CurrentTurnCount - n, !.stale = stale]
  <2>1. \/ unanswered' = unanswered /\ silenced' = silenced /\ job' = restore
        \/ unanswered' = unanswered - 1 /\ silenced' = silenced /\ job' = job
        \/ unanswered' = unanswered /\ silenced' = silenced + 1 /\ job' = job
    BY DEF TakeRevert, FailureActivity, counters
  <2>. HIDE DEF n, stale
  <2>2. job' = restore => Reverting'
    BY JobFields DEF Reverting, RevertSteps
  <2>3. job' = job => ~Reverting'
    BY <1>3 DEF Reverting
  <2>. QED  BY <2>1, <2>2, <2>3
<1>6. unanswered \in Nat /\ silenced \in Nat /\ unanswered <= events /\ events <= MaxEvents
  BY <1>2, <1>3 DEF Answers
<1>7. unanswered' = silenced' + Cardinality(Waiting(domainIn')) + (IF Reverting' THEN 1 ELSE 0)
  <2>1. unanswered = silenced + Cardinality(Waiting(domainIn)) /\ silenced \in Nat
    BY <1>2, <1>3 DEF Answers
  <2>2. unanswered = silenced + Cardinality(Waiting(domainIn')) + 1
    BY <1>2, <2>1
  <2>3. CASE Reverting'
    BY <1>2, <1>5, <1>6, <2>2, <2>3
  <2>4. CASE ~Reverting'
    BY <1>2, <1>5, <1>6, <2>2, <2>4
  <2>. QED  BY <2>3, <2>4
<1>8. unanswered' <= events' /\ events' <= MaxEvents /\ silenced' \in Nat
  BY <1>1, <1>4, <1>5, <1>6
<1>. QED  BY <1>7, <1>8 DEF Answers

LEMMA AnswersEnd ==
    ASSUME Types, Answers, CompleteRevert \/ Fail, spoiled' \in Gaps
    PROVE  Answers'
<1>1. /\ domainIn' = domainIn /\ job' = Idle
      /\ events' = events \/ (events < MaxEvents /\ events' = events + 1)
      /\ \/ Reverting /\ unanswered' = unanswered - 1 /\ silenced' = silenced
         \/ Reverting /\ unanswered' = unanswered /\ silenced' = silenced + 1
         \/ ~Reverting /\ unanswered' = unanswered /\ silenced' = silenced
  BY DEF CompleteRevert, Fail, FailureActivity, Reverting, RevertSteps, Count, inputs
<1>2. ~Reverting'
  BY <1>1, JobFields DEF Reverting, RevertSteps
<1>3. events \in Nat /\ MaxEvents \in Nat /\ Cardinality(Waiting(domainIn)) \in Nat
  BY CheckpointAssumption, WaitingFinite DEF Types
<1>. QED  BY <1>1, <1>2, <1>3 DEF Answers

LEMMA AnswersCrash ==
    ASSUME Types, Answers, Crash, spoiled' \in Gaps
    PROVE  Answers'
<1>1. /\ domainIn' = <<>> /\ job' = Idle /\ unanswered' = 0 /\ silenced' = 0
      /\ events < MaxEvents /\ events' = events + 1
  BY DEF Crash, Count
<1>2. ~Reverting'
  BY <1>1, JobFields DEF Reverting, RevertSteps
<1>3. Cardinality(Waiting(domainIn')) = 0
  <2>1. Waiting(domainIn') = {}
    BY <1>1, EmptySeq DEF Waiting
  <2>. QED  BY <2>1, FS_EmptySet
<1>4. events \in Nat /\ MaxEvents \in Nat
  BY CheckpointAssumption DEF Types
<1>. QED  BY <1>1, <1>2, <1>3, <1>4 DEF Answers

LEMMA AnswersWorker ==
    ASSUME Types, Answers, Worker, spoiled' \in Gaps
    PROVE  Answers'
<1>0. events \in Nat /\ MaxEvents \in Nat /\ events <= MaxEvents
  BY CheckpointAssumption DEF Types, Answers
<1>1. CASE TakeTurnStart \/ TakePlaceholder
  <2>1. /\ domainIn # <<>> /\ Head(domainIn).kind # "revert" /\ domainIn' = Tail(domainIn)
        /\ UNCHANGED <<unanswered, silenced, events>>
    BY <1>1 DEF TakeTurnStart, TakePlaceholder, CanTake, Baseline, counters
  <2>2. ~Reverting /\ ~Reverting'
    BY <1>1, Taken, JobFields DEF Reverting, RevertSteps
  <2>. QED  BY <1>0, <2>1, <2>2, OthersQueued
<1>2. CASE TakeStarted \/ TakeCompleted
  <2>1. UNCHANGED <<domainIn, unanswered, silenced, events>>
    BY <1>2 DEF TakeStarted, TakeCompleted, Baseline, counters
  <2>2. ~Reverting /\ ~Reverting'
    BY <1>2, Taken, JobFields DEF Reverting, RevertSteps
  <2>. QED  BY <1>0, <2>1, <2>2, OthersQueued
<1>3. CASE CaptureBaseline \/ Capture
  <2>1. UNCHANGED <<domainIn, unanswered, silenced, events>>
    BY <1>3 DEF CaptureBaseline, Capture, inputs, counters
  <2>2. /\ job.step \in {"baseline", "capture"}
        /\ job' = Idle \/ job' = [job EXCEPT !.step = "record"]
    BY <1>3 DEF CaptureBaseline, Capture
  <2>3. job'.step \in {"idle", "record"}
    BY <2>2, JobFields DEF Types
  <2>4. ~Reverting /\ ~Reverting'
    BY <2>2, <2>3 DEF Reverting, RevertSteps
  <2>. QED  BY <1>0, <2>1, <2>4, OthersQueued
<1>4. CASE Record
  <2>0. PICK c : c = Checkpoint(job.turn, job.count, job.status, TRUE)
    OBVIOUS
  <2>1. TurnDiffCompleted(c) /\ job.step = "record" /\ job' = Idle
        /\ UNCHANGED <<unanswered, silenced, events>>
    BY <1>4, <2>0 DEF Record, counters
  <2>2. job.turn \in Turns /\ job.status \in Statuses /\ job.count \in Nat
    BY <2>1 DEF Types
  <2>3. c \in CheckpointSet
    BY <2>0, <2>2 DEF Checkpoint, CheckpointSet
  <2>4. ~Reverting /\ ~Reverting'
    BY <2>1, JobFields DEF Reverting, RevertSteps
  <2>. QED  BY <1>0, <2>1, <2>3, <2>4, RecordedQueued, OthersQueued
<1>5. CASE RestoreFiles \/ RollBackConversation \/ DeleteRefs
  <2>1. /\ UNCHANGED <<domainIn, unanswered, silenced>>
        /\ events' = events \/ (events < MaxEvents /\ events' = events + 1)
    BY <1>5 DEF RestoreFiles, RollBackConversation, DeleteRefs, Count, inputs, counters
  <2>2. events' \in {events, events + 1} /\ events' <= MaxEvents
    BY <1>0, <2>1
  <2>3. Reverting /\ Reverting'
    BY <1>5, TypesParts, NextRevertStep DEF Reverting, RevertSteps
  <2>. QED  BY <1>0, <2>1, <2>2, <2>3, OthersQueued
<1>. QED  BY <1>1, <1>2, <1>3, <1>4, <1>5, AnswersRevert, AnswersEnd DEF Worker

LEMMA AnswersNext ==
    ASSUME Types, Answers, [Next]_vars
    PROVE  Answers'
<1>1. CASE Next
  <2>1. spoiled' \in Gaps
    BY <1>1, GapsNext DEF Answers
  <2>. QED  BY <1>1, <2>1, AnswersEnvironment, AnswersIngestion, AnswersWorker, AnswersEnd, AnswersCrash
            DEF Next
<1>2. CASE UNCHANGED vars
  BY <1>2 DEF vars, inputs, counters, Answers, Reverting
<1>. QED  BY <1>1, <1>2

\* The reverts that are not answered are exactly those that wait for the worker,
\* the one it carries out and those whose failure activity has failed: none is
\* answered twice, none is forgotten otherwise.
THEOREM RevertsCounted == Spec => []Answers
<1>1. Init => Answers
  <2>. SUFFICES ASSUME Init PROVE Answers
    OBVIOUS
  <2>0. domainIn = <<>> /\ job = Idle
    BY DEF Init
  <2>1. unanswered = 0 /\ silenced = 0 /\ events = 0
    BY DEF Init
  <2>6. spoiled = "no"
    BY DEF Init
  <2>2. Waiting(domainIn) = {}
    BY <2>0, EmptySeq DEF Waiting
  <2>3. Cardinality(Waiting(domainIn)) = 0
    BY <2>2, FS_EmptySet
  <2>4. ~Reverting
    BY <2>0, JobFields DEF Reverting, RevertSteps
  <2>5. spoiled \in Gaps
    BY <2>6 DEF Gaps
  <2>. QED  BY <2>1, <2>3, <2>4, <2>5, CheckpointAssumption DEF Answers
<1>2. ReactorInv /\ Answers /\ [Next]_vars => Answers'
  BY AnswersNext DEF ReactorInv
<1>. QED  BY <1>1, <1>2, ReactorInvariant, PTL DEF Spec

\* Every variable keeps its type.
THEOREM TypeCorrect == Spec => []TypeOK
<1>1. ReactorInv /\ Answers => TypeOK
  <2>1. SUFFICES ASSUME ReactorInv, Answers PROVE TypeOK
    OBVIOUS
  <2>2. Types
    BY <2>1 DEF ReactorInv
  <2>3. events \in 0..MaxEvents /\ unanswered \in 0..events /\ silenced \in 0..unanswered
    <3>1. Cardinality(Waiting(domainIn)) \in Nat /\ events \in Nat /\ MaxEvents \in Nat
      BY <2>2, WaitingFinite, CheckpointAssumption DEF Types
    <3>. QED  BY <2>1, <3>1 DEF Answers
  <2>4. placeholder \in [turn : 0..MaxTurns, count : Nat]
    <3>1. 0 \in 0..MaxTurns /\ Turns \subseteq 0..MaxTurns
      BY CheckpointAssumption DEF Turns
    <3>2. placeholder = None \/ placeholder \in [turn : Turns, count : Nat]
      BY <2>2 DEF Types
    <3>3. None \in [turn : 0..MaxTurns, count : Nat]
      BY <3>1 DEF None
    <3>. QED  BY <3>1, <3>2, <3>3
  <2>5. spoiled \in Gaps
    BY <2>1 DEF Answers
  <2>. QED  BY <2>2, <2>3, <2>4, <2>5 DEF Types, TypeOK, Gaps
<1>. QED  BY <1>1, RevertsCounted, ReactorInvariant, PTL
=============================================================================
