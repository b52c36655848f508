------------------------ MODULE ProviderSessionsProofs ------------------------
(***************************************************************************)
(* Proofs about the sessions of a thread, for any number of turns and of   *)
(* everything else that may happen, and about the drainable worker that    *)
(* the requests to a session and the reports of its processes go through,  *)
(* for any items and drainers.                                             *)
(***************************************************************************)
EXTENDS ProviderSessions, DrainableWorker, SequenceTheorems, FiniteSetTheorems,
        WellFoundedInduction, NaturalsInduction, TLAPS

-----------------------------------------------------------------------------
(* The sessions. *)

Opening == job.step \in {"open", "persist", "bind"}

\* The processes have numbers, and the one that is being opened is the thread's,
\* unless a process has died.  Only a process that is to be opened holds no
\* conversation, and a turn is on its way only with one bound.
Held ==
    /\ IsFiniteSet(DOMAIN children) /\ DOMAIN children \subseteq Nat \ {0}
    /\ Opening => job.child # 0 /\ sessions \in {0, job.child}
    /\ job.step = "open" /\ job.child \in DOMAIN children =>
          children[job.child] = Unopened(job.childMode)
    /\ job.step = "persist" => job.cursor # 0
    /\ job.step = "persist" /\ job.child \in DOMAIN children =>
          children[job.child] = [cursor |-> job.cursor, mode |-> job.childMode]
    /\ Opening /\ ~job.recovering => job.childMode = job.mode
    /\ job.step # "open" /\ sessions # 0 => children[sessions].cursor # 0
    /\ job.step = "bind" => binding.cursor # 0 /\ binding.mode = job.mode
    /\ job.step = "send" => binding.cursor # 0
    /\ job.step = "idle" => job = Idle
    /\ job.step = "ensure" => job.kind \in {"turn", "mode"}
    /\ job.recovering => job.step \in {"open", "persist"} /\ binding.cursor # 0
    /\ job.transcript > 0 => job.kind = "turn"
    /\ job.step = "open" /\ job.recovering => job.cursor # 0

\* The last report that is not recorded yet; if the process can be reached, it is
\* that it is there, or this is recorded.
LastReport == IF ingest # <<>> THEN ingest[Len(ingest)] ELSE ingesting.report

Shown ==
    sessions # 0 =>
        \/ LastReport = "up"
        \/ ingest = <<>> /\ ingesting = NoReport /\ status = "live"

\* The mode of the thread's session is that of its process and of what is bound,
\* except while a session is opened in another one.
ModeKept ==
    "mode" \notin gaps =>
        /\ ~Opening /\ sessions # 0 => children[sessions].mode = sessionMode
        /\ job.step = "bind" /\ sessions # 0 => children[sessions].mode = job.mode
        /\ job.step # "bind" /\ binding.cursor # 0 => binding.mode = sessionMode
        /\ job.recovering => job.childMode = sessionMode
        /\ job.kind = "turn" /\ (job.step \in {"route", "send"} \/ job.recovering) =>
              job.mode = sessionMode

\* The turns are sent in their order, and a transcript holds all that were sent.
InOrder ==
    /\ sent \subseteq 1..asked
    /\ \A i \in DOMAIN inbox : inbox[i].kind = "turn" =>
          /\ inbox[i].turn \in 1..asked
          /\ \A t \in sent : t < inbox[i].turn
          /\ job.kind = "turn" => job.turn < inbox[i].turn
    /\ \A i, j \in DOMAIN inbox :
          inbox[i].kind = "turn" /\ inbox[j].kind = "turn" /\ i < j =>
              inbox[i].turn < inbox[j].turn
    /\ job.kind = "turn" => job.turn \in 1..asked /\ \A t \in sent : t < job.turn
    /\ job.transcript > 0 => sent \subseteq 1..job.transcript

Knows(p) == sent \subseteq conv[p]

\* A process that holds another conversation than the one that is bound, or is
\* about to open one, was started before any turn was sent.
Astray(cursor) == cursor # binding.cursor => binding.cursor = 0 /\ sent = {}

\* What is bound knows what was sent, or is about to be told; without anything
\* bound a turn is the first, or takes the transcript along.
Known ==
    "context" \notin gaps =>
        /\ binding.cursor # 0 => Knows(binding.cursor) \/ Rebuilding
        /\ job.step = "ensure" /\ job.kind = "turn" /\ job.transcript = 0
                /\ job.turn \notin ImageTurns
              => binding.cursor # 0 \/ sent = {}
        /\ job.step = "open" /\ job.cursor = 0 /\ job.transcript = 0 =>
              binding.cursor = 0 /\ sent = {}
        /\ job.step = "open" /\ job.cursor # 0 => Astray(job.cursor)
        /\ job.step = "persist" /\ job.transcript = 0 => Astray(job.cursor)
        /\ job.step = "persist" /\ job.recovering => job.cursor = binding.cursor
        /\ job.step \notin {"open", "persist"} /\ sessions # 0 => Astray(children[sessions].cursor)

SessionInv == ProviderTypeOK /\ Held /\ Shown /\ ModeKept /\ InOrder /\ Known

-----------------------------------------------------------------------------
(* Sequences, processes and reports. *)

LEMMA Appended ==
    ASSUME NEW S, NEW q \in Seq(S), NEW e \in S
    PROVE  /\ Append(q, e) \in Seq(S) /\ Append(q, e) # <<>>
           /\ Len(Append(q, e)) = Len(q) + 1 /\ Len(q) \in Nat
           /\ DOMAIN q = 1..Len(q) /\ DOMAIN Append(q, e) = 1..(Len(q) + 1)
           /\ \A i \in 1..Len(q) : q[i] \in S /\ Append(q, e)[i] = q[i]
           /\ Append(q, e)[Len(q) + 1] = e
<1>1. Len(q) \in Nat /\ DOMAIN q = 1..Len(q) /\ \A i \in 1..Len(q) : q[i] \in S
  OBVIOUS
<1>2. /\ Append(q, e) \in Seq(S) /\ Append(q, e) # <<>>
      /\ Len(Append(q, e)) = Len(q) + 1
      /\ \A i \in 1..Len(q) : Append(q, e)[i] = q[i]
      /\ Append(q, e)[Len(q) + 1] = e
  BY AppendProperties
<1>3. DOMAIN Append(q, e) = 1..Len(Append(q, e))
  BY <1>2
<1>. QED  BY <1>1, <1>2, <1>3

LEMMA Taken ==
    ASSUME NEW S, NEW q \in Seq(S), q # <<>>
    PROVE  /\ Len(q) \in Nat \ {0} /\ DOMAIN q = 1..Len(q)
           /\ \A i \in 1..Len(q) : q[i] \in S
           /\ Head(q) = q[1] /\ Head(q) \in S
           /\ Tail(q) \in Seq(S) /\ Len(Tail(q)) = Len(q) - 1
           /\ DOMAIN Tail(q) = 1..(Len(q) - 1)
           /\ \A i \in 1..(Len(q) - 1) : Tail(q)[i] = q[i + 1]
           /\ Tail(q) = <<>> <=> Len(q) = 1
<1>1. Len(q) \in Nat /\ Len(q) # 0 /\ DOMAIN q = 1..Len(q)
  BY EmptySeq
<1>2. /\ Head(q) = q[1] /\ Head(q) \in S
      /\ Tail(q) \in Seq(S) /\ Len(Tail(q)) = Len(q) - 1
      /\ \A i \in 1..Len(Tail(q)) : Tail(q)[i] = q[i + 1]
  BY HeadTailProperties
<1>3. Tail(q) = <<>> <=> Len(Tail(q)) = 0
  BY <1>2, EmptySeq
<1>4. DOMAIN Tail(q) = 1..Len(Tail(q))
  BY <1>2
<1>. QED  BY <1>1, <1>2, <1>3, <1>4

LEMMA LeastOf ==
    ASSUME NEW T, T \subseteq Nat, T # {}
    PROVE  Min(T) \in T
<1>. DEFINE R == {p \in Nat \X Nat : p[1] < p[2]}
<1>1. IsWellFoundedOn(R, Nat)
  BY NatLessThanWellFounded DEF OpToRel
<1>. HIDE DEF R
<1>2. PICK x \in T : \A y \in T : ~ (<<y, x>> \in R)
  BY <1>1, WFMin
<1>3. ASSUME NEW y \in T PROVE x <= y
  <2>1. x \in Nat /\ y \in Nat /\ <<y, x>> \notin R
    BY <1>2
  <2>2. ~(y < x)
    BY <2>1 DEF R
  <2>. QED  BY <2>1, <2>2
<1>. QED  BY <1>3 DEF Min

LEMMA FreshNumber ==
    ASSUME Held
    PROVE  FreshId \in Nat \ {0} /\ FreshId \notin DOMAIN children
<1>. DEFINE D == DOMAIN children
            U == 1..(Cardinality(D) + 1)
<1>1. IsFiniteSet(D) /\ Cardinality(D) \in Nat
  BY FS_CardinalityType DEF Held
<1>2. IsFiniteSet(U) /\ Cardinality(U) = Cardinality(D) + 1
  BY <1>1, FS_Interval
<1>3. ~(U \subseteq D)
  BY <1>1, <1>2, FS_Subset
<1>4. U \ D \subseteq Nat /\ U \ D # {}
  BY <1>3
<1>5. Min(U \ D) \in U \ D
  BY <1>4, LeastOf
<1>. QED  BY <1>5 DEF FreshId

\* A report of a process that is there is the last one.
LEMMA ReportedUp ==
    ASSUME ProviderTypeOK, ingest' = Append(ingest, "up")
    PROVE  ingest' \in Seq({"up", "down"}) /\ LastReport' = "up"
<1>. DEFINE q == Append(ingest, "up")
<1>1. ingest \in Seq({"up", "down"})
  BY DEF ProviderTypeOK
<1>2. q \in Seq({"up", "down"}) /\ q # <<>> /\ Len(q) = Len(ingest) + 1 /\ q[Len(ingest) + 1] = "up"
  BY <1>1, Appended
<1>3. ingest' = q
  OBVIOUS
<1>. HIDE DEF q
<1>. QED  BY <1>2, <1>3 DEF LastReport

\* What a new process changes.
LEMMA Spawned ==
    ASSUME SessionInv, NEW cursor, NEW m \in Modes, NEW next, Spawn(cursor, m, next)
    PROVE  /\ sessions' \in Nat \ {0} /\ sessions' \notin DOMAIN children
           /\ DOMAIN children' = DOMAIN children \cup {sessions'}
           /\ IsFiniteSet(DOMAIN children')
           /\ children'[sessions'] = Unopened(m)
           /\ \A c \in DOMAIN children : children'[c] = children[c]
           /\ ingest' \in Seq({"up", "down"}) /\ LastReport' = "up"
           /\ job' = [next EXCEPT !.step = "open", !.cursor = cursor, !.childMode = m,
                                  !.child = sessions']
<1>1. FreshId \in Nat \ {0} /\ FreshId \notin DOMAIN children
  BY FreshNumber DEF SessionInv
<1>2. sessions' = FreshId
  BY DEF Spawn
<1>3. /\ DOMAIN children' = DOMAIN children \cup {sessions'}
      /\ children'[sessions'] = Unopened(m)
      /\ \A c \in DOMAIN children : children'[c] = children[c]
  BY <1>1, <1>2 DEF Spawn
<1>4. IsFiniteSet(DOMAIN children')
  BY <1>3, FS_AddElement DEF SessionInv, Held
<1>5. ingest' \in Seq({"up", "down"}) /\ LastReport' = "up"
  BY ReportedUp DEF Spawn, SessionInv
<1>. QED  BY <1>1, <1>2, <1>3, <1>4, <1>5 DEF Spawn

\* What the end of the thread's process, or of any, changes.
LEMMA Killed ==
    ASSUME SessionInv, KillSession
    PROVE  /\ sessions' = 0
           /\ DOMAIN children' = DOMAIN children \ {sessions}
           /\ IsFiniteSet(DOMAIN children')
           /\ \A c \in DOMAIN children' : children'[c] = children[c]
           /\ ingest' \in Seq({"up", "down"})
<1>1. /\ DOMAIN children' = DOMAIN children \ {sessions}
      /\ \A c \in DOMAIN children' : children'[c] = children[c]
  BY DEF KillSession, Restrict
<1>2. IsFiniteSet(DOMAIN children')
  BY <1>1, FS_RemoveElement DEF SessionInv, Held
<1>3. ingest' \in Seq({"up", "down"})
  BY Appended DEF KillSession, SessionInv, ProviderTypeOK
<1>. QED  BY <1>1, <1>2, <1>3 DEF KillSession

LEMMA EventsBounded ==
    ASSUME SessionAssumption, ProviderTypeOK, Count \/ UNCHANGED events
    PROVE  events' \in 0..MaxEvents
<1>1. events \in 0..MaxEvents /\ MaxEvents \in Nat
  BY DEF ProviderTypeOK, SessionAssumption
<1>. QED  BY <1>1 DEF Count

LEMMA GivenUp ==
    ASSUME SessionAssumption, ProviderTypeOK, InOrder, NEW unforced, GiveUp(unforced)
    PROVE  /\ failed' \subseteq Turns /\ lost' \subseteq Turns /\ job' = Idle
           /\ events' \in 0..MaxEvents
<1>1. failed \subseteq Turns /\ lost \subseteq Turns
  BY DEF ProviderTypeOK
<1>2. job.kind = "turn" => job.turn \in Turns
  <2>1. asked \in 0..MaxTurns /\ MaxTurns \in Nat
    BY DEF ProviderTypeOK, SessionAssumption
  <2>2. job.kind = "turn" => job.turn \in 1..asked
    BY DEF InOrder
  <2>. QED  BY <2>1, <2>2 DEF Turns
<1>3. Count \/ UNCHANGED events
  BY DEF GiveUp
<1>. QED  BY <1>1, <1>2, <1>3, EventsBounded DEF GiveUp

LEMMA IdleType ==
    ASSUME SessionInv, SessionAssumption
    PROVE  Idle \in [step : Steps \cup {"idle"}, kind : Kinds \cup {"turn", "none"},
                     turn : 0..MaxTurns, transcript : 0..MaxTurns, mode : Modes,
                     child : Nat, childMode : Modes, cursor : 0..Len(conv), recovering : BOOLEAN]
BY DEF SessionInv, ProviderTypeOK, Idle, Steps, Modes, SessionAssumption

\* The next step of a request that is done with its process.
LEMMA WentOn ==
    ASSUME SessionInv, NEW step \in Steps, NEW m \in Modes,
           job' = [GoOn(step) EXCEPT !.mode = m]
    PROVE  /\ job' \in [step : Steps \cup {"idle"}, kind : Kinds \cup {"turn", "none"},
                     turn : 0..MaxTurns, transcript : 0..MaxTurns, mode : Modes,
                     child : Nat, childMode : Modes, cursor : 0..Len(conv), recovering : BOOLEAN]
           /\ job'.step = step /\ job'.kind = job.kind /\ job'.turn = job.turn
           /\ job'.transcript = job.transcript /\ job'.mode = m /\ job'.recovering = FALSE
<1>. DEFINE T == [step : Steps \cup {"idle"}, kind : Kinds \cup {"turn", "none"},
                  turn : 0..MaxTurns, transcript : 0..MaxTurns, mode : Modes,
                  child : Nat, childMode : Modes, cursor : 0..Len(conv), recovering : BOOLEAN]
            g == GoOn(step)
<1>1. job \in T /\ Len(conv) \in Nat /\ 0 \in Modes
  BY DEF SessionInv, ProviderTypeOK, Modes
<1>2. 0 \in 0..Len(conv)
  BY <1>1
<1>3. /\ g \in T /\ g.step = step /\ g.kind = job.kind /\ g.turn = job.turn
      /\ g.transcript = job.transcript /\ g.mode = job.mode /\ g.recovering = FALSE
  BY <1>1, <1>2 DEF GoOn
<1>. HIDE DEF g
<1>4. /\ job' \in T /\ job'.step = g.step /\ job'.kind = g.kind /\ job'.turn = g.turn
      /\ job'.transcript = g.transcript /\ job'.mode = m /\ job'.recovering = g.recovering
  <2>1. job' = [g EXCEPT !.mode = m]
    BY DEF g
  <2>. QED  BY <1>3, <2>1
<1>. QED  BY <1>3, <1>4 DEF g

LEMMA GoOnKeepsMode ==
    ASSUME SessionInv, NEW step \in Steps
    PROVE  GoOn(step) = [GoOn(step) EXCEPT !.mode = job.mode]
<1>. DEFINE g == GoOn(step)
<1>1. /\ job \in [step : Steps \cup {"idle"}, kind : Kinds \cup {"turn", "none"},
                  turn : 0..MaxTurns, transcript : 0..MaxTurns, mode : Modes,
                  child : Nat, childMode : Modes, cursor : 0..Len(conv), recovering : BOOLEAN]
      /\ Len(conv) \in Nat /\ 0 \in Modes
  BY DEF SessionInv, ProviderTypeOK, Modes
<1>2. /\ g.mode = job.mode
      /\ g \in [step : Steps, kind : Kinds \cup {"turn", "none"},
                turn : 0..MaxTurns, transcript : 0..MaxTurns, mode : Modes,
                child : Nat, childMode : Modes, cursor : Nat, recovering : BOOLEAN]
  BY <1>1 DEF GoOn
<1>. HIDE DEF g
<1>3. g = [g EXCEPT !.mode = job.mode]
  BY <1>2
<1>. QED  BY <1>3 DEF g

\* A request is added to the inbox, or taken from it.
Request == [kind : Kinds \cup {"turn"}, turn : 0..MaxTurns]

LEMMA Added ==
    ASSUME SessionInv, NEW r \in Request, inbox' = Append(inbox, r)
    PROVE  /\ inbox' \in Seq(Request) /\ Len(inbox) \in Nat
           /\ DOMAIN inbox = 1..Len(inbox) /\ DOMAIN inbox' = 1..(Len(inbox) + 1)
           /\ \A i \in 1..Len(inbox) : inbox[i] \in Request /\ inbox'[i] = inbox[i]
           /\ inbox'[Len(inbox) + 1] = r
<1>1. inbox \in Seq(Request)
  BY DEF SessionInv, ProviderTypeOK, Request
<1>. QED  BY <1>1, Appended

LEMMA Removed ==
    ASSUME SessionInv, NEW kind, TakeRequest(kind)
    PROVE  /\ inbox' \in Seq(Request) /\ Len(inbox) \in Nat \ {0}
           /\ DOMAIN inbox = 1..Len(inbox) /\ DOMAIN inbox' = 1..(Len(inbox) - 1)
           /\ \A i \in 1..Len(inbox) : inbox[i] \in Request
           /\ \A i \in 1..(Len(inbox) - 1) : inbox'[i] = inbox[i + 1]
           /\ Head(inbox) = inbox[1] /\ Head(inbox) \in Request
           /\ Head(inbox).kind = kind /\ job = Idle
<1>1. inbox \in Seq(Request) /\ inbox # <<>> /\ inbox' = Tail(inbox)
  BY DEF SessionInv, ProviderTypeOK, Request, TakeRequest
<1>2. /\ Len(inbox) \in Nat \ {0} /\ DOMAIN inbox = 1..Len(inbox)
      /\ \A i \in 1..Len(inbox) : inbox[i] \in Request
      /\ Head(inbox) = inbox[1] /\ Head(inbox) \in Request
      /\ Tail(inbox) \in Seq(Request) /\ DOMAIN Tail(inbox) = 1..(Len(inbox) - 1)
      /\ \A i \in 1..(Len(inbox) - 1) : Tail(inbox)[i] = inbox[i + 1]
  BY <1>1, Taken
<1>. QED  BY <1>1, <1>2 DEF TakeRequest

LEMMA AskTurnInv ==
    ASSUME SessionInv, SessionAssumption, AskTurn
    PROVE  SessionInv'
<1>. USE DEF SessionInv, thread, session, processes, provider, reports, answers
<1>. DEFINE r == [kind |-> "turn", turn |-> asked + 1]
<1>0. r \in Request /\ inbox' = Append(inbox, r)
  BY DEF AskTurn, SessionAssumption, ProviderTypeOK, Request
<1>7. /\ inbox' \in Seq(Request) /\ Len(inbox) \in Nat
      /\ DOMAIN inbox = 1..Len(inbox) /\ DOMAIN inbox' = 1..(Len(inbox) + 1)
      /\ \A i \in 1..Len(inbox) : inbox[i] \in Request /\ inbox'[i] = inbox[i]
      /\ inbox'[Len(inbox) + 1] = r
  BY <1>0, Added
<1>1. ProviderTypeOK'
  BY SMTT(30), <1>7 DEF ProviderTypeOK, AskTurn, SessionAssumption, Turns, Request
<1>2. Held'
  BY DEF Held, Opening, ProviderTypeOK, AskTurn
<1>3. Shown'
  BY DEF Shown, LastReport, ProviderTypeOK, AskTurn
<1>4. ModeKept'
  BY DEF ModeKept, Opening, Held, ProviderTypeOK, AskTurn
<1>5. InOrder'
  <2>0. /\ asked \in Nat /\ asked' = asked + 1 /\ sent' = sent /\ job' = job
        /\ sent \subseteq 1..asked
        /\ job.kind = "turn" => job.turn \in 1..asked
    BY SessionAssumption DEF SessionAssumption, ProviderTypeOK, InOrder, AskTurn
  <2>1. ASSUME NEW i \in DOMAIN inbox', inbox'[i].kind = "turn"
        PROVE  /\ inbox'[i].turn \in 1..asked'
               /\ \A t \in sent' : t < inbox'[i].turn
               /\ job'.kind = "turn" => job'.turn < inbox'[i].turn
    <3>1. CASE i = Len(inbox) + 1
      <4>1. inbox'[i].turn = asked + 1
        BY <1>7, <3>1
      <4>2. asked + 1 \in 1..asked' /\ \A t \in 1..asked : t < asked + 1
        BY <2>0
      <4>. QED  BY <2>0, <4>1, <4>2
    <3>2. CASE i \in 1..Len(inbox)
      <4>1. inbox'[i] = inbox[i] /\ inbox[i].kind = "turn" /\ i \in DOMAIN inbox
        BY <1>7, <2>1, <3>2
      <4>2. /\ inbox[i].turn \in 1..asked /\ \A t \in sent : t < inbox[i].turn
            /\ job.kind = "turn" => job.turn < inbox[i].turn
        BY <4>1 DEF InOrder
      <4>. QED  BY <2>0, <4>1, <4>2
    <3>. QED  BY <1>7, <3>1, <3>2
  <2>2. ASSUME NEW i \in DOMAIN inbox', NEW j \in DOMAIN inbox',
               inbox'[i].kind = "turn", inbox'[j].kind = "turn", i < j
        PROVE  inbox'[i].turn < inbox'[j].turn
    <3>1. i \in DOMAIN inbox /\ inbox'[i] = inbox[i]
      BY <1>7, <2>2
    <3>2. CASE j = Len(inbox) + 1
      <4>1. inbox'[j].turn = asked + 1 /\ inbox[i].turn \in 1..asked
        BY <1>7, <2>2, <3>1, <3>2 DEF InOrder
      <4>. QED  BY <2>0, <3>1, <4>1
    <3>3. CASE j \in 1..Len(inbox)
      <4>1. j \in DOMAIN inbox /\ inbox'[j] = inbox[j]
        BY <1>7, <3>3
      <4>. QED  BY <2>2, <3>1, <4>1 DEF InOrder
    <3>. QED  BY <1>7, <3>2, <3>3
  <2>3. /\ sent' \subseteq 1..asked'
        /\ job'.transcript > 0 => sent' \subseteq 1..job'.transcript
        /\ job'.kind = "turn" => job'.turn \in 1..asked' /\ \A t \in sent' : t < job'.turn
    <3>1. \A n \in 1..asked : n \in 1..(asked + 1)
      BY <2>0
    <3>. QED  BY <2>0, <3>1 DEF InOrder
  <2>. QED  BY <2>1, <2>2, <2>3 DEF InOrder
<1>6. Known'
  BY DEF Known, Astray, Knows, Rebuilding, InOrder, Held, ProviderTypeOK, AskTurn
<1>. QED  BY <1>1, <1>2, <1>3, <1>4, <1>5, <1>6

LEMMA AskInv ==
    ASSUME SessionInv, SessionAssumption, NEW kind \in Kinds, Ask(kind)
    PROVE  SessionInv'
<1>. USE DEF SessionInv, thread, session, processes, provider, reports, answers
<1>. DEFINE r == [kind |-> kind, turn |-> 0]
<1>0. r \in Request /\ inbox' = Append(inbox, r)
  BY DEF Ask, SessionAssumption, ProviderTypeOK, Request
<1>7. /\ inbox' \in Seq(Request) /\ Len(inbox) \in Nat
      /\ DOMAIN inbox = 1..Len(inbox) /\ DOMAIN inbox' = 1..(Len(inbox) + 1)
      /\ \A i \in 1..Len(inbox) : inbox[i] \in Request /\ inbox'[i] = inbox[i]
      /\ inbox'[Len(inbox) + 1] = r
  BY <1>0, Added
<1>1. ProviderTypeOK'
  <2>1. mode' \in Modes /\ events' \in 0..MaxEvents
    BY SMTT(30) DEF ProviderTypeOK, Ask, Count, SessionAssumption, Modes
  <2>. QED  BY <1>7, <2>1 DEF ProviderTypeOK, Ask, Request
<1>2. Held'
  BY DEF Held, Opening, ProviderTypeOK, Ask, Count
<1>3. Shown'
  BY DEF Shown, LastReport, ProviderTypeOK, Ask, Count
<1>4. ModeKept'
  BY DEF ModeKept, Opening, Held, ProviderTypeOK, Ask, Count
<1>5. InOrder'
  <2>1. ASSUME NEW i \in DOMAIN inbox', inbox'[i].kind = "turn"
        PROVE  /\ inbox'[i].turn \in 1..asked'
               /\ \A t \in sent' : t < inbox'[i].turn
               /\ job'.kind = "turn" => job'.turn < inbox'[i].turn
    <3>1. CASE i = Len(inbox) + 1
      BY <1>7, <2>1, <3>1 DEF InOrder, ProviderTypeOK, Ask
    <3>2. CASE i \in 1..Len(inbox)
      <4>1. inbox'[i] = inbox[i] /\ inbox[i].kind = "turn" /\ i \in DOMAIN inbox
        BY <1>7, <2>1, <3>2
      <4>. QED  BY <4>1 DEF InOrder, ProviderTypeOK, Ask
    <3>. QED  BY <1>7, <3>1, <3>2
  <2>2. ASSUME NEW i \in DOMAIN inbox', NEW j \in DOMAIN inbox',
               inbox'[i].kind = "turn", inbox'[j].kind = "turn", i < j
        PROVE  inbox'[i].turn < inbox'[j].turn
    <3>1. i \in DOMAIN inbox /\ inbox'[i] = inbox[i]
      BY <1>7, <2>2
    <3>2. CASE j = Len(inbox) + 1
      BY <1>7, <2>2, <3>1, <3>2 DEF InOrder, ProviderTypeOK, Ask
    <3>3. CASE j \in 1..Len(inbox)
      <4>1. j \in DOMAIN inbox /\ inbox'[j] = inbox[j]
        BY <1>7, <3>3
      <4>. QED  BY <2>2, <3>1, <4>1 DEF InOrder
    <3>. QED  BY <1>7, <3>2, <3>3
  <2>. QED  BY <1>7, <2>1, <2>2 DEF InOrder, ProviderTypeOK, Ask, SessionAssumption, Request
<1>6. Known'
  BY DEF Known, Astray, Knows, Rebuilding, InOrder, Held, ProviderTypeOK, Ask, Count
<1>. QED  BY <1>1, <1>2, <1>3, <1>4, <1>5, <1>6

LEMMA TakeTurnInv ==
    ASSUME SessionInv, SessionAssumption, TakeTurn
    PROVE  SessionInv'
<1>. USE DEF SessionInv, thread, session, processes, provider, reports, answers
<1>7. /\ inbox' \in Seq(Request) /\ Len(inbox) \in Nat \ {0}
      /\ DOMAIN inbox = 1..Len(inbox) /\ DOMAIN inbox' = 1..(Len(inbox) - 1)
      /\ \A i \in 1..Len(inbox) : inbox[i] \in Request
      /\ \A i \in 1..(Len(inbox) - 1) : inbox'[i] = inbox[i + 1]
      /\ Head(inbox) = inbox[1] /\ Head(inbox) \in Request
      /\ Head(inbox).kind = "turn" /\ job = Idle
  BY Removed DEF TakeTurn, TakeStop, TakeAbout
<1>1. ProviderTypeOK'
  <2>1. job' \in [step : Steps \cup {"idle"}, kind : Kinds \cup {"turn", "none"},
                  turn : 0..MaxTurns, transcript : 0..MaxTurns, mode : Modes,
                  child : Nat, childMode : Modes, cursor : 0..Len(conv), recovering : BOOLEAN]
    BY <1>7 DEF ProviderTypeOK, TakeTurn, Idle, Steps, Modes, Request
  <2>. QED  BY ZenonT(40), <1>7, <2>1 DEF ProviderTypeOK, TakeTurn, Request
<1>2. Held'
  BY <1>7 DEF Held, Opening, ProviderTypeOK, TakeTurn, Idle
<1>3. Shown'
  BY DEF Shown, LastReport, ProviderTypeOK, TakeTurn, Idle
<1>4. ModeKept'
  BY <1>7 DEF ModeKept, Opening, Held, ProviderTypeOK, TakeTurn, Idle
<1>5. InOrder'
  <2>1. ASSUME NEW i \in DOMAIN inbox', inbox'[i].kind = "turn"
        PROVE  /\ inbox'[i].turn \in 1..asked'
               /\ \A t \in sent' : t < inbox'[i].turn
               /\ job'.kind = "turn" => job'.turn < inbox'[i].turn
    <3>1. i + 1 \in DOMAIN inbox /\ 1 \in DOMAIN inbox /\ inbox'[i] = inbox[i + 1] /\ i > 0
      BY <1>7
    <3>2. job'.turn = inbox[1].turn /\ inbox[1].kind = "turn" /\ sent' = sent /\ asked' = asked
      BY <1>7 DEF TakeTurn, Idle
    <3>3. inbox[i + 1].kind = "turn" /\ 1 < i + 1
      BY <1>7, <2>1, <3>1
    <3>. QED  BY <3>1, <3>2, <3>3 DEF InOrder
  <2>2. ASSUME NEW i \in DOMAIN inbox', NEW j \in DOMAIN inbox',
               inbox'[i].kind = "turn", inbox'[j].kind = "turn", i < j
        PROVE  inbox'[i].turn < inbox'[j].turn
    <3>1. /\ i + 1 \in DOMAIN inbox /\ inbox'[i] = inbox[i + 1]
          /\ j + 1 \in DOMAIN inbox /\ inbox'[j] = inbox[j + 1] /\ i + 1 < j + 1
      BY <1>7, <2>2
    <3>. QED  BY <2>2, <3>1 DEF InOrder
  <2>3. Head(inbox).turn \in 1..asked /\ \A t \in sent : t < Head(inbox).turn
    BY <1>7 DEF InOrder
  <2>4. /\ job'.turn = Head(inbox).turn /\ job'.transcript \in {0, asked}
        /\ sent' = sent /\ asked' = asked
    BY DEF TakeTurn, Idle
  <2>5. sent \subseteq 1..asked
    BY DEF InOrder
  <2>6. /\ sent' \subseteq 1..asked'
        /\ job'.transcript > 0 => sent' \subseteq 1..job'.transcript
        /\ job'.turn \in 1..asked' /\ \A t \in sent' : t < job'.turn
    BY <2>3, <2>4, <2>5
  <2>. QED  BY <2>1, <2>2, <2>6 DEF InOrder
<1>6. Known'
  <2>1. Head(inbox).turn \in 1..asked /\ \A t \in sent : t < Head(inbox).turn
    BY <1>7 DEF InOrder
  <2>2. sent = {} \/ asked > 1
    BY <2>1 DEF InOrder, ProviderTypeOK
  <2>. QED  BY <1>7, <2>1, <2>2 DEF Known, Astray, Knows, Rebuilding, Held, ProviderTypeOK, TakeTurn, Idle
<1>. QED  BY <1>1, <1>2, <1>3, <1>4, <1>5, <1>6

LEMMA TakeAboutInv ==
    ASSUME SessionInv, SessionAssumption, NEW kind \in Kinds \ {"stop"}, NEW step \in {"ensure", "route"}, TakeAbout(kind, step), step = "route" => kind # "mode", step = "ensure" => kind = "mode"
    PROVE  SessionInv'
<1>. USE DEF SessionInv, thread, session, processes, provider, reports, answers
<1>7. /\ inbox' \in Seq(Request) /\ Len(inbox) \in Nat \ {0}
      /\ DOMAIN inbox = 1..Len(inbox) /\ DOMAIN inbox' = 1..(Len(inbox) - 1)
      /\ \A i \in 1..Len(inbox) : inbox[i] \in Request
      /\ \A i \in 1..(Len(inbox) - 1) : inbox'[i] = inbox[i + 1]
      /\ Head(inbox) = inbox[1] /\ Head(inbox) \in Request
      /\ Head(inbox).kind = kind /\ job = Idle
  BY Removed DEF TakeTurn, TakeStop, TakeAbout
<1>1. ProviderTypeOK'
  <2>1. job' \in [step : Steps \cup {"idle"}, kind : Kinds \cup {"turn", "none"},
                  turn : 0..MaxTurns, transcript : 0..MaxTurns, mode : Modes,
                  child : Nat, childMode : Modes, cursor : 0..Len(conv), recovering : BOOLEAN]
    BY <1>7 DEF ProviderTypeOK, TakeAbout, Idle, Steps, Modes, Request
  <2>. QED  BY <1>7, <2>1 DEF ProviderTypeOK, TakeAbout, Request
<1>2. Held'
  BY <1>7 DEF Held, Opening, ProviderTypeOK, TakeAbout, Idle
<1>3. Shown'
  BY DEF Shown, LastReport, ProviderTypeOK, TakeAbout, Idle
<1>4. ModeKept'
  BY <1>7 DEF ModeKept, Opening, Held, ProviderTypeOK, TakeAbout, Idle, SessionAssumption
<1>5. InOrder'
  <2>1. ASSUME NEW i \in DOMAIN inbox', inbox'[i].kind = "turn"
        PROVE  /\ inbox'[i].turn \in 1..asked'
               /\ \A t \in sent' : t < inbox'[i].turn
               /\ job'.kind = "turn" => job'.turn < inbox'[i].turn
    <3>1. i + 1 \in DOMAIN inbox /\ 1 \in DOMAIN inbox /\ inbox'[i] = inbox[i + 1] /\ i > 0
      BY <1>7
    <3>. QED  BY <1>7, <2>1, <3>1 DEF InOrder, TakeAbout, Idle, SessionAssumption
  <2>2. ASSUME NEW i \in DOMAIN inbox', NEW j \in DOMAIN inbox',
               inbox'[i].kind = "turn", inbox'[j].kind = "turn", i < j
        PROVE  inbox'[i].turn < inbox'[j].turn
    <3>1. /\ i + 1 \in DOMAIN inbox /\ inbox'[i] = inbox[i + 1]
          /\ j + 1 \in DOMAIN inbox /\ inbox'[j] = inbox[j + 1] /\ i + 1 < j + 1
      BY <1>7, <2>2
    <3>. QED  BY <2>2, <3>1 DEF InOrder
  <2>. QED  BY <1>7, <2>1, <2>2 DEF InOrder, ProviderTypeOK, TakeAbout, Idle, SessionAssumption, Request
<1>6. Known'
  BY <1>7 DEF Known, Astray, Knows, Rebuilding, Held, ProviderTypeOK, TakeAbout, Idle, SessionAssumption
<1>. QED  BY <1>1, <1>2, <1>3, <1>4, <1>5, <1>6

LEMMA BindInv ==
    ASSUME SessionInv, SessionAssumption, Bind
    PROVE  SessionInv'
<1>. USE DEF SessionInv, thread, session, processes, provider, reports, answers
<1>1. ProviderTypeOK'
  <2>1. CASE job.kind = "turn"
    <3>1. /\ job' = [GoOn("route") EXCEPT !.mode = job.mode] /\ "route" \in Steps
          /\ job.mode \in Modes
      BY <2>1 DEF Bind, AfterSession, Steps, ProviderTypeOK
    <3>2. job' \in [step : Steps \cup {"idle"}, kind : Kinds \cup {"turn", "none"},
                  turn : 0..MaxTurns, transcript : 0..MaxTurns, mode : Modes,
                  child : Nat, childMode : Modes, cursor : 0..Len(conv), recovering : BOOLEAN]
      BY <3>1, WentOn
    <3>. QED  BY ZenonT(40), <3>2 DEF ProviderTypeOK, Bind
  <2>2. CASE job.kind # "turn"
    <3>1. job' = Idle
      BY <2>2 DEF Bind, AfterSession
    <3>. QED  BY <3>1, IdleType DEF ProviderTypeOK, Bind
  <2>. QED  BY <2>1, <2>2
<1>2. Held'
  BY DEF Held, Opening, ProviderTypeOK, Bind, AfterSession, GoOn, Idle
<1>3. Shown'
  BY DEF Shown, LastReport, ProviderTypeOK, Bind, AfterSession, GoOn, Idle
<1>4. ModeKept'
  BY DEF ModeKept, Opening, Held, ProviderTypeOK, Bind, AfterSession, GoOn, Idle
<1>5. InOrder'
  BY DEF InOrder, ProviderTypeOK, Bind, AfterSession, GoOn, Idle
<1>6. Known'
  BY DEF Known, Astray, Knows, Rebuilding, InOrder, Held, ProviderTypeOK, Bind, AfterSession, GoOn, Idle
<1>. QED  BY <1>1, <1>2, <1>3, <1>4, <1>5, <1>6

\* What a turn that is sent changes: the conversation of the process gets it and
\* what is kept of the transcript, and is bound unless this cannot be persisted.
LEMMA TurnSent ==
    ASSUME SessionInv, SessionAssumption, Send, job.kind = "turn"
    PROVE  \E p \in 1..Len(conv), kept \in SUBSET Turns :
              /\ p = children[sessions].cursor /\ sessions # 0
              /\ DOMAIN conv' = 1..Len(conv) /\ Len(conv) \in Nat
              /\ conv'[p] = conv[p] \cup {job.turn} \cup kept
              /\ \A q \in 1..Len(conv) : q # p => conv'[q] = conv[q]
              /\ (gaps' = gaps /\ kept = 1..job.transcript) \/ gaps' = gaps \cup {"context"}
              /\ sent' = sent \cup {job.turn} /\ job.turn \in Turns
              /\ binding'.cursor \in {binding.cursor, p} /\ binding'.mode = binding.mode
              /\ binding' \in [cursor : 0..Len(conv), mode : Modes]
              /\ job' = Idle /\ failed' \subseteq Turns /\ lost' \subseteq Turns
              /\ events' \in 0..MaxEvents
              /\ UNCHANGED <<thread, session, inbox, processes, reports>>
<1>. USE DEF SessionInv
<1>. DEFINE p == children[sessions].cursor
<1>1. /\ job.step = "send" /\ sessions # 0 /\ SendTurn
      /\ UNCHANGED <<thread, session, inbox, processes, reports>>
  BY DEF Send
<1>2. /\ p \in 1..Len(conv) /\ DOMAIN conv = 1..Len(conv) /\ Len(conv) \in Nat
      /\ job.turn \in Turns /\ job.transcript \in 0..MaxTurns /\ MaxTurns \in Nat
  BY SMTT(30), <1>1 DEF Held, ProviderTypeOK, InOrder, Turns, SessionAssumption
<1>3. PICK kept \in Kept :
         /\ conv' = [conv EXCEPT ![p] = @ \cup {job.turn} \cup kept]
         /\ gaps' = IF kept = 1..job.transcript THEN gaps ELSE gaps \cup {"context"}
  BY <1>1 DEF SendTurn
<1>4. kept \in SUBSET Turns
  <2>1. PICK from \in 1..(job.transcript + 1) : kept = from..job.transcript
    BY <1>3 DEF Kept
  <2>2. \A n \in from..job.transcript : n \in 1..MaxTurns
    BY <1>2, <2>1
  <2>. QED  BY <2>1, <2>2 DEF Turns
<1>5. /\ DOMAIN conv' = 1..Len(conv)
      /\ conv'[p] = conv[p] \cup {job.turn} \cup kept
      /\ \A q \in 1..Len(conv) : q # p => conv'[q] = conv[q]
  BY <1>2, <1>3
<1>6. /\ binding'.cursor \in {binding.cursor, p} /\ binding'.mode = binding.mode
      /\ binding' \in [cursor : 0..Len(conv), mode : Modes]
      /\ job' = Idle /\ failed' \subseteq Turns /\ lost' \subseteq Turns
      /\ events' \in 0..MaxEvents
  <2>1. binding \in [cursor : 0..Len(conv), mode : Modes]
    BY DEF ProviderTypeOK
  <2>2. CASE /\ binding' = [binding EXCEPT !.cursor = p] /\ job' = Idle
             /\ UNCHANGED <<failed, lost, events>>
    <3>1. binding'.cursor = p /\ binding'.mode = binding.mode
      BY <2>1, <2>2
    <3>2. binding' \in [cursor : 0..Len(conv), mode : Modes]
      BY <1>2, <2>1, <2>2
    <3>. QED  BY <2>2, <3>1, <3>2 DEF ProviderTypeOK
  <2>3. CASE GiveUp(TRUE) /\ UNCHANGED binding
    BY <2>1, <2>3, GivenUp
  <2>. QED  BY <1>1, <2>2, <2>3 DEF SendTurn
<1>7. sent' = sent \cup {job.turn}
  BY <1>1 DEF SendTurn
<1>8. (gaps' = gaps /\ kept = 1..job.transcript) \/ gaps' = gaps \cup {"context"}
  BY <1>3
<1>. HIDE DEF p
<1>. USE <1>2, <1>4
<1>. WITNESS p \in 1..Len(conv), kept \in SUBSET Turns
<1>. QED  BY <1>1, <1>2, <1>5, <1>6, <1>7, <1>8 DEF p

LEMMA SendInv ==
    ASSUME SessionInv, SessionAssumption, Send
    PROVE  SessionInv'
<1>. USE DEF SessionInv, thread, session, processes, provider, reports, answers
<1>1. CASE job.kind # "turn"
  <2>1. /\ job' = Idle
        /\ UNCHANGED <<conv, gaps, sent, binding, failed, lost, events, thread, session, inbox,
                       processes, reports>>
    BY <1>1 DEF Send
  <2>2. ProviderTypeOK'
    BY <2>1, IdleType DEF ProviderTypeOK
  <2>3. Held'
    BY <2>1 DEF Held, Opening, Send, Idle
  <2>4. Shown'
    BY <2>1 DEF Shown, LastReport
  <2>5. ModeKept'
    BY <2>1 DEF ModeKept, Opening, Send, Idle
  <2>6. InOrder'
    BY <2>1 DEF InOrder, Idle
  <2>7. Known'
    BY <1>1, <2>1 DEF Known, Astray, Knows, Rebuilding, Held, Send, Idle
  <2>. QED  BY <2>2, <2>3, <2>4, <2>5, <2>6, <2>7
<1>2. CASE job.kind = "turn"
  <2>1. PICK p \in 1..Len(conv), kept \in SUBSET Turns :
              /\ p = children[sessions].cursor /\ sessions # 0
              /\ DOMAIN conv' = 1..Len(conv) /\ Len(conv) \in Nat
              /\ conv'[p] = conv[p] \cup {job.turn} \cup kept
              /\ \A q \in 1..Len(conv) : q # p => conv'[q] = conv[q]
              /\ (gaps' = gaps /\ kept = 1..job.transcript) \/ gaps' = gaps \cup {"context"}
              /\ sent' = sent \cup {job.turn} /\ job.turn \in Turns
              /\ binding'.cursor \in {binding.cursor, p} /\ binding'.mode = binding.mode
              /\ binding' \in [cursor : 0..Len(conv), mode : Modes]
              /\ job' = Idle /\ failed' \subseteq Turns /\ lost' \subseteq Turns
              /\ events' \in 0..MaxEvents
              /\ UNCHANGED <<thread, session, inbox, processes, reports>>
    BY <1>2, TurnSent
  <2>2. job.step = "send" /\ binding.cursor # 0
    BY DEF Send, Held
  <2>3. ProviderTypeOK'
    <3>1. conv' \in Seq(SUBSET Turns) /\ Len(conv') = Len(conv)
      <4>1. ASSUME NEW q \in 1..Len(conv) PROVE conv'[q] \in SUBSET Turns
        <5>1. conv[q] \in SUBSET Turns
          BY SMTT(30), <2>1 DEF ProviderTypeOK
        <5>2. conv'[q] = conv[q] \/ conv'[q] = conv[q] \cup {job.turn} \cup kept
          BY <2>1
        <5>. QED  BY <2>1, <5>1, <5>2
      <4>2. conv' = [q \in 1..Len(conv) |-> conv'[q]]
        BY <1>2, <2>1 DEF Send, SendTurn
      <4>3. conv' \in [1..Len(conv) -> SUBSET Turns]
        BY <4>1, <4>2
      <4>. QED  BY <2>1, <4>3
    <3>2. sent' \subseteq Turns /\ gaps' \subseteq {"context", "mode"}
      BY <2>1 DEF ProviderTypeOK
    <3>. QED  BY SMTT(30), <2>1, <3>1, <3>2, IdleType DEF ProviderTypeOK
  <2>4. Held'
    BY <2>1, <2>2 DEF Held, Opening, Idle
  <2>5. Shown'
    BY <2>1 DEF Shown, LastReport
  <2>6. ModeKept'
    <3>1. gaps \subseteq gaps' /\ ("mode" \in gaps' => "mode" \in gaps)
      BY <2>1
    <3>. QED  BY <2>1, <2>2, <3>1 DEF ModeKept, Opening, Idle
  <2>7. InOrder'
    <3>1. sent' \subseteq 1..asked
      BY <1>2, <2>1 DEF InOrder
    <3>2. \A i \in DOMAIN inbox, t \in sent' : inbox[i].kind = "turn" => t < inbox[i].turn
      BY <1>2, <2>1 DEF InOrder
    <3>. QED  BY <2>1, <3>1, <3>2 DEF InOrder, Idle
  <2>8. Known'
    <3>1. ASSUME "context" \notin gaps' PROVE sent' \subseteq conv'[p] /\ binding'.cursor = p
      <4>1. "context" \notin gaps /\ kept = 1..job.transcript
        BY <2>1, <3>1
      <4>2. p = binding.cursor
        BY <2>1, <2>2, <4>1 DEF Known, Astray
      <4>3. sent \subseteq conv[p] \cup kept
        BY <2>2, <4>1, <4>2 DEF Known, Knows, Rebuilding, InOrder
      <4>. QED  BY <2>1, <4>2, <4>3
    <3>. QED  BY <2>1, <3>1 DEF Known, Astray, Knows, Rebuilding, Idle
  <2>. QED  BY <2>3, <2>4, <2>5, <2>6, <2>7, <2>8
<1>. QED  BY <1>1, <1>2

LEMMA StepFailsInv ==
    ASSUME SessionInv, SessionAssumption, StepFails
    PROVE  SessionInv'
<1>. USE DEF SessionInv, thread, session, processes, provider, reports, answers
<1>0. /\ job.step \in {"persist", "bind", "route", "send"}
      /\ UNCHANGED <<thread, session, inbox, processes, provider, reports, sent>>
      /\ failed' \subseteq Turns /\ lost' \subseteq Turns /\ job' = Idle
      /\ events' \in 0..MaxEvents
  BY GivenUp DEF StepFails
<1>g. /\ gaps' \subseteq {"context", "mode"} /\ gaps \subseteq gaps'
      /\ "mode" \notin gaps' => ~(job.step \in {"persist", "bind"} /\ ~job.recovering)
      /\ "context" \notin gaps' => ~(job.transcript > 0)
  BY DEF StepFails, ProviderTypeOK
<1>1. ProviderTypeOK'
  BY ZenonT(40), <1>0, <1>g, IdleType DEF ProviderTypeOK
<1>2. Held'
  BY <1>0 DEF Held, Opening, Idle
<1>3. Shown'
  BY <1>0 DEF Shown, LastReport
<1>4. ModeKept'
  <2>1. ASSUME "mode" \notin gaps', sessions # 0 PROVE children[sessions].mode = sessionMode
    <3>1. CASE job.step = "persist"
      <4>1. "mode" \notin gaps /\ job.recovering /\ sessions \in DOMAIN children
        BY <1>g, <2>1, <3>1 DEF ProviderTypeOK
      <4>2. children[sessions].mode = job.childMode
        BY <2>1, <3>1, <4>1 DEF Held, Opening
      <4>. QED  BY <4>1, <4>2 DEF ModeKept
    <3>2. CASE job.step \in {"route", "send"}
      BY <1>g, <2>1, <3>2 DEF ModeKept, Opening
    <3>3. CASE job.step = "bind"
      BY <1>g, <2>1, <3>3 DEF Held
    <3>. QED  BY <1>0, <3>1, <3>2, <3>3
  <2>2. ASSUME "mode" \notin gaps', binding.cursor # 0 PROVE binding.mode = sessionMode
    BY <1>g, <1>0, <2>2 DEF ModeKept, Held
  <2>. QED  BY <1>0, <1>g, <2>1, <2>2 DEF ModeKept, Opening, Idle
<1>5. InOrder'
  BY <1>0 DEF InOrder, Idle
<1>6. Known'
  <2>1. ASSUME "context" \notin gaps', sessions # 0 PROVE Astray(children[sessions].cursor)
    <3>1. "context" \notin gaps /\ job.transcript = 0
      BY <1>g, <2>1 DEF ProviderTypeOK
    <3>2. CASE job.step = "persist"
      <4>1. sessions \in DOMAIN children
        BY <2>1 DEF ProviderTypeOK
      <4>2. children[sessions].cursor = job.cursor
        BY <2>1, <3>2, <4>1 DEF Held, Opening
      <4>. QED  BY <3>1, <3>2, <4>2 DEF Known
    <3>3. CASE job.step # "persist"
      BY <1>0, <2>1, <3>1, <3>3 DEF Known
    <3>. QED  BY <3>2, <3>3
  <2>2. ASSUME "context" \notin gaps', binding.cursor # 0 PROVE Knows(binding.cursor)
    BY <1>g, <2>2 DEF Known, Rebuilding
  <2>3. /\ job'.step = "idle" /\ sent' = sent /\ conv' = conv /\ binding' = binding
        /\ sessions' = sessions /\ children' = children
    BY <1>0 DEF Idle
  <2>. QED  BY <2>1, <2>2, <2>3 DEF Known, Astray, Knows
<1>. QED  BY <1>1, <1>2, <1>3, <1>4, <1>5, <1>6

LEMMA IngestReadInv ==
    ASSUME SessionInv, SessionAssumption, IngestRead
    PROVE  SessionInv'
<1>. USE DEF SessionInv, thread, session, processes, provider, reports, answers
<1>0. /\ Len(ingest) \in Nat \ {0} /\ DOMAIN ingest = 1..Len(ingest)
      /\ Head(ingest) = ingest[1] /\ Head(ingest) \in {"up", "down"}
      /\ ingest' \in Seq({"up", "down"}) /\ Len(ingest') = Len(ingest) - 1
      /\ \A i \in 1..(Len(ingest) - 1) : ingest'[i] = ingest[i + 1]
      /\ ingest' = <<>> <=> Len(ingest) = 1
  <2>1. ingest \in Seq({"up", "down"}) /\ ingest # <<>> /\ ingest' = Tail(ingest)
    BY DEF IngestRead, ProviderTypeOK
  <2>2. /\ Len(ingest) \in Nat \ {0} /\ DOMAIN ingest = 1..Len(ingest)
        /\ Head(ingest) = ingest[1] /\ Head(ingest) \in {"up", "down"}
        /\ Tail(ingest) \in Seq({"up", "down"}) /\ Len(Tail(ingest)) = Len(ingest) - 1
        /\ \A i \in 1..(Len(ingest) - 1) : Tail(ingest)[i] = ingest[i + 1]
        /\ Tail(ingest) = <<>> <=> Len(ingest) = 1
    BY <2>1, Taken
  <2>. QED  BY <2>1, <2>2
<1>1. ProviderTypeOK'
  BY <1>0 DEF ProviderTypeOK, IngestRead
<1>2. Held'
  BY DEF Held, Opening, ProviderTypeOK, IngestRead, NoReport
<1>3. Shown'
  <2>1. CASE Len(ingest) = 1
    BY <1>0, <2>1 DEF Shown, LastReport, IngestRead
  <2>2. CASE Len(ingest) # 1
    <3>1. Len(ingest') \in 1..(Len(ingest) - 1) /\ Len(ingest') + 1 = Len(ingest)
      BY <1>0, <2>2
    <3>2. ingest'[Len(ingest')] = ingest[Len(ingest)]
      BY <1>0, <3>1
    <3>. QED  BY <1>0, <2>2, <3>2 DEF Shown, LastReport, IngestRead
  <2>. QED  BY <2>1, <2>2
<1>4. ModeKept'
  BY DEF ModeKept, Opening, Held, ProviderTypeOK, IngestRead, NoReport
<1>5. InOrder'
  BY DEF InOrder, ProviderTypeOK, IngestRead, NoReport
<1>6. Known'
  BY DEF Known, Astray, Knows, Rebuilding, InOrder, Held, ProviderTypeOK, IngestRead, NoReport
<1>. QED  BY <1>1, <1>2, <1>3, <1>4, <1>5, <1>6

LEMMA IngestRecordInv ==
    ASSUME SessionInv, SessionAssumption, IngestRecord
    PROVE  SessionInv'
<1>. USE DEF SessionInv, thread, session, processes, provider, reports, answers
<1>1. ProviderTypeOK'
  <2>1. sessionMode' \in Modes /\ NoReport \in [report : {"up", "down", "none"}, mode : Modes]
    BY DEF ProviderTypeOK, IngestRecord, NoReport, Modes
  <2>. QED  BY <2>1 DEF ProviderTypeOK, IngestRecord
<1>2. Held'
  BY DEF Held, Opening, ProviderTypeOK, IngestRecord, NoReport
<1>3. Shown'
  <2>1. ingest' = ingest /\ sessions' = sessions /\ ingesting' = NoReport /\ ingesting # NoReport
    BY DEF IngestRecord
  <2>2. CASE ingest = <<>>
    BY <2>1, <2>2 DEF Shown, LastReport, IngestRecord
  <2>3. CASE ingest # <<>>
    BY <2>1, <2>3 DEF Shown, LastReport
  <2>. QED  BY <2>2, <2>3
<1>4. ModeKept'
  BY DEF ModeKept, Opening, Held, ProviderTypeOK, IngestRecord, NoReport
<1>5. InOrder'
  BY DEF InOrder, ProviderTypeOK, IngestRecord, NoReport
<1>6. Known'
  BY DEF Known, Astray, Knows, Rebuilding, InOrder, Held, ProviderTypeOK, IngestRecord, NoReport
<1>. QED  BY <1>1, <1>2, <1>3, <1>4, <1>5, <1>6

LEMMA CrashInv ==
    ASSUME SessionInv, SessionAssumption, Crash
    PROVE  SessionInv'
<1>. USE DEF SessionInv, thread, session, processes, provider, reports, answers
<1>0. DOMAIN children' = {} /\ sessions' = 0 /\ inbox' = <<>> /\ DOMAIN inbox' = {}
      /\ IsFiniteSet(DOMAIN children')
  BY FS_EmptySet DEF Crash
<1>1. ProviderTypeOK'
  <2>0. /\ events' \in 0..MaxEvents /\ lost' \subseteq Turns /\ gaps' \subseteq {"context", "mode"}
        /\ inbox' \in Seq([kind : Kinds \cup {"turn"}, turn : 0..MaxTurns])
        /\ ingest' \in Seq({"up", "down"})
        /\ ingesting' \in [report : {"up", "down", "none"}, mode : Modes]
    BY DEF ProviderTypeOK, Crash, Count, SessionAssumption, Turns, NoReport, Modes
  <2>1. job' \in [step : Steps \cup {"idle"}, kind : Kinds \cup {"turn", "none"},
                  turn : 0..MaxTurns, transcript : 0..MaxTurns, mode : Modes,
                  child : Nat, childMode : Modes, cursor : 0..Len(conv), recovering : BOOLEAN]
    BY SessionAssumption DEF ProviderTypeOK, Crash, Idle, Steps, Modes
  <2>. QED  BY SMTT(30), <1>0, <2>0, <2>1 DEF ProviderTypeOK, Crash
<1>2. Held'
  BY <1>0 DEF Held, Opening, Crash, Idle
<1>3. Shown'
  BY DEF Shown, LastReport, ProviderTypeOK, Crash, Count, Idle, NoReport
<1>4. ModeKept'
  BY DEF ModeKept, Opening, Held, ProviderTypeOK, Crash, Count, Idle, NoReport
<1>5. InOrder'
  BY <1>0 DEF InOrder, ProviderTypeOK, Crash, Idle
<1>6. Known'
  BY DEF Known, Astray, Knows, Rebuilding, InOrder, Held, ProviderTypeOK, Crash, Count, Idle, NoReport
<1>. QED  BY <1>1, <1>2, <1>3, <1>4, <1>5, <1>6

LEMMA TakeStopInv ==
    ASSUME SessionInv, SessionAssumption, TakeStop
    PROVE  SessionInv'
<1>. USE DEF SessionInv, thread, session, processes, provider, reports, answers
<1>7. /\ inbox' \in Seq(Request) /\ Len(inbox) \in Nat \ {0}
      /\ DOMAIN inbox = 1..Len(inbox) /\ DOMAIN inbox' = 1..(Len(inbox) - 1)
      /\ \A i \in 1..Len(inbox) : inbox[i] \in Request
      /\ \A i \in 1..(Len(inbox) - 1) : inbox'[i] = inbox[i + 1]
      /\ Head(inbox) = inbox[1] /\ Head(inbox) \in Request
      /\ Head(inbox).kind = "stop" /\ job = Idle
  BY Removed DEF TakeTurn, TakeStop, TakeAbout
<1>0. /\ DOMAIN children' \subseteq DOMAIN children /\ IsFiniteSet(DOMAIN children')
      /\ \A c \in DOMAIN children' : children'[c] = children[c]
      /\ sessions' \in {0, sessions} \cap (DOMAIN children' \cup {0})
      /\ sessions' # 0 => UNCHANGED <<processes, ingest, binding>>
      /\ ingest' \in Seq({"up", "down"})
      /\ binding' \in {binding, Unopened(0)}
      /\ job' = job
  <2>1. CASE Live /\ binding.cursor # 0
    <3>1. KillSession /\ binding' = Unopened(0) /\ job' = job
      BY <2>1 DEF TakeStop
    <3>2. /\ sessions' = 0 /\ DOMAIN children' = DOMAIN children \ {sessions}
          /\ IsFiniteSet(DOMAIN children') /\ ingest' \in Seq({"up", "down"})
          /\ \A c \in DOMAIN children' : children'[c] = children[c]
      BY <3>1, Killed
    <3>. QED  BY <3>1, <3>2
  <2>2. CASE ~(Live /\ binding.cursor # 0)
    BY <2>2 DEF TakeStop, ProviderTypeOK, Held
  <2>. QED  BY <2>1, <2>2
<1>1. ProviderTypeOK'
  <2>1. binding' \in [cursor : 0..Len(conv), mode : Modes]
    BY <1>0 DEF ProviderTypeOK, Unopened, Modes
  <2>2. status' \in {"none", "live", "stopped"}
    BY DEF ProviderTypeOK, TakeStop
  <2>3. \A c \in DOMAIN children' : children'[c] \in [cursor : 0..Len(conv), mode : Modes]
    BY <1>0 DEF ProviderTypeOK
  <2>4. sessions' \in DOMAIN children' \cup {0}
    BY <1>0
  <2>. QED  BY <1>0, <1>7, <2>1, <2>2, <2>3, <2>4 DEF ProviderTypeOK, TakeStop, Request
<1>2. Held'
  BY <1>0, <1>7 DEF Held, Opening, Idle, ProviderTypeOK
<1>3. Shown'
  <2>1. ASSUME sessions' # 0 PROVE Shown'
    <3>1. UNCHANGED <<processes, ingest, binding>>
      BY <1>0, <2>1
    <3>2. ~(Live /\ binding.cursor # 0)
      BY <2>1 DEF TakeStop, KillSession
    <3>3. status' = status \/ status # "live"
      BY <3>2 DEF TakeStop, Live
    <3>. QED  BY <2>1, <3>1, <3>3 DEF Shown, LastReport, TakeStop
  <2>. QED  BY <2>1 DEF Shown
<1>4. ModeKept'
  BY SMTT(30), <1>0, <1>7 DEF ModeKept, Opening, Idle, TakeStop, ProviderTypeOK, Unopened
<1>5. InOrder'
  <2>0. asked' = asked /\ sent' = sent /\ job' = Idle
    BY <1>0, <1>7 DEF TakeStop
  <2>1. ASSUME NEW i \in DOMAIN inbox', inbox'[i].kind = "turn"
        PROVE  /\ inbox'[i].turn \in 1..asked'
               /\ \A t \in sent' : t < inbox'[i].turn
               /\ job'.kind = "turn" => job'.turn < inbox'[i].turn
    <3>1. i + 1 \in DOMAIN inbox /\ inbox'[i] = inbox[i + 1]
      BY <1>7
    <3>. QED  BY <2>0, <2>1, <3>1 DEF InOrder, Idle
  <2>2. ASSUME NEW i \in DOMAIN inbox', NEW j \in DOMAIN inbox',
               inbox'[i].kind = "turn", inbox'[j].kind = "turn", i < j
        PROVE  inbox'[i].turn < inbox'[j].turn
    <3>1. /\ i + 1 \in DOMAIN inbox /\ inbox'[i] = inbox[i + 1]
          /\ j + 1 \in DOMAIN inbox /\ inbox'[j] = inbox[j + 1] /\ i + 1 < j + 1
      BY <1>7, <2>2
    <3>. QED  BY <2>2, <3>1 DEF InOrder
  <2>3. sent' \subseteq 1..asked'
    BY <2>0 DEF InOrder
  <2>4. job'.kind # "turn" /\ ~(job'.transcript > 0)
    BY <2>0 DEF Idle
  <2>. QED  BY <2>1, <2>2, <2>3, <2>4 DEF InOrder
<1>6. Known'
  <2>1. conv' = conv /\ sent' = sent /\ gaps' = gaps /\ job' = Idle /\ job = Idle
    BY <1>0, <1>7 DEF TakeStop
  <2>. QED  BY <1>0, <2>1 DEF Known, Astray, Knows, Rebuilding, Idle, Unopened
<1>. QED  BY <1>1, <1>2, <1>3, <1>4, <1>5, <1>6

LEMMA ChildExitsInv ==
    ASSUME SessionInv, SessionAssumption, ChildExits
    PROVE  SessionInv'
<1>. USE DEF SessionInv, thread, session, processes, provider, reports, answers
<1>0. /\ DOMAIN children' \subseteq DOMAIN children /\ IsFiniteSet(DOMAIN children')
      /\ \A c \in DOMAIN children' : children'[c] = children[c]
      /\ sessions' = 0 /\ ingest' \in Seq({"up", "down"})
  <2>1. PICK c \in DOMAIN children : children' = Restrict(children, DOMAIN children \ {c})
    BY DEF ChildExits
  <2>2. /\ DOMAIN children' = DOMAIN children \ {c}
        /\ \A d \in DOMAIN children' : children'[d] = children[d]
    BY <2>1 DEF Restrict
  <2>3. IsFiniteSet(DOMAIN children')
    BY <2>2, FS_RemoveElement DEF Held
  <2>4. ingest' \in Seq({"up", "down"})
    BY Appended DEF ChildExits, ProviderTypeOK
  <2>. QED  BY <2>2, <2>3, <2>4 DEF ChildExits
<1>1. ProviderTypeOK'
  <2>1. events' \in 0..MaxEvents
    BY EventsBounded DEF ChildExits
  <2>2. \A c \in DOMAIN children' : children'[c] \in [cursor : 0..Len(conv), mode : Modes]
    BY <1>0 DEF ProviderTypeOK
  <2>. QED  BY <1>0, <2>1, <2>2 DEF ProviderTypeOK, ChildExits
<1>2. Held'
  BY <1>0 DEF Held, Opening, ProviderTypeOK, ChildExits
<1>3. Shown'
  BY <1>0 DEF Shown
<1>4. ModeKept'
  BY <1>0 DEF ModeKept, Opening, ChildExits
<1>5. InOrder'
  BY DEF InOrder, ProviderTypeOK, ChildExits, Count
<1>6. Known'
  BY DEF Known, Astray, Knows, Rebuilding, InOrder, Held, ProviderTypeOK, ChildExits, Count
<1>. QED  BY <1>1, <1>2, <1>3, <1>4, <1>5, <1>6

LEMMA OpenFailsInv ==
    ASSUME SessionInv, SessionAssumption, OpenFails
    PROVE  SessionInv'
<1>. USE DEF SessionInv, thread, session, processes, provider, reports, answers
<1>0. /\ DOMAIN children' \subseteq DOMAIN children /\ IsFiniteSet(DOMAIN children')
      /\ \A c \in DOMAIN children' : children'[c] = children[c]
      /\ sessions' = 0 /\ ingest' \in Seq({"up", "down"}) /\ job' = Idle
      /\ failed' \subseteq Turns /\ lost' \subseteq Turns /\ events' \in 0..MaxEvents
      /\ UNCHANGED <<thread, session, inbox, provider, ingesting, sent>>
  <2>1. KillSession
    BY DEF OpenFails
  <2>2. /\ sessions' = 0 /\ DOMAIN children' = DOMAIN children \ {sessions}
        /\ IsFiniteSet(DOMAIN children') /\ ingest' \in Seq({"up", "down"})
        /\ \A c \in DOMAIN children' : children'[c] = children[c]
    BY <2>1, Killed
  <2>3. GiveUp(job.child \in DOMAIN children)
    BY DEF OpenFails
  <2>4. /\ failed' \subseteq Turns /\ lost' \subseteq Turns /\ job' = Idle
        /\ events' \in 0..MaxEvents
    BY <2>3, GivenUp
  <2>. QED  BY <2>2, <2>4 DEF OpenFails
<1>1. ProviderTypeOK'
  <2>1. gaps' \subseteq {"context", "mode"}
    BY DEF OpenFails, ProviderTypeOK
  <2>2. \A c \in DOMAIN children' : children'[c] \in [cursor : 0..Len(conv), mode : Modes]
    BY <1>0 DEF ProviderTypeOK
  <2>. QED  BY ZenonT(40), <1>0, <2>1, <2>2, IdleType DEF ProviderTypeOK
<1>2. Held'
  BY <1>0 DEF Held, Opening, ProviderTypeOK, OpenFails, Idle
<1>3. Shown'
  BY <1>0 DEF Shown
<1>4. ModeKept'
  BY <1>0 DEF ModeKept, Opening, OpenFails, Idle
<1>5. InOrder'
  BY SMTT(30), <1>0 DEF InOrder, ProviderTypeOK, OpenFails, Idle
<1>6. Known'
  <2>1. CASE Rebuilding
    BY <2>1 DEF OpenFails, Known
  <2>2. CASE ~Rebuilding
    BY <1>0, <2>2 DEF Known, Astray, Knows, Rebuilding, OpenFails, Idle
  <2>. QED  BY <2>1, <2>2
<1>. QED  BY <1>1, <1>2, <1>3, <1>4, <1>5, <1>6

LEMMA RouteInv ==
    ASSUME SessionInv, SessionAssumption, Route
    PROVE  SessionInv'
<1>. USE DEF SessionInv, thread, session, processes, provider, reports, answers
<1>r. ~job.recovering
  BY DEF Held, Route
<1>1. CASE binding.cursor = 0 /\ GiveUp(FALSE) /\ UNCHANGED <<processes, ingest>>
  <2>1. /\ failed' \subseteq Turns /\ lost' \subseteq Turns /\ job' = Idle
        /\ events' \in 0..MaxEvents
    BY <1>1, GivenUp
  <2>2. ProviderTypeOK'
    BY SMTT(30), <1>1, <2>1, IdleType DEF ProviderTypeOK, Route
  <2>3. Held'
    BY <1>1, <2>1 DEF Held, Opening, ProviderTypeOK, Route, Idle
  <2>4. Shown'
    BY <1>1 DEF Shown, LastReport, Route
  <2>5. ModeKept'
    BY <1>1, <2>1 DEF ModeKept, Opening, Route, Idle
  <2>6. InOrder'
    BY <1>1, <2>1 DEF InOrder, ProviderTypeOK, Route, Idle
  <2>7. Known'
    BY <1>1, <2>1 DEF Known, Astray, Knows, Rebuilding, Route, Idle
  <2>. QED  BY <2>2, <2>3, <2>4, <2>5, <2>6, <2>7
<1>2. CASE /\ binding.cursor # 0 /\ sessions # 0 /\ job' = [job EXCEPT !.step = "send"]
            /\ UNCHANGED <<processes, ingest, failed, lost, events>>
  <2>2. ProviderTypeOK'
    BY <1>2 DEF ProviderTypeOK, Route, Steps
  <2>3. Held'
    BY <1>2 DEF Held, Opening, ProviderTypeOK, Route, Idle
  <2>4. Shown'
    BY <1>2 DEF Shown, LastReport, Route
  <2>5. ModeKept'
    BY <1>2 DEF ModeKept, Opening, ProviderTypeOK, Route
  <2>6. InOrder'
    BY <1>2 DEF InOrder, ProviderTypeOK, Route
  <2>7. Known'
    BY <1>2 DEF Known, Astray, Knows, Rebuilding, ProviderTypeOK, Route
  <2>. QED  BY <2>2, <2>3, <2>4, <2>5, <2>6, <2>7
<1>3. CASE /\ binding.cursor # 0 /\ sessions = 0 /\ UNCHANGED <<failed, lost, events>>
            /\ Spawn(binding.cursor, binding.mode, [job EXCEPT !.recovering = TRUE])
  <2>0. binding.mode \in Modes /\ binding.cursor \in 0..Len(conv)
    BY DEF ProviderTypeOK
  <2>1. /\ sessions' \in Nat \ {0} /\ sessions' \notin DOMAIN children
        /\ DOMAIN children' = DOMAIN children \cup {sessions'}
        /\ IsFiniteSet(DOMAIN children')
        /\ children'[sessions'] = Unopened(binding.mode)
        /\ \A c \in DOMAIN children : children'[c] = children[c]
        /\ ingest' \in Seq({"up", "down"}) /\ LastReport' = "up"
        /\ job' = [[job EXCEPT !.recovering = TRUE] EXCEPT !.step = "open",
                     !.cursor = binding.cursor, !.childMode = binding.mode, !.child = sessions']
    <3>. DEFINE next == [job EXCEPT !.recovering = TRUE]
                m == binding.mode
    <3>1. Spawn(binding.cursor, m, next) /\ m \in Modes
      BY <1>3, <2>0
    <3>. HIDE DEF next, m
    <3>2. /\ sessions' \in Nat \ {0} /\ sessions' \notin DOMAIN children
          /\ DOMAIN children' = DOMAIN children \cup {sessions'}
          /\ IsFiniteSet(DOMAIN children')
          /\ children'[sessions'] = Unopened(m)
          /\ \A c \in DOMAIN children : children'[c] = children[c]
          /\ ingest' \in Seq({"up", "down"}) /\ LastReport' = "up"
          /\ job' = [next EXCEPT !.step = "open", !.cursor = binding.cursor, !.childMode = m,
                                 !.child = sessions']
      BY <3>1, Spawned
    <3>. QED  BY <3>2 DEF next, m
  <2>2. ProviderTypeOK'
    <3>1. \A c \in DOMAIN children' : children'[c] \in [cursor : 0..Len(conv), mode : Modes]
      BY <2>0, <2>1 DEF ProviderTypeOK, Unopened
    <3>2. job' \in [step : Steps \cup {"idle"}, kind : Kinds \cup {"turn", "none"},
                  turn : 0..MaxTurns, transcript : 0..MaxTurns, mode : Modes,
                  child : Nat, childMode : Modes, cursor : 0..Len(conv), recovering : BOOLEAN]
      BY <2>0, <2>1 DEF ProviderTypeOK, Steps
    <3>. QED  BY <1>3, <2>1, <3>1, <3>2 DEF ProviderTypeOK, Route
  <2>3. Held'
    BY <1>3, <2>1 DEF Held, Opening, ProviderTypeOK, Route, Idle
  <2>4. Shown'
    BY <2>1 DEF Shown
  <2>5. ModeKept'
    BY <1>3, <2>1 DEF ModeKept, Opening, ProviderTypeOK, Route
  <2>6. InOrder'
    BY <2>1 DEF InOrder, ProviderTypeOK, Route
  <2>7. Known'
    BY <1>r, <1>3, <2>1 DEF Known, Astray, Knows, Rebuilding, ProviderTypeOK, Route
  <2>. QED  BY <2>2, <2>3, <2>4, <2>5, <2>6, <2>7
<1>. QED  BY <1>1, <1>2, <1>3 DEF Route

LEMMA EnsureSessionInv ==
    ASSUME SessionInv, SessionAssumption, EnsureSession
    PROVE  SessionInv'
<1>. USE DEF SessionInv, thread, session, processes, provider, reports, answers
<1>. DEFINE j == [job EXCEPT !.mode = mode]
<1>0. /\ job.step = "ensure" /\ job.kind \in {"turn", "mode"} /\ ~job.recovering
      /\ mode \in Modes /\ binding.cursor \in 0..Len(conv) /\ job.transcript \in 0..MaxTurns
      /\ UNCHANGED <<thread, session, inbox, provider, ingesting, answers, events>>
  BY DEF EnsureSession, Held, ProviderTypeOK
<1>1. CASE /\ Live /\ sessions # 0 /\ mode = sessionMode /\ job' = AfterSession(mode)
           /\ UNCHANGED <<processes, ingest, gaps>>
  <2>1. CASE job.kind = "turn"
    <3>1. /\ job' \in [step : Steps \cup {"idle"}, kind : Kinds \cup {"turn", "none"},
                  turn : 0..MaxTurns, transcript : 0..MaxTurns, mode : Modes,
                  child : Nat, childMode : Modes, cursor : 0..Len(conv), recovering : BOOLEAN]
          /\ job'.step = "route" /\ job'.mode = mode /\ job'.recovering = FALSE
          /\ job'.transcript = job.transcript /\ job'.kind = job.kind
          /\ job'.turn = job.turn
      <4>1. job' = [GoOn("route") EXCEPT !.mode = mode] /\ "route" \in Steps
        BY <1>1, <2>1 DEF AfterSession, Steps
      <4>2. mode \in Modes
        BY <1>0
      <4>3. /\ job' \in [step : Steps \cup {"idle"}, kind : Kinds \cup {"turn", "none"},
                  turn : 0..MaxTurns, transcript : 0..MaxTurns, mode : Modes,
                  child : Nat, childMode : Modes, cursor : 0..Len(conv), recovering : BOOLEAN]
            /\ job'.step = "route" /\ job'.kind = job.kind /\ job'.turn = job.turn
            /\ job'.transcript = job.transcript /\ job'.mode = mode /\ job'.recovering = FALSE
        BY <4>1, <4>2, WentOn
      <4>. QED  BY <1>0, <4>3
    <3>2. ProviderTypeOK'
      BY <1>0, <1>1, <3>1 DEF ProviderTypeOK
    <3>3. Held'
      BY <1>0, <1>1, <3>1 DEF Held, Opening
    <3>4. Shown'
      BY <1>0, <1>1 DEF Shown, LastReport
    <3>5. ModeKept'
      BY <1>0, <1>1, <3>1 DEF ModeKept, Opening
    <3>6. InOrder'
      BY <1>0, <3>1 DEF InOrder
    <3>7. Known'
      BY <1>0, <1>1, <3>1 DEF Known, Astray, Knows, Rebuilding
    <3>. QED  BY <3>2, <3>3, <3>4, <3>5, <3>6, <3>7
  <2>2. CASE job.kind # "turn"
    <3>1. job' = Idle
      BY <1>1, <2>2 DEF AfterSession, ProviderTypeOK
    <3>2. ProviderTypeOK'
      BY <1>0, <1>1, <3>1, IdleType DEF ProviderTypeOK
    <3>3. Held'
      <4>1. job'.step = "idle" /\ ~job'.recovering /\ job'.transcript = 0 /\ job' = Idle
        BY <3>1 DEF Idle
      <4>. QED  BY <1>0, <1>1, <4>1 DEF Held, Opening
    <3>4. Shown'
      BY <1>0, <1>1 DEF Shown, LastReport
    <3>5. ModeKept'
      BY <1>0, <1>1, <3>1 DEF ModeKept, Opening, ProviderTypeOK, Idle
    <3>6. InOrder'
      BY <1>0, <3>1 DEF InOrder, ProviderTypeOK, Idle
    <3>7. Known'
      BY <1>0, <1>1, <3>1 DEF Known, Astray, Knows, Rebuilding, ProviderTypeOK, Idle
    <3>. QED  BY <3>2, <3>3, <3>4, <3>5, <3>6, <3>7
  <2>. QED  BY <2>1, <2>2
<1>2. CASE /\ Live /\ sessions # 0 /\ mode # sessionMode
           /\ Spawn(children[sessions].cursor, mode, j) /\ UNCHANGED gaps
  <2>. DEFINE from == children[sessions].cursor
  <2>0. from # 0 /\ sessions # 0 /\ from \in 0..Len(conv)
    BY <1>0, <1>2 DEF Held, ProviderTypeOK
  <2>a. "context" \notin gaps => Astray(from)
    BY <1>0, <2>0 DEF Known
  <2>g. /\ gaps' = gaps
        /\ gaps' \subseteq {"context", "mode"}
        /\ "mode" \notin gaps' => "mode" \notin gaps
        /\ "context" \notin gaps' => "context" \notin gaps
    BY <1>2 DEF ProviderTypeOK
  <2>1. /\ sessions' \in Nat \ {0} /\ sessions' \notin DOMAIN children
        /\ DOMAIN children' = DOMAIN children \cup {sessions'}
        /\ IsFiniteSet(DOMAIN children')
        /\ children'[sessions'] = Unopened(mode)
        /\ \A c \in DOMAIN children : children'[c] = children[c]
        /\ ingest' \in Seq({"up", "down"}) /\ LastReport' = "up"
        /\ job' = [j EXCEPT !.step = "open", !.cursor = from, !.childMode = mode,
                            !.child = sessions']
    <3>1. Spawn(from, mode, j)
      BY <1>0, <1>2, <2>0
    <3>. HIDE DEF from, j
    <3>. QED  BY ZenonT(40), <1>0, <3>1, Spawned
  <2>f. /\ job'.step = "open" /\ job'.cursor = from /\ job'.mode = mode
        /\ job'.childMode = mode /\ job'.child = sessions' /\ job'.recovering = job.recovering
        /\ job'.transcript = job.transcript /\ job'.kind = job.kind /\ job'.turn = job.turn
        /\ from \in 0..Len(conv)
        /\ job' \in [step : Steps \cup {"idle"}, kind : Kinds \cup {"turn", "none"},
                  turn : 0..MaxTurns, transcript : 0..MaxTurns, mode : Modes,
                  child : Nat, childMode : Modes, cursor : 0..Len(conv), recovering : BOOLEAN]
    <3>1. job \in [step : Steps \cup {"idle"}, kind : Kinds \cup {"turn", "none"},
                  turn : 0..MaxTurns, transcript : 0..MaxTurns, mode : Modes,
                  child : Nat, childMode : Modes, cursor : 0..Len(conv), recovering : BOOLEAN]
      BY DEF ProviderTypeOK
    <3>2. from \in 0..Len(conv) /\ "open" \in Steps /\ sessions' \in Nat
      BY <1>0, <2>0, <2>1 DEF Steps
    <3>3. job' = [j EXCEPT !.step = "open", !.cursor = from, !.childMode = mode,
                           !.child = sessions']
      BY <2>1
    <3>. HIDE DEF from
    <3>. QED  BY <1>0, <3>1, <3>2, <3>3
  <2>2. ProviderTypeOK'
    <3>1. \A c \in DOMAIN children' : children'[c] \in [cursor : 0..Len(conv), mode : Modes]
      BY <1>0, <2>1 DEF ProviderTypeOK, Unopened
    <3>. QED  BY <1>0, <2>g, <2>1, <2>f, <3>1 DEF ProviderTypeOK
  <2>3. Held'
    BY <1>0, <2>0, <2>1, <2>f DEF Held, Opening
  <2>4. Shown'
    BY <2>1 DEF Shown
  <2>5. ModeKept'
    BY <1>0, <2>g, <2>1, <2>f DEF ModeKept, Opening
  <2>6. InOrder'
    BY <1>0, <2>f DEF InOrder
  <2>7. Known'
    BY <1>0, <2>0, <2>a, <2>g, <2>f DEF Known, Astray, Knows, Rebuilding
  <2>. QED  BY <2>2, <2>3, <2>4, <2>5, <2>6, <2>7
<1>3. CASE (~Live \/ sessions = 0) /\ StartSession(j)
  <2>. DEFINE from == IF job.transcript > 0 THEN 0 ELSE binding.cursor
  <2>0. /\ from \in {0, binding.cursor} /\ Spawn(from, mode, j)
        /\ from # 0 => from = binding.cursor
        /\ StartsForgetful => "context" \in gaps'
        /\ gaps' = gaps \/ gaps' = gaps \cup {"context"}
    BY <1>3 DEF StartSession
  <2>g. /\ gaps' \subseteq {"context", "mode"}
        /\ "mode" \notin gaps' => "mode" \notin gaps
        /\ "context" \notin gaps' => "context" \notin gaps
    BY <2>0 DEF ProviderTypeOK
  <2>1. /\ sessions' \in Nat \ {0} /\ sessions' \notin DOMAIN children
        /\ DOMAIN children' = DOMAIN children \cup {sessions'}
        /\ IsFiniteSet(DOMAIN children')
        /\ children'[sessions'] = Unopened(mode)
        /\ \A c \in DOMAIN children : children'[c] = children[c]
        /\ ingest' \in Seq({"up", "down"}) /\ LastReport' = "up"
        /\ job' = [j EXCEPT !.step = "open", !.cursor = from, !.childMode = mode,
                            !.child = sessions']
    <3>1. Spawn(from, mode, j)
      BY <1>0, <2>0
    <3>. HIDE DEF from, j
    <3>. QED  BY ZenonT(40), <1>0, <3>1, Spawned
  <2>f. /\ job'.step = "open" /\ job'.cursor = from /\ job'.mode = mode
        /\ job'.childMode = mode /\ job'.child = sessions' /\ job'.recovering = job.recovering
        /\ job'.transcript = job.transcript /\ job'.kind = job.kind /\ job'.turn = job.turn
        /\ from \in 0..Len(conv)
        /\ job' \in [step : Steps \cup {"idle"}, kind : Kinds \cup {"turn", "none"},
                  turn : 0..MaxTurns, transcript : 0..MaxTurns, mode : Modes,
                  child : Nat, childMode : Modes, cursor : 0..Len(conv), recovering : BOOLEAN]
    <3>1. job \in [step : Steps \cup {"idle"}, kind : Kinds \cup {"turn", "none"},
                  turn : 0..MaxTurns, transcript : 0..MaxTurns, mode : Modes,
                  child : Nat, childMode : Modes, cursor : 0..Len(conv), recovering : BOOLEAN]
      BY DEF ProviderTypeOK
    <3>2. from \in 0..Len(conv) /\ "open" \in Steps /\ sessions' \in Nat
      BY <1>0, <2>0, <2>1 DEF Steps
    <3>3. job' = [j EXCEPT !.step = "open", !.cursor = from, !.childMode = mode,
                           !.child = sessions']
      BY <2>1
    <3>. HIDE DEF from
    <3>. QED  BY <1>0, <3>1, <3>2, <3>3
  <2>2. ProviderTypeOK'
    <3>1. \A c \in DOMAIN children' : children'[c] \in [cursor : 0..Len(conv), mode : Modes]
      BY <1>0, <2>1 DEF ProviderTypeOK, Unopened
    <3>. QED  BY <1>0, <2>g, <2>1, <2>f, <3>1 DEF ProviderTypeOK
  <2>3. Held'
    BY <1>0, <2>0, <2>1, <2>f DEF Held, Opening
  <2>4. Shown'
    BY <2>1 DEF Shown
  <2>5. ModeKept'
    BY <1>0, <2>g, <2>1, <2>f DEF ModeKept, Opening
  <2>6. InOrder'
    BY <1>0, <2>f DEF InOrder
  <2>7. Known'
    <3>1. ASSUME job.transcript = 0, binding.cursor = 0, "context" \notin gaps' PROVE sent = {}
      <4>1. "context" \notin gaps /\ ~StartsForgetful
        BY <2>0, <2>g, <3>1
      <4>. QED  BY <1>0, <3>1, <4>1 DEF StartsForgetful, Known
    <3>2. ~Rebuilding /\ sent' = sent /\ conv' = conv /\ binding' = binding
      BY <1>0 DEF Rebuilding
    <3>3. ~Rebuilding' /\ job'.step # "ensure"
      BY <1>0, <2>f DEF Rebuilding
    <3>4. "context" \notin gaps' /\ binding'.cursor # 0 => Knows(binding.cursor)
      BY <2>g, <3>2 DEF Known
    <3>5. Knows(binding.cursor) => sent' \subseteq conv'[binding'.cursor]
      BY <3>2 DEF Knows
    <3>6. job'.transcript = 0 /\ job'.cursor = 0 => job.transcript = 0 /\ binding.cursor = 0
      BY <1>0, <2>f
    <3>8. job'.cursor # 0 => job'.cursor = binding'.cursor
      BY <2>0, <2>f, <3>2
    <3>7. sent = {} => sent' = {}
      BY <3>2
    <3>. QED  BY <2>g, <2>f, <3>1, <3>3, <3>4, <3>5, <3>6, <3>7, <3>8, <3>2 DEF Known, Astray, Knows
  <2>. QED  BY <2>2, <2>3, <2>4, <2>5, <2>6, <2>7
<1>. QED  BY <1>1, <1>2, <1>3 DEF EnsureSession

LEMMA OpenInv ==
    ASSUME SessionInv, SessionAssumption, Open
    PROVE  SessionInv'
<1>. USE DEF SessionInv, thread, session, processes, provider, reports, answers
<1>1. PICK resumed \in BOOLEAN :
         /\ resumed => job.cursor # 0
         /\ IF job.cursor # 0 /\ ~resumed
              THEN Count /\ gaps' = gaps \cup {"context"}
              ELSE UNCHANGED <<events, gaps>>
         /\ LET p == IF resumed THEN job.cursor ELSE Len(conv) + 1
            IN /\ conv' = IF resumed THEN conv ELSE Append(conv, {})
               /\ children' = [children EXCEPT ![job.child].cursor = p]
               /\ job' = [job EXCEPT !.step = "persist", !.cursor = p]
  BY DEF Open
<1>. DEFINE p == IF resumed THEN job.cursor ELSE Len(conv) + 1
            opened == [cursor |-> p, mode |-> job.childMode]
<1>2. /\ job.step = "open" /\ job.child \in DOMAIN children /\ job.child # 0
      /\ job.child \in Nat /\ sessions \in {0, job.child}
      /\ children[job.child] = Unopened(job.childMode)
      /\ UNCHANGED <<thread, session, inbox, sessions, binding, ingesting, answers>>
      /\ job.cursor \in 0..Len(conv) /\ Len(conv) \in Nat /\ job.childMode \in Modes
      /\ job.transcript \in Nat
  BY SessionAssumption DEF Open, Held, Opening, ProviderTypeOK, SessionAssumption
<1>3. /\ DOMAIN children' = DOMAIN children /\ children'[job.child] = opened
      /\ \A c \in DOMAIN children : c # job.child => children'[c] = children[c]
  BY <1>1, <1>2 DEF Unopened
<1>4. /\ conv' \in Seq(SUBSET Turns) /\ Len(conv') \in Nat /\ Len(conv) <= Len(conv')
      /\ p \in 1..Len(conv') /\ \A q \in 1..Len(conv) : conv'[q] = conv[q]
      /\ ~resumed => conv'[p] = {}
  <2>1. conv \in Seq(SUBSET Turns) /\ {} \in SUBSET Turns
    BY DEF ProviderTypeOK
  <2>2. CASE resumed
    BY <1>1, <1>2, <2>1, <2>2
  <2>3. CASE ~resumed
    <3>1. conv' = Append(conv, {})
      BY <1>1, <2>3
    <3>2. /\ Append(conv, {}) \in Seq(SUBSET Turns) /\ Len(Append(conv, {})) = Len(conv) + 1
          /\ \A q \in 1..Len(conv) : Append(conv, {})[q] = conv[q]
          /\ Append(conv, {})[Len(conv) + 1] = {}
      BY <2>1, Appended
    <3>. QED  BY <1>2, <2>3, <3>1, <3>2
  <2>. QED  BY <2>2, <2>3
<1>5. /\ gaps' \subseteq {"context", "mode"} /\ gaps \subseteq gaps'
      /\ "mode" \in gaps' => "mode" \in gaps
      /\ events' \in 0..MaxEvents
  <2>1. CASE job.cursor # 0 /\ ~resumed
    <3>1. events' = events + 1 /\ events < MaxEvents /\ gaps' = gaps \cup {"context"}
      BY <1>1, <2>1 DEF Count
    <3>2. events \in 0..MaxEvents /\ MaxEvents \in Nat /\ gaps \subseteq {"context", "mode"}
      BY SessionAssumption DEF ProviderTypeOK, SessionAssumption
    <3>. QED  BY <3>1, <3>2
  <2>2. CASE ~(job.cursor # 0 /\ ~resumed)
    <3>1. UNCHANGED <<events, gaps>>
      BY <1>1, <2>2
    <3>. QED  BY <3>1 DEF ProviderTypeOK
  <2>. QED  BY <2>1, <2>2
<1>6. ProviderTypeOK'
  <2>1. job' \in [step : Steps \cup {"idle"}, kind : Kinds \cup {"turn", "none"},
                  turn : 0..MaxTurns, transcript : 0..MaxTurns, mode : Modes,
                  child : Nat, childMode : Modes, cursor : 0..Len(conv'), recovering : BOOLEAN]
    <3>1. "persist" \in Steps /\ p \in 0..Len(conv')
      BY <1>4, <1>2 DEF Steps
    <3>2. job \in [step : Steps \cup {"idle"}, kind : Kinds \cup {"turn", "none"},
                  turn : 0..MaxTurns, transcript : 0..MaxTurns, mode : Modes,
                  child : Nat, childMode : Modes, cursor : 0..Len(conv), recovering : BOOLEAN]
      BY DEF ProviderTypeOK
    <3>3. job' = [job EXCEPT !.step = "persist", !.cursor = p]
      BY <1>1
    <3>. HIDE DEF p
    <3>. QED  BY <3>1, <3>2, <3>3
  <2>2. opened \in [cursor : 0..Len(conv'), mode : Modes]
    BY <1>2, <1>4
  <2>3. \A c \in DOMAIN children' : children'[c] \in [cursor : 0..Len(conv'), mode : Modes]
    <3>1. ASSUME NEW c \in DOMAIN children, c # job.child
          PROVE  children[c] \in [cursor : 0..Len(conv'), mode : Modes]
      <4>1. children[c] \in [cursor : 0..Len(conv), mode : Modes]
        BY DEF ProviderTypeOK
      <4>2. 0..Len(conv) \subseteq 0..Len(conv')
        BY <1>2, <1>4
      <4>. QED  BY <4>1, <4>2
    <3>. QED  BY <1>3, <2>2, <3>1
  <2>4. ingest' \in Seq({"up", "down"})
    BY ReportedUp DEF Open
  <2>5. binding' \in [cursor : 0..Len(conv'), mode : Modes]
    <3>1. binding' = binding /\ binding \in [cursor : 0..Len(conv), mode : Modes]
      BY <1>2 DEF ProviderTypeOK
    <3>2. 0..Len(conv) \subseteq 0..Len(conv')
      BY <1>2, <1>4
    <3>. QED  BY <3>1, <3>2
  <2>. QED  BY <1>2, <1>3, <1>4, <1>5, <2>1, <2>2, <2>3, <2>4, <2>5 DEF ProviderTypeOK
<1>f. /\ job'.step = "persist" /\ job'.cursor = p /\ job'.child = job.child
      /\ job'.mode = job.mode /\ job'.childMode = job.childMode
      /\ job'.recovering = job.recovering /\ job'.transcript = job.transcript
      /\ job'.kind = job.kind /\ job'.turn = job.turn
  BY <1>1 DEF ProviderTypeOK
<1>7. Held'
  <2>1. p # 0 /\ opened.cursor = p /\ opened.mode = job.childMode
    BY <1>4
  <2>. QED  BY <1>2, <1>3, <1>f, <2>1 DEF Held, Opening
<1>8. Shown'
  <2>1. LastReport' = "up"
    BY ReportedUp DEF Open
  <2>. QED  BY <2>1 DEF Shown
<1>9. ModeKept'
  BY <1>2, <1>3, <1>5, <1>f DEF ModeKept, Opening
<1>10. InOrder'
  BY <1>2, <1>f DEF InOrder
<1>11. Known'
  <2>1. sent' = sent /\ binding' = binding
    BY <1>2
  <2>2. ASSUME "context" \notin gaps' PROVE "context" \notin gaps /\ (resumed <=> job.cursor # 0)
    BY <1>1, <1>5, <2>2
  <2>3. ASSUME "context" \notin gaps', binding.cursor # 0 PROVE Knows(binding.cursor)' \/ Rebuilding'
    <3>1. Knows(binding.cursor) \/ Rebuilding
      BY <2>2, <2>3 DEF Known
    <3>2. conv'[binding.cursor] = conv[binding.cursor]
      BY <1>4, <2>3 DEF ProviderTypeOK
    <3>3. Rebuilding => Rebuilding'
      BY <1>2, <1>f DEF Rebuilding
    <3>. QED  BY <2>1, <3>1, <3>2, <3>3 DEF Knows
  <2>4. ASSUME "context" \notin gaps', job.transcript = 0 PROVE Astray(p)
    BY <1>2, <2>2, <2>4 DEF Known, Astray
  <2>5. ASSUME "context" \notin gaps', job.recovering PROVE p = binding.cursor
    <3>1. job.cursor # 0 /\ resumed /\ binding.cursor # 0
      BY <1>2, <2>2, <2>5 DEF Held
    <3>2. job.cursor = binding.cursor
      BY <1>2, <2>2, <2>5, <3>1 DEF Known, Astray
    <3>. QED  BY <3>1, <3>2
  <2>. QED  BY <1>2, <1>f, <2>1, <2>3, <2>4, <2>5 DEF Known, Astray, Knows
<1>. QED  BY <1>6, <1>7, <1>8, <1>9, <1>10, <1>11

LEMMA PersistBindingInv ==
    ASSUME SessionInv, SessionAssumption, PersistBinding
    PROVE  SessionInv'
<1>. USE DEF SessionInv, thread, session, processes, provider, reports, answers
<1>0. /\ job.step = "persist" /\ job.cursor # 0 /\ job.child # 0 /\ sessions \in {0, job.child}
      /\ binding' = [cursor |-> job.cursor, mode |-> job.childMode]
      /\ UNCHANGED <<thread, session, inbox, processes, conv, reports, answers, events, gaps>>
      /\ job.childMode \in Modes /\ job.cursor \in 0..Len(conv) /\ job.transcript \in Nat
      /\ ~job.recovering => job.childMode = job.mode
  BY SessionAssumption DEF PersistBinding, Held, Opening, ProviderTypeOK, SessionAssumption
<1>1. sessions # 0 =>
         children[sessions].cursor = job.cursor /\ children[sessions].mode = job.childMode
  BY <1>0 DEF Held, ProviderTypeOK
<1>2. /\ job' \in [step : Steps \cup {"idle"}, kind : Kinds \cup {"turn", "none"},
                  turn : 0..MaxTurns, transcript : 0..MaxTurns, mode : Modes,
                  child : Nat, childMode : Modes, cursor : 0..Len(conv), recovering : BOOLEAN]
      /\ job'.step = IF job.recovering THEN "send" ELSE "bind"
      /\ job'.kind = job.kind /\ job'.turn = job.turn /\ job'.transcript = job.transcript
      /\ job'.mode = job.mode /\ job'.recovering = FALSE
      /\ ~job.recovering => job'.child = job.child /\ job'.childMode = job.childMode
  <2>1. CASE job.recovering
    <3>1. job' = GoOn("send") /\ "send" \in Steps /\ job.mode \in Modes
      BY <2>1 DEF PersistBinding, Steps, ProviderTypeOK
    <3>2. GoOn("send") = [GoOn("send") EXCEPT !.mode = job.mode]
      BY <3>1, GoOnKeepsMode
    <3>3. job' = [GoOn("send") EXCEPT !.mode = job.mode]
      BY <3>1, <3>2
    <3>. QED  BY <2>1, <3>1, <3>3, WentOn
  <2>2. CASE ~job.recovering
    <3>1. job' = [job EXCEPT !.step = "bind"] /\ "bind" \in Steps
      BY <2>2 DEF PersistBinding, Steps
    <3>. QED  BY <2>2, <3>1 DEF ProviderTypeOK
  <2>. QED  BY <2>1, <2>2
<1>3. ProviderTypeOK'
  <2>1. binding' \in [cursor : 0..Len(conv), mode : Modes]
    BY <1>0
  <2>. QED  BY ZenonT(40), <1>0, <1>2, <2>1 DEF ProviderTypeOK
<1>b. binding'.cursor = job.cursor /\ binding'.mode = job.childMode
  BY <1>0
<1>4. Held'
  BY <1>0, <1>1, <1>2, <1>b DEF Held, Opening
<1>5. Shown'
  BY <1>0 DEF Shown, LastReport
<1>6. ModeKept'
  BY <1>0, <1>1, <1>2, <1>b DEF ModeKept, Opening
<1>7. InOrder'
  BY <1>0, <1>2 DEF InOrder
<1>8. Known'
  <2>1. ASSUME "context" \notin gaps, job.transcript = 0 PROVE Knows(job.cursor)
    <3>1. Astray(job.cursor)
      BY <1>0, <2>1 DEF Known
    <3>. QED  BY <1>0, <2>1, <3>1 DEF Known, Astray, Knows, Rebuilding
  <2>2. job.transcript # 0 => Rebuilding'
    BY <1>0, <1>2 DEF Rebuilding
  <2>3. sessions' # 0 => children'[sessions'].cursor = binding'.cursor
    BY <1>0, <1>1, <1>b
  <2>4. job'.step \in {"send", "bind"} /\ sent' = sent /\ conv' = conv /\ gaps' = gaps
    BY <1>0, <1>2
  <2>. QED  BY <1>b, <2>1, <2>2, <2>3, <2>4 DEF Known, Astray, Knows
<1>. QED  BY <1>3, <1>4, <1>5, <1>6, <1>7, <1>8

LEMMA SessionNextInv ==
    ASSUME SessionInv, [ProviderNext]_providerVars
    PROVE  SessionInv'
<1>1. CASE AskTurn
  BY <1>1, SessionAssumption, AskTurnInv
<1>2. ASSUME NEW kind \in Kinds, Ask(kind) PROVE SessionInv'
  BY <1>2, SessionAssumption, AskInv
<1>3. CASE TakeTurn
  BY <1>3, SessionAssumption, TakeTurnInv
<1>4. ASSUME NEW kind, NEW step, TakeAbout(kind, step),
             <<kind, step>> \in {<<"mode", "ensure">>, <<"interrupt", "route">>}
      PROVE  SessionInv'
  <2>1. kind \in Kinds \ {"stop"} /\ step \in {"ensure", "route"}
    <3>1. Head(inbox) \in Request /\ Head(inbox).kind = kind
      BY <1>4, Removed DEF TakeAbout
    <3>2. kind # "turn" /\ kind # "stop" /\ step \in {"ensure", "route"}
      BY <1>4
    <3>. QED  BY <3>1, <3>2 DEF Request
  <2>2. (step = "route" => kind # "mode") /\ (step = "ensure" => kind = "mode")
    BY <1>4
  <2>. QED  BY <1>4, <2>1, <2>2, SessionAssumption, TakeAboutInv
<1>5. CASE TakeMode \/ TakeInterrupt
  BY <1>4, <1>5 DEF TakeMode, TakeInterrupt
<1>6. CASE TakeStop
  BY <1>6, SessionAssumption, TakeStopInv
<1>7. CASE EnsureSession
  BY <1>7, SessionAssumption, EnsureSessionInv
<1>8. CASE Open \/ OpenFails \/ PersistBinding
  BY <1>8, SessionAssumption, OpenInv, OpenFailsInv, PersistBindingInv
<1>9. CASE Bind \/ Route
  BY <1>9, SessionAssumption, BindInv, RouteInv
<1>10. CASE Send \/ StepFails
  BY <1>10, SessionAssumption, SendInv, StepFailsInv
<1>11. CASE Ingestion
  BY <1>11, SessionAssumption, IngestReadInv, IngestRecordInv DEF Ingestion
<1>12. CASE ChildExits \/ Crash
  BY <1>12, SessionAssumption, ChildExitsInv, CrashInv
<1>13. CASE UNCHANGED providerVars
  BY <1>13 DEF SessionInv, ProviderTypeOK, Held, Opening, Shown, LastReport, ModeKept, InOrder,
               Known, Astray, Knows, Rebuilding, providerVars, thread, session, processes, provider,
               reports, answers
<1>. QED  BY <1>1, <1>2, <1>3, <1>5, <1>6, <1>7, <1>8, <1>9, <1>10, <1>11, <1>12, <1>13
          DEF ProviderNext, Worker

LEMMA SessionsHold == ProviderSpec => []SessionInv
<1>1. ASSUME ProviderInit PROVE SessionInv
  <2>. USE <1>1 DEF ProviderInit
  <2>1. DOMAIN children = {} /\ DOMAIN inbox = {} /\ IsFiniteSet(DOMAIN children)
    BY FS_EmptySet
  <2>2. Idle \in [step : Steps \cup {"idle"}, kind : Kinds \cup {"turn", "none"},
                  turn : 0..MaxTurns, transcript : 0..MaxTurns, mode : Modes,
                  child : Nat, childMode : Modes, cursor : 0..Len(conv), recovering : BOOLEAN]
    BY SessionAssumption DEF SessionAssumption, Idle, Steps, Modes
  <2>3. ProviderTypeOK
    BY <2>1, <2>2, SessionAssumption
       DEF ProviderTypeOK, SessionAssumption, Modes, NoReport, Unopened, Turns
  <2>4. Held
    BY <2>1 DEF Held, Opening, Idle
  <2>5. Shown /\ ModeKept /\ Known
    BY DEF Shown, ModeKept, Known, Astray, Opening, Knows, Rebuilding, Idle, Unopened
  <2>6. InOrder
    BY <2>1 DEF InOrder, Idle
  <2>. QED  BY <2>3, <2>4, <2>5, <2>6 DEF SessionInv
<1>. QED  BY <1>1, SessionNextInv, PTL DEF ProviderSpec

\* The state of the sessions, of the worker and of the ingestion keeps its type,
\* for any number of turns and of events.
THEOREM SessionsAreTyped == ProviderSpec => []ProviderTypeOK
BY SessionsHold, PTL DEF SessionInv

\* A turn is sent to a process that runs in the mode the thread had when the
\* worker looked for a session (ensureSessionForThread, recoverSessionForThread).
THEOREM TurnsAreRunInTheirMode == ProviderSpec => []TurnsRunInTheirMode
<1>1. SessionInv => TurnsRunInTheirMode
  BY DEF SessionInv, ModeKept, Opening, TurnsRunInTheirMode
<1>. QED  BY <1>1, SessionsHold, PTL

\* When nothing is under way, a thread whose process can be reached does not say
\* that its session is stopped, whatever the ingestion has recorded late.
THEOREM ReachableSessionsAreShown == ProviderSpec => []ReachableSessionIsShown
<1>1. SessionInv => ReachableSessionIsShown
  BY DEF SessionInv, Shown, LastReport, NoReport, Live, ReachableSessionIsShown
<1>. QED  BY <1>1, SessionsHold, PTL

\* A turn is sent to a conversation that knows every turn sent before it, be it
\* resumed, rebuilt from what is kept of the transcript (buildBootstrapInput) or
\* still open, unless a conversation was given up or cut before, or with it.
THEOREM ConversationsKeepTheirContext == ProviderSpec => ContextKept
<1>. DEFINE Told == \A t \in sent' \ sent :
                      "context" \notin gaps' => sent' \subseteq conv'[children[sessions].cursor]
<1>1. ASSUME SessionInv, ProviderNext PROVE Told
  <2>1. CASE Send
    <3>1. CASE job.kind = "turn"
      <4>1. PICK p \in 1..Len(conv), kept \in SUBSET Turns :
                  /\ p = children[sessions].cursor /\ sessions # 0
                  /\ conv'[p] = conv[p] \cup {job.turn} \cup kept
                  /\ (gaps' = gaps /\ kept = 1..job.transcript) \/ gaps' = gaps \cup {"context"}
                  /\ sent' = sent \cup {job.turn}
        BY <1>1, <2>1, <3>1, SessionAssumption, TurnSent
      <4>2. ASSUME "context" \notin gaps' PROVE sent' \subseteq conv'[p]
        <5>1. "context" \notin gaps /\ kept = 1..job.transcript
          BY <4>1, <4>2
        <5>2. job.step = "send" /\ binding.cursor # 0
          BY <1>1, <2>1 DEF SessionInv, Send, Held
        <5>3. p = binding.cursor
          BY <1>1, <4>1, <5>1, <5>2 DEF SessionInv, Known, Astray
        <5>4. sent \subseteq conv[p] \cup kept
          BY <1>1, <5>1, <5>2, <5>3 DEF SessionInv, Known, Knows, Rebuilding, InOrder
        <5>. QED  BY <4>1, <5>4
      <4>. QED  BY <4>1, <4>2
    <3>2. CASE job.kind # "turn"
      BY <2>1, <3>2 DEF Send
    <3>. QED  BY <3>1, <3>2
  <2>2. CASE ~Send
    <3>1. sent' = sent
      BY <1>1, <2>2
         DEF ProviderNext, Worker, Ingestion, AskTurn, Ask, TakeTurn, TakeMode, TakeInterrupt,
             TakeAbout, TakeStop, EnsureSession, Open, OpenFails, PersistBinding, Bind, Route,
             StepFails, IngestRead, IngestRecord, ChildExits, Crash, answers
    <3>. QED  BY <3>1
  <2>. QED  BY <2>1, <2>2
<1>2. SessionInv /\ [ProviderNext]_providerVars => [Told]_providerVars
  BY <1>1
<1>. QED  BY <1>2, SessionsHold, PTL DEF ProviderSpec, ContextKept

-----------------------------------------------------------------------------
(* The drainable worker. *)

\* What is queued or held is enqueued and unfinished, and in one place.
QueueExact ==
    /\ \A i \in 1..Len(queue) : queue[i] \in enqueued \ finished
    /\ \A i, j \in 1..Len(queue) : queue[i] = queue[j] => i = j
    /\ fiber \in {"holding", "processing"} =>
          /\ item \in enqueued \ finished
          /\ \A i \in 1..Len(queue) : queue[i] # item
    /\ finished \subseteq enqueued

\* What a drainer was promised cannot grow after its call.
PromisesKept ==
    \A d \in Drainers :
        /\ promised[d] \subseteq enqueued
        /\ drainer[d] = "returned" => promised[d] \subseteq finished

IInv == TypeOK /\ QueueExact /\ OutstandingExact /\ PromisesKept

-----------------------------------------------------------------------------
LEMMA EnqueueInv ==
    ASSUME IInv, NEW i \in Items, Enqueue(i)
    PROVE  IInv'
<1>. USE DEF IInv, Enqueue
<1>1. IsFiniteSet(enqueued \ finished)
  BY DrainableWorkerAssumption, FS_Subset DEF TypeOK
<1>2. TypeOK'
  BY AppendProperties DEF TypeOK
<1>3. QueueExact'
  <2>1. CASE open
    <3>. queue \in Seq(Items) /\ queue' = Append(queue, i)
      BY <2>1 DEF TypeOK
    <3>1. /\ Len(queue') = Len(queue) + 1
          /\ \A j \in 1..Len(queue) : queue'[j] = queue[j]
          /\ queue'[Len(queue) + 1] = i
      BY AppendProperties
    <3>2. \A j \in 1..Len(queue') : j \in 1..Len(queue) \/ j = Len(queue) + 1
      BY <3>1
    <3>3. i \notin finished /\ \A j \in 1..Len(queue) : queue[j] # i
      BY DEF QueueExact
    <3>. QED  BY <3>1, <3>2, <3>3 DEF QueueExact
  <2>2. CASE ~open
    BY <2>2 DEF QueueExact
  <2>. QED  BY <2>1, <2>2
<1>4. OutstandingExact'
  <2>1. i \notin finished
    BY DEF QueueExact
  <2>2. (enqueued \ finished)' = (enqueued \ finished) \cup {i} /\ i \notin enqueued \ finished
    BY <2>1
  <2>3. Cardinality((enqueued \ finished) \cup {i}) = Cardinality(enqueued \ finished) + 1
    BY <1>1, <2>2, FS_AddElement
  <2>. QED  BY <2>2, <2>3 DEF OutstandingExact
<1>5. PromisesKept'
  BY DEF PromisesKept
<1>. QED  BY <1>2, <1>3, <1>4, <1>5

LEMMA TakeInv ==
    ASSUME IInv, Take
    PROVE  IInv'
<1>. USE DEF IInv, Take
<1>1. /\ queue \in Seq(Items) /\ queue # <<>> /\ Len(queue) \in Nat /\ Len(queue) >= 1
      /\ Head(queue) = queue[1]
      /\ queue' \in Seq(Items) /\ Len(queue') = Len(queue) - 1
      /\ \A i \in 1..Len(queue') : queue'[i] = queue[i + 1]
  BY HeadTailProperties, EmptySeq DEF TypeOK
<1>2. \A i \in 1..Len(queue') : i + 1 \in 1..Len(queue) /\ i + 1 # 1
  BY <1>1
<1>3. 1 \in 1..Len(queue) /\ item' = queue[1]
  BY <1>1
<1>4. TypeOK'
  BY <1>1, <1>3 DEF TypeOK
<1>5. QueueExact'
  BY <1>1, <1>2, <1>3 DEF QueueExact
<1>6. OutstandingExact' /\ PromisesKept'
  BY DEF OutstandingExact, PromisesKept
<1>. QED  BY <1>4, <1>5, <1>6

\* The three ways a process ends.
LEMMA EndProcessInv ==
    ASSUME IInv, EndProcess, fiber' \in {"taking", "dead"},
           UNCHANGED <<queue, open, enqueued, drainer, promised>>
    PROVE  IInv'
<1>. USE DEF IInv, EndProcess
<1>1. /\ item \in enqueued \ finished /\ IsFiniteSet(enqueued \ finished)
  BY DrainableWorkerAssumption, FS_Subset DEF TypeOK, QueueExact
<1>2. TypeOK'
  BY <1>1 DEF TypeOK
<1>3. QueueExact'
  BY <1>1 DEF QueueExact
<1>4. OutstandingExact'
  <2>1. (enqueued \ finished)' = (enqueued \ finished) \ {item}
    OBVIOUS
  <2>2. Cardinality((enqueued \ finished) \ {item}) = Cardinality(enqueued \ finished) - 1
    BY <1>1, FS_RemoveElement
  <2>. QED  BY <2>1, <2>2 DEF OutstandingExact
<1>5. PromisesKept'
  BY DEF PromisesKept
<1>. QED  BY <1>2, <1>3, <1>4, <1>5

LEMMA DrainInv ==
    ASSUME IInv, NEW d \in Drainers, CallDrain(d) \/ DrainReturns(d)
    PROVE  IInv'
<1>. USE DEF IInv, CallDrain, DrainReturns
<1>1. TypeOK'
  BY DEF TypeOK
<1>2. QueueExact' /\ OutstandingExact'
  BY DEF QueueExact, OutstandingExact
<1>3. CASE CallDrain(d)
  BY <1>1, <1>2, <1>3 DEF TypeOK, PromisesKept
<1>4. CASE DrainReturns(d)
  <2>1. IsFiniteSet(enqueued \ finished) /\ Cardinality(enqueued \ finished) \in Nat
    BY DrainableWorkerAssumption, FS_Subset, FS_CardinalityType DEF TypeOK
  <2>2. Cardinality(enqueued \ finished) = 0
    BY <1>4, <2>1 DEF OutstandingExact
  <2>3. enqueued \subseteq finished
    BY <2>1, <2>2, FS_EmptySet
  <2>4. PromisesKept'
    BY <1>4, <2>3 DEF TypeOK, PromisesKept
  <2>. QED  BY <1>1, <1>2, <2>4
<1>. QED  BY <1>3, <1>4

LEMMA NextInv == IInv /\ [Next]_vars => IInv'
<1>. SUFFICES ASSUME IInv, [Next]_vars PROVE IInv'
  OBVIOUS
<1>1. CASE \E i \in Items : Enqueue(i)
  BY <1>1, EnqueueInv
<1>2. CASE Take
  BY <1>2, TakeInv
<1>3. CASE Process
  <2>1. TypeOK'
    BY <1>3, AppendProperties DEF IInv, TypeOK, QueueExact, Process
  <2>. QED
    BY <1>3, <2>1 DEF IInv, QueueExact, OutstandingExact, PromisesKept, Process
<1>4. CASE EndProcess /\ fiber' \in {"taking", "dead"} /\
           UNCHANGED <<queue, open, enqueued, drainer, promised>>
  BY <1>4, EndProcessInv
<1>5. CASE /\ fiber' = "dead"
           /\ UNCHANGED <<queue, open, outstanding, item, enqueued, finished, drainer, promised>>
  BY <1>5 DEF IInv, TypeOK, QueueExact, OutstandingExact, PromisesKept
<1>6. CASE Shutdown
  <2>1. queue' = <<>> /\ Len(queue') = 0 /\ queue' \in Seq(Items)
    BY <1>6 DEF Shutdown
  <2>2. /\ UNCHANGED <<outstanding, fiber, item, enqueued, finished, drainer, promised>>
        /\ open' = FALSE /\ fiber = "dead"
    BY <1>6 DEF Shutdown
  <2>3. TypeOK'
    BY <2>1, <2>2 DEF IInv, TypeOK
  <2>4. QueueExact'
    BY <2>1, <2>2 DEF IInv, QueueExact
  <2>. QED  BY <2>2, <2>3, <2>4 DEF IInv, OutstandingExact, PromisesKept
<1>7. CASE \E d \in Drainers : CallDrain(d) \/ DrainReturns(d)
  BY <1>7, DrainInv
<1>8. CASE UNCHANGED vars
  BY <1>8 DEF IInv, TypeOK, QueueExact, OutstandingExact, PromisesKept, vars
<1>. QED
  BY <1>1, <1>2, <1>3, <1>4, <1>5, <1>6, <1>7, <1>8 DEF Next, Succeed, Fail, Interrupt

LEMMA Invariance == Spec => []IInv
<1>1. Init => IInv
  <2>1. {} \ {} = {} /\ Cardinality({}) = 0
    BY FS_EmptySet
  <2>. QED
    BY <2>1 DEF Init, IInv, TypeOK, QueueExact, OutstandingExact, PromisesKept
<1>. QED  BY <1>1, NextInv, PTL DEF Spec

\* A drain that returns has seen everything enqueued before it processed,
\* whatever happens to the worker.
THEOREM DrainIsSound == Spec => []DrainSound
<1>1. IInv => DrainSound
  BY DEF IInv, PromisesKept, DrainSound
<1>. QED  BY <1>1, Invariance, PTL

\* The counter drain waits on never drifts from the work that is left.
THEOREM OutstandingIsExact == Spec => []OutstandingExact
BY Invariance, PTL DEF IInv
=============================================================================
