----------------------- MODULE ProjectionPipelineProofs ----------------------
(***************************************************************************)
(* Proofs about the projections, for any projectors in any order, any      *)
(* number of events and any limit of a read.                               *)
(***************************************************************************)
EXTENDS ProjectionPipeline, SequenceTheorems, TLAPS

\* What a projector has applied: increasing, up to its cursor, and everything up
\* to there unless it has been too far behind.
Projection(p) ==
    /\ cursor[p] \in Nat /\ cursor[p] <= committed
    /\ applied[p] \in Seq(Nat)
    /\ \A i \in 1..Len(applied[p]) : applied[p][i] <= cursor[p]
    /\ \A i, j \in 1..Len(applied[p]) : i < j => applied[p][i] < applied[p][j]
    /\ p \notin behind =>
          Len(applied[p]) = cursor[p] /\ \A i \in 1..Len(applied[p]) : applied[p][i] = i

\* The projector whose turn it is goes on where its cursor is, to the end of the
\* log; those before it are there.
CatchingUp ==
    phase = "bootstrap" =>
        /\ Projectors[turn] \in installed =>
              /\ next = cursor[Projectors[turn]] + 1
              /\ next <= last + 1 /\ last <= committed
              /\ Projectors[turn] \in behind \/ last = committed
        /\ \A i \in 1..(turn - 1) :
              Projectors[i] \in installed \ behind => cursor[Projectors[i]] = committed

CaughtUp == phase = "up" => \A p \in installed \ behind : cursor[p] = committed

PipelineInv ==
    /\ committed \in Nat /\ last \in Nat /\ next \in Nat /\ turn \in 1..Len(Projectors)
    /\ installed \subseteq Names
    /\ DOMAIN cursor = Names /\ DOMAIN applied = Names
    /\ \A p \in Names : Projection(p)
    /\ CatchingUp
    /\ CaughtUp

-----------------------------------------------------------------------------
(* The projectors. *)

LEMMA ProjectorsFacts ==
    /\ Len(Projectors) \in Nat /\ Len(Projectors) >= 1
    /\ DOMAIN Projectors = 1..Len(Projectors)
    /\ \A i \in 1..Len(Projectors) : Projectors[i] \in Names
    /\ \A p \in Names : \E i \in 1..Len(Projectors) : p = Projectors[i]
    /\ \A i, j \in 1..Len(Projectors) : Projectors[i] = Projectors[j] => i = j
<1>1. Projectors \in Seq(Names)
  BY PipelineAssumption
<1>2. Len(Projectors) \in Nat /\ DOMAIN Projectors = 1..Len(Projectors)
  BY <1>1, LenProperties
<1>3. /\ \A p \in Names : \E i \in 1..Len(Projectors) : p = Projectors[i]
      /\ \A i \in 1..Len(Projectors) : Projectors[i] \in Names
  BY <1>2 DEF Names
<1>4. Len(Projectors) >= 1
  <2>1. \E p : p \in Names
    BY PipelineAssumption
  <2>. QED  BY <2>1, <1>2, <1>3
<1>. QED  BY <1>2, <1>3, <1>4, PipelineAssumption

\* Events of the log that come after the cursor are applied in their order.
LEMMA AppliedProperties ==
    ASSUME NEW s \in Seq(Nat), NEW c \in Nat, NEW first \in Nat, c <= first,
           \A i \in 1..Len(s) : s[i] <= c,
           \A i, j \in 1..Len(s) : i < j => s[i] < s[j],
           NEW new \in Seq(Nat), \A i \in 1..Len(new) : new[i] = first + i
    PROVE  LET t == s \o new
           IN  /\ t \in Seq(Nat) /\ Len(t) = Len(s) + Len(new)
               /\ \A i \in 1..Len(t) : t[i] <= first + Len(new)
               /\ \A i, j \in 1..Len(t) : i < j => t[i] < t[j]
               /\ Len(s) = first /\ (\A i \in 1..Len(s) : s[i] = i)
                     => \A i \in 1..Len(t) : t[i] = i
<1>. DEFINE t == s \o new
<1>1. /\ Len(s) \in Nat /\ \A i \in 1..Len(s) : s[i] \in Nat
      /\ Len(new) \in Nat
  BY LenProperties, ElementOfSeq
<1>2. /\ t \in Seq(Nat)
      /\ Len(t) = Len(s) + Len(new)
      /\ \A i \in 1..Len(s) + Len(new) : t[i] = IF i <= Len(s) THEN s[i] ELSE new[i - Len(s)]
  BY ConcatProperties
<1>. HIDE DEF t
<1>3. \A i \in 1..Len(s) : i \in 1..Len(t) /\ t[i] = s[i] /\ t[i] \in Nat /\ t[i] <= c
  BY <1>1, <1>2
<1>4. ASSUME NEW i \in 1..Len(t), i \notin 1..Len(s)
      PROVE  t[i] = first + (i - Len(s)) /\ i > Len(s) /\ i <= Len(s) + Len(new)
  <2>1. i - Len(s) \in 1..Len(new) /\ ~(i <= Len(s))
    BY <1>4, <1>1, <1>2
  <2>2. t[i] = new[i - Len(s)]
    BY <2>1, <1>2
  <2>. QED  BY <2>1, <2>2, <1>1, <1>2
<1>5. ASSUME NEW i \in 1..Len(t) PROVE t[i] <= first + Len(new)
  <2>1. CASE i \in 1..Len(s)
    BY <2>1, <1>1, <1>3
  <2>2. CASE i \notin 1..Len(s)
    BY <2>2, <1>1, <1>4
  <2>. QED  BY <2>1, <2>2
<1>6. ASSUME NEW i \in 1..Len(t), NEW j \in 1..Len(t), i < j PROVE t[i] < t[j]
  <2>1. CASE j \in 1..Len(s)
    <3>1. i \in 1..Len(s)
      BY <2>1, <1>1, <1>2, <1>6
    <3>. QED  BY <2>1, <3>1, <1>3, <1>6
  <2>2. CASE j \notin 1..Len(s) /\ i \in 1..Len(s)
    <3>1. t[j] = first + (j - Len(s)) /\ j > Len(s) /\ t[i] <= c /\ t[i] \in Nat
      BY <2>2, <1>3, <1>4
    <3>. QED  BY <3>1, <1>1, <1>2
  <2>3. CASE i \notin 1..Len(s)
    <3>1. t[i] = first + (i - Len(s)) /\ j \notin 1..Len(s)
      BY <2>3, <1>1, <1>4, <1>6
    <3>2. t[j] = first + (j - Len(s))
      BY <3>1, <1>4
    <3>. QED  BY <3>1, <3>2, <1>1, <1>2, <1>6
  <2>. QED  BY <2>1, <2>2, <2>3
<1>7. ASSUME Len(s) = first, \A i \in 1..Len(s) : s[i] = i, NEW i \in 1..Len(t)
      PROVE  t[i] = i
  <2>1. CASE i \in 1..Len(s)
    BY <2>1, <1>3, <1>7
  <2>2. CASE i \notin 1..Len(s)
    BY <2>2, <1>1, <1>4, <1>7
  <2>. QED  BY <2>1, <2>2
<1>. QED  BY <1>2, <1>5, <1>6, <1>7 DEF t

\* A read of the log starts at the cursor, and reaches the end of the log or is
\* noted.
LEMMA ReadLogFacts ==
    ASSUME PipelineInv, NEW i \in 1..Len(Projectors), ReadLog(i), UNCHANGED <<committed, cursor>>
    PROVE  /\ next' = cursor[Projectors[i]] + 1 /\ next' \in Nat
           /\ last' \in Nat /\ last' <= committed /\ next' <= last' + 1
           /\ behind \subseteq behind'
           /\ Projectors[i] \in installed => Projectors[i] \in behind' \/ last' = committed
<1>1. /\ cursor[Projectors[i]] \in Nat /\ cursor[Projectors[i]] <= committed
      /\ committed \in Nat /\ ReadLimit \in Nat
  BY ProjectorsFacts, PipelineAssumption DEF PipelineInv, Projection
<1>2. last' = IF cursor[Projectors[i]] + ReadLimit < committed
                THEN cursor[Projectors[i]] + ReadLimit ELSE committed
  BY DEF ReadLog
<1>3. last' \in Nat /\ last' <= committed /\ cursor[Projectors[i]] <= last'
  BY <1>1, <1>2
<1>4. next' = cursor[Projectors[i]] + 1
  BY DEF ReadLog
<1>5. next' \in Nat /\ next' <= last' + 1
  BY ONLY <1>1, <1>3, <1>4
<1>6. behind' = IF Projectors[i] \in installed /\ last' < committed
                  THEN behind \cup {Projectors[i]} ELSE behind
  BY DEF ReadLog
<1>7. behind \subseteq behind'
  BY ONLY <1>6
<1>8. Projectors[i] \in installed => Projectors[i] \in behind' \/ last' = committed
  BY ONLY <1>1, <1>3, <1>6
<1>. QED  BY ONLY <1>3, <1>4, <1>5, <1>7, <1>8

-----------------------------------------------------------------------------
(* The steps. *)

LEMMA InitInv == Init => PipelineInv
<1>. SUFFICES ASSUME Init PROVE PipelineInv
  OBVIOUS
<1>1. turn \in 1..Len(Projectors)
  BY ProjectorsFacts DEF Init
<1>2. ASSUME NEW p \in Names PROVE Projection(p)
  <2>1. cursor[p] = 0 /\ applied[p] = <<>> /\ Len(applied[p]) = 0 /\ applied[p] \in Seq(Nat)
    BY EmptySeq DEF Init
  <2>. QED  BY <2>1 DEF Projection, Init
<1>. QED  BY <1>1, <1>2, PipelineAssumption DEF Init, PipelineInv, CatchingUp, CaughtUp

\* Nothing is projected, and at most more is noted to be behind.
LEMMA KeepProjections ==
    ASSUME PipelineInv, UNCHANGED <<committed, cursor, applied>>, behind \subseteq behind'
    PROVE  /\ committed' \in Nat /\ DOMAIN cursor' = Names /\ DOMAIN applied' = Names
           /\ \A p \in Names : Projection(p)'
BY DEF PipelineInv, Projection

LEMMA UpgradeInv ==
    ASSUME PipelineInv, NEW p \in Names, Upgrade(p)
    PROVE  PipelineInv'
<1>1. UNCHANGED <<committed, cursor, applied, phase, turn, next, last, behind>>
  BY DEF Upgrade, bootstrapping
<1>2. phase = "down" /\ installed' \subseteq Names
  BY DEF Upgrade, PipelineInv
<1>. QED  BY <1>1, <1>2, KeepProjections DEF PipelineInv, CatchingUp, CaughtUp

LEMMA StartBootstrapInv ==
    ASSUME PipelineInv, StartBootstrap
    PROVE  PipelineInv'
<1>1. UNCHANGED <<committed, cursor, applied, installed>> /\ turn' = 1 /\ phase' = "bootstrap"
  BY DEF StartBootstrap
<1>2. 1 \in 1..Len(Projectors) /\ 1..(1 - 1) = {}
  BY ProjectorsFacts
<1>3. /\ next' = cursor[Projectors[1]] + 1 /\ next' \in Nat
      /\ last' \in Nat /\ last' <= committed /\ next' <= last' + 1
      /\ behind \subseteq behind'
      /\ Projectors[1] \in installed => Projectors[1] \in behind' \/ last' = committed
  BY <1>1, <1>2, ReadLogFacts DEF StartBootstrap
<1>4. CatchingUp'
  BY <1>1, <1>2, <1>3 DEF CatchingUp
<1>5. CaughtUp'
  BY <1>1 DEF CaughtUp
<1>. QED  BY <1>1, <1>2, <1>3, <1>4, <1>5, KeepProjections DEF PipelineInv

LEMMA ApplyNextInv ==
    ASSUME PipelineInv, ApplyNext
    PROVE  PipelineInv'
<1>. DEFINE q == Projectors[turn]
<1>1. /\ phase = "bootstrap" /\ q \in installed /\ next <= last /\ next' = next + 1
      /\ cursor' = [cursor EXCEPT ![q] = next]
      /\ applied' = [applied EXCEPT ![q] = Append(@, next)]
      /\ UNCHANGED <<committed, installed, phase, turn, last, behind>>
      /\ q' = q
  BY DEF ApplyNext
<1>2. /\ q \in Names /\ next = cursor[q] + 1 /\ last <= committed
      /\ last \in Nat /\ next \in Nat /\ committed \in Nat /\ turn \in 1..Len(Projectors)
      /\ Projection(q)
  BY <1>1, ProjectorsFacts DEF PipelineInv, CatchingUp
<1>. HIDE DEF q
<1>3. /\ cursor'[q] = next /\ applied'[q] = Append(applied[q], next)
      /\ \A p \in Names : p # q => cursor'[p] = cursor[p] /\ applied'[p] = applied[p]
      /\ DOMAIN cursor' = Names /\ DOMAIN applied' = Names
  BY <1>1, <1>2 DEF PipelineInv
<1>4. Projection(q)'
  <2>1. /\ applied[q] \in Seq(Nat) /\ Len(applied[q]) \in Nat
        /\ \A i \in 1..Len(applied[q]) : applied[q][i] \in Nat
    BY <1>2, LenProperties, ElementOfSeq DEF Projection
  <2>2. /\ applied'[q] \in Seq(Nat)
        /\ Len(applied'[q]) = Len(applied[q]) + 1
        /\ \A i \in 1..Len(applied[q]) : applied'[q][i] = applied[q][i]
        /\ applied'[q][Len(applied[q]) + 1] = next
    BY <1>2, <1>3, <2>1, AppendProperties
  <2>3. \A i \in 1..Len(applied'[q]) : i \in 1..Len(applied[q]) \/ i = Len(applied[q]) + 1
    BY <2>1, <2>2
  <2>4. cursor'[q] \in Nat /\ cursor'[q] <= committed' /\ cursor[q] < cursor'[q]
    BY <1>1, <1>2, <1>3 DEF Projection
  <2>5. \A i \in 1..Len(applied'[q]) : applied'[q][i] <= cursor'[q]
    <3>. SUFFICES ASSUME NEW i \in 1..Len(applied'[q]) PROVE applied'[q][i] <= cursor'[q]
      OBVIOUS
    <3>1. CASE i \in 1..Len(applied[q])
      <4>1. applied'[q][i] \in Nat /\ applied'[q][i] <= cursor[q] /\ cursor[q] \in Nat
        BY <3>1, <1>2, <2>1, <2>2 DEF Projection
      <4>. QED  BY <4>1, <2>4
    <3>2. CASE i = Len(applied[q]) + 1
      <4>1. applied'[q][i] = next /\ cursor'[q] = next
        BY <3>2, <1>3, <2>2
      <4>. QED  BY <4>1, <1>2
    <3>. QED  BY <3>1, <3>2, <2>3
  <2>6. ASSUME NEW i \in 1..Len(applied'[q]), NEW j \in 1..Len(applied'[q]), i < j
        PROVE  applied'[q][i] < applied'[q][j]
    <3>1. i \in 1..Len(applied[q]) /\ applied'[q][i] = applied[q][i]
      BY <2>1, <2>2, <2>3, <2>6
    <3>2. CASE j \in 1..Len(applied[q])
      BY <3>1, <3>2, <1>2, <2>2, <2>6 DEF Projection
    <3>3. CASE j = Len(applied[q]) + 1
      <4>1. applied'[q][j] = next /\ applied[q][i] <= cursor[q] /\ cursor[q] \in Nat
        BY <3>1, <3>3, <1>2, <2>2 DEF Projection
      <4>2. applied[q][i] \in Nat /\ next = cursor[q] + 1 /\ applied'[q][i] = applied[q][i]
        BY <3>1, <1>2, <2>1
      <4>. QED  BY ONLY <4>1, <4>2
    <3>. QED  BY <3>2, <3>3, <2>3
  <2>7. q \notin behind' =>
          Len(applied'[q]) = cursor'[q] /\ \A i \in 1..Len(applied'[q]) : applied'[q][i] = i
    <3>. SUFFICES ASSUME q \notin behind'
                  PROVE  /\ Len(applied'[q]) = cursor'[q]
                         /\ \A i \in 1..Len(applied'[q]) : applied'[q][i] = i
      OBVIOUS
    <3>1. Len(applied[q]) = cursor[q] /\ \A i \in 1..Len(applied[q]) : applied[q][i] = i
      BY <1>1, <1>2 DEF Projection
    <3>2. next = Len(applied[q]) + 1 /\ cursor'[q] = next
      BY <3>1, <1>2, <1>3
    <3>. QED  BY <3>1, <3>2, <2>2, <2>3
  <2>. QED  BY <1>1, <2>2, <2>4, <2>5, <2>6, <2>7 DEF Projection
<1>5. ASSUME NEW p \in Names, p # q PROVE Projection(p)'
  BY <1>1, <1>3, <1>5 DEF PipelineInv, Projection
<1>6. CatchingUp'
  <2>1. \A i \in 1..(turn - 1) : Projectors[i] \in Names /\ Projectors[i] # q
    BY <1>2, ProjectorsFacts DEF q
  <2>2. next' <= last + 1 /\ next' = cursor'[q] + 1
    BY <1>1, <1>2, <1>3
  <2>. QED  BY <1>1, <1>3, <2>1, <2>2 DEF PipelineInv, CatchingUp, q
<1>7. CaughtUp'
  BY <1>1 DEF CaughtUp
<1>. QED  BY <1>1, <1>2, <1>3, <1>4, <1>5, <1>6, <1>7 DEF PipelineInv

\* The projector whose turn it was is at the end of the log.
LEMMA TurnDone ==
    ASSUME PipelineInv, phase = "bootstrap", Projectors[turn] \in installed => next > last
    PROVE  \A i \in 1..turn :
              Projectors[i] \in installed \ behind => cursor[Projectors[i]] = committed
<1>1. turn \in Nat /\ \A i \in 1..turn : i \in 1..(turn - 1) \/ i = turn
  BY ProjectorsFacts DEF PipelineInv
<1>2. Projectors[turn] \in installed \ behind => cursor[Projectors[turn]] = committed
  BY ProjectorsFacts DEF PipelineInv, Projection, CatchingUp
<1>. QED  BY <1>1, <1>2 DEF PipelineInv, CatchingUp

LEMMA NextProjectorInv ==
    ASSUME PipelineInv, NextProjector
    PROVE  PipelineInv'
<1>1. /\ UNCHANGED <<committed, cursor, applied, installed, phase>>
      /\ turn' = turn + 1 /\ phase = "bootstrap" /\ turn < Len(Projectors)
      /\ ReadLog(turn + 1)
      /\ Projectors[turn] \in installed => next > last
  BY DEF NextProjector
<1>2. turn \in Nat /\ turn + 1 \in 1..Len(Projectors) /\ 1..(turn' - 1) = 1..turn
  BY <1>1, ProjectorsFacts DEF PipelineInv
<1>3. /\ next' = cursor[Projectors[turn']] + 1 /\ next' \in Nat
      /\ last' \in Nat /\ last' <= committed /\ next' <= last' + 1
      /\ behind \subseteq behind'
      /\ Projectors[turn'] \in installed => Projectors[turn'] \in behind' \/ last' = committed
  BY <1>1, <1>2, ReadLogFacts
<1>4. \A i \in 1..turn : Projectors[i] \in installed \ behind => cursor[Projectors[i]] = committed
  BY <1>1, TurnDone
<1>5. CatchingUp'
  BY <1>1, <1>2, <1>3, <1>4 DEF CatchingUp
<1>6. CaughtUp'
  BY <1>1 DEF CaughtUp
<1>. QED  BY <1>1, <1>2, <1>3, <1>5, <1>6, KeepProjections DEF PipelineInv

LEMMA EndBootstrapInv ==
    ASSUME PipelineInv, EndBootstrap
    PROVE  PipelineInv'
<1>1. /\ UNCHANGED <<committed, cursor, applied, installed, turn, next, last, behind>>
      /\ phase = "bootstrap" /\ phase' = "up" /\ turn = Len(Projectors)
      /\ Projectors[turn] \in installed => next > last
  BY DEF EndBootstrap, bootstrapping
<1>2. \A i \in 1..turn : Projectors[i] \in installed \ behind => cursor[Projectors[i]] = committed
  BY <1>1, TurnDone
<1>3. CaughtUp'
  BY <1>1, <1>2, ProjectorsFacts DEF CaughtUp, PipelineInv
<1>4. CatchingUp'
  BY <1>1 DEF CatchingUp
<1>. QED  BY <1>1, <1>3, <1>4, KeepProjections DEF PipelineInv

LEMMA ProjectCommandInv ==
    ASSUME PipelineInv, ProjectCommand
    PROVE  PipelineInv'
<1>1. PICK n \in 1..MaxBatch :
        /\ committed' = committed + n
        /\ cursor' = [p \in Names |-> IF p \in installed THEN committed' ELSE cursor[p]]
        /\ applied' = [p \in Names |->
              IF p \in installed THEN applied[p] \o [i \in 1..n |-> committed + i]
                                 ELSE applied[p]]
  BY DEF ProjectCommand
<1>2. phase = "up" /\ UNCHANGED <<installed, phase, turn, next, last, behind>>
  BY DEF ProjectCommand, bootstrapping
<1>3. n \in Nat /\ committed \in Nat /\ committed' \in Nat /\ committed <= committed'
  BY <1>1, PipelineAssumption DEF PipelineInv
<1>4. ASSUME NEW p \in Names PROVE Projection(p)'
  <2>1. Projection(p)
    BY DEF PipelineInv
  <2>2. CASE p \notin installed
    BY <1>1, <1>2, <1>3, <2>1, <2>2 DEF Projection
  <2>3. CASE p \in installed
    <3>. DEFINE new == [i \in 1..n |-> committed + i]
    <3>0. new \in [1..n -> Nat] /\ \A i \in 1..n : new[i] = committed + i
      BY <1>3
    <3>1. cursor'[p] = committed + n /\ applied'[p] = applied[p] \o new
      BY <1>1, <2>3
    <3>2. new \in Seq(Nat) /\ Len(new) = n
      BY <1>3, <3>0
    <3>. HIDE DEF new
    <3>4. /\ cursor[p] \in Nat /\ cursor[p] <= committed /\ applied[p] \in Seq(Nat)
          /\ \A i \in 1..Len(applied[p]) : applied[p][i] <= cursor[p]
          /\ \A i, j \in 1..Len(applied[p]) : i < j => applied[p][i] < applied[p][j]
      BY <2>1 DEF Projection
    <3>. DEFINE t == applied[p] \o new
    <3>5. /\ t \in Seq(Nat) /\ Len(t) = Len(applied[p]) + Len(new)
          /\ \A i \in 1..Len(t) : t[i] <= committed + Len(new)
          /\ \A i, j \in 1..Len(t) : i < j => t[i] < t[j]
          /\ Len(applied[p]) = committed /\ (\A i \in 1..Len(applied[p]) : applied[p][i] = i)
                => \A i \in 1..Len(t) : t[i] = i
      <4>1. \A i \in 1..Len(new) : new[i] = committed + i
        BY <3>0, <3>2
      <4>. DEFINE s == applied[p]
                  c == cursor[p]
      <4>2. /\ c \in Nat /\ c <= committed /\ s \in Seq(Nat)
            /\ \A i \in 1..Len(s) : s[i] <= c
            /\ \A i, j \in 1..Len(s) : i < j => s[i] < s[j]
        BY <3>4
      <4>3. t = s \o new
        OBVIOUS
      <4>. HIDE DEF t, c
      <4>4. /\ s \o new \in Seq(Nat) /\ Len(s \o new) = Len(s) + Len(new)
            /\ \A i \in 1..Len(s \o new) : (s \o new)[i] <= committed + Len(new)
            /\ \A i, j \in 1..Len(s \o new) : i < j => (s \o new)[i] < (s \o new)[j]
            /\ Len(s) = committed /\ (\A i \in 1..Len(s) : s[i] = i)
                  => \A i \in 1..Len(s \o new) : (s \o new)[i] = i
        <5>. HIDE DEF s
        <5>. QED  BY ONLY <1>3, <3>2, <4>1, <4>2, AppliedProperties
      <4>. QED  BY <4>3, <4>4
    <3>6. applied'[p] = t
      BY <3>1
    <3>. HIDE DEF t
    <3>3. p \notin behind => cursor[p] = committed
      BY <1>2, <2>3 DEF PipelineInv, CaughtUp
    <3>7. p \notin behind' =>
            Len(t) = cursor'[p] /\ \A i \in 1..Len(t) : t[i] = i
      BY <1>2, <2>1, <3>1, <3>2, <3>3, <3>5 DEF Projection
    <3>8. cursor'[p] \in Nat /\ cursor'[p] <= committed'
      BY <1>1, <1>3, <3>1
    <3>. QED  BY <3>1, <3>2, <3>5, <3>6, <3>7, <3>8 DEF Projection
  <2>. QED  BY <2>2, <2>3
<1>5. CaughtUp' /\ CatchingUp'
  BY <1>1, <1>2 DEF PipelineInv, CaughtUp, CatchingUp
<1>. QED  BY <1>1, <1>2, <1>3, <1>4, <1>5 DEF PipelineInv

LEMMA NextInv == PipelineInv /\ [Next]_vars => PipelineInv'
<1>. SUFFICES ASSUME PipelineInv, [Next]_vars PROVE PipelineInv'
  OBVIOUS
<1>1. CASE Stop
  <2>1. UNCHANGED <<committed, cursor, applied, installed, turn, next, last, behind>>
        /\ phase' = "down"
    BY <1>1 DEF Stop, bootstrapping
  <2>. QED  BY <2>1, KeepProjections DEF PipelineInv, CatchingUp, CaughtUp
<1>2. CASE UNCHANGED vars
  <2>1. UNCHANGED <<committed, cursor, applied, installed, phase, turn, next, last, behind>>
    BY <1>2 DEF vars, bootstrapping
  <2>. QED  BY <2>1, KeepProjections DEF PipelineInv, CatchingUp, CaughtUp
<1>. QED
  BY <1>1, <1>2, UpgradeInv, StartBootstrapInv, ApplyNextInv, NextProjectorInv, EndBootstrapInv,
     ProjectCommandInv DEF Next

LEMMA Invariance == Spec => []PipelineInv
BY InitInv, NextInv, PTL DEF Spec

-----------------------------------------------------------------------------
\* Whatever is interrupted and resumed, each projector applies events of the log
\* in order, none twice, and none is skipped by one the log can be read for.
THEOREM ProjectedInOrder == Spec => []ProjectedOnceInOrder
<1>1. PipelineInv => ProjectedOnceInOrder
  <2>. SUFFICES ASSUME PipelineInv, NEW p \in Names
                PROVE  /\ \A i, j \in DOMAIN applied[p] : i < j => applied[p][i] < applied[p][j]
                       /\ p \notin behind => applied[p] = [n \in 1..cursor[p] |-> n]
    BY DEF ProjectedOnceInOrder
  <2>1. /\ Projection(p) /\ applied[p] \in Seq(Nat) /\ DOMAIN applied[p] = 1..Len(applied[p])
        /\ applied[p] \in [1..Len(applied[p]) -> Nat]
    BY LenProperties DEF PipelineInv, Projection
  <2>. QED  BY <2>1 DEF Projection
<1>. QED  BY <1>1, Invariance, PTL

\* A server that is up has every projection at the end of its log, and a snapshot
\* of the whole of it, unless a projector has been too far behind.
THEOREM UpIsCaughtUp == Spec => []CaughtUpWhenUp
<1>1. PipelineInv => CaughtUpWhenUp
  <2>. SUFFICES ASSUME PipelineInv, phase = "up"
                PROVE  /\ \A p \in installed \ behind : cursor[p] = committed
                       /\ Required \subseteq installed \ behind => SnapshotSequence = committed
    BY DEF CaughtUpWhenUp
  <2>1. \A p \in installed \ behind : cursor[p] = committed
    BY DEF PipelineInv, CaughtUp
  <2>2. ASSUME Required \subseteq installed \ behind PROVE SnapshotSequence = committed
    <3>1. {cursor[p] : p \in Required} = {committed}
      BY <2>1, <2>2, PipelineAssumption
    <3>2. committed \in Nat
      BY DEF PipelineInv
    <3>. QED  BY <3>1, <3>2 DEF SnapshotSequence, Min
  <2>. QED  BY <2>1, <2>2
<1>. QED  BY <1>1, Invariance, PTL
=============================================================================
