------------------------- MODULE ForkReseedProofs -------------------------
(***************************************************************************)
(* Theorems about ForkReseed for any number of processes and threads, with *)
(* and without the GIL: no draw of random bits is repeated in any process, *)
(* and under the GIL no process is without the thread its calibration      *)
(* waits for.                                                              *)
(***************************************************************************)
EXTENDS ForkReseed, FiniteSetTheorems, TLAPS

-----------------------------------------------------------------------------
(* The invariant *)

\* Where a thread is says what it has in hand.
ControlOf(p, t) ==
    /\ task[p][t] = "none" <=> pc[p][t] \in {"idle", "gone"}
    /\ made[p][t] # NoRng <=> pc[p][t] \in {"clock", "measuring"}
    /\ pc[p][t] = "ready" => rng[p][stream(t, task[p][t])] # NoRng
    /\ pc[p][t] = "generator" => task[p][t] = "reseed" /\ rng[p][Global] # NoRng

Control == \A p \in Procs, t \in Threads : ControlOf(p, t)

\* Calls of one process exclude one another where there is a GIL.
Alone ==
    Gil => \A p \in Procs : \A t, u \in Threads :
               Inside(p, t) /\ Inside(p, u) => t = u

\* The streams a process may draw from: those of its threads, except what a
\* forked thread has not replaced yet, and GENERATOR unless that is so for it.
Draws(p, s) ==
    IF s = Global
    THEN \A t \in Threads : task[p][t] # "reseed"
    ELSE pc[p][s] # "gone" /\ (task[p][s] = "reseed" => pc[p][s] = "generator")

Drawable(p, s) == Draws(p, s) /\ rng[p][s] # NoRng

\* No two of these share a seed, ...
SeedsApart ==
    \A p1, p2 \in Procs, s1, s2 \in Streams :
        Drawable(p1, s1) /\ Drawable(p2, s2) /\ rng[p1][s1][1] = rng[p2][s2][1]
            => p1 = p2 /\ s1 = s2

\* ... and what was drawn from their seeds was drawn before.
DrawnBefore ==
    \A p \in Procs, s \in Streams :
        Drawable(p, s) =>
            \A d \in drawn : d[1] = rng[p][s][1] => d[2] < rng[p][s][2]

\* A stream that is being made has a seed of its own.
MadeApart ==
    \A p1 \in Procs, t1 \in Threads :
        made[p1][t1] # NoRng =>
            /\ \A p2 \in Procs, s \in Streams :
                   rng[p2][s] # NoRng => rng[p2][s][1] # made[p1][t1][1]
            /\ \A p2 \in Procs, t2 \in Threads :
                   made[p2][t2] # NoRng /\ made[p2][t2][1] = made[p1][t1][1]
                       => p1 = p2 /\ t1 = t2
            /\ \A d \in drawn : d[1] # made[p1][t1][1]

StreamsApart == SeedsApart /\ DrawnBefore /\ MadeApart

DrawsCounted == IsFiniteSet(drawn) /\ NoReplay

ForkInv == TypeOK /\ Control /\ Alone /\ StreamsApart /\ DrawsCounted
-----------------------------------------------------------------------------
(* Type correctness *)

\* A stream that is in use is a seed that was given out and a number of draws.
LEMMA StreamPair ==
    ASSUME TypeOK, NEW p \in Procs, NEW s \in Streams, rng[p][s] # NoRng
    PROVE  /\ rng[p][s] \in (1 .. seeds) \X (0 .. ids)
           /\ rng[p][s][1] \in 1 .. seeds /\ rng[p][s][2] \in 0 .. ids
           /\ rng[p][s] = <<rng[p][s][1], rng[p][s][2]>>
<1>1. rng[p][s] \in (1 .. seeds) \X (0 .. ids)
    BY DEF TypeOK
<1> QED
    BY <1>1

\* The first process has its types, ...
LEMMA TypeInit ==
    ASSUME Init
    PROVE  TypeOK
BY ForkAssumption DEF Init, TypeOK, Streams

\* ... a call keeps them, ...
LEMMA CallType ==
    ASSUME TypeOK, NEW p \in Procs, NEW t \in Threads, NEW call \in Asked,
           Call(p, t, call)
    PROVE  TypeOK'
BY DEF TypeOK, Call, GoTo

\* A process that has its rate replaces a stream.
LEMMA WriteType ==
    ASSUME TypeOK, NEW p \in Procs, NEW s \in Streams,
           cached[p] = "complete", UNCHANGED cached,
           seeds' \in Nat, ids' \in Nat, seeds <= seeds', ids <= ids',
           NEW x \in (1 .. seeds') \X (0 .. ids'), rng' = [rng EXCEPT ![p][s] = x]
    PROVE  /\ rng' \in [Procs -> [Streams -> (1 .. seeds') \X (0 .. ids') \cup {NoRng}]]
           /\ \A p2 \in Procs, s2 \in Streams :
                  rng'[p2][s2] # NoRng => cached'[p2] = "complete"
<1>1. ASSUME NEW p2 \in Procs, NEW s2 \in Streams
      PROVE  /\ rng'[p2][s2] \in (1 .. seeds') \X (0 .. ids') \cup {NoRng}
             /\ rng'[p2][s2] # NoRng => cached'[p2] = "complete"
    <2>1. CASE p2 = p /\ s2 = s
        BY <2>1 DEF TypeOK
    <2>2. CASE ~(p2 = p /\ s2 = s)
        <3>1. rng'[p2][s2] = rng[p2][s2]
            BY <2>2 DEF TypeOK
        <3>2. (1 .. seeds) \X (0 .. ids) \subseteq (1 .. seeds') \X (0 .. ids')
            BY DEF TypeOK
        <3>3. rng[p2][s2] \in (1 .. seeds) \X (0 .. ids) \cup {NoRng}
            BY DEF TypeOK
        <3> QED BY <3>1, <3>2, <3>3 DEF TypeOK
    <2> QED BY <2>1, <2>2
<1>2. rng' \in [Procs -> [Streams -> (1 .. seeds') \X (0 .. ids') \cup {NoRng}]]
    BY <1>1 DEF TypeOK
<1> QED
    BY <1>1, <1>2

\* The stream a call works on is one of its process.
LEMMA StreamOf ==
    ASSUME NEW t \in Threads, NEW call
    PROVE  /\ stream(t, call) \in Streams
           /\ stream(t, "reseed") = t /\ stream(t, "gen_id") = t
           /\ stream(t, "next_id") = Global
           /\ t # Global /\ t \in Streams /\ Global \in Streams
BY ForkAssumption DEF stream, Streams

\* Drawing moves a stream on by one draw.
LEMMA DrawMoves ==
    ASSUME TypeOK, NEW p \in Procs, NEW s \in Streams, rng[p][s] # NoRng,
           rng' = [rng EXCEPT ![p][s][2] = @ + 1]
    PROVE  rng' = [rng EXCEPT ![p][s] = <<rng[p][s][1], rng[p][s][2] + 1>>]
<1>1. [rng[p][s] EXCEPT ![2] = @ + 1] = <<rng[p][s][1], rng[p][s][2] + 1>>
    BY StreamPair
<1> QED
    BY <1>1

\* ... a step of one keeps them, ...
LEMMA StepType ==
    ASSUME TypeOK, Control, NEW p \in Procs, NEW t \in Threads, Step(p, t)
    PROVE  TypeOK'
<1>0. stream(t, task[p][t]) \in Streams /\ t \in Streams /\ Global \in Streams
      /\ stream(t, "reseed") = t
    BY StreamOf
<1>1. CASE FindState(p, t)
    BY <1>1 DEF TypeOK, FindState, GoTo
<1>2. CASE NewState(p, t)
    BY <1>2 DEF TypeOK, NewState, GoTo, os_seeded_rng
<1>3. CASE StartMeasuring(p, t)
    BY <1>3 DEF TypeOK, StartMeasuring, GoTo
<1>4. CASE EndMeasuring(p, t)
    BY <1>4 DEF TypeOK, EndMeasuring, GoTo
<1>5. CASE TakeRate(p, t)
    <2>1. made[p][t] \in (1 .. seeds) \X (0 .. ids) /\ UNCHANGED <<seeds, ids>>
        <3>1. made[p][t] \in (1 .. seeds) \X {0}
            BY <1>5 DEF TakeRate, Control, ControlOf, TypeOK
        <3> QED BY <1>5, <3>1 DEF TakeRate, TypeOK
    <2>2. /\ rng' \in [Procs -> [Streams -> (1 .. seeds') \X (0 .. ids') \cup {NoRng}]]
          /\ \A p2 \in Procs, s2 \in Streams :
                 rng'[p2][s2] # NoRng => cached'[p2] = "complete"
        BY <1>0, <1>5, <2>1, WriteType DEF TakeRate, TypeOK
    <2> QED
        BY <1>5, <2>1, <2>2 DEF TypeOK, TakeRate, GoTo
<1>6. CASE MakeId(p, t)
    <2> DEFINE s == stream(t, task[p][t])
    <2>1. rng[p][s] # NoRng /\ cached[p] = "complete" /\ UNCHANGED <<cached, seeds>>
          /\ ids' = ids + 1
        BY <1>0, <1>6 DEF MakeId, Control, ControlOf, TypeOK
    <2>2. rng' = [rng EXCEPT ![p][s] = <<rng[p][s][1], rng[p][s][2] + 1>>]
        BY <1>0, <1>6, <2>1, DrawMoves DEF MakeId
    <2>3. <<rng[p][s][1], rng[p][s][2] + 1>> \in (1 .. seeds') \X (0 .. ids')
        BY <1>0, <2>1, StreamPair DEF TypeOK
    <2>4. /\ rng' \in [Procs -> [Streams -> (1 .. seeds') \X (0 .. ids') \cup {NoRng}]]
          /\ \A p2 \in Procs, s2 \in Streams :
                 rng'[p2][s2] # NoRng => cached'[p2] = "complete"
        <3>1. seeds' \in Nat /\ ids' \in Nat /\ seeds <= seeds' /\ ids <= ids'
            BY <2>1 DEF TypeOK
        <3> QED BY <1>0, <2>1, <2>2, <2>3, <3>1, WriteType
    <2>5. drawn' \subseteq (1 .. seeds') \X (0 .. ids')
        <3>1. drawn' = drawn \cup {rng[p][s]}
            BY <1>6 DEF MakeId
        <3>2. rng[p][s] \in (1 .. seeds) \X (0 .. ids)
            BY <1>0, <2>1, StreamPair
        <3> QED BY <2>1, <3>1, <3>2 DEF TypeOK
    <2> QED
        BY <1>6, <2>1, <2>4, <2>5 DEF TypeOK, MakeId, Return, GoTo
<1>7. CASE ReseedThread(p, t) \/ ReseedGenerator(p, t)
    <2>1. PICK s \in Streams : rng' = [rng EXCEPT ![p][s] = os_seeded_rng]
        BY <1>0, <1>7 DEF ReseedThread, ReseedGenerator
    <2>2. cached[p] = "complete" /\ UNCHANGED <<cached, made, drawn, ids>>
          /\ seeds' = seeds + 1
        BY <1>0, <1>7 DEF ReseedThread, ReseedGenerator, Control, ControlOf, TypeOK
    <2>3. os_seeded_rng \in (1 .. seeds') \X (0 .. ids')
        BY <2>2 DEF TypeOK, os_seeded_rng
    <2>4. /\ rng' \in [Procs -> [Streams -> (1 .. seeds') \X (0 .. ids') \cup {NoRng}]]
          /\ \A p2 \in Procs, s2 \in Streams :
                 rng'[p2][s2] # NoRng => cached'[p2] = "complete"
        <3>1. seeds' \in Nat /\ ids' \in Nat /\ seeds <= seeds' /\ ids <= ids'
            BY <2>2 DEF TypeOK
        <3> QED BY <2>1, <2>2, <2>3, <3>1, WriteType
    <2>5. /\ made' \in [Procs -> [Threads -> (1 .. seeds') \X {0} \cup {NoRng}]]
          /\ drawn' \subseteq (1 .. seeds') \X (0 .. ids')
        BY <2>2 DEF TypeOK
    <2>6. /\ pc' \in [Procs -> [Threads -> {"gone", "idle", "called", "clock",
                                            "measuring", "ready", "generator"}]]
          /\ task' \in [Procs -> [Threads -> Asked \cup {"none", "reseed"}]]
        <3>1. \/ GoTo(p, t, "generator") /\ UNCHANGED task
              \/ Return(p, t)
            BY <1>7 DEF ReseedThread, ReseedGenerator
        <3>2. /\ pc \in [Procs -> [Threads -> {"gone", "idle", "called", "clock",
                                               "measuring", "ready", "generator"}]]
              /\ task \in [Procs -> [Threads -> Asked \cup {"none", "reseed"}]]
            BY DEF TypeOK
        <3>3. CASE GoTo(p, t, "generator") /\ UNCHANGED task
            BY <3>2, <3>3 DEF GoTo
        <3>4. CASE Return(p, t)
            BY <3>2, <3>4 DEF Return, GoTo
        <3> QED BY <3>1, <3>3, <3>4
    <2> QED
        BY <2>2, <2>4, <2>5, <2>6 DEF TypeOK
<1> QED
    BY <1>1, <1>2, <1>3, <1>4, <1>5, <1>6, <1>7 DEF Step

\* ... and so does a fork.
LEMMA ForkType ==
    ASSUME TypeOK, NEW p \in Procs, NEW t \in Threads, NEW q \in Procs, Fork(p, t, q)
    PROVE  TypeOK'
BY DEF TypeOK, Fork, Child
-----------------------------------------------------------------------------
(* Control *)

\* Only thread t of process p moves, and no stream is lost.
Moves(p, t) ==
    /\ \A p2 \in Procs, t2 \in Threads :
           p2 # p \/ t2 # t =>
               /\ pc'[p2][t2] = pc[p2][t2]
               /\ task'[p2][t2] = task[p2][t2]
               /\ made'[p2][t2] = made[p2][t2]
    /\ \A p2 \in Procs, s \in Streams : rng[p2][s] # NoRng => rng'[p2][s] # NoRng

\* A call moves the thread that makes it, ...
LEMMA CallMoves ==
    ASSUME TypeOK, NEW p \in Procs, NEW t \in Threads, NEW call \in Asked,
           Call(p, t, call)
    PROVE  Moves(p, t)
BY DEF TypeOK, Call, GoTo, Moves

\* ... and so does every step of the call.
LEMMA StepMoves ==
    ASSUME TypeOK, Control, NEW p \in Procs, NEW t \in Threads, Step(p, t)
    PROVE  Moves(p, t)
<1>0. stream(t, task[p][t]) \in Streams /\ t \in Streams /\ Global \in Streams
    BY StreamOf
<1>1. ASSUME NEW p2 \in Procs, NEW t2 \in Threads, p2 # p \/ t2 # t
      PROVE  /\ pc'[p2][t2] = pc[p2][t2]
             /\ task'[p2][t2] = task[p2][t2]
             /\ made'[p2][t2] = made[p2][t2]
    <2>1. /\ pc \in [Procs -> [Threads -> {"gone", "idle", "called", "clock",
                                           "measuring", "ready", "generator"}]]
          /\ task \in [Procs -> [Threads -> Asked \cup {"none", "reseed"}]]
          /\ made \in [Procs -> [Threads -> (1 .. seeds) \X {0} \cup {NoRng}]]
        BY DEF TypeOK
    <2> QED
        BY <1>1, <2>1 DEF Step, FindState, NewState, StartMeasuring, EndMeasuring, TakeRate,
                MakeId, ReseedThread, ReseedGenerator, Return, GoTo
<1>2. ASSUME NEW p2 \in Procs, NEW s \in Streams, rng[p2][s] # NoRng
      PROVE  rng'[p2][s] # NoRng
    <2>1. CASE UNCHANGED rng
        BY <1>2, <2>1
    <2>2. ASSUME NEW x, x # NoRng, NEW s1 \in Streams, rng' = [rng EXCEPT ![p][s1] = x]
          PROVE  rng'[p2][s] # NoRng
        BY <1>2, <2>2 DEF TypeOK
    <2>3. CASE TakeRate(p, t)
        BY <1>0, <2>2, <2>3 DEF TakeRate, Control, ControlOf
    <2>4. CASE MakeId(p, t)
        <3> DEFINE s1 == stream(t, task[p][t])
        <3>1. rng[p][s1] # NoRng
            BY <2>4 DEF MakeId, Control, ControlOf
        <3>2. rng' = [rng EXCEPT ![p][s1] = <<rng[p][s1][1], rng[p][s1][2] + 1>>]
            BY <1>0, <2>4, <3>1, DrawMoves DEF MakeId
        <3>3. <<rng[p][s1][1], rng[p][s1][2] + 1>> # NoRng
            BY <1>0, <3>1, StreamPair, ForkAssumption
        <3> QED BY <1>0, <2>2, <3>2, <3>3
    <2>5. CASE ReseedThread(p, t) \/ ReseedGenerator(p, t)
        <3>1. os_seeded_rng # NoRng
            BY ForkAssumption DEF TypeOK, os_seeded_rng
        <3> QED BY <1>0, <2>2, <2>5, <3>1 DEF ReseedThread, ReseedGenerator
    <2>6. UNCHANGED rng \/ TakeRate(p, t) \/ MakeId(p, t)
          \/ ReseedThread(p, t) \/ ReseedGenerator(p, t)
        BY DEF Step, FindState, NewState, StartMeasuring, EndMeasuring
    <2> QED
        BY <2>1, <2>3, <2>4, <2>5, <2>6
<1> QED
    BY <1>1, <1>2 DEF Moves

\* So a step has to keep the control of its own thread alone.
LEMMA MovesControl ==
    ASSUME TypeOK, Control, NEW p \in Procs, NEW t \in Threads, Moves(p, t),
           ControlOf(p, t)'
    PROVE  Control'
<1>1. ASSUME NEW p2 \in Procs, NEW t2 \in Threads, p2 # p \/ t2 # t
      PROVE  ControlOf(p2, t2)'
    <2>1. stream(t2, task[p2][t2]) \in Streams /\ Global \in Streams
        BY StreamOf
    <2>2. ControlOf(p2, t2)
        BY DEF Control
    <2> QED
        BY <1>1, <2>1, <2>2 DEF Moves, ControlOf, stream
<1> QED
    BY <1>1 DEF Control
\* A call starts in control, ...
LEMMA CallControl ==
    ASSUME TypeOK, Control, NEW p \in Procs, NEW t \in Threads, NEW call \in Asked,
           Call(p, t, call)
    PROVE  Control'
<1>1. /\ pc[p][t] = "idle" /\ pc'[p][t] = "called"
      /\ task'[p][t] = call /\ call # "none"
      /\ made'[p][t] = made[p][t]
    BY ForkAssumption DEF Call, GoTo, TypeOK
<1>2. ControlOf(p, t)'
    BY <1>1 DEF Control, ControlOf
<1> QED
    BY <1>2, CallMoves, MovesControl

\* ... its steps keep it, ...
LEMMA StepControl ==
    ASSUME TypeOK, Control, NEW p \in Procs, NEW t \in Threads, Step(p, t)
    PROVE  Control'
<1>0. /\ stream(t, task[p][t]) \in Streams /\ t \in Streams /\ Global \in Streams
      /\ stream(t, "reseed") = t
    BY StreamOf
<1>1. /\ pc \in [Procs -> [Threads -> {"gone", "idle", "called", "clock",
                                       "measuring", "ready", "generator"}]]
      /\ task \in [Procs -> [Threads -> Asked \cup {"none", "reseed"}]]
      /\ made \in [Procs -> [Threads -> (1 .. seeds) \X {0} \cup {NoRng}]]
      /\ rng \in [Procs -> [Streams -> (1 .. seeds) \X (0 .. ids) \cup {NoRng}]]
    BY DEF TypeOK
<1>2. ControlOf(p, t) /\ Moves(p, t)
    BY StepMoves DEF Control
<1> SUFFICES ControlOf(p, t)'
    BY <1>2, MovesControl
<1>3. CASE FindState(p, t)
    BY <1>1, <1>2, <1>3 DEF FindState, GoTo, ControlOf
<1>4. CASE NewState(p, t)
    <2>1. os_seeded_rng # NoRng
        BY ForkAssumption DEF TypeOK, os_seeded_rng
    <2>2. /\ pc[p][t] = "called" /\ pc'[p][t] = "clock" /\ task'[p][t] = task[p][t]
          /\ made'[p][t] = os_seeded_rng
        BY <1>1, <1>4 DEF NewState, GoTo
    <2> QED
        BY <1>2, <2>1, <2>2 DEF ControlOf
<1>5. CASE StartMeasuring(p, t)
    BY <1>1, <1>2, <1>5 DEF StartMeasuring, GoTo, ControlOf
<1>6. CASE EndMeasuring(p, t)
    BY <1>1, <1>2, <1>6 DEF EndMeasuring, GoTo, ControlOf
<1>7. CASE TakeRate(p, t)
    <2>1. /\ pc[p][t] = "clock" /\ pc'[p][t] = "ready" /\ task'[p][t] = task[p][t]
          /\ made'[p][t] = NoRng
          /\ rng'[p][stream(t, task[p][t])] = made[p][t]
        BY <1>0, <1>1, <1>7 DEF TakeRate, GoTo
    <2> QED
        BY <1>2, <2>1 DEF ControlOf
<1>8. CASE MakeId(p, t)
    BY <1>1, <1>2, <1>8 DEF MakeId, Return, GoTo, ControlOf
<1>9. CASE ReseedThread(p, t)
    <2>1. pc[p][t] = "ready" /\ task[p][t] = "reseed" /\ made'[p][t] = made[p][t]
        BY <1>9 DEF ReseedThread
    <2>2. CASE Return(p, t)
        BY <1>1, <1>2, <2>1, <2>2 DEF Return, GoTo, ControlOf
    <2>3. CASE rng[p][Global] # NoRng /\ GoTo(p, t, "generator") /\ UNCHANGED task
        <3>1. pc'[p][t] = "generator" /\ task'[p][t] = "reseed" /\ rng'[p][Global] # NoRng
            BY <1>0, <1>1, <1>2, <2>1, <2>3 DEF GoTo, Moves
        <3> QED BY <1>2, <2>1, <3>1 DEF ControlOf
    <2> QED
        BY <1>9, <2>2, <2>3 DEF ReseedThread
<1>10. CASE ReseedGenerator(p, t)
    BY <1>1, <1>2, <1>10 DEF ReseedGenerator, Return, GoTo, ControlOf
<1> QED
    BY <1>3, <1>4, <1>5, <1>6, <1>7, <1>8, <1>9, <1>10 DEF Step

\* A fork makes the process it is given; nothing of the old one changes.
LEMMA ForkFacts ==
    ASSUME TypeOK, NEW p \in Procs, NEW t \in Threads, NEW q \in Procs, Fork(p, t, q)
    PROVE  /\ p # q
           /\ \A u \in Threads : pc[q][u] = "gone"
           /\ \A u \in Threads : pc'[q][u] = IF u = t THEN "called" ELSE "gone"
           /\ \A u \in Threads : task'[q][u] = IF u = t THEN "reseed" ELSE task[q][u]
           /\ \A s \in Streams : rng'[q][s] = rng[p][s]
           /\ \A p2 \in Procs : p2 # q => /\ pc'[p2] = pc[p2]
                                         /\ task'[p2] = task[p2]
                                         /\ rng'[p2] = rng[p2]
           /\ UNCHANGED <<made, drawn, seeds, ids>>
<1>1. /\ pc \in [Procs -> [Threads -> {"gone", "idle", "called", "clock",
                                       "measuring", "ready", "generator"}]]
      /\ task \in [Procs -> [Threads -> Asked \cup {"none", "reseed"}]]
      /\ rng \in [Procs -> [Streams -> (1 .. seeds) \X (0 .. ids) \cup {NoRng}]]
    BY DEF TypeOK
<1> QED
    BY <1>1 DEF Fork, Child

\* ... and a child starts with its reseed called and the other threads gone.
LEMMA ForkControl ==
    ASSUME TypeOK, Control, NEW p \in Procs, NEW t \in Threads, NEW q \in Procs,
           Fork(p, t, q)
    PROVE  Control'
<1>1. ASSUME NEW p2 \in Procs, NEW u \in Threads
      PROVE  ControlOf(p2, u)'
    <2>1. ControlOf(p2, u)
        BY DEF Control
    <2>2. CASE p2 # q
        BY <2>1, <2>2, ForkFacts DEF ControlOf
    <2>3. CASE p2 = q
        BY <2>1, <2>3, ForkFacts DEF ControlOf
    <2> QED BY <2>2, <2>3
<1> QED
    BY <1>1 DEF Control

-----------------------------------------------------------------------------
(* The GIL *)

\* Under the GIL no step brings a second thread of a process into a call.
LEMMA AloneStep ==
    ASSUME TypeOK, Control, Alone, Next
    PROVE  Alone'
<1> SUFFICES ASSUME Gil, NEW p2 \in Procs, NEW u \in Threads, NEW v \in Threads,
                    Inside(p2, u)', Inside(p2, v)'
             PROVE  u = v
    BY DEF Alone
<1>1. ASSUME NEW p \in Procs, NEW t \in Threads, NEW call \in Asked, Call(p, t, call)
      PROVE  u = v
    <2>1. \A w \in Threads : ~Inside(p, w)
        BY <1>1 DEF Call, GilFree
    <2>2. \A p1 \in Procs, w \in Threads :
              p1 # p \/ w # t => (Inside(p1, w)' <=> Inside(p1, w))
        BY <1>1, CallMoves DEF Moves, Inside
    <2> QED
        BY <2>1, <2>2 DEF Alone
<1>2. ASSUME NEW p \in Procs, NEW t \in Threads, Step(p, t)
      PROVE  u = v
    <2>1. Inside(p, t)
        BY <1>2 DEF Step, FindState, NewState, StartMeasuring, EndMeasuring, TakeRate,
                MakeId, ReseedThread, ReseedGenerator, Inside
    <2> QED
        BY <1>2, <2>1, StepMoves DEF Moves, Inside, Alone
<1>3. ASSUME NEW p \in Procs, NEW t \in Threads, NEW q \in Procs, Fork(p, t, q)
      PROVE  u = v
    <2>1. CASE p2 = q
        BY <1>3, <2>1, ForkFacts DEF Inside
    <2>2. CASE p2 # q
        BY <1>3, <2>2, ForkFacts DEF Inside, Alone
    <2> QED BY <2>1, <2>2
<1> QED
    BY <1>1, <1>2, <1>3 DEF Next
-----------------------------------------------------------------------------
(* Streams *)

\* A step that touches no stream and lets no process draw from more of them.
LEMMA StreamsKept ==
    ASSUME StreamsApart, UNCHANGED <<rng, made, drawn>>,
           \A p \in Procs, s \in Streams : Drawable(p, s)' => Drawable(p, s)
    PROVE  StreamsApart'
BY DEF StreamsApart, SeedsApart, DrawnBefore, MadeApart

\* A step that replaces a stream by one with a seed that nobody else has.
LEMMA StreamReplaced ==
    ASSUME StreamsApart, NEW p \in Procs, NEW s \in Streams, NEW x,
           rng'[p][s] = x, UNCHANGED drawn,
           \A p2 \in Procs, s2 \in Streams :
               p2 # p \/ s2 # s =>
                   /\ rng'[p2][s2] = rng[p2][s2]
                   /\ Drawable(p2, s2)' => Drawable(p2, s2)
                   /\ rng[p2][s2] # NoRng => rng[p2][s2][1] # x[1],
           \A d \in drawn : d[1] # x[1],
           \A p2 \in Procs, t2 \in Threads :
               made'[p2][t2] # NoRng =>
                   made'[p2][t2] = made[p2][t2] /\ made[p2][t2][1] # x[1]
    PROVE  StreamsApart'
<1>1. SeedsApart'
    BY DEF StreamsApart, SeedsApart, Drawable
<1>2. DrawnBefore'
    BY DEF StreamsApart, DrawnBefore, Drawable
<1>3. MadeApart'
    BY DEF StreamsApart, MadeApart
<1> QED
    BY <1>1, <1>2, <1>3 DEF StreamsApart

\* A seed that has just been given out is nobody else's.
LEMMA FreshSeed ==
    ASSUME TypeOK
    PROVE  /\ os_seeded_rng[1] = seeds + 1
           /\ \A p \in Procs, s \in Streams :
                  rng[p][s] # NoRng => rng[p][s][1] # seeds + 1
           /\ \A p \in Procs, t \in Threads :
                  made[p][t] # NoRng => made[p][t][1] # seeds + 1
           /\ \A d \in drawn : d[1] # seeds + 1
<1>1. seeds \in Nat
    BY DEF TypeOK
<1>2. \A p \in Procs, s \in Streams : rng[p][s] # NoRng => rng[p][s][1] # seeds + 1
    BY <1>1, StreamPair
<1>3. ASSUME NEW p \in Procs, NEW t \in Threads, made[p][t] # NoRng
      PROVE  made[p][t][1] # seeds + 1
    <2>1. made[p][t] \in (1 .. seeds) \X {0}
        BY <1>3 DEF TypeOK
    <2> QED BY <1>1, <2>1
<1>4. ASSUME NEW d \in drawn
      PROVE  d[1] # seeds + 1
    <2>1. d \in (1 .. seeds) \X (0 .. ids)
        BY DEF TypeOK
    <2> QED BY <1>1, <2>1
<1> QED
    BY <1>2, <1>3, <1>4 DEF os_seeded_rng

\* A call draws from nothing yet.
LEMMA CallStreams ==
    ASSUME TypeOK, Control, StreamsApart, NEW p \in Procs, NEW t \in Threads,
           NEW call \in Asked, Call(p, t, call)
    PROVE  StreamsApart'
<1>1. /\ pc[p][t] = "idle" /\ pc'[p][t] = "called"
      /\ task[p][t] = "none" /\ task'[p][t] # "reseed"
      /\ UNCHANGED <<rng, made, drawn>>
    BY ForkAssumption DEF Call, GoTo, TypeOK, Control, ControlOf
<1>2. \A p2 \in Procs, s \in Streams : Draws(p2, s)' => Draws(p2, s)
    BY <1>1, CallMoves DEF Moves, Draws, Streams
<1> QED
    BY <1>1, <1>2, StreamsKept DEF Drawable

\* The stream of a state in the making has a fresh seed.
LEMMA NewStateStreams ==
    ASSUME TypeOK, StreamsApart, NEW p \in Procs, NEW t \in Threads,
           NewState(p, t),
           \A p2 \in Procs, s \in Streams : Draws(p2, s)' => Draws(p2, s)
    PROVE  StreamsApart'
<1>1. UNCHANGED <<rng, drawn>>
    BY DEF NewState
<1>2. /\ made'[p][t] = os_seeded_rng
      /\ \A p2 \in Procs, t2 \in Threads :
             p2 # p \/ t2 # t => made'[p2][t2] = made[p2][t2]
    BY DEF NewState, TypeOK
<1>3. SeedsApart' /\ DrawnBefore'
    BY <1>1 DEF StreamsApart, SeedsApart, DrawnBefore, Drawable
<1>4. MadeApart'
    BY <1>1, <1>2, FreshSeed DEF StreamsApart, MadeApart
<1> QED
    BY <1>3, <1>4 DEF StreamsApart

\* A state that is ready draws from the stream made for it, whose seed is its own.
LEMMA TakeRateStreams ==
    ASSUME TypeOK, Control, StreamsApart, NEW p \in Procs, NEW t \in Threads,
           TakeRate(p, t),
           \A p2 \in Procs, s \in Streams : Draws(p2, s)' => Draws(p2, s)
    PROVE  StreamsApart'
<1> DEFINE s == stream(t, task[p][t])
<1>1. s \in Streams
    BY StreamOf
<1>2. rng' = [rng EXCEPT ![p][s] = made[p][t]] /\ UNCHANGED drawn /\ made[p][t] # NoRng
    BY DEF TakeRate, Control, ControlOf
<1>3. /\ made'[p][t] = NoRng
      /\ \A p2 \in Procs, t2 \in Threads :
             p2 # p \/ t2 # t => made'[p2][t2] = made[p2][t2]
    BY DEF TakeRate, TypeOK
<1> HIDE DEF s
<1>4. /\ rng'[p][s] = made[p][t]
      /\ \A p2 \in Procs, s2 \in Streams :
             p2 # p \/ s2 # s => rng'[p2][s2] = rng[p2][s2]
    BY <1>1, <1>2 DEF TypeOK
<1>5. \A p2 \in Procs, s2 \in Streams :
          p2 # p \/ s2 # s =>
              /\ rng'[p2][s2] = rng[p2][s2]
              /\ Drawable(p2, s2)' => Drawable(p2, s2)
              /\ rng[p2][s2] # NoRng => rng[p2][s2][1] # made[p][t][1]
    BY <1>2, <1>4 DEF Drawable, StreamsApart, MadeApart
<1>6. \A d \in drawn : d[1] # made[p][t][1]
    BY <1>2 DEF StreamsApart, MadeApart
<1>7. \A p2 \in Procs, t2 \in Threads :
          made'[p2][t2] # NoRng =>
              made'[p2][t2] = made[p2][t2] /\ made[p2][t2][1] # made[p][t][1]
    BY <1>2, <1>3 DEF StreamsApart, MadeApart
<1> QED
    BY <1>1, <1>2, <1>4, <1>5, <1>6, <1>7, StreamReplaced
\* Reseeding makes at most the replaced stream one to draw from.
LEMMA ReseedStreams ==
    ASSUME TypeOK, Control, StreamsApart, NEW p \in Procs, NEW t \in Threads,
           ReseedThread(p, t) \/ ReseedGenerator(p, t)
    PROVE  StreamsApart'
<1>0. t \in Streams /\ Global \in Streams /\ t # Global
    BY StreamOf
<1>1. /\ pc \in [Procs -> [Threads -> {"gone", "idle", "called", "clock",
                                       "measuring", "ready", "generator"}]]
      /\ task \in [Procs -> [Threads -> Asked \cup {"none", "reseed"}]]
      /\ rng \in [Procs -> [Streams -> (1 .. seeds) \X (0 .. ids) \cup {NoRng}]]
    BY DEF TypeOK
<1>2. \A p2 \in Procs, t2 \in Threads :
          p2 # p \/ t2 # t =>
              pc'[p2][t2] = pc[p2][t2] /\ task'[p2][t2] = task[p2][t2]
    BY StepMoves DEF Moves, Step
<1>3. UNCHANGED <<made, drawn>>
    BY DEF ReseedThread, ReseedGenerator
<1>4. ASSUME NEW s \in Streams, rng' = [rng EXCEPT ![p][s] = os_seeded_rng],
             \A p2 \in Procs, s2 \in Streams :
                 p2 # p \/ s2 # s => (Drawable(p2, s2)' => Drawable(p2, s2))
      PROVE  StreamsApart'
    <2>1. /\ rng'[p][s] = os_seeded_rng
          /\ \A p2 \in Procs, s2 \in Streams :
                 p2 # p \/ s2 # s => rng'[p2][s2] = rng[p2][s2]
        BY <1>1, <1>4
    <2> QED
        BY <1>3, <1>4, <2>1, FreshSeed, StreamReplaced
<1>5. ASSUME ReseedThread(p, t)
      PROVE  StreamsApart'
    <2>1. rng' = [rng EXCEPT ![p][t] = os_seeded_rng] /\ task[p][t] = "reseed"
        BY <1>5 DEF ReseedThread
    <2>2. rng[p][Global] # NoRng => task'[p][t] = "reseed"
        BY <1>5, <2>1 DEF ReseedThread
    <2>3. ASSUME NEW p2 \in Procs, NEW s2 \in Streams, p2 # p \/ s2 # t,
                 Drawable(p2, s2)'
          PROVE  Drawable(p2, s2)
        <3>1. rng'[p2][s2] = rng[p2][s2]
            BY <1>1, <2>1, <2>3
        <3>2. CASE s2 = Global
            BY <1>2, <2>2, <2>3, <3>1, <3>2 DEF Drawable, Draws
        <3>3. CASE s2 # Global
            BY <1>2, <2>3, <3>1, <3>3 DEF Drawable, Draws, Streams
        <3> QED BY <3>2, <3>3
    <2> QED
        BY <1>0, <1>4, <2>1, <2>3
<1>6. ASSUME ReseedGenerator(p, t)
      PROVE  StreamsApart'
    <2>1. /\ rng' = [rng EXCEPT ![p][Global] = os_seeded_rng]
          /\ pc[p][t] = "generator"
        BY <1>6 DEF ReseedGenerator
    <2>2. ASSUME NEW p2 \in Procs, NEW s2 \in Streams, p2 # p \/ s2 # Global,
                 Drawable(p2, s2)'
          PROVE  Drawable(p2, s2)
        <3>1. rng'[p2][s2] = rng[p2][s2]
            BY <1>1, <2>1, <2>2
        <3>2. CASE s2 = Global
            BY <1>2, <2>2, <3>1, <3>2 DEF Drawable, Draws
        <3>3. CASE s2 # Global
            BY <1>2, <2>1, <2>2, <3>1, <3>3 DEF Drawable, Draws, Streams
        <3> QED BY <3>2, <3>3
    <2> QED
        BY <1>0, <1>4, <2>1, <2>2
<1> QED
    BY <1>5, <1>6

\* The stream an id is made from is one the process may draw from: with the
\* GIL no other thread of the process is reseeding GENERATOR meanwhile.
LEMMA MakeIdDraws ==
    ASSUME TypeOK, Control, Alone, NEW p \in Procs, NEW t \in Threads, MakeId(p, t)
    PROVE  Drawable(p, stream(t, task[p][t]))
<1>1. /\ pc[p][t] = "ready" /\ task[p][t] # "reseed"
      /\ rng[p][stream(t, task[p][t])] # NoRng
    BY DEF MakeId, Control, ControlOf
<1>2. CASE task[p][t] = "next_id"
    <2>1. Gil
        <3>1. task[p][t] \in Asked \cup {"none", "reseed"}
            BY DEF TypeOK
        <3> QED BY <1>2, <3>1, ForkAssumption
    <2>2. ASSUME NEW u \in Threads, task[p][u] = "reseed"
          PROVE  FALSE
        <3>1. Inside(p, u) /\ Inside(p, t)
            BY <1>1, <2>2 DEF Control, ControlOf, Inside
        <3> QED BY <1>1, <2>1, <2>2, <3>1 DEF Alone
    <2> QED
        BY <1>1, <1>2, <2>2, StreamOf DEF Drawable, Draws
<1>3. CASE task[p][t] # "next_id"
    BY <1>1, <1>3, StreamOf DEF Drawable, Draws, stream
<1> QED
    BY <1>2, <1>3

\* An id takes the next draw of its stream, which nobody has made before.
LEMMA MakeIdStreams ==
    ASSUME ForkInv, NEW p \in Procs, NEW t \in Threads, MakeId(p, t)
    PROVE  StreamsApart' /\ DrawsCounted'
<1> DEFINE s == stream(t, task[p][t])
           d0 == rng[p][s]
<1>1. s \in Streams /\ Drawable(p, s)
    BY StreamOf, MakeIdDraws DEF ForkInv
<1>2. d0 \in Nat \X Nat /\ d0 = <<d0[1], d0[2]>> /\ d0[1] \in Nat /\ d0[2] \in Nat
    <2>1. d0 \in (1 .. seeds) \X (0 .. ids)
        BY <1>1, StreamPair DEF ForkInv, Drawable
    <2> QED BY <2>1 DEF ForkInv, TypeOK
<1>3. /\ rng'[p][s] = <<d0[1], d0[2] + 1>>
      /\ \A p2 \in Procs, s2 \in Streams :
             p2 # p \/ s2 # s => rng'[p2][s2] = rng[p2][s2]
    <2>1. rng' = [rng EXCEPT ![p][s] = <<rng[p][s][1], rng[p][s][2] + 1>>]
        BY <1>1, DrawMoves DEF ForkInv, Drawable, MakeId
    <2> QED BY <1>1, <2>1 DEF ForkInv, TypeOK
<1>4. drawn' = drawn \cup {d0} /\ UNCHANGED made /\ ids' = ids + 1
    BY DEF MakeId
<1>5. \A p2 \in Procs, s2 \in Streams : Draws(p2, s2)' => Draws(p2, s2)
    <2>1. /\ \A p2 \in Procs, t2 \in Threads :
                 p2 # p \/ t2 # t =>
                     pc'[p2][t2] = pc[p2][t2] /\ task'[p2][t2] = task[p2][t2]
          /\ pc[p][t] = "ready" /\ task[p][t] # "reseed"
        BY StepMoves DEF Moves, Step, ForkInv, MakeId
    <2> QED BY <2>1 DEF Draws, Streams
<1> HIDE DEF s, d0
<1>6. \A p2 \in Procs, s2 \in Streams :
          /\ Drawable(p2, s2)' => Drawable(p2, s2)
          /\ rng[p2][s2] # NoRng => rng'[p2][s2][1] = rng[p2][s2][1]
    BY <1>1, <1>2, <1>3, <1>5 DEF Drawable, d0
<1>7. StreamsApart
    BY DEF ForkInv
<1>8. SeedsApart'
    BY <1>6, <1>7 DEF StreamsApart, SeedsApart, Drawable
<1>9. DrawnBefore'
    <2> SUFFICES ASSUME NEW p2 \in Procs, NEW s2 \in Streams, Drawable(p2, s2)',
                        NEW d \in drawn', d[1] = rng'[p2][s2][1]
                 PROVE  d[2] < rng'[p2][s2][2]
        BY DEF DrawnBefore
    <2>1. Drawable(p2, s2) /\ rng'[p2][s2][1] = rng[p2][s2][1]
        BY <1>6 DEF Drawable
    <2>2. CASE p2 = p /\ s2 = s
        <3>1. d \in drawn => d[2] < d0[2] /\ d[2] \in Nat
            <4>1. d \in drawn => d \in (1 .. seeds) \X (0 .. ids)
                BY DEF ForkInv, TypeOK
            <4>2. d \in drawn => d[2] \in Nat
                <5>1. seeds \in Nat /\ ids \in Nat
                    BY DEF ForkInv, TypeOK
                <5> QED BY <4>1, <5>1
            <4>3. d[1] = rng[p][s][1]
                BY <2>1, <2>2
            <4>4. d \in drawn => d[2] < d0[2]
                BY <1>1, <1>7, <4>3 DEF StreamsApart, DrawnBefore, d0
            <4> QED BY <4>2, <4>4
        <3> QED BY <1>2, <1>3, <1>4, <2>2, <3>1
    <2>3. CASE ~(p2 = p /\ s2 = s)
        <3>1. rng'[p2][s2] = rng[p2][s2]
            BY <1>3, <2>3
        <3>2. d # d0
            BY <1>1, <1>7, <2>1, <2>3 DEF StreamsApart, SeedsApart, d0
        <3> QED BY <1>4, <1>7, <2>1, <3>1, <3>2 DEF StreamsApart, DrawnBefore
    <2> QED BY <2>2, <2>3
<1>10. MadeApart'
    <2>1. \A p2 \in Procs, s2 \in Streams : rng'[p2][s2] # NoRng =>
              rng[p2][s2] # NoRng /\ rng'[p2][s2][1] = rng[p2][s2][1]
        BY <1>1, <1>3, <1>6 DEF Drawable
    <2> QED
        BY <1>1, <1>4, <1>7, <2>1 DEF StreamsApart, MadeApart, Drawable, d0
<1>11. DrawsCounted'
    <2>1. d0 \notin drawn
        BY <1>1, <1>2, <1>7 DEF StreamsApart, DrawnBefore, d0
    <2> QED
        BY <1>4, <2>1, FS_AddElement DEF ForkInv, DrawsCounted, NoReplay
<1> QED
    BY <1>8, <1>9, <1>10, <1>11 DEF StreamsApart

\* A child's copies are not drawn from: it has to reseed them first.
LEMMA ForkStreams ==
    ASSUME TypeOK, StreamsApart, NEW p \in Procs, NEW t \in Threads, NEW q \in Procs,
           Fork(p, t, q)
    PROVE  StreamsApart'
<1>1. \A p2 \in Procs, s \in Streams :
          Drawable(p2, s)' => Drawable(p2, s) /\ rng'[p2][s] = rng[p2][s]
    BY ForkFacts DEF Drawable, Draws, Streams
<1>2. \A p2 \in Procs, s \in Streams :
          \E p1 \in Procs : rng'[p2][s] = rng[p1][s]
    BY ForkFacts
<1>3. UNCHANGED <<made, drawn>>
    BY ForkFacts
<1>4. SeedsApart' /\ DrawnBefore'
    BY <1>1, <1>3 DEF StreamsApart, SeedsApart, DrawnBefore
<1>5. MadeApart'
    BY <1>2, <1>3 DEF StreamsApart, MadeApart
<1> QED
    BY <1>4, <1>5 DEF StreamsApart

\* Outside reseeding no step lets a process draw from more streams.
LEMMA StepDraws ==
    ASSUME TypeOK, Control, NEW p \in Procs, NEW t \in Threads,
           \/ FindState(p, t)
           \/ NewState(p, t)
           \/ StartMeasuring(p, t)
           \/ EndMeasuring(p, t)
           \/ TakeRate(p, t)
    PROVE  \A p2 \in Procs, s \in Streams : Draws(p2, s)' => Draws(p2, s)
<1>1. /\ pc \in [Procs -> [Threads -> {"gone", "idle", "called", "clock",
                                       "measuring", "ready", "generator"}]]
      /\ task \in [Procs -> [Threads -> Asked \cup {"none", "reseed"}]]
    BY DEF TypeOK
<1>2. /\ pc[p][t] # "gone" /\ pc'[p][t] # "generator"
      /\ task'[p][t] = task[p][t]
    BY <1>1 DEF FindState, NewState, StartMeasuring, EndMeasuring, TakeRate, GoTo
<1>3. \A p2 \in Procs, t2 \in Threads :
          p2 # p \/ t2 # t =>
              pc'[p2][t2] = pc[p2][t2] /\ task'[p2][t2] = task[p2][t2]
    BY StepMoves DEF Moves, Step
<1> QED
    BY <1>2, <1>3 DEF Draws, Streams
-----------------------------------------------------------------------------
(* The inductive invariant *)

\* The invariant holds before anything is seeded.
LEMMA ForkInvInit ==
    ASSUME Init
    PROVE  ForkInv
<1>1. \A p \in Procs : /\ \A t \in Threads : /\ pc[p][t] \in {"idle", "gone"}
                                             /\ task[p][t] = "none"
                                             /\ made[p][t] = NoRng
                       /\ \A s \in Streams : rng[p][s] = NoRng
    BY DEF Init
<1>2. Control /\ Alone
    BY <1>1 DEF Control, ControlOf, Alone, Inside
<1>3. StreamsApart
    BY <1>1 DEF StreamsApart, SeedsApart, DrawnBefore, MadeApart, Drawable
<1>4. DrawsCounted
    BY FS_EmptySet DEF Init, DrawsCounted, NoReplay
<1> QED
    BY <1>2, <1>3, <1>4, TypeInit DEF ForkInv

\* A step that makes no id.
LEMMA NoDraw ==
    ASSUME ForkInv, UNCHANGED <<drawn, ids>>
    PROVE  DrawsCounted'
BY DEF ForkInv, DrawsCounted, NoReplay

\* Every step of a call keeps the streams apart and the draws counted.
LEMMA StepStreams ==
    ASSUME ForkInv, NEW p \in Procs, NEW t \in Threads, Step(p, t)
    PROVE  StreamsApart' /\ DrawsCounted'
<1>0. TypeOK /\ Control /\ StreamsApart
    BY DEF ForkInv
<1>1. CASE FindState(p, t) \/ StartMeasuring(p, t) \/ EndMeasuring(p, t)
    <2>1. UNCHANGED <<rng, made, drawn, ids>>
        BY <1>1 DEF FindState, StartMeasuring, EndMeasuring
    <2>2. \A p2 \in Procs, s \in Streams : Draws(p2, s)' => Draws(p2, s)
        BY <1>0, <1>1, StepDraws
    <2> QED
        BY <1>0, <2>1, <2>2, NoDraw, StreamsKept DEF Drawable
<1>2. CASE NewState(p, t)
    BY <1>0, <1>2, NewStateStreams, NoDraw, StepDraws DEF NewState
<1>3. CASE TakeRate(p, t)
    BY <1>0, <1>3, TakeRateStreams, NoDraw, StepDraws DEF TakeRate
<1>4. CASE MakeId(p, t)
    BY <1>4, MakeIdStreams
<1>5. CASE ReseedThread(p, t) \/ ReseedGenerator(p, t)
    <2>1. UNCHANGED <<drawn, ids>>
        BY <1>5 DEF ReseedThread, ReseedGenerator
    <2> QED
        BY <1>0, <1>5, <2>1, ReseedStreams, NoDraw
<1> QED
    BY <1>1, <1>2, <1>3, <1>4, <1>5 DEF Step

\* Every step of the processes keeps the invariant.
LEMMA ForkInvStep ==
    ASSUME ForkInv, [Next]_vars
    PROVE  ForkInv'
<1>0. TypeOK /\ Control /\ Alone /\ StreamsApart
    BY DEF ForkInv
<1>1. ASSUME NEW p \in Procs, NEW t \in Threads, NEW call \in Asked, Call(p, t, call)
      PROVE  ForkInv'
    <2>1. Next
        BY <1>1 DEF Next
    <2>2. DrawsCounted'
        BY <1>1, NoDraw DEF Call
    <2> QED
        BY <1>0, <1>1, <2>1, <2>2, CallType, CallControl, AloneStep, CallStreams DEF ForkInv
<1>2. ASSUME NEW p \in Procs, NEW t \in Threads, Step(p, t)
      PROVE  ForkInv'
    <2>1. Next
        BY <1>2 DEF Next
    <2> QED
        BY <1>0, <1>2, <2>1, StepType, StepControl, AloneStep, StepStreams DEF ForkInv
<1>3. ASSUME NEW p \in Procs, NEW t \in Threads, NEW q \in Procs, Fork(p, t, q)
      PROVE  ForkInv'
    <2>1. Next
        BY <1>3 DEF Next
    <2>2. DrawsCounted'
        BY <1>3, ForkFacts, NoDraw, <1>0
    <2> QED
        BY <1>0, <1>3, <2>1, <2>2, ForkType, ForkControl, AloneStep, ForkStreams DEF ForkInv
<1>4. CASE UNCHANGED vars
    <2>1. TypeOK' /\ Control' /\ Alone'
        BY <1>0, <1>4 DEF vars, TypeOK, Control, ControlOf, Alone, Inside
    <2>2. \A p \in Procs, s \in Streams : Drawable(p, s)' => Drawable(p, s)
        BY <1>4 DEF vars, Drawable, Draws
    <2> QED
        BY <1>0, <1>4, <2>1, <2>2, StreamsKept, NoDraw DEF vars, ForkInv
<1> QED
    BY <1>1, <1>2, <1>3, <1>4 DEF Next

\* Whatever is called, forked and measured in whatever order, the streams that
\* ids may be drawn from have seeds of their own and are past what was drawn.
THEOREM ForkInvariant == Spec => []ForkInv
BY ForkInvInit, ForkInvStep, PTL DEF Spec

\* Every stream is one the OS seeded, and no generator is without its rate.
THEOREM TypeCorrect == Spec => []TypeOK
<1>1. ForkInv => TypeOK
    BY DEF ForkInv
<1> QED
    BY <1>1, ForkInvariant, PTL

\* "A forked worker does not replay the random bits of its parent": for any
\* number of forks, nested ones included, no draw is made twice.
THEOREM NoReplayTheorem == Spec => []NoReplay
<1>1. ForkInv => NoReplay
    BY DEF ForkInv, DrawsCounted
<1> QED
    BY <1>1, ForkInvariant, PTL
-----------------------------------------------------------------------------
(* Calibration *)

\* Under the GIL no step leaves a measurement without its thread.
LEMMA MeasuringStep ==
    ASSUME TypeOK, Control, Gil, MeasuringHasOwner, [Next]_vars
    PROVE  MeasuringHasOwner'
<1>0. /\ pc \in [Procs -> [Threads -> {"gone", "idle", "called", "clock",
                                       "measuring", "ready", "generator"}]]
      /\ cached \in [Procs -> {"incomplete", "running", "complete"}]
    BY DEF TypeOK
<1>1. ASSUME NEW p \in Procs, NEW t \in Threads, NEW call \in Asked, Call(p, t, call)
      PROVE  MeasuringHasOwner'
    BY <1>0, <1>1 DEF Call, GoTo, MeasuringHasOwner
<1>2. ASSUME NEW p \in Procs, NEW t \in Threads, Step(p, t)
      PROVE  MeasuringHasOwner'
    <2>1. \A p2 \in Procs, u \in Threads :
              p2 # p \/ u # t => pc'[p2][u] = pc[p2][u]
        BY <1>2, StepMoves DEF Moves
    <2>2. CASE StartMeasuring(p, t)
        <3>1. /\ pc'[p][t] = "measuring"
              /\ \A p2 \in Procs : p2 # p => cached'[p2] = cached[p2]
            BY <1>0, <2>2 DEF StartMeasuring, GoTo
        <3> QED BY <2>1, <3>1 DEF MeasuringHasOwner
    <2>3. CASE EndMeasuring(p, t)
        <3>1. /\ cached'[p] = "complete"
              /\ \A p2 \in Procs : p2 # p => cached'[p2] = cached[p2]
            BY <1>0, <2>3 DEF EndMeasuring
        <3> QED BY <2>1, <3>1 DEF MeasuringHasOwner
    <2>4. CASE ~StartMeasuring(p, t) /\ ~EndMeasuring(p, t)
        <3>1. pc[p][t] # "measuring" /\ UNCHANGED cached
            BY <1>2, <2>4 DEF Step, FindState, NewState, TakeRate, MakeId,
                    ReseedThread, ReseedGenerator
        <3> QED BY <2>1, <3>1 DEF MeasuringHasOwner
    <2> QED
        BY <2>2, <2>3, <2>4
<1>3. ASSUME NEW p \in Procs, NEW t \in Threads, NEW q \in Procs, Fork(p, t, q)
      PROVE  MeasuringHasOwner'
    <2>1. cached[p] # "running"
        BY <1>3 DEF Fork, GilFree, Inside, MeasuringHasOwner
    <2>2. /\ cached'[q] = cached[p]
          /\ \A p2 \in Procs : p2 # q => cached'[p2] = cached[p2]
        BY <1>0, <1>3 DEF Fork, Child
    <2> QED
        BY <1>3, <2>1, <2>2, ForkFacts DEF MeasuringHasOwner
<1>4. CASE UNCHANGED vars
    BY <1>4 DEF vars, MeasuringHasOwner
<1> QED
    BY <1>1, <1>2, <1>3, <1>4 DEF Next

\* Under the GIL a calibration that is under way has a thread of its own process
\* to finish it: none is copied into a child half done.
THEOREM MeasuringTheorem == ASSUME Gil PROVE Spec => []MeasuringHasOwner
<1>1. Init => MeasuringHasOwner
    BY DEF Init, MeasuringHasOwner
<1>2. ForkInv /\ MeasuringHasOwner /\ [Next]_vars => MeasuringHasOwner'
    BY MeasuringStep DEF ForkInv
<1> QED
    BY <1>1, <1>2, ForkInvariant, PTL DEF Spec
=============================================================================
