-------------------------- MODULE EnrichmentProofs --------------------------
(***************************************************************************)
(* Theorems about Enrichment, for every number of handlers, versions,      *)
(* names, retries and faults.                                              *)
(***************************************************************************)
EXTENDS Enrichment, TLAPS

-----------------------------------------------------------------------------
(* Typing.  TypeOK is not inductive: a run has to be one of a version, so   *)
(* has a dead letter, only a run that enqueues has a call open, and of the  *)
(* live runs at most one has a dead letter, active as long as it has it.    *)

RunsHaveVersions ==
    \A h \in Handlers : run[h].pc /= "idle" => run[h].ver \in Versions

DeadHaveVersions ==
    \A d \in DeadIds : dead[d].st /= "free" => dead[d].ver \in Versions

CallsAreOpen ==
    \A h \in Handlers : call[h].st /= "none" => run[h].pc = "calling"

DeadHaveOneOwner ==
    \A h \in Handlers, d \in DeadIds : OwnsDead(h, d) =>
        /\ dead[d].st \in {"active", "active2"}
        /\ \A g \in Handlers : OwnsDead(g, d) => g = h

Typing == /\ TypeOK
          /\ RunsHaveVersions /\ DeadHaveVersions
          /\ CallsAreOpen /\ DeadHaveOneOwner

(* No version is ahead of the catalog, whoever holds it. *)
NoneAhead ==
    /\ \A h \in Handlers : run[h].pc /= "idle" => run[h].ver <= seq
    /\ \A d \in DeadIds : dead[d].st /= "free" => dead[d].ver <= seq
    /\ \A c \in Callers : call[c].st /= "none" => call[c].ver <= seq
    /\ \A v \in Versions :
          created[v] \/ retry[v] > 0 \/ active[v] > 0 => v <= seq
    /\ \A v \in processed : v <= seq

(* A salvage run never comes to the point where it would call the model. *)
SalvageNeverAsks ==
    \A h \in Handlers :
        run[h].pc \in {"withheld", "send", "answer"} => ~Salvaging(h)

(* What a run has read, and what it wrote of it, while the file is as read. *)
Reading  == {"flag", "tags", "summarize", "giveUp", "withheld", "send",
             "answer", "mark"}
Past(s)  == IF s = "flag" THEN Reading \ {"flag"}
                          ELSE Reading \ {"flag", "tags"}
AsRead(h) == run[h].ver = seq /\ run[h].name = name

NamesKnown ==
    /\ name \in hadNames \cup {NoName}
    /\ \A h \in Handlers :
          run[h].pc \in Reading => run[h].name \in hadNames \cup {NoName}

StepsTaken ==
    \A h \in Handlers, s \in CoreSteps :
        run[h].pc \in Past(s) /\ AsRead(h)
            => applied[s] = [ver |-> seq, name |-> name]

EnrichedInv ==
    /\ Typing /\ NoneAhead /\ SupersededIsOver
    /\ NamesKnown
    /\ StepsTaken
    /\ ProcessedMeansEnriched
    /\ SendsOnlyWhatTheNameAllows
-----------------------------------------------------------------------------

\* Where a handler goes next is a program counter, and stays with its version.
LEMMA RunGoes ==
    ASSUME Typing, NEW h \in Handlers, NEW pc \in Pcs,
           run[h].pc /= "idle",
           run' = [run EXCEPT ![h].pc = pc]
    PROVE  run' \in [Handlers -> Runs] /\ RunsHaveVersions'
  <1>1. run \in [Handlers -> Runs]
    BY DEF Typing, TypeOK
  <1>2. [run[h] EXCEPT !.pc = pc] \in Runs
    BY <1>1 DEF Runs
  <1>3. run' = [run EXCEPT ![h] = [run[h] EXCEPT !.pc = pc]]
    BY <1>1
  <1>4. run' \in [Handlers -> Runs]
    BY <1>1, <1>2, <1>3
  <1>5. \A g \in Handlers : /\ run'[g].ver = run[g].ver
                            /\ g /= h => run'[g] = run[g]
    BY <1>1, <1>3 DEF Runs
  <1> QED BY <1>4, <1>5 DEF Typing, RunsHaveVersions

LEMMA RunEnds ==
    ASSUME Typing, NEW h \in Handlers, run' = [run EXCEPT ![h] = Idle]
    PROVE  run' \in [Handlers -> Runs] /\ RunsHaveVersions'
  <1>1. run \in [Handlers -> Runs]
    BY DEF Typing, TypeOK
  <1>2. Idle \in Runs
    BY BoundsAssumption DEF Idle, Runs, Pcs
  <1>3. \A g \in Handlers : run'[g] = IF g = h THEN Idle ELSE run[g]
    BY <1>1
  <1> QED BY <1>1, <1>2, <1>3 DEF Typing, RunsHaveVersions, Idle

\* A dead letter without an owner goes to any state; the others stay.
LEMMA DeadAdvances ==
    ASSUME Typing, NEW d \in DeadIds, NEW s \in DeadSt,
           dead[d].st /= "free",
           dead' = [dead EXCEPT ![d].st = s],
           \A g \in Handlers : ~OwnsDead(g, d)',
           \A g \in Handlers, e \in DeadIds : OwnsDead(g, e)' => OwnsDead(g, e)
    PROVE  /\ dead' \in [DeadIds -> [ver : 0..MaxVersions, st : DeadSt]]
           /\ DeadHaveVersions' /\ DeadHaveOneOwner'
  <1>1. dead \in [DeadIds -> [ver : 0..MaxVersions, st : DeadSt]]
    BY DEF Typing, TypeOK
  <1>2. \A e \in DeadIds : /\ dead'[e].ver = dead[e].ver
                           /\ e /= d => dead'[e] = dead[e]
    BY <1>1
  <1>3. dead' \in [DeadIds -> [ver : 0..MaxVersions, st : DeadSt]]
    BY <1>1
  <1> QED BY <1>2, <1>3 DEF Typing, DeadHaveVersions, DeadHaveOneOwner
RunsTyped == run \in [Handlers -> Runs] /\ RunsHaveVersions /\ CallsAreOpen

Calls == [ver : 0..MaxVersions, st : {"none", "find", "insert"}]

Moves(h) == \/ \E pc \in Pcs : run' = [run EXCEPT ![h].pc = pc]
            \/ run' = [run EXCEPT ![h] = Idle]

\* A step of the pipeline that opens no call keeps every run well typed.
LEMMA PipelineRuns ==
    ASSUME Typing, NEW h \in Handlers, run[h].pc \notin {"idle", "calling"},
           Moves(h), UNCHANGED call
    PROVE  /\ RunsTyped'
           /\ \A g \in Handlers, d \in DeadIds :
                 OwnsDead(g, d)' => OwnsDead(g, d)
  <1>1. run' \in [Handlers -> Runs] /\ RunsHaveVersions'
    BY RunGoes, RunEnds DEF Moves
  <1>2. call[h].st = "none"
    BY DEF Typing, CallsAreOpen
  <1>3. \A g \in Handlers : g /= h => run'[g] = run[g]
    BY DEF Moves, Typing, TypeOK
  <1>4. \A d \in DeadIds : OwnsDead(h, d)' => OwnsDead(h, d)
    BY DEF Moves, Typing, TypeOK, Runs, OwnsDead, Idle
  <1> QED BY <1>1, <1>2, <1>3, <1>4 DEF RunsTyped, Typing, CallsAreOpen, OwnsDead

\* Dead letters nobody touched keep their version and their one owner.
LEMMA DeadUntouched ==
    ASSUME Typing, UNCHANGED dead,
           \A g \in Handlers, d \in DeadIds : OwnsDead(g, d)' => OwnsDead(g, d)
    PROVE  DeadHaveVersions' /\ DeadHaveOneOwner'
  BY DEF Typing, DeadHaveVersions, DeadHaveOneOwner

LEMMA RunVersion ==
    ASSUME Typing, NEW h \in Handlers, run[h].pc /= "idle"
    PROVE  /\ run[h].ver \in Versions
           /\ run[h].name \in Names \cup {NoName}
           /\ run[h].dead \in DeadIds \cup {0}
           /\ run[h].aborted \in BOOLEAN
  BY DEF Typing, TypeOK, RunsHaveVersions, Runs

LEMMA WriteCardTypes ==
    ASSUME Typing, NEW h \in Handlers, run[h].pc \notin {"idle", "calling"},
           NEW c \in Cards, WriteCard(h, c)
    PROVE  Typing'
  <1>1. Moves(h)
    BY DEF WriteCard, GoOn, Goto, AfterStale, Moves, Pcs
  <1>2. RunsTyped' /\ DeadHaveVersions' /\ DeadHaveOneOwner'
    BY <1>1, PipelineRuns, DeadUntouched DEF WriteCard, queue
  <1>3. card' \in [Versions -> Cards]
    BY DEF WriteCard, Typing, TypeOK
  <1> QED BY <1>2, <1>3
          DEF WriteCard, Typing, TypeOK, RunsTyped, queue, bounds

\* An enqueue opens the caller's call, and no other.
LEMMA EnqueueTypes ==
    ASSUME Typing, NEW c \in Callers, NEW v \in 0..MaxVersions, Enqueue(c, v)
    PROVE  /\ call' \in [Callers -> Calls]
           /\ \A g \in Callers : g /= c => call'[g] = call[g]
  <1>1. call \in [Callers -> Calls]
    BY DEF Typing, TypeOK, Calls
  <1>2. [ver |-> v, st |-> "find"] \in Calls
    BY DEF Calls
  <1> QED BY <1>1, <1>2 DEF Enqueue

LEMMA PipelineTypes ==
    ASSUME Typing, NEW h \in Handlers, Pipeline(h)
    PROVE  Typing'
  <1> USE DEF queue, catalog, bounds
  <1> DEFINE Rest == UNCHANGED <<queue, bounds, sweep, call>>
  <1>0. ASSUME Rest, run[h].pc \notin {"idle", "calling"}, Moves(h),
               /\ UNCHANGED <<seq, name, hadNames, card>>
               /\ processed' \subseteq Versions
               /\ superseded' \subseteq Versions
               /\ applied' \in [CoreSteps -> Stamps]
        PROVE  Typing'
    <2>1. RunsTyped' /\ DeadHaveVersions' /\ DeadHaveOneOwner'
      BY <1>0, PipelineRuns, DeadUntouched
    <2> QED BY <1>0, <2>1 DEF Typing, TypeOK, RunsTyped
  <1>1. CASE ReadTarget(h)
    <2>0. /\ RunsTyped'
          /\ \A g \in Handlers, d \in DeadIds :
                OwnsDead(g, d)' => OwnsDead(g, d)
      <3>1. CASE Moves(h)
        BY <1>1, <3>1, PipelineRuns DEF ReadTarget
      <3>2. CASE run' = [run EXCEPT ![h].pc = "flag", ![h].name = name]
        <4>1. run \in [Handlers -> Runs] /\ name \in Names \cup {NoName}
          BY DEF Typing, TypeOK
        <4>2. [run[h] EXCEPT !.pc = "flag", !.name = name] \in Runs
          BY <4>1 DEF Runs, Pcs
        <4>3. \A g \in Handlers :
                 run'[g] = IF g = h
                             THEN [run[h] EXCEPT !.pc = "flag", !.name = name]
                             ELSE run[g]
          BY <3>2, <4>1
        <4>4. run' \in [Handlers -> Runs]
          BY <3>2, <4>1, <4>2
        <4>5. \A g \in Handlers :
                 /\ run'[g].ver = run[g].ver
                 /\ run'[g].dead = run[g].dead
                 /\ run'[g].aborted = run[g].aborted
                 /\ g /= h => run'[g] = run[g]
          <5>1. /\ run'[h].ver = run[h].ver
                /\ run'[h].dead = run[h].dead
                /\ run'[h].aborted = run[h].aborted
            <6>1. run[h] \in Runs
              BY <4>1
            <6> QED BY <4>3, <6>1 DEF Runs
          <5> QED BY <4>3, <5>1
        <4>6. run[h].pc = "read" /\ call[h].st = "none" /\ UNCHANGED call
          BY <1>1 DEF ReadTarget, Typing, CallsAreOpen
        <4> QED BY <4>4, <4>5, <4>6
                DEF RunsTyped, Typing, RunsHaveVersions, CallsAreOpen, OwnsDead
      <3> QED BY <1>1, <3>1, <3>2 DEF ReadTarget, Moves, Goto, Pcs
    <2>1. DeadHaveVersions' /\ DeadHaveOneOwner'
      BY <1>1, <2>0, DeadUntouched DEF ReadTarget
    <2> QED BY <1>1, <2>0, <2>1 DEF ReadTarget, RunsTyped, Typing, TypeOK
  <1>2. CASE CoreStep(h)
    <2>1. run[h].pc \in CoreSteps
      BY <1>2 DEF CoreStep
    <2>2. Moves(h)
      BY <1>2 DEF CoreStep, Moves, Goto, GoOn, AfterStale, Pcs
    <2>3. [ver |-> run[h].ver, name |-> run[h].name] \in Stamps
      BY <2>1, RunVersion, BoundsAssumption DEF Stamps, Versions, CoreSteps
    <2>4. applied' \in [CoreSteps -> Stamps]
      BY <1>2, <2>3 DEF CoreStep, Typing, TypeOK
    <2> QED BY <1>0, <1>2, <2>1, <2>2, <2>4
            DEF CoreStep, CoreSteps, Typing, TypeOK
  <1>3. CASE GateSummarize(h)
    <2>1. Moves(h)
      BY <1>3 DEF GateSummarize, Moves, Goto, GoOn, Pcs
    <2> QED BY <1>0, <1>3, <2>1 DEF GateSummarize, Typing, TypeOK
  <1>4. CASE GiveUp(h)
    <2>1. CardNow(h) \in Cards
      BY <1>4, RunVersion DEF GiveUp, CardNow, Typing, TypeOK
    <2> QED BY <1>4, <2>1, WriteCardTypes DEF GiveUp, Cards
  <1>5. CASE Withheld(h)
    <2>1. CASE CardNow(h) = "retriable"
      BY <1>5, <2>1, WriteCardTypes DEF Withheld, Cards
    <2>2. CASE CardNow(h) /= "retriable"
      <3>1. Moves(h)
        BY <1>5, <2>2 DEF Withheld, Moves, Goto, GoOn, Pcs
      <3> QED BY <1>0, <1>5, <2>2, <3>1 DEF Withheld, Typing, TypeOK
    <2> QED BY <2>1, <2>2
  <1>6. CASE Send(h)
    <2>1. Moves(h)
      BY <1>6 DEF Send, Moves, Goto, Pcs
    <2> QED BY <1>0, <1>6, <2>1 DEF Send, Typing, TypeOK
  <1>7. CASE SkipSummary(h)
    BY <1>7, WriteCardTypes DEF SkipSummary, Cards
  <1>8. CASE SaveSummary(h)
    BY <1>8, WriteCardTypes DEF SaveSummary, Cards
  <1>9. CASE ModelCallAborts(h)
    <2>1. Moves(h)
      BY <1>9 DEF ModelCallAborts, Moves
    <2> QED BY <1>0, <1>9, <2>1 DEF ModelCallAborts, Typing, TypeOK
  <1>10. CASE MarkProcessed(h)
    <2>1. Moves(h)
      BY <1>10 DEF MarkProcessed, Moves, Goto, Pcs
    <2>2. processed' \subseteq Versions
      BY <1>10, RunVersion DEF MarkProcessed, Typing, TypeOK
    <2> QED BY <1>0, <1>10, <2>1, <2>2 DEF MarkProcessed, Typing, TypeOK
  <1>11. CASE AskStanding(h)
    <2>1. Moves(h)
      BY <1>11 DEF AskStanding, Moves, Goto, AfterStale, Pcs
    <2> QED BY <1>0, <1>11, <2>1 DEF AskStanding, Typing, TypeOK
  <1>12. CASE MarkSuperseded(h)
    <2>1. Moves(h)
      BY <1>12 DEF MarkSuperseded, Moves, Goto, Pcs
    <2>2. superseded' \subseteq Versions
      BY <1>12, RunVersion DEF MarkSuperseded, Typing, TypeOK
    <2> QED BY <1>0, <1>12, <2>1, <2>2 DEF MarkSuperseded, Typing, TypeOK
  <1>13. CASE Requeue(h)
    <2>0. run'[h].pc = "calling"
      BY <1>13 DEF Requeue, Goto, Typing, TypeOK, Runs
    <2>1. run' \in [Handlers -> Runs] /\ RunsHaveVersions'
      BY <1>13, RunGoes DEF Requeue, Goto, Pcs
    <2>2. /\ call' \in [Callers -> Calls]
          /\ \A g \in Handlers : g /= h => call'[g] = call[g]
      <3>1. h \in Callers /\ run[h].ver \in 0..MaxVersions
        BY <1>13, RunVersion, BoundsAssumption DEF Requeue, Callers, Versions
      <3>2. Enqueue(h, run[h].ver)
        BY <1>13 DEF Requeue
      <3> QED BY <3>1, <3>2, EnqueueTypes DEF Callers
    <2>3. \A g \in Handlers : g /= h => run'[g] = run[g]
      BY <1>13 DEF Requeue, Goto, Typing, TypeOK
    <2>4. CallsAreOpen'
      BY <2>0, <2>2, <2>3 DEF Typing, CallsAreOpen
    <2>5. \A g \in Handlers, d \in DeadIds : OwnsDead(g, d)' => OwnsDead(g, d)
      BY <1>13, <2>3 DEF Requeue, Goto, Typing, TypeOK, Runs, OwnsDead
    <2>6. DeadHaveVersions' /\ DeadHaveOneOwner'
      BY <1>13, <2>5, DeadUntouched DEF Requeue
    <2> QED BY <1>13, <2>1, <2>2, <2>4, <2>6
            DEF Requeue, Typing, TypeOK, Calls
  <1>14. CASE Complete(h)
    <2>1. /\ RunsTyped'
          /\ \A g \in Handlers, d \in DeadIds :
                OwnsDead(g, d)' => OwnsDead(g, d)
      BY <1>14, PipelineRuns DEF Complete, Moves
    <2>2. /\ active' \in [Versions -> 0..RetryLimit + 1]
          /\ UNCHANGED <<created, retry>>
      BY <1>14, BoundsAssumption DEF Complete, Typing, TypeOK
    <2>3. /\ dead' \in [DeadIds -> [ver : 0..MaxVersions, st : DeadSt]]
          /\ DeadHaveVersions' /\ DeadHaveOneOwner'
      <3>1. CASE UNCHANGED dead
        BY <2>1, <3>1, DeadUntouched DEF Typing, TypeOK
      <3>2. CASE /\ dead' = [dead EXCEPT ![run[h].dead].st = "completed"]
                 /\ Salvaging(h) /\ ~run[h].aborted
        <4>1. run[h].dead \in DeadIds /\ OwnsDead(h, run[h].dead)
          BY <1>14, <3>2, RunVersion DEF Complete, Salvaging, OwnsDead
        <4>2. PICK d \in DeadIds : d = run[h].dead
          BY <4>1
        <4>3. \A g \in Handlers : ~OwnsDead(g, d)'
          <5>1. ~OwnsDead(h, d)'
            BY <1>14 DEF Complete, OwnsDead, Idle, Typing, TypeOK
          <5> QED BY <2>1, <4>1, <4>2, <5>1 DEF Typing, DeadHaveOneOwner
        <4>4. dead[d].st /= "free"
          BY <4>1, <4>2 DEF Typing, DeadHaveOneOwner
        <4> QED BY <2>1, <3>2, <4>2, <4>3, <4>4, DeadAdvances DEF DeadSt
      <3> QED BY <1>14, <3>1, <3>2 DEF Complete
    <2> QED BY <1>14, <2>1, <2>2, <2>3 DEF Complete, Typing, TypeOK, RunsTyped
  <1> QED BY <1>1, <1>2, <1>3, <1>4, <1>5, <1>6, <1>7, <1>8, <1>9, <1>10,
             <1>11, <1>12, <1>13, <1>14 DEF Pipeline
-----------------------------------------------------------------------------

\* A failed job leaves well-typed queues behind.
LEMMA FailJobTypes ==
    ASSUME Typing, NEW v \in Versions, FailJob(v),
           \A g \in Handlers, e \in DeadIds : OwnsDead(g, e)' => OwnsDead(g, e)
    PROVE  /\ created' \in [Versions -> BOOLEAN]
           /\ retry' \in [Versions -> 0..RetryLimit]
           /\ active' \in [Versions -> 0..RetryLimit + 1]
           /\ dead' \in [DeadIds -> [ver : 0..MaxVersions, st : DeadSt]]
           /\ DeadHaveVersions' /\ DeadHaveOneOwner'
  <1>1. created' \in [Versions -> BOOLEAN]
    BY DEF FailJob, Typing, TypeOK
  <1>2. active' \in [Versions -> 0..RetryLimit + 1]
    BY BoundsAssumption DEF FailJob, Typing, TypeOK
  <1>3. retry' \in [Versions -> 0..RetryLimit]
    BY BoundsAssumption DEF FailJob, Typing, TypeOK
  <1>4. /\ dead' \in [DeadIds -> [ver : 0..MaxVersions, st : DeadSt]]
        /\ DeadHaveVersions' /\ DeadHaveOneOwner'
    <2>1. CASE UNCHANGED dead
      BY <2>1, DeadUntouched DEF Typing, TypeOK
    <2>2. CASE \E d \in DeadIds :
                  /\ dead[d].st = "free"
                  /\ dead' = [dead EXCEPT ![d] = [ver |-> v, st |-> "created"]]
      <3>1. PICK d \in DeadIds :
                  /\ dead[d].st = "free"
                  /\ dead' = [dead EXCEPT ![d] = [ver |-> v, st |-> "created"]]
        BY <2>2
      <3>2. dead \in [DeadIds -> [ver : 0..MaxVersions, st : DeadSt]]
        BY DEF Typing, TypeOK
      <3>3. [ver |-> v, st |-> "created"] \in [ver : 0..MaxVersions, st : DeadSt]
        BY BoundsAssumption DEF DeadSt, Versions
      <3>4. dead' \in [DeadIds -> [ver : 0..MaxVersions, st : DeadSt]]
        BY <3>1, <3>2, <3>3
      <3>5. \A e \in DeadIds :
               dead'[e] = IF e = d THEN [ver |-> v, st |-> "created"]
                                   ELSE dead[e]
        BY <3>1, <3>2
      <3>6. \A g \in Handlers : ~OwnsDead(g, d)'
        BY <3>1 DEF Typing, DeadHaveOneOwner
      <3> QED BY <3>4, <3>5, <3>6 DEF Typing, DeadHaveVersions, DeadHaveOneOwner
    <2> QED BY <2>1, <2>2 DEF FailJob
  <1> QED BY <1>1, <1>2, <1>3, <1>4

\* So does the failed job of a run that ends, or goes on without its lease.
LEMMA FailJobOfTypes ==
    ASSUME Typing, NEW h \in Handlers, run[h].pc /= "idle", ~run[h].aborted,
           FailJobOf(h),
           \A d \in DeadIds : ~OwnsDead(h, d)',
           \A g \in Handlers, e \in DeadIds : OwnsDead(g, e)' => OwnsDead(g, e)
    PROVE  /\ created' \in [Versions -> BOOLEAN]
           /\ retry' \in [Versions -> 0..RetryLimit]
           /\ active' \in [Versions -> 0..RetryLimit + 1]
           /\ dead' \in [DeadIds -> [ver : 0..MaxVersions, st : DeadSt]]
           /\ DeadHaveVersions' /\ DeadHaveOneOwner'
  <1>1. CASE Salvaging(h)
    <2>1. PICK d \in DeadIds : d = run[h].dead
      BY <1>1, RunVersion DEF Salvaging
    <2>2. OwnsDead(h, d)
      BY <2>1 DEF OwnsDead
    <2>3. \A g \in Handlers : ~OwnsDead(g, d)'
      BY <2>2 DEF Typing, DeadHaveOneOwner
    <2>4. PICK s \in {"retry", "failed"} : dead' = [dead EXCEPT ![d].st = s]
      BY <1>1, <2>1 DEF FailJobOf, FailDead
    <2>5. dead[d].st /= "free"
      BY <2>2 DEF Typing, DeadHaveOneOwner
    <2>6. /\ dead' \in [DeadIds -> [ver : 0..MaxVersions, st : DeadSt]]
          /\ DeadHaveVersions' /\ DeadHaveOneOwner'
      BY <2>3, <2>4, <2>5, DeadAdvances DEF DeadSt
    <2> QED BY <1>1, <2>6 DEF FailJobOf, FailDead, Typing, TypeOK
  <1>2. CASE ~Salvaging(h)
    BY <1>2, RunVersion, FailJobTypes DEF FailJobOf
  <1> QED BY <1>1, <1>2

\* A run that ends opens no call and owns no dead letter.
LEMMA RunEndsTypes ==
    ASSUME Typing, NEW h \in Handlers, run' = [run EXCEPT ![h] = Idle],
           call' = [call EXCEPT ![h] = NoCall]
    PROVE  /\ RunsTyped'
           /\ call' \in [Callers -> Calls]
           /\ \A d \in DeadIds : ~OwnsDead(h, d)'
           /\ \A g \in Handlers, d \in DeadIds :
                 OwnsDead(g, d)' => OwnsDead(g, d)
  <1>1. run' \in [Handlers -> Runs] /\ RunsHaveVersions'
    BY RunEnds
  <1>2. call \in [Callers -> Calls] /\ NoCall \in Calls /\ h \in Callers
    BY BoundsAssumption DEF Typing, TypeOK, Calls, NoCall, Callers
  <1>3. call' \in [Callers -> Calls]
    BY <1>2
  <1>4. \A g \in Handlers : g \in Callers
    BY DEF Callers
  <1>5. \A g \in Handlers : /\ g /= h => call'[g] = call[g] /\ run'[g] = run[g]
                            /\ g = h => call'[g] = NoCall /\ run'[g] = Idle
    BY <1>2, <1>4 DEF Typing, TypeOK
  <1> QED BY <1>1, <1>3, <1>5
          DEF RunsTyped, Typing, CallsAreOpen, NoCall, Idle, OwnsDead
\* A call that ends, or goes on to its second statement.
LEMMA CallEnds ==
    ASSUME Typing, NEW c \in Callers, NEW k \in Calls,
           call[c].st /= "none",
           call' = [call EXCEPT ![c] = k],
           \/ UNCHANGED run
           \/ k = NoCall /\ c \in Handlers /\ run' = [run EXCEPT ![c].pc = "done"]
    PROVE  /\ RunsTyped'
           /\ call' \in [Callers -> Calls]
           /\ \A g \in Handlers, d \in DeadIds :
                 OwnsDead(g, d)' => OwnsDead(g, d)
  <1>1. call \in [Callers -> Calls] /\ run \in [Handlers -> Runs]
    BY DEF Typing, TypeOK, Calls
  <1>2. call' \in [Callers -> Calls]
    BY <1>1
  <1>3. \A g \in Callers : call'[g] = IF g = c THEN k ELSE call[g]
    BY <1>1
  <1>4. \A g \in Handlers : g \in Callers
    BY DEF Callers
  <1>5. CASE UNCHANGED run
    BY <1>1, <1>2, <1>3, <1>4, <1>5
    DEF RunsTyped, Typing, RunsHaveVersions, CallsAreOpen, OwnsDead
  <1>6. CASE /\ k = NoCall /\ c \in Handlers
             /\ run' = [run EXCEPT ![c].pc = "done"]
    <2>1. run[c].pc = "calling"
      BY <1>6 DEF Typing, CallsAreOpen
    <2>2. run' \in [Handlers -> Runs] /\ RunsHaveVersions'
      BY <1>6, <2>1, RunGoes DEF Pcs
    <2>3. \A g \in Handlers : /\ g /= c => run'[g] = run[g]
                              /\ run'[g].dead = run[g].dead
                              /\ run'[g].aborted = run[g].aborted
      BY <1>1, <1>6 DEF Runs
    <2>4. CallsAreOpen'
      BY <1>3, <1>4, <1>6, <2>3 DEF Typing, CallsAreOpen, NoCall
    <2>5. \A g \in Handlers, d \in DeadIds : OwnsDead(g, d)' => OwnsDead(g, d)
      BY <2>1, <2>3 DEF OwnsDead
    <2> QED BY <1>2, <2>2, <2>4, <2>5 DEF RunsTyped
  <1> QED BY <1>5, <1>6

\* A run that starts: of version v, for the dead letter d or for none.
LEMMA RunStarts ==
    ASSUME Typing, NEW h \in Handlers, run[h].pc = "idle",
           NEW v \in Versions, NEW d \in DeadIds \cup {0},
           run' = [run EXCEPT ![h] = Started(v, d)],
           UNCHANGED call
    PROVE  /\ RunsTyped'
           /\ \A g \in Handlers, e \in DeadIds :
                 OwnsDead(g, e)' => OwnsDead(g, e) \/ (g = h /\ e = d)
  <1>1. run \in [Handlers -> Runs]
    BY DEF Typing, TypeOK
  <1>2. Started(v, d) \in Runs
    BY BoundsAssumption DEF Started, Runs, Pcs, Versions
  <1>3. run' \in [Handlers -> Runs]
    BY <1>1, <1>2
  <1>4. \A g \in Handlers : run'[g] = IF g = h THEN Started(v, d) ELSE run[g]
    BY <1>1
  <1>5. Started(v, d).ver = v /\ Started(v, d).dead = d
    BY DEF Started
  <1> HIDE DEF Started
  <1> QED BY <1>3, <1>4, <1>5
          DEF RunsTyped, Typing, RunsHaveVersions, CallsAreOpen, OwnsDead

LEMMA TypingInit == Init => Typing
  <1> SUFFICES ASSUME Init PROVE Typing
    OBVIOUS
  <1>1. Idle \in Runs /\ NoCall \in [ver : 0..MaxVersions,
                                     st : {"none", "find", "insert"}]
    BY BoundsAssumption DEF Idle, Runs, Pcs, NoCall
  <1>2. [ver |-> 0, st |-> "free"] \in [ver : 0..MaxVersions, st : DeadSt]
    BY BoundsAssumption DEF DeadSt
  <1>3. Unstamped \in Stamps
    BY BoundsAssumption DEF Unstamped, Stamps
  <1>4. TypeOK
    BY <1>1, <1>2, <1>3, BoundsAssumption DEF Init, TypeOK, Cards
  <1>5. \A h \in Handlers : run[h].pc = "idle" /\ call[h].st = "none"
    BY DEF Init, Idle, NoCall, Callers
  <1>6. \A d \in DeadIds : dead[d].st = "free"
    BY DEF Init
  <1> QED BY <1>4, <1>5, <1>6 DEF Typing, RunsHaveVersions, DeadHaveVersions,
             CallsAreOpen, DeadHaveOneOwner, OwnsDead

LEMMA TypingNext == Typing /\ [Next]_vars => Typing'
  <1> SUFFICES ASSUME Typing, [Next]_vars PROVE Typing'
    OBVIOUS
  <1> USE DEF catalog, queue, actors, bounds
  <1>1. ASSUME NEW c \in Ingesters, NEW n \in Names, NEW isNew \in BOOLEAN,
               Ingest(c, n, isNew)
        PROVE  Typing'
    <2>1. c \in Callers /\ c \notin Handlers
      BY ActorsAssumption DEF Callers
    <2>2. /\ seq' \in 0..MaxVersions
          /\ changes' \in 0..MaxChanges
      BY <1>1, BoundsAssumption DEF Ingest, Typing, TypeOK
    <2>3. /\ processed' \subseteq Versions
          /\ name' \in Names \cup {NoName}
          /\ hadNames' \subseteq Names
      BY <1>1 DEF Ingest, Typing, TypeOK
    <2>4. /\ call' \in [Callers -> Calls]
          /\ \A g \in Handlers : call'[g] = call[g]
      <3>1. Enqueue(c, seq')
        BY <1>1 DEF Ingest
      <3>2. \A g \in Handlers : g \in Callers /\ g /= c
        BY <2>1 DEF Callers
      <3> DEFINE v == seq'
      <3>3. v \in 0..MaxVersions /\ Enqueue(c, v)
        BY <2>2, <3>1
      <3> HIDE DEF v
      <3> QED BY <2>1, <3>2, <3>3, EnqueueTypes
    <2>5. DeadHaveVersions' /\ DeadHaveOneOwner'
      BY <1>1, DeadUntouched DEF Ingest, OwnsDead
    <2> QED BY <1>1, <2>2, <2>3, <2>4, <2>5
            DEF Ingest, Typing, TypeOK, RunsHaveVersions, CallsAreOpen, Calls
  <1>2. ASSUME NEW c \in Ingesters, LoseEnqueue(c)
        PROVE  Typing'
    <2>1. c \in Callers /\ NoCall \in Calls
      BY BoundsAssumption DEF Callers, NoCall, Calls
    <2>2. /\ RunsTyped' /\ call' \in [Callers -> Calls]
          /\ \A g \in Handlers, d \in DeadIds :
                OwnsDead(g, d)' => OwnsDead(g, d)
      BY <1>2, <2>1, CallEnds DEF LoseEnqueue
    <2>3. losses' \in 0..MaxLosses
      BY <1>2, BoundsAssumption DEF LoseEnqueue, Typing, TypeOK
    <2>4. DeadHaveVersions' /\ DeadHaveOneOwner'
      BY <1>2, <2>2, DeadUntouched DEF LoseEnqueue
    <2> QED BY <1>2, <2>2, <2>3, <2>4
            DEF LoseEnqueue, Typing, TypeOK, RunsTyped, Calls
  <1>3. ASSUME NEW c \in Callers, UpsertFinds(c) \/ UpsertInserts(c)
        PROVE  Typing'
    <2>1. /\ NoCall \in Calls /\ [call[c] EXCEPT !.st = "insert"] \in Calls
          /\ call[c].st /= "none"
      BY <1>3, BoundsAssumption
      DEF UpsertFinds, UpsertInserts, NoCall, Calls, Typing, TypeOK
    <2>2. /\ RunsTyped' /\ call' \in [Callers -> Calls]
          /\ \A g \in Handlers, d \in DeadIds :
                OwnsDead(g, d)' => OwnsDead(g, d)
      <3>1. CASE call' = [call EXCEPT ![c] = NoCall] /\ Return(c)
        BY <2>1, <3>1, CallEnds DEF Return
      <3>2. CASE call' = [call EXCEPT ![c].st = "insert"] /\ UNCHANGED run
        <4>1. call' = [call EXCEPT ![c] = [call[c] EXCEPT !.st = "insert"]]
          BY <3>2 DEF Typing, TypeOK
        <4> QED BY <2>1, <3>2, <4>1, CallEnds
      <3> QED BY <1>3, <3>1, <3>2 DEF UpsertFinds, UpsertInserts
    <2>3. DeadHaveVersions' /\ DeadHaveOneOwner'
      BY <1>3, <2>2, DeadUntouched DEF UpsertFinds, UpsertInserts
    <2>4. created' \in [Versions -> BOOLEAN]
      BY <1>3 DEF UpsertFinds, UpsertInserts, Typing, TypeOK
    <2> QED BY <1>3, <2>2, <2>3, <2>4
            DEF UpsertFinds, UpsertInserts, Typing, TypeOK, RunsTyped, Calls
  <1>4. ASSUME NEW h \in Handlers, NEW v \in Versions, Fetch(h, v)
        PROVE  Typing'
    <2>1. run[h].pc = "idle" /\ 0 \in DeadIds \cup {0} /\ UNCHANGED call
      BY <1>4 DEF Fetch
    <2>2. run' = [run EXCEPT ![h] = Started(v, 0)]
      BY <1>4 DEF Fetch
    <2>3. /\ RunsTyped'
          /\ \A g \in Handlers, e \in DeadIds :
                OwnsDead(g, e)' => OwnsDead(g, e) \/ (g = h /\ e = 0)
      BY <2>1, <2>2, RunStarts
    <2>4. DeadHaveVersions' /\ DeadHaveOneOwner'
      BY <1>4, <2>3, DeadUntouched, BoundsAssumption DEF Fetch
    <2>5. created' \in [Versions -> BOOLEAN]
      BY <1>4 DEF Fetch, Typing, TypeOK
    <2>6. retry' \in [Versions -> 0..RetryLimit]
      BY <1>4, BoundsAssumption DEF Fetch, Typing, TypeOK
    <2>7. active' \in [Versions -> 0..RetryLimit + 1]
      BY <1>4, BoundsAssumption DEF Fetch, Typing, TypeOK
    <2> QED BY <1>4, <2>3, <2>4, <2>5, <2>6, <2>7
            DEF Fetch, Typing, TypeOK, RunsTyped
  <1>5. ASSUME NEW h \in Handlers, NEW d \in DeadIds, FetchDead(h, d)
        PROVE  Typing'
    <2>1. dead \in [DeadIds -> [ver : 0..MaxVersions, st : DeadSt]]
      BY DEF Typing, TypeOK
    <2>2. PICK s \in {"active", "active2"} : dead' = [dead EXCEPT ![d].st = s]
      BY <1>5 DEF FetchDead
    <2>3. dead[d].ver \in Versions /\ \A g \in Handlers : ~OwnsDead(g, d)
      BY <1>5 DEF FetchDead, Typing, DeadHaveVersions, DeadHaveOneOwner
    <2>4. /\ RunsTyped'
          /\ \A g \in Handlers, e \in DeadIds :
                OwnsDead(g, e)' => OwnsDead(g, e) \/ (g = h /\ e = d)
      <3>1. /\ run[h].pc = "idle" /\ d \in DeadIds \cup {0} /\ UNCHANGED call
            /\ run' = [run EXCEPT ![h] = Started(dead[d].ver, d)]
        BY <1>5 DEF FetchDead
      <3>2. PICK v \in Versions : v = dead[d].ver
        BY <2>3
      <3>3. run' = [run EXCEPT ![h] = Started(v, d)]
        BY <3>1, <3>2
      <3>4. run[h].pc = "idle" /\ d \in DeadIds \cup {0} /\ UNCHANGED call
        BY <3>1
      <3> QED BY <3>3, <3>4, RunStarts, Zenon
    <2>5. /\ dead' \in [DeadIds -> [ver : 0..MaxVersions, st : DeadSt]]
          /\ \A e \in DeadIds : /\ dead'[e].ver = dead[e].ver
                                /\ e /= d => dead'[e] = dead[e]
          /\ dead'[d].st = s
      BY <2>1, <2>2 DEF DeadSt
    <2>6. DeadHaveVersions' /\ DeadHaveOneOwner'
      BY <2>3, <2>4, <2>5 DEF Typing, DeadHaveVersions, DeadHaveOneOwner
    <2> QED BY <1>5, <2>4, <2>5, <2>6 DEF FetchDead, Typing, TypeOK, RunsTyped
  <1>6. ASSUME NEW h \in Handlers, StepFails(h) \/ HandlerCrashes(h)
        PROVE  Typing'
    <2>1. /\ RunsTyped' /\ call' \in [Callers -> Calls]
          /\ \A d \in DeadIds : ~OwnsDead(h, d)'
          /\ \A g \in Handlers, d \in DeadIds :
                OwnsDead(g, d)' => OwnsDead(g, d)
      BY <1>6, RunEndsTypes DEF StepFails, HandlerCrashes
    <2>2. faults' \in 0..MaxFaults
      BY <1>6, BoundsAssumption
      DEF StepFails, HandlerCrashes, Fault, Typing, TypeOK
    <2>3. CASE StepFails(h)
      <3>1. /\ created' \in [Versions -> BOOLEAN]
            /\ retry' \in [Versions -> 0..RetryLimit]
            /\ active' \in [Versions -> 0..RetryLimit + 1]
            /\ dead' \in [DeadIds -> [ver : 0..MaxVersions, st : DeadSt]]
            /\ DeadHaveVersions' /\ DeadHaveOneOwner'
        BY <2>1, <2>3, FailJobOfTypes DEF StepFails
      <3> QED BY <2>1, <2>2, <2>3, <3>1
              DEF StepFails, Typing, TypeOK, RunsTyped, Calls
    <2>4. CASE HandlerCrashes(h)
      <3>1. DeadHaveVersions' /\ DeadHaveOneOwner'
        BY <2>1, <2>4, DeadUntouched DEF HandlerCrashes
      <3> QED BY <2>1, <2>2, <2>4, <3>1
              DEF HandlerCrashes, Typing, TypeOK, RunsTyped, Calls
    <2> QED BY <1>6, <2>3, <2>4
  <1>7. ASSUME NEW h \in Handlers, LeaseEnds(h)
        PROVE  Typing'
    <2>1. run \in [Handlers -> Runs]
      BY DEF Typing, TypeOK
    <2>2. /\ run' \in [Handlers -> Runs]
          /\ \A g \in Handlers : /\ run'[g].pc = run[g].pc
                                 /\ run'[g].ver = run[g].ver
                                 /\ run'[g].dead = run[g].dead
                                 /\ g /= h => run'[g] = run[g]
          /\ run'[h].aborted
      <3>1. run[h] \in Runs
        BY <2>1
      <3>2. [run[h] EXCEPT !.aborted = TRUE] \in Runs
        BY <3>1 DEF Runs
      <3>3. \A g \in Handlers :
               run'[g] = IF g = h THEN [run[h] EXCEPT !.aborted = TRUE]
                                  ELSE run[g]
        BY <1>7, <2>1 DEF LeaseEnds
      <3>4. run' = [run EXCEPT ![h] = [run[h] EXCEPT !.aborted = TRUE]]
        BY <1>7, <2>1 DEF LeaseEnds
      <3>5. run' \in [Handlers -> Runs]
        BY <2>1, <3>2, <3>4
      <3> QED BY <3>1, <3>3, <3>5 DEF Runs
    <2>3. /\ \A d \in DeadIds : ~OwnsDead(h, d)'
          /\ \A g \in Handlers, d \in DeadIds :
                OwnsDead(g, d)' => OwnsDead(g, d)
      BY <2>2 DEF OwnsDead
    <2>4. /\ created' \in [Versions -> BOOLEAN]
          /\ retry' \in [Versions -> 0..RetryLimit]
          /\ active' \in [Versions -> 0..RetryLimit + 1]
          /\ dead' \in [DeadIds -> [ver : 0..MaxVersions, st : DeadSt]]
          /\ DeadHaveVersions' /\ DeadHaveOneOwner'
      BY <1>7, <2>3, FailJobOfTypes DEF LeaseEnds
    <2>5. faults' \in 0..MaxFaults
      BY <1>7, BoundsAssumption DEF LeaseEnds, Fault, Typing, TypeOK
    <2> QED BY <1>7, <2>2, <2>4, <2>5
            DEF LeaseEnds, Typing, TypeOK, RunsHaveVersions, CallsAreOpen
  <1>8. ASSUME NEW v \in Versions, Supervise(v)
        PROVE  Typing'
    <2>1. \A g \in Handlers, d \in DeadIds : OwnsDead(g, d)' => OwnsDead(g, d)
      BY <1>8 DEF Supervise, OwnsDead
    <2>2. FailJob(v)
      BY <1>8 DEF Supervise
    <2> QED BY <1>8, <2>1, <2>2, FailJobTypes
            DEF Supervise, Typing, TypeOK, RunsHaveVersions, CallsAreOpen
  <1>9. ASSUME NEW d \in DeadIds, SuperviseDead(d) \/ OperatorRetries(d)
        PROVE  Typing'
    <2>1. \A g \in Handlers, e \in DeadIds : OwnsDead(g, e)' => OwnsDead(g, e)
      BY <1>9 DEF SuperviseDead, OperatorRetries, OwnsDead
    <2>2. \A g \in Handlers : ~OwnsDead(g, d)
      BY <1>9 DEF SuperviseDead, OperatorRetries, Typing, DeadHaveOneOwner
    <2>3. PICK s \in {"retry", "failed"} : dead' = [dead EXCEPT ![d].st = s]
      BY <1>9 DEF SuperviseDead, OperatorRetries, FailDead
    <2>4. /\ dead' \in [DeadIds -> [ver : 0..MaxVersions, st : DeadSt]]
          /\ DeadHaveVersions' /\ DeadHaveOneOwner'
      BY <1>9, <2>1, <2>2, <2>3, DeadAdvances
      DEF SuperviseDead, OperatorRetries, DeadSt
    <2> QED BY <1>9, <2>4
            DEF SuperviseDead, OperatorRetries, FailDead, Typing, TypeOK,
                RunsHaveVersions, CallsAreOpen
  <1>10. ASSUME NEW d \in DeadIds, PruneDead(d)
         PROVE  Typing'
    <2>1. dead \in [DeadIds -> [ver : 0..MaxVersions, st : DeadSt]]
      BY DEF Typing, TypeOK
    <2>2. [ver |-> 0, st |-> "free"] \in [ver : 0..MaxVersions, st : DeadSt]
      BY BoundsAssumption DEF DeadSt
    <2>3. /\ dead' \in [DeadIds -> [ver : 0..MaxVersions, st : DeadSt]]
          /\ \A e \in DeadIds :
                dead'[e] = IF e = d THEN [ver |-> 0, st |-> "free"] ELSE dead[e]
      BY <1>10, <2>1, <2>2 DEF PruneDead
    <2>4. \A g \in Handlers : ~OwnsDead(g, d)
      BY <1>10 DEF PruneDead, Typing, DeadHaveOneOwner
    <2>5. DeadHaveVersions' /\ DeadHaveOneOwner'
      BY <1>10, <2>3, <2>4
      DEF PruneDead, Typing, DeadHaveVersions, DeadHaveOneOwner, OwnsDead
    <2>6. losses' \in 0..MaxLosses
      BY <1>10, BoundsAssumption DEF PruneDead, Typing, TypeOK
    <2> QED BY <1>10, <2>3, <2>5, <2>6
            DEF PruneDead, Typing, TypeOK, RunsHaveVersions, CallsAreOpen
  <1>11. ASSUME SweepReadsDead \/ SweepScans \/ Resummarize
         PROVE  Typing'
    <2>1. /\ call' \in [Callers -> Calls]
          /\ \A g \in Handlers : call'[g] = call[g]
      <3>1. CASE UNCHANGED call
        BY <3>1 DEF Typing, TypeOK, Calls
      <3>2. ASSUME NEW v \in 0..MaxVersions, Enqueue(Sweeper, v)
            PROVE  /\ call' \in [Callers -> Calls]
                   /\ \A g \in Handlers : call'[g] = call[g]
        <4>1. Sweeper \in Callers
          BY DEF Callers
        <4>2. \A g \in Handlers : g \in Callers /\ g /= Sweeper
          BY ActorsAssumption DEF Callers
        <4> QED BY <3>2, <4>1, <4>2, EnqueueTypes
      <3>3. Sweepable \subseteq 0..MaxVersions /\ seq \in 0..MaxVersions
        BY BoundsAssumption DEF Sweepable, Unfinished, Typing, TypeOK
      <3> QED BY <1>11, <3>1, <3>2, <3>3
              DEF SweepReadsDead, SweepScans, Resummarize
    <2>2. DeadHaveVersions' /\ DeadHaveOneOwner'
      BY <1>11, DeadUntouched
      DEF SweepReadsDead, SweepScans, Resummarize, OwnsDead
    <2>3. sweep' \in [st : {"idle", "scan"}, dead : SUBSET Versions]
      <3>1. DeadLettered \subseteq Versions
        BY DEF DeadLettered, Typing, DeadHaveVersions
      <3> QED BY <1>11, <3>1
              DEF SweepReadsDead, SweepScans, Resummarize, Typing, TypeOK
    <2>4. sweeps' \in 0..MaxSweeps
      BY <1>11, BoundsAssumption
      DEF SweepReadsDead, SweepScans, Resummarize, NewPass, Typing, TypeOK
    <2> QED BY <1>11, <2>1, <2>2, <2>3, <2>4
            DEF SweepReadsDead, SweepScans, Resummarize, Typing, TypeOK,
                RunsHaveVersions, CallsAreOpen, Calls
  <1>12. CASE UNCHANGED vars
    BY <1>12 DEF vars, Typing, TypeOK, RunsHaveVersions, DeadHaveVersions,
                 CallsAreOpen, DeadHaveOneOwner, OwnsDead
  <1> QED BY <1>1, <1>2, <1>3, <1>4, <1>5, <1>6, <1>7, <1>8, <1>9, <1>10,
             <1>11, <1>12, PipelineTypes DEF Next

\* Every state the machinery reaches is well typed, whatever the bounds.
THEOREM TypeCorrect == Spec => []TypeOK
  <1>1. Typing => TypeOK
    BY DEF Typing
  <1> QED BY <1>1, TypingInit, TypingNext, PTL DEF Spec
-----------------------------------------------------------------------------
(* No version is given up on that is current or was processed: nobody holds *)
(* a version the catalog does not have yet.                                 *)

\* A pipeline step moves its own run, for the version and the job it has.
LEMMA PipelineStays ==
    ASSUME Typing, NEW h \in Handlers, Pipeline(h)
    PROVE  /\ UNCHANGED <<seq, name, hadNames, created, retry>>
           /\ \A g \in Handlers : g /= h => run'[g] = run[g]
           /\ run[h].pc /= "idle"
           /\ run'[h].ver = run[h].ver \/ run'[h] = Idle
  <1>1. /\ UNCHANGED <<seq, name, hadNames, created, retry>>
        /\ run[h].pc /= "idle"
    BY DEF Pipeline, ReadTarget, CoreStep, CoreSteps, GateSummarize, GiveUp,
           Withheld, Send, SkipSummary, SaveSummary, ModelCallAborts,
           MarkProcessed, AskStanding, MarkSuperseded, Requeue, Complete,
           WriteCard, catalog, queue
  <1>2. \/ Moves(h)
        \/ run' = [run EXCEPT ![h].pc = "flag", ![h].name = name]
    BY DEF Pipeline, ReadTarget, CoreStep, CoreSteps, GateSummarize, GiveUp,
           Withheld, Send, SkipSummary, SaveSummary, ModelCallAborts,
           MarkProcessed, AskStanding, MarkSuperseded, Requeue, Complete,
           WriteCard, Goto, GoOn, AfterStale, Moves, Pcs
  <1>3. run \in [Handlers -> Runs] /\ run[h] \in Runs
    BY DEF Typing, TypeOK
  <1>4. \A g \in Handlers : g /= h => run'[g] = run[g]
    BY <1>2, <1>3 DEF Moves
  <1>5. run'[h].ver = run[h].ver \/ run'[h] = Idle
    <2>1. CASE run' = [run EXCEPT ![h] = Idle]
      BY <1>3, <2>1
    <2>2. CASE \E pc \in Pcs : run' = [run EXCEPT ![h].pc = pc]
      BY <1>3, <2>2 DEF Runs
    <2>3. CASE run' = [run EXCEPT ![h].pc = "flag", ![h].name = name]
      <3>1. run'[h] = [run[h] EXCEPT !.pc = "flag", !.name = name]
        BY <1>3, <2>3
      <3> QED BY <1>3, <3>1 DEF Runs
    <2> QED BY <1>2, <2>1, <2>2, <2>3 DEF Moves
  <1> QED BY <1>1, <1>4, <1>5

SupersededInv == Typing /\ NoneAhead /\ SupersededIsOver

LEMMA FailJobBehind ==
    ASSUME Typing, NoneAhead, NEW v \in Versions, v <= seq, FailJob(v),
           UNCHANGED seq
    PROVE  /\ \A d \in DeadIds : dead'[d].st /= "free" => dead'[d].ver <= seq'
           /\ \A u \in Versions :
                 created'[u] \/ retry'[u] > 0 \/ active'[u] > 0 => u <= seq'
  <1>1. \A u \in Versions :
           created'[u] \/ retry'[u] > 0 \/ active'[u] > 0
              => u = v \/ created[u] \/ retry[u] > 0 \/ active[u] > 0
    BY DEF FailJob, Typing, TypeOK
  <1>2. \A d \in DeadIds : dead'[d] = dead[d] \/ dead'[d].ver = v
    BY DEF FailJob, Typing, TypeOK
  <1> QED BY <1>1, <1>2 DEF NoneAhead

LEMMA PipelineBehind ==
    ASSUME SupersededInv, NEW h \in Handlers, Pipeline(h)
    PROVE  NoneAhead' /\ SupersededIsOver'
  <1> USE DEF SupersededInv
  <1>0. seq \in 0..MaxVersions /\ run[h].ver \in Versions /\ run[h].ver <= seq
    BY PipelineStays, RunVersion DEF Typing, TypeOK, NoneAhead
  <1>1. \A g \in Handlers : run'[g].pc /= "idle" => run'[g].ver <= seq
    BY PipelineStays DEF NoneAhead, Idle
  <1>2. \A c \in Callers : call'[c].st /= "none" => call'[c].ver <= seq
    <2>1. CASE UNCHANGED call
      BY <2>1 DEF NoneAhead
    <2>2. CASE Requeue(h)
      <3>1. \A c \in Callers : call'[c] = call[c] \/ call'[c].ver = run[h].ver
        BY <2>2 DEF Requeue, Enqueue, Typing, TypeOK
      <3> QED BY <1>0, <3>1 DEF NoneAhead
    <2> QED BY <2>1, <2>2
            DEF Pipeline, ReadTarget, CoreStep, GateSummarize, GiveUp,
                Withheld, Send, SkipSummary, SaveSummary, ModelCallAborts,
                MarkProcessed, AskStanding, MarkSuperseded, Complete, WriteCard
  <1>3. /\ \A v \in Versions : active'[v] > 0 => active[v] > 0
        /\ \A d \in DeadIds : /\ dead'[d].ver = dead[d].ver
                              /\ dead'[d].st /= "free" => dead[d].st /= "free"
    <2>1. CASE UNCHANGED queue
      BY <2>1 DEF queue
    <2>2. CASE Complete(h) /\ Salvaging(h) /\ ~run[h].aborted
      <3>1. PICK d \in DeadIds : d = run[h].dead
        BY <2>2, RunVersion DEF Complete, Salvaging
      <3>2. dead[d].st /= "free"
        BY <2>2, <3>1 DEF Complete, OwnsDead, Typing, DeadHaveOneOwner
      <3>3. dead' = [dead EXCEPT ![d].st = "completed"] /\ UNCHANGED active
        BY <2>2, <3>1 DEF Complete
      <3> QED BY <3>2, <3>3 DEF Typing, TypeOK
    <2>3. CASE Complete(h) /\ ~Salvaging(h) /\ ~run[h].aborted
      BY <2>3 DEF Complete, Typing, TypeOK
    <2> QED BY <2>1, <2>2, <2>3
            DEF Pipeline, ReadTarget, CoreStep, GateSummarize, GiveUp,
                Withheld, Send, SkipSummary, SaveSummary, ModelCallAborts,
                MarkProcessed, AskStanding, MarkSuperseded, Requeue, Complete,
                WriteCard, catalog, queue
  <1>4. CASE MarkProcessed(h)
    <2>1. processed' \subseteq processed \cup {seq}
      BY <1>4 DEF MarkProcessed, Standing
    <2>2. UNCHANGED superseded /\ seq \notin superseded
      BY <1>0, <1>4 DEF MarkProcessed, SupersededIsOver, Typing, TypeOK, Versions
    <2>3. UNCHANGED seq /\ \A v \in processed' : v <= seq
      BY <1>0, <2>1, PipelineStays DEF NoneAhead
    <2>4. NoneAhead'
      BY <1>1, <1>2, <1>3, <2>3, PipelineStays DEF NoneAhead
    <2>5. SupersededIsOver'
      BY <2>1, <2>2, <2>3 DEF SupersededIsOver
    <2> QED BY <2>4, <2>5
  <1>5. CASE MarkSuperseded(h)
    <2>1. superseded' = superseded
            \/ /\ superseded' = superseded \cup {run[h].ver}
               /\ run[h].ver /= seq /\ run[h].ver \notin processed
      BY <1>5 DEF MarkSuperseded
    <2>2. run[h].ver /= seq => run[h].ver < seq
      BY <1>0, BoundsAssumption DEF Versions
    <2> QED BY <1>1, <1>2, <1>3, <1>5, <2>1, <2>2, PipelineStays
            DEF MarkSuperseded, NoneAhead, SupersededIsOver
  <1>6. CASE UNCHANGED <<processed, superseded>>
    BY <1>1, <1>2, <1>3, <1>6, PipelineStays DEF NoneAhead, SupersededIsOver
  <1> QED BY <1>4, <1>5, <1>6
          DEF Pipeline, ReadTarget, CoreStep, GateSummarize, GiveUp, Withheld,
              Send, SkipSummary, SaveSummary, ModelCallAborts, AskStanding,
              Requeue, Complete, WriteCard, catalog
LEMMA SupersededNext == SupersededInv /\ [Next]_vars => SupersededInv'
  <1> SUFFICES ASSUME SupersededInv, [Next]_vars
               PROVE  NoneAhead' /\ SupersededIsOver'
    BY TypingNext DEF SupersededInv
  <1> USE DEF SupersededInv, catalog, queue, actors, bounds
  <1>0. seq \in 0..MaxVersions /\ MaxVersions \in Nat
    BY BoundsAssumption DEF Typing, TypeOK
  <1>1. ASSUME NEW c \in Ingesters, NEW n \in Names, NEW isNew \in BOOLEAN,
               Ingest(c, n, isNew)
        PROVE  NoneAhead' /\ SupersededIsOver'
    <2>1. /\ seq' \in Nat /\ seq <= seq'
          /\ processed' \subseteq processed
          /\ UNCHANGED <<superseded, run, dead, created, retry, active>>
      BY <1>0, <1>1 DEF Ingest
    <2>2. \A k \in Callers : call'[k] = call[k] \/ call'[k].ver = seq'
      BY <1>1 DEF Ingest, Enqueue, Typing, TypeOK
    <2>3. \A k \in Callers : call[k].ver \in Nat
      BY <1>0 DEF Typing, TypeOK
    <2>4. \A k \in Callers : call'[k].st /= "none" => call'[k].ver <= seq'
      BY <1>0, <2>1, <2>2, <2>3 DEF NoneAhead
    <2>5. /\ \A h \in Handlers : run[h].pc /= "idle" => run[h].ver \in Nat
          /\ \A d \in DeadIds : dead[d].ver \in Nat
      <3>1. \A h \in Handlers : run[h].pc /= "idle" => run[h].ver \in Nat
        BY <1>0 DEF Typing, RunsHaveVersions, Versions
      <3>2. \A d \in DeadIds : dead[d].ver \in Nat
        BY <1>0 DEF Typing, TypeOK
      <3> QED BY <3>1, <3>2
    <2>6. NoneAhead'
      BY <1>0, <2>1, <2>4, <2>5 DEF NoneAhead, Typing, TypeOK, Versions
    <2>7. SupersededIsOver'
      BY <1>0, <2>1 DEF SupersededIsOver, Typing, TypeOK, Versions
    <2> QED BY <2>6, <2>7
  <1>2. ASSUME UNCHANGED <<seq, processed, superseded>>,
               \A h \in Handlers : run'[h].pc /= "idle"
                                      => run'[h].ver <= seq,
               \A k \in Callers : call'[k].st /= "none" => call'[k].ver <= seq,
               \A d \in DeadIds : dead'[d].st /= "free" => dead'[d].ver <= seq,
               \A v \in Versions :
                  created'[v] \/ retry'[v] > 0 \/ active'[v] > 0 => v <= seq
        PROVE  NoneAhead' /\ SupersededIsOver'
    BY <1>2 DEF NoneAhead, SupersededIsOver
  <1>3. ASSUME NEW c \in Ingesters, LoseEnqueue(c)
        PROVE  NoneAhead' /\ SupersededIsOver'
    <2>1. \A k \in Callers : call'[k] = call[k] \/ call'[k] = NoCall
      BY <1>3 DEF LoseEnqueue, Typing, TypeOK
    <2> QED BY <1>2, <1>3, <2>1 DEF LoseEnqueue, NoneAhead, NoCall
  <1>4. ASSUME NEW c \in Callers, UpsertFinds(c) \/ UpsertInserts(c)
        PROVE  NoneAhead' /\ SupersededIsOver'
    <2>1. \A k \in Callers : \/ call'[k] = NoCall
                             \/ /\ call'[k].ver = call[k].ver
                                /\ call'[k].st /= "none" => call[k].st /= "none"
      <3>1. \/ call' = [call EXCEPT ![c] = NoCall]
            \/ call' = [call EXCEPT ![c].st = "insert"]
        BY <1>4 DEF UpsertFinds, UpsertInserts
      <3>2. call[c].st /= "none" /\ call \in [Callers -> Calls]
        BY <1>4 DEF UpsertFinds, UpsertInserts, Typing, TypeOK, Calls
      <3>3. CASE call' = [call EXCEPT ![c] = NoCall]
        BY <3>2, <3>3
      <3>4. CASE call' = [call EXCEPT ![c].st = "insert"]
        BY <3>2, <3>4 DEF Calls
      <3> QED BY <3>1, <3>3, <3>4
    <2>2. \A h \in Handlers :
             /\ run'[h].ver = run[h].ver
             /\ run'[h].pc /= "idle" => run[h].pc /= "idle"
      BY <1>4 DEF UpsertFinds, UpsertInserts, Return, Typing, TypeOK, Runs,
                  CallsAreOpen
    <2>3. \A v \in Versions : created'[v] => created[v] \/ v = call[c].ver
      BY <1>4 DEF UpsertFinds, UpsertInserts, Typing, TypeOK
    <2>4. call[c].ver <= seq
      BY <1>4 DEF UpsertFinds, UpsertInserts, NoneAhead
    <2> QED BY <1>2, <1>4, <2>1, <2>2, <2>3, <2>4
            DEF UpsertFinds, UpsertInserts, NoneAhead, NoCall
  <1>5. ASSUME NEW h \in Handlers, NEW v \in Versions, Fetch(h, v)
        PROVE  NoneAhead' /\ SupersededIsOver'
    <2>1. v <= seq
      BY <1>5 DEF Fetch, NoneAhead
    <2>2. \A g \in Handlers : run'[g] = run[g] \/ run'[g].ver = v
      BY <1>5 DEF Fetch, Typing, TypeOK, Started
    <2>3. \A u \in Versions : created'[u] \/ retry'[u] > 0 \/ active'[u] > 0
             => u = v \/ created[u] \/ retry[u] > 0 \/ active[u] > 0
      BY <1>5 DEF Fetch, Typing, TypeOK
    <2> QED BY <1>2, <1>5, <2>1, <2>2, <2>3 DEF Fetch, NoneAhead
  <1>6. ASSUME NEW h \in Handlers, NEW d \in DeadIds, FetchDead(h, d)
        PROVE  NoneAhead' /\ SupersededIsOver'
    <2>1. dead[d].ver <= seq
      BY <1>6 DEF FetchDead, NoneAhead
    <2>2. \A g \in Handlers : run'[g] = run[g] \/ run'[g].ver = dead[d].ver
      BY <1>6 DEF FetchDead, Typing, TypeOK, Started
    <2>3. \A e \in DeadIds : dead'[e].ver = dead[e].ver
                             /\ (dead'[e] = dead[e] \/ e = d)
      BY <1>6 DEF FetchDead, Typing, TypeOK
    <2> QED BY <1>2, <1>6, <2>1, <2>2, <2>3 DEF FetchDead, NoneAhead
  <1>7. ASSUME NEW h \in Handlers,
               StepFails(h) \/ LeaseEnds(h) \/ HandlerCrashes(h)
        PROVE  NoneAhead' /\ SupersededIsOver'
    <2>1. run[h].pc /= "idle" /\ run[h].ver \in Versions /\ run[h].ver <= seq
      BY <1>7, RunVersion DEF StepFails, LeaseEnds, HandlerCrashes, NoneAhead
    <2>2. \A g \in Handlers : run'[g].pc /= "idle"
             => run[g].pc /= "idle" /\ run'[g].ver = run[g].ver
      BY <1>7 DEF StepFails, LeaseEnds, HandlerCrashes, Typing, TypeOK, Runs, Idle
    <2>3. \A k \in Callers : call'[k] = call[k] \/ call'[k] = NoCall
      BY <1>7 DEF StepFails, LeaseEnds, HandlerCrashes, Typing, TypeOK
    <2>4. /\ \A d \in DeadIds : dead'[d].st /= "free" => dead'[d].ver <= seq
          /\ \A v \in Versions :
                created'[v] \/ retry'[v] > 0 \/ active'[v] > 0 => v <= seq
      <3>1. CASE UNCHANGED queue
        BY <3>1 DEF NoneAhead
      <3>2. CASE FailJob(run[h].ver) /\ UNCHANGED seq
        BY <2>1, <3>2, FailJobBehind
      <3>3. CASE FailJobOf(h) /\ Salvaging(h) /\ ~run[h].aborted
        <4>1. PICK d \in DeadIds : d = run[h].dead
          BY <2>1, <3>3, RunVersion DEF Salvaging
        <4>2. dead[d].st /= "free"
          BY <2>1, <3>3, <4>1 DEF OwnsDead, Typing, DeadHaveOneOwner
        <4>3. \A e \in DeadIds : dead'[e] = dead[e] \/ e = d
          BY <3>3, <4>1 DEF FailJobOf, FailDead, Typing, TypeOK
        <4>4. dead'[d].ver = dead[d].ver
          BY <3>3, <4>1 DEF FailJobOf, FailDead, Typing, TypeOK
        <4> QED BY <3>3, <4>2, <4>3, <4>4 DEF FailJobOf, FailDead, NoneAhead
      <3> QED BY <1>7, <3>1, <3>2, <3>3
              DEF StepFails, LeaseEnds, HandlerCrashes, FailJobOf
    <2> QED BY <1>2, <1>7, <2>2, <2>3, <2>4
            DEF StepFails, LeaseEnds, HandlerCrashes, NoneAhead, NoCall
  <1>8. ASSUME NEW v \in Versions, Supervise(v)
        PROVE  NoneAhead' /\ SupersededIsOver'
    <2>1. v <= seq
      BY <1>8 DEF Supervise, NoneAhead
    <2> QED BY <1>2, <1>8, <2>1, FailJobBehind DEF Supervise, NoneAhead
  <1>9. ASSUME NEW d \in DeadIds,
               SuperviseDead(d) \/ PruneDead(d) \/ OperatorRetries(d)
        PROVE  NoneAhead' /\ SupersededIsOver'
    <2>1. \A e \in DeadIds : dead'[e].st /= "free"
             => dead[e].st /= "free" /\ dead'[e].ver = dead[e].ver
      BY <1>9 DEF SuperviseDead, PruneDead, OperatorRetries, FailDead,
                  Typing, TypeOK
    <2> QED BY <1>2, <1>9, <2>1
            DEF SuperviseDead, PruneDead, OperatorRetries, FailDead, NoneAhead
  <1>10. ASSUME SweepReadsDead \/ SweepScans \/ Resummarize
         PROVE  NoneAhead' /\ SupersededIsOver'
    <2>0. PICK v \in 0..seq : UNCHANGED call \/ Enqueue(Sweeper, v)
      BY <1>0, <1>10
      DEF SweepReadsDead, SweepScans, Resummarize, Sweepable, Unfinished
    <2>1. \A k \in Callers : call'[k] = call[k] \/ call'[k].ver = v
      BY <2>0 DEF Enqueue, Typing, TypeOK
    <2> QED BY <1>0, <1>2, <1>10, <2>1
            DEF SweepReadsDead, SweepScans, Resummarize, NoneAhead
  <1>11. CASE UNCHANGED vars
    BY <1>2, <1>11 DEF vars, NoneAhead
  <1> QED BY <1>1, <1>3, <1>4, <1>5, <1>6, <1>7, <1>8, <1>9, <1>10, <1>11,
             PipelineBehind DEF Next

\* A version a newer one replaced is given up on only if it was not processed,
\* and the current one never is: markSuperseded() against markProcessed().
THEOREM SupersededIsAlwaysOver == Spec => []SupersededIsOver
  <1>1. Init => SupersededInv
    <2> SUFFICES ASSUME Init PROVE NoneAhead /\ SupersededIsOver
      BY TypingInit DEF SupersededInv
    <2> QED BY BoundsAssumption
            DEF Init, NoneAhead, SupersededIsOver, Idle, NoCall
  <1>2. SupersededInv => SupersededIsOver
    BY DEF SupersededInv
  <1> QED BY <1>1, <1>2, SupersededNext, PTL DEF Spec
-----------------------------------------------------------------------------
(* What a reader sees is decided from the file as it is.  As long as a file *)
(* never gets back a name it had, a run that finds the version current and  *)
(* under the name it read has read the file as it is, so whatever it wrote  *)
(* stands: only a run of the same version and name can have written since.  *)

\* A run that reads, or goes on, when the file stays as it is.
LEMMA FileStays ==
    ASSUME Typing, EnrichedInv, NEW h \in Handlers,
           UNCHANGED <<seq, name, hadNames, processed, applied>>,
           \A g \in Handlers : g /= h => run'[g] = run[g],
           run'[h].pc \in Reading =>
              /\ run'[h].ver <= seq
              /\ run'[h].name \in hadNames \cup {NoName}
              /\ AsRead(h)' => \A s \in CoreSteps :
                    run'[h].pc \in Past(s)
                       => applied[s] = [ver |-> seq, name |-> name],
           run'[h].pc = "answer" /\ AsRead(h)' => name \notin Sensitive
    PROVE  NamesKnown' /\ StepsTaken' /\ ProcessedMeansEnriched'
           /\ SendsOnlyWhatTheNameAllows'
  <1>1. NamesKnown'
    BY DEF EnrichedInv, NamesKnown
  <1>2. StepsTaken'
    BY DEF EnrichedInv, StepsTaken, AsRead, Past, Reading
  <1>3. ProcessedMeansEnriched'
    BY DEF EnrichedInv, ProcessedMeansEnriched
  <1>4. SendsOnlyWhatTheNameAllows'
    BY DEF EnrichedInv, SendsOnlyWhatTheNameAllows, AsRead
  <1> QED BY <1>1, <1>2, <1>3, <1>4

\* A run that only goes on where it is, or ends.
LEMMA RunGoesOn ==
    ASSUME EnrichedInv, NEW h \in Handlers, NEW pc \in Pcs,
           UNCHANGED <<seq, name, hadNames, processed, applied>>,
           \/ run' = [run EXCEPT ![h].pc = pc]
           \/ run' = [run EXCEPT ![h] = Idle],
           \/ pc \notin Reading
           \/ /\ run[h].pc \in Reading
              /\ \A s \in CoreSteps : pc \in Past(s) => run[h].pc \in Past(s),
           pc = "answer" /\ AsRead(h) => name \notin Sensitive
    PROVE  NamesKnown' /\ StepsTaken' /\ ProcessedMeansEnriched'
           /\ SendsOnlyWhatTheNameAllows'
  <1>1. run \in [Handlers -> Runs]
    BY DEF EnrichedInv, Typing, TypeOK
  <1>2. \A g \in Handlers : g /= h => run'[g] = run[g]
    BY <1>1
  <1>3. CASE run' = [run EXCEPT ![h] = Idle]
    <2>1. run'[h].pc = "idle"
      BY <1>1, <1>3 DEF Idle
    <2> QED BY <1>2, <2>1, FileStays DEF EnrichedInv, Reading
  <1>4. CASE run' = [run EXCEPT ![h].pc = pc]
    <2>1. run'[h].pc = pc /\ run'[h].ver = run[h].ver /\ run'[h].name = run[h].name
      BY <1>1, <1>4 DEF Runs
    <2>2. AsRead(h)' <=> AsRead(h)
      BY <2>1 DEF AsRead
    <2>3. run[h].pc \in Reading => /\ run[h].ver <= seq
                                   /\ run[h].name \in hadNames \cup {NoName}
      BY DEF EnrichedInv, NoneAhead, NamesKnown, Reading
    <2>4. AsRead(h) => \A s \in CoreSteps :
             run[h].pc \in Past(s) => applied[s] = [ver |-> seq, name |-> name]
      BY DEF EnrichedInv, StepsTaken
    <2>5. \A s \in CoreSteps : Past(s) \subseteq Reading
      BY DEF Past, Reading
    <2> QED BY <1>2, <2>1, <2>2, <2>3, <2>4, <2>5, FileStays DEF EnrichedInv
  <1> QED BY <1>3, <1>4

\* A run that changed nothing in the catalog but its own pc, or none at all.
LEMMA OtherSteps ==
    ASSUME EnrichedInv,
           UNCHANGED <<seq, name, hadNames, processed, applied>>,
           \A h \in Handlers : \/ run'[h].pc \notin Reading
                               \/ /\ run'[h].pc = run[h].pc
                                  /\ run'[h].ver = run[h].ver
                                  /\ run'[h].name = run[h].name
    PROVE  NamesKnown' /\ StepsTaken' /\ ProcessedMeansEnriched'
           /\ SendsOnlyWhatTheNameAllows'
  BY DEF EnrichedInv, NamesKnown, StepsTaken, ProcessedMeansEnriched,
         SendsOnlyWhatTheNameAllows, AsRead, Past, Reading
LEMMA PipelineEnriched ==
    ASSUME EnrichedInv, NEW h \in Handlers, Pipeline(h)
    PROVE  NamesKnown' /\ StepsTaken' /\ ProcessedMeansEnriched'
           /\ SendsOnlyWhatTheNameAllows'
  <1> USE DEF catalog
  <1> DEFINE File  == <<seq, name, hadNames, processed, applied>>
             Goal  == NamesKnown' /\ StepsTaken' /\ ProcessedMeansEnriched'
                      /\ SendsOnlyWhatTheNameAllows'
  <1>0. /\ run \in [Handlers -> Runs] /\ run[h] \in Runs
        /\ applied \in [CoreSteps -> Stamps]
        /\ \A g \in Handlers : g /= h => run'[g] = run[g]
    BY PipelineStays DEF EnrichedInv, Typing, TypeOK
  <1>1. CASE ReadTarget(h)
    <2>1. CASE run[h].ver /= seq \/ run[h].aborted
      BY <1>1, <2>1, RunGoesOn DEF ReadTarget, Goto, Pcs, Reading
    <2>2. CASE run[h].ver = seq /\ ~run[h].aborted
      <3>1. run'[h] = [run[h] EXCEPT !.pc = "flag", !.name = name]
        BY <1>0, <1>1, <2>2 DEF ReadTarget
      <3>2. run'[h].pc = "flag" /\ run'[h].ver = seq /\ run'[h].name = name
        BY <1>0, <2>2, <3>1 DEF Runs
      <3>3. name \in hadNames \cup {NoName} /\ seq <= seq
        BY BoundsAssumption DEF EnrichedInv, NamesKnown, Typing, TypeOK
      <3>4. \A s \in CoreSteps : "flag" \notin Past(s)
        BY DEF CoreSteps, Past, Reading
      <3> QED BY <1>0, <1>1, <3>2, <3>3, <3>4, FileStays
              DEF ReadTarget, EnrichedInv
    <2> QED BY <2>1, <2>2 DEF EnrichedInv, Typing, TypeOK, Runs
  <1>2. CASE CoreStep(h)
    <2>1. CASE Standing(h) /= "current"
      <3>1. PICK pc \in {"supersede", "requeue"} :
               run' = [run EXCEPT ![h].pc = pc]
        BY <1>2, <2>1 DEF CoreStep, Goto, AfterStale
      <3>2. UNCHANGED File
        BY <1>2, <2>1 DEF CoreStep
      <3> QED BY <3>1, <3>2, RunGoesOn DEF Pcs, Reading
    <2>2. CASE Standing(h) = "current"
      <3>1. AsRead(h)
        BY <2>2 DEF Standing, AsRead
      <3>2. /\ run[h].pc \in CoreSteps
            /\ applied' = [applied EXCEPT ![run[h].pc] =
                              [ver |-> seq, name |-> name]]
            /\ UNCHANGED <<seq, name, hadNames, processed>>
        BY <1>2, <2>2, <3>1 DEF CoreStep, AsRead
      <3>3. \A s \in CoreSteps : \/ applied'[s] = [ver |-> seq, name |-> name]
                                 \/ s /= run[h].pc /\ applied'[s] = applied[s]
        BY <1>0, <3>2
      <3>4. PICK pc \in Pcs :
               /\ pc = IF run[h].pc = "flag" THEN "tags" ELSE "summarize"
               /\ \/ run' = [run EXCEPT ![h].pc = pc]
                  \/ run' = [run EXCEPT ![h] = Idle]
        BY <1>2, <2>2 DEF CoreStep, GoOn, Goto, Pcs
      <3>5. \/ run'[h].pc = "idle"
            \/ run'[h].pc = pc /\ run'[h].ver = run[h].ver
                               /\ run'[h].name = run[h].name
        BY <1>0, <3>4 DEF Runs, Idle
      <3>6. \A s \in CoreSteps :
               pc \in Past(s) => s = run[h].pc \/ run[h].pc \in Past(s)
        BY <3>2, <3>4 DEF CoreSteps, Past, Reading
      <3>7. run[h].pc \in Reading
        BY <3>2 DEF CoreSteps, Reading
      <3>8. NamesKnown'
        BY <1>0, <3>2, <3>5, <3>7 DEF EnrichedInv, NamesKnown, Reading
      <3>9. StepsTaken'
        <4>1. \A s \in CoreSteps : run'[h].pc \in Past(s)
                 => applied'[s] = [ver |-> seq, name |-> name]
          BY <3>1, <3>3, <3>5, <3>6
          DEF EnrichedInv, StepsTaken, Past, Reading
        <4>2. \A g \in Handlers, s \in CoreSteps :
                 g /= h /\ run'[g].pc \in Past(s) /\ AsRead(g)'
                    => applied'[s] = [ver |-> seq, name |-> name]
          BY <1>0, <3>2, <3>3 DEF EnrichedInv, StepsTaken, AsRead
        <4> QED BY <3>2, <4>1, <4>2 DEF StepsTaken
      <3>10. ProcessedMeansEnriched'
        BY <3>2, <3>3 DEF EnrichedInv, ProcessedMeansEnriched
      <3>11. SendsOnlyWhatTheNameAllows'
        BY <1>0, <3>2, <3>4, <3>5 DEF EnrichedInv, SendsOnlyWhatTheNameAllows
      <3> QED BY <3>8, <3>9, <3>10, <3>11
    <2> QED BY <2>1, <2>2
  <1>3. CASE GateSummarize(h)
    <2>1. PICK pc \in {"giveUp", "withheld", "mark", "send"} :
             \/ run' = [run EXCEPT ![h].pc = pc]
             \/ run' = [run EXCEPT ![h] = Idle]
      BY <1>3 DEF GateSummarize, Goto, GoOn
    <2>2. run[h].pc = "summarize" /\ UNCHANGED File
      BY <1>3 DEF GateSummarize
    <2>3. pc \in Pcs /\ pc /= "answer"
      BY DEF Pcs
    <2> QED BY <2>1, <2>2, <2>3, RunGoesOn DEF Reading, Past
  <1>4. ASSUME NEW c, WriteCard(h, c),
               run[h].pc \in {"giveUp", "withheld", "send", "answer"}
        PROVE  Goal
    <2>1. PICK pc \in {"mark", "supersede", "requeue"} :
             \/ run' = [run EXCEPT ![h].pc = pc]
             \/ run' = [run EXCEPT ![h] = Idle]
      BY <1>4 DEF WriteCard, Goto, GoOn, AfterStale
    <2>2. UNCHANGED File
      BY <1>4 DEF WriteCard
    <2>3. pc \in Pcs /\ pc /= "answer"
      BY DEF Pcs
    <2> QED BY <1>4, <2>1, <2>2, <2>3, RunGoesOn DEF Reading, Past
  <1>5. CASE GiveUp(h)
    BY <1>4, <1>5 DEF GiveUp
  <1>6. CASE Withheld(h)
    <2>1. CASE CardNow(h) = "retriable"
      BY <1>4, <1>6, <2>1 DEF Withheld
    <2>2. CASE CardNow(h) /= "retriable"
      <3>1. /\ run[h].pc = "withheld" /\ UNCHANGED File
            /\ \/ run' = [run EXCEPT ![h].pc = "mark"]
               \/ run' = [run EXCEPT ![h] = Idle]
        BY <1>6, <2>2 DEF Withheld, Goto, GoOn
      <3> QED BY <3>1, RunGoesOn DEF Pcs, Reading, Past
    <2> QED BY <2>1, <2>2
  <1>7. CASE Send(h)
    <2>1. PICK pc \in {"answer", "withheld"} :
             /\ run' = [run EXCEPT ![h].pc = pc]
             /\ pc = "answer" => MayProcess
      BY <1>7 DEF Send, Goto
    <2>2. run[h].pc = "send" /\ UNCHANGED File /\ pc \in Pcs
      BY <1>7 DEF Send, Pcs
    <2>3. pc = "answer" /\ AsRead(h) => name \notin Sensitive
      BY <2>1, <2>2
      DEF MayProcess, EnrichedInv, StepsTaken, Past, Reading, CoreSteps
    <2> QED BY <2>1, <2>2, <2>3, RunGoesOn DEF Reading, Past
  <1>8. CASE SkipSummary(h)
    BY <1>4, <1>8 DEF SkipSummary
  <1>9. CASE SaveSummary(h)
    BY <1>4, <1>9 DEF SaveSummary
  <1>10. CASE ModelCallAborts(h)
    BY <1>10, RunGoesOn DEF ModelCallAborts, Pcs, Reading
  <1>11. CASE MarkProcessed(h)
    <2>1. CASE UNCHANGED processed
      <3>1. PICK pc \in {"done", "standing"} : run' = [run EXCEPT ![h].pc = pc]
        BY <1>11 DEF MarkProcessed, Goto
      <3>2. UNCHANGED File
        BY <1>11, <2>1 DEF MarkProcessed
      <3> QED BY <3>1, <3>2, RunGoesOn DEF Pcs, Reading
    <2>2. CASE processed' /= processed
      <3>1. AsRead(h) /\ run[h].pc = "mark"
        BY <1>11, <2>2 DEF MarkProcessed, Standing, AsRead
      <3>2. \A s \in CoreSteps : applied[s] = [ver |-> seq, name |-> name]
        BY <3>1 DEF EnrichedInv, StepsTaken, Past, Reading
      <3>3. /\ run' = [run EXCEPT ![h].pc = "done"]
            /\ UNCHANGED <<seq, name, hadNames, applied>>
        BY <1>11, <2>2 DEF MarkProcessed, Goto
      <3>4. run'[h].pc = "done"
        BY <1>0, <3>3 DEF Runs
      <3>5. NamesKnown'
        BY <1>0, <3>3, <3>4 DEF EnrichedInv, NamesKnown, Reading
      <3>6. StepsTaken'
        BY <3>2, <3>3 DEF StepsTaken
      <3>7. ProcessedMeansEnriched'
        BY <3>2, <3>3 DEF ProcessedMeansEnriched
      <3>8. SendsOnlyWhatTheNameAllows'
        BY <1>0, <3>3, <3>4 DEF EnrichedInv, SendsOnlyWhatTheNameAllows
      <3> QED BY <3>5, <3>6, <3>7, <3>8
    <2> QED BY <2>1, <2>2
  <1>12. CASE AskStanding(h)
    <2>1. PICK pc \in {"done", "supersede", "requeue"} :
             run' = [run EXCEPT ![h].pc = pc]
      BY <1>12 DEF AskStanding, Goto, AfterStale
    <2> QED BY <1>12, <2>1, RunGoesOn DEF AskStanding, Pcs, Reading
  <1>13. CASE MarkSuperseded(h)
    BY <1>13, RunGoesOn DEF MarkSuperseded, Goto, Pcs, Reading
  <1>14. CASE Requeue(h)
    BY <1>14, RunGoesOn DEF Requeue, Goto, Pcs, Reading
  <1>15. CASE Complete(h)
    BY <1>15, RunGoesOn DEF Complete, Pcs, Reading
  <1> QED BY <1>1, <1>2, <1>3, <1>5, <1>6, <1>7, <1>8, <1>9, <1>10, <1>11,
             <1>12, <1>13, <1>14, <1>15 DEF Pipeline

LEMMA EnrichedNext ==
    ASSUME ~NamesComeBack, EnrichedInv, [Next]_vars
    PROVE  EnrichedInv'
  <1> DEFINE Goal == NamesKnown' /\ StepsTaken' /\ ProcessedMeansEnriched'
                     /\ SendsOnlyWhatTheNameAllows'
  <1> SUFFICES Goal
    BY SupersededNext DEF SupersededInv, EnrichedInv
  <1> USE DEF catalog, queue, actors, bounds
  <1>0. /\ seq \in Nat /\ name \in Names \cup {NoName}
        /\ run \in [Handlers -> Runs]
    BY BoundsAssumption DEF EnrichedInv, Typing, TypeOK
  <1>1. ASSUME NEW c \in Ingesters, NEW n \in Names, NEW isNew \in BOOLEAN,
               Ingest(c, n, isNew)
        PROVE  Goal
    <2>1. /\ name' = n /\ hadNames' = hadNames \cup {n}
          /\ UNCHANGED <<applied, run>>
      BY <1>1 DEF Ingest
    <2>2. seq' \notin processed'
      BY <1>0, <1>1 DEF Ingest, EnrichedInv, NoneAhead
    <2>3. ASSUME NEW h \in Handlers, run[h].pc \in Reading
          PROVE  run[h].ver /= seq' \/ run[h].name /= n
      <3>1. run[h].ver <= seq
        BY <2>3 DEF EnrichedInv, NoneAhead, Reading
      <3>2. run[h].ver \in Nat
        BY <1>0, BoundsAssumption DEF Runs
      <3>3. CASE isNew
        BY <1>0, <1>1, <3>1, <3>2, <3>3 DEF Ingest
      <3>4. CASE ~isNew
        <4>1. n \notin hadNames /\ n /= NoName
          BY <1>1, <3>4, NamesAssumption DEF Ingest
        <4> QED BY <2>3, <4>1 DEF EnrichedInv, NamesKnown
      <3> QED BY <3>3, <3>4
    <2>4. NamesKnown'
      BY <2>1 DEF EnrichedInv, NamesKnown
    <2>5. StepsTaken'
      BY <2>1, <2>3 DEF StepsTaken, AsRead, Past, Reading
    <2>6. ProcessedMeansEnriched'
      BY <2>2 DEF ProcessedMeansEnriched
    <2>7. SendsOnlyWhatTheNameAllows'
      BY <2>1, <2>3 DEF SendsOnlyWhatTheNameAllows, Reading
    <2> QED BY <2>4, <2>5, <2>6, <2>7
  <1>2. ASSUME NEW c \in Callers, UpsertFinds(c) \/ UpsertInserts(c)
        PROVE  Goal
    <2>1. \A h \in Handlers : run'[h] = run[h] \/ run'[h].pc = "done"
      BY <1>0, <1>2 DEF UpsertFinds, UpsertInserts, Return, Runs
    <2>2. UNCHANGED <<seq, name, hadNames, processed, applied>>
      BY <1>2 DEF UpsertFinds, UpsertInserts
    <2> QED BY <2>1, <2>2, OtherSteps DEF Reading
  <1>3. ASSUME NEW h \in Handlers,
               \/ \E v \in Versions : Fetch(h, v)
               \/ \E d \in DeadIds : FetchDead(h, d)
               \/ StepFails(h) \/ LeaseEnds(h) \/ HandlerCrashes(h)
        PROVE  Goal
    <2>1. \A g \in Handlers : \/ run'[g].pc \in {"read", "idle"}
                              \/ /\ run'[g].pc = run[g].pc
                                 /\ run'[g].ver = run[g].ver
                                 /\ run'[g].name = run[g].name
      BY <1>0, <1>3 DEF Fetch, FetchDead, Started, StepFails, LeaseEnds,
                        HandlerCrashes, Idle, Runs
    <2>2. UNCHANGED <<seq, name, hadNames, processed, applied>>
      BY <1>3 DEF Fetch, FetchDead, StepFails, LeaseEnds, HandlerCrashes
    <2> QED BY <2>1, <2>2, OtherSteps DEF Reading
  <1>4. ASSUME \/ \E c \in Ingesters : LoseEnqueue(c)
               \/ \E v \in Versions : Supervise(v)
               \/ \E d \in DeadIds :
                     SuperviseDead(d) \/ PruneDead(d) \/ OperatorRetries(d)
               \/ SweepReadsDead \/ SweepScans \/ Resummarize
               \/ UNCHANGED vars
        PROVE  Goal
    <2>1. UNCHANGED <<seq, name, hadNames, processed, applied, run>>
      BY <1>4 DEF LoseEnqueue, Supervise, SuperviseDead, PruneDead,
                  OperatorRetries, SweepReadsDead, SweepScans, Resummarize, vars
    <2> QED BY <2>1, OtherSteps
  <1> QED BY <1>1, <1>2, <1>3, <1>4, PipelineEnriched DEF Next

LEMMA EnrichedInit == Init => EnrichedInv
  <1> SUFFICES ASSUME Init PROVE EnrichedInv
    OBVIOUS
  <1>1. Typing /\ NoneAhead /\ SupersededIsOver
    BY TypingInit, BoundsAssumption
    DEF Init, NoneAhead, SupersededIsOver, Idle, NoCall
  <1> QED BY <1>1 DEF Init, EnrichedInv, NamesKnown, StepsTaken, Idle, Past,
             Reading, ProcessedMeansEnriched, SendsOnlyWhatTheNameAllows

\* A file is shown by its levels only when its flag and tags are those of its
\* present version under its present name, however runs, retries, salvage runs,
\* late runs and renames interleave, if no file gets back a name it had
\* (lockCurrentVersion(), markProcessed()).
THEOREM EnrichedAsItIs ==
    ASSUME ~NamesComeBack
    PROVE  Spec => []ProcessedMeansEnriched
  <1>1. Init => EnrichedInv
    BY EnrichedInit
  <1>2. EnrichedInv /\ [Next]_vars => EnrichedInv'
    BY EnrichedNext
  <1>3. EnrichedInv => ProcessedMeansEnriched
    BY DEF EnrichedInv
  <1> QED BY <1>1, <1>2, <1>3, PTL DEF Spec

\* No run that read the file as it is sends what that name keeps from the
\* model: the exposure asked right before the call is the present name's.
THEOREM AsksWithThePresentTags ==
    ASSUME ~NamesComeBack
    PROVE  Spec => []SendsOnlyWhatTheNameAllows
  <1>1. Init => EnrichedInv
    BY EnrichedInit
  <1>2. EnrichedInv /\ [Next]_vars => EnrichedInv'
    BY EnrichedNext
  <1>3. EnrichedInv => SendsOnlyWhatTheNameAllows
    BY DEF EnrichedInv
  <1> QED BY <1>1, <1>2, <1>3, PTL DEF Spec
-----------------------------------------------------------------------------
(* The whole machinery implements the promise to a reader.                  *)

LEMMA PublishedStep ==
    ASSUME ~NamesComeBack, EnrichedInv, [Next]_vars
    PROVE  [Published!Next]_(Published!vars)
  <1> USE DEF catalog, queue, actors, bounds, Published!vars
  <1> DEFINE now == [ver |-> seq, name |-> name]
  <1>0. seq \in Nat /\ processed \subseteq Versions /\ MaxVersions \in Nat
        /\ applied \in [CoreSteps -> Stamps]
    BY BoundsAssumption DEF EnrichedInv, Typing, TypeOK
  <1>1. CASE UNCHANGED <<seq, name, processed, applied>>
    BY <1>1 DEF DecidedFrom
  <1>2. ASSUME NEW c \in Ingesters, NEW n \in Names, NEW isNew \in BOOLEAN,
               Ingest(c, n, isNew)
        PROVE  Published!Change
    <2>1. seq' \notin processed'
      BY <1>0, <1>2 DEF Ingest, EnrichedInv, NoneAhead
    <2>2. seq' /= seq \/ name' /= name
      BY <1>0, <1>2 DEF Ingest
    <2>3. UNCHANGED DecidedFrom
      BY <1>2 DEF Ingest, DecidedFrom
    <2>4. [ver |-> seq', name |-> name'] /= now
      BY <2>2
    <2> QED BY <2>1, <2>3, <2>4 DEF Published!Change
  <1>3. ASSUME NEW h \in Handlers, CoreStep(h), Standing(h) = "current"
        PROVE  Published!Decide
    <2>1. /\ run[h].pc \in CoreSteps
          /\ applied' = [applied EXCEPT ![run[h].pc] = now]
          /\ UNCHANGED <<seq, name, processed>>
      BY <1>3 DEF CoreStep, Standing
    <2>2. PICK s \in CoreSteps :
             /\ applied'[s] = now
             /\ \A u \in CoreSteps : u /= s => applied'[u] = applied[u]
      BY <1>0, <2>1
    <2>3. DecidedFrom' \in {now, Unstamped}
      BY <2>2 DEF DecidedFrom, CoreSteps
    <2>4. seq \in processed => DecidedFrom' = now
      BY <2>2 DEF DecidedFrom, CoreSteps, EnrichedInv, ProcessedMeansEnriched
    <2> QED BY <2>1, <2>3, <2>4 DEF Published!Decide
  <1>4. ASSUME NEW h \in Handlers, MarkProcessed(h), processed' /= processed
        PROVE  Published!Publish
    <2>1. /\ AsRead(h) /\ run[h].pc = "mark" /\ seq \notin processed
          /\ processed' = processed \cup {seq}
          /\ UNCHANGED <<seq, name, applied>>
      BY <1>4 DEF MarkProcessed, Standing, AsRead
    <2>2. \A s \in CoreSteps : applied[s] = now
      BY <2>1 DEF EnrichedInv, StepsTaken, Past, Reading
    <2>3. DecidedFrom = now
      BY <2>2 DEF DecidedFrom, CoreSteps
    <2> QED BY <2>1, <2>3 DEF Published!Publish, DecidedFrom
  <1>5. ASSUME NEW h \in Handlers, Pipeline(h)
        PROVE  \/ UNCHANGED <<seq, name, processed, applied>>
               \/ CoreStep(h) /\ Standing(h) = "current"
               \/ MarkProcessed(h) /\ processed' /= processed
    BY <1>5 DEF Pipeline, ReadTarget, CoreStep, GateSummarize, GiveUp,
                Withheld, Send, SkipSummary, SaveSummary, ModelCallAborts,
                MarkProcessed, AskStanding, MarkSuperseded, Requeue, Complete,
                WriteCard
  <1>6. CASE \/ \E c \in Ingesters : LoseEnqueue(c)
             \/ \E c \in Callers : UpsertFinds(c) \/ UpsertInserts(c)
             \/ \E h \in Handlers, v \in Versions : Fetch(h, v)
             \/ \E h \in Handlers, d \in DeadIds : FetchDead(h, d)
             \/ \E h \in Handlers :
                   StepFails(h) \/ LeaseEnds(h) \/ HandlerCrashes(h)
             \/ \E v \in Versions : Supervise(v)
             \/ \E d \in DeadIds :
                   SuperviseDead(d) \/ PruneDead(d) \/ OperatorRetries(d)
             \/ SweepReadsDead \/ SweepScans \/ Resummarize
             \/ UNCHANGED vars
    <2>1. UNCHANGED <<seq, name, processed, applied>>
      BY <1>6 DEF LoseEnqueue, UpsertFinds, UpsertInserts, Fetch, FetchDead,
                  StepFails, LeaseEnds, HandlerCrashes, Supervise,
                  SuperviseDead, PruneDead, OperatorRetries, SweepReadsDead,
                  SweepScans, Resummarize, vars
    <2> QED BY <1>1, <2>1
  <1> QED BY <1>1, <1>2, <1>3, <1>4, <1>5, <1>6 DEF Next, Published!Next

\* Ingest, the queue, the runs, the salvage runs and the sweep together do no
\* more to a file than PublishedFile allows: any change hides it, and it is
\* shown again only once its tags are decided from the file as it is.
THEOREM ImplementsPublishedFile ==
    ASSUME ~NamesComeBack
    PROVE  Spec => PublishesOnlyWhatItDecided
  <1>1. Init => Published!Init
    BY DEF Init, Published!Init, DecidedFrom, Unstamped, CoreSteps
  <1>2. Init => EnrichedInv
    BY EnrichedInit
  <1>3. EnrichedInv /\ [Next]_vars => EnrichedInv'
    BY EnrichedNext
  <1>4. EnrichedInv /\ [Next]_vars => [Published!Next]_(Published!vars)
    BY PublishedStep
  <1> QED BY <1>1, <1>2, <1>3, <1>4, PTL
          DEF Spec, PublishesOnlyWhatItDecided, Published!Spec

-----------------------------------------------------------------------------
(* Salvage runs. *)

SalvageInv == Typing /\ SalvageNeverAsks

LEMMA SalvageNext == SalvageInv /\ [Next]_vars => SalvageInv'
  <1> SUFFICES ASSUME SalvageInv, [Next]_vars PROVE SalvageNeverAsks'
    BY TypingNext DEF SalvageInv
  <1> DEFINE Asking == {"withheld", "send", "answer"}
  <1>0. run \in [Handlers -> Runs]
    BY DEF SalvageInv, Typing, TypeOK
  <1>1. ASSUME NEW h \in Handlers,
               \A g \in Handlers : g /= h => run'[g] = run[g],
               \/ run'[h].pc \notin Asking
               \/ run'[h].dead = run[h].dead /\ ~Salvaging(h)
        PROVE  SalvageNeverAsks'
    BY <1>1 DEF SalvageInv, SalvageNeverAsks, Salvaging
  <1>2. CASE UNCHANGED run
    BY <1>2 DEF SalvageInv, SalvageNeverAsks, Salvaging
  <1>3. ASSUME NEW h \in Handlers, Pipeline(h)
        PROVE  SalvageNeverAsks'
    <2>1. CASE \E pc \in Pcs : /\ run' = [run EXCEPT ![h].pc = pc]
                               /\ pc \in Asking => ~Salvaging(h)
      <3>1. /\ \A g \in Handlers : g /= h => run'[g] = run[g]
            /\ run'[h].dead = run[h].dead
            /\ run'[h].pc \in Asking => ~Salvaging(h)
        BY <1>0, <2>1 DEF Runs
      <3> QED BY <1>1, <3>1
    <2>2. CASE \/ run' = [run EXCEPT ![h] = Idle]
               \/ run' = [run EXCEPT ![h].pc = "flag", ![h].name = name]
      <3>1. /\ \A g \in Handlers : g /= h => run'[g] = run[g]
            /\ run'[h].pc \notin Asking
        BY <1>0, <2>2 DEF Idle, Runs
      <3> QED BY <1>1, <3>1
    <2>3. run[h].pc \in Asking => ~Salvaging(h)
      BY DEF SalvageInv, SalvageNeverAsks
    <2>4. CASE GateSummarize(h)
      <3>1. CASE Salvaging(h)
        <4>1. run' = [run EXCEPT ![h].pc = "giveUp"]
          BY <2>4, <3>1 DEF GateSummarize, Goto
        <4> QED BY <2>1, <4>1 DEF Pcs
      <3>2. CASE ~Salvaging(h)
        <4>1. PICK pc \in {"giveUp", "withheld", "mark", "send"} :
                 \/ run' = [run EXCEPT ![h].pc = pc]
                 \/ run' = [run EXCEPT ![h] = Idle]
          BY <2>4 DEF GateSummarize, Goto, GoOn
        <4> QED BY <2>1, <2>2, <3>2, <4>1 DEF Pcs
      <3> QED BY <3>1, <3>2
    <2>5. CASE Send(h)
      BY <2>1, <2>3, <2>5 DEF Send, Goto, Pcs
    <2>6. CASE \E pc \in Pcs \ Asking : run' = [run EXCEPT ![h].pc = pc]
      BY <2>1, <2>6
    <2>7. CASE ~GateSummarize(h) /\ ~Send(h)
      BY <1>3, <2>2, <2>6, <2>7
      DEF Pipeline, ReadTarget, CoreStep, GiveUp, Withheld, SkipSummary,
          SaveSummary, ModelCallAborts, MarkProcessed, AskStanding,
          MarkSuperseded, Requeue, Complete, WriteCard, Goto, GoOn, AfterStale,
          Pcs
    <2> QED BY <2>4, <2>5, <2>7
  <1>4. ASSUME NEW h \in Handlers,
               \/ \E v \in Versions : Fetch(h, v)
               \/ \E d \in DeadIds : FetchDead(h, d)
               \/ StepFails(h) \/ HandlerCrashes(h)
        PROVE  SalvageNeverAsks'
    <2>1. /\ \A g \in Handlers : g /= h => run'[g] = run[g]
          /\ run'[h].pc \in {"read", "idle"}
      BY <1>0, <1>4
      DEF Fetch, FetchDead, Started, StepFails, HandlerCrashes, Idle
    <2> QED BY <1>1, <2>1
  <1>5. ASSUME NEW h \in Handlers, LeaseEnds(h)
        PROVE  SalvageNeverAsks'
    BY <1>0, <1>5 DEF LeaseEnds, SalvageInv, SalvageNeverAsks, Salvaging, Runs
  <1>6. ASSUME NEW c \in Callers, UpsertFinds(c) \/ UpsertInserts(c)
        PROVE  SalvageNeverAsks'
    BY <1>0, <1>6 DEF UpsertFinds, UpsertInserts, Return, SalvageInv,
                      SalvageNeverAsks, Salvaging, Runs
  <1>7. CASE \/ \E c \in Ingesters, n \in Names, isNew \in BOOLEAN :
                   Ingest(c, n, isNew)
             \/ \E c \in Ingesters : LoseEnqueue(c)
             \/ \E v \in Versions : Supervise(v)
             \/ \E d \in DeadIds :
                   SuperviseDead(d) \/ PruneDead(d) \/ OperatorRetries(d)
             \/ SweepReadsDead \/ SweepScans \/ Resummarize
             \/ UNCHANGED vars
    BY <1>2, <1>7 DEF Ingest, LoseEnqueue, Supervise, SuperviseDead, PruneDead,
       OperatorRetries, SweepReadsDead, SweepScans, Resummarize, vars, actors
  <1> QED BY <1>3, <1>4, <1>5, <1>6, <1>7 DEF Next

\* Whatever salvage and ordinary runs do to one version at the same time, no
\* step of a salvage run takes away a summary: it asks no model, and gives up
\* only on a card that was not written when it holds the lock.
THEOREM SalvageTakesNothingAway == Spec => SalvageKeepsSummaries
  <1> DEFINE Keeps == \A h \in Handlers : Salvaging(h) /\ run'[h] /= run[h] =>
                         \A v \in Versions : card[v] = "summarized"
                                                => card'[v] = "summarized"
  <1>1. Init => SalvageInv
    BY TypingInit DEF Init, SalvageInv, SalvageNeverAsks, Idle
  <1>2. SalvageInv /\ [Next]_vars => [Keeps]_vars
    <2> SUFFICES ASSUME SalvageInv, [Next]_vars, NEW h \in Handlers,
                        Salvaging(h), run'[h] /= run[h], NEW v \in Versions,
                        card[v] = "summarized"
                 PROVE  card'[v] = "summarized"
      OBVIOUS
    <2>1. run \in [Handlers -> Runs] /\ card \in [Versions -> Cards]
      BY DEF SalvageInv, Typing, TypeOK
    <2>2. CASE Pipeline(h)
      <3>1. run[h].pc \notin {"withheld", "send", "answer"}
        BY DEF SalvageInv, SalvageNeverAsks
      <3>2. UNCHANGED card \/ GiveUp(h)
        BY <2>2, <3>1
        DEF Pipeline, ReadTarget, CoreStep, GateSummarize, Withheld, Send,
            SkipSummary, SaveSummary, ModelCallAborts, MarkProcessed,
            AskStanding, MarkSuperseded, Requeue, Complete, catalog
      <3>3. CASE GiveUp(h)
        BY <2>1, <3>3 DEF GiveUp, WriteCard, CardNow
      <3> QED BY <3>2, <3>3
    <2>3. CASE UNCHANGED card
      BY <2>3
    <2>4. ASSUME NEW g \in Handlers, Pipeline(g), g /= h
          PROVE  FALSE
      BY <2>4, PipelineStays DEF SalvageInv
    <2>5. CASE Next /\ ~\E g \in Handlers : Pipeline(g)
      BY <2>5 DEF Next, Ingest, LoseEnqueue, UpsertFinds, UpsertInserts, Fetch,
                  FetchDead, StepFails, LeaseEnds, HandlerCrashes, Supervise,
                  SuperviseDead, PruneDead, OperatorRetries, SweepReadsDead,
                  SweepScans, Resummarize, catalog
    <2> QED BY <2>2, <2>3, <2>4, <2>5 DEF vars, catalog
  <1> QED BY <1>1, <1>2, SalvageNext, PTL DEF Spec, SalvageKeepsSummaries

-----------------------------------------------------------------------------
(***************************************************************************)
(* The queues: no hidden version of a file is forgotten by them, for every *)
(* number of handlers, versions, retries and faults, and whether or not a  *)
(* file may get back a name it had.                                        *)
(***************************************************************************)

-----------------------------------------------------------------------------
(* NothingOrphaned is not inductive: InHand() counts a job whose run is     *)
(* about to end, and the call of a run whose lease has ended, which nobody  *)
(* repeats when it dies.  Held() counts neither.                            *)

\* The run ends next, or is told that the file stands as it read it and ends.
Ending(h) == \/ run[h].pc \in {"done", "supersede"}
             \/ run[h].pc = "standing" /\ Standing(h) = "current"

Live(h) == run[h].pc /= "idle" /\ ~run[h].aborted

CallOf(c, v) == /\ call[c].st /= "none" /\ call[c].ver = v
                /\ c \in Handlers => ~run[c].aborted

CallHolds(v) == \E c \in Callers : CallOf(c, v)

JobHolds(v) == /\ active[v] > 0
               /\ \A h \in Handlers : Owns(h, v) => ~Ending(h)

LetterOf(d, v) ==
    /\ dead[d].ver = v
    /\ \/ dead[d].st \in {"created", "retry", "failed"}
       \/ /\ dead[d].st \in {"active", "active2"}
          /\ \A h \in Handlers : OwnsDead(h, d) => ~Ending(h)

LetterHolds(v) == \E d \in DeadIds : LetterOf(d, v)

Held(v) == CallHolds(v) \/ Waiting(v) \/ JobHolds(v) \/ LetterHolds(v)

HiddenIsHeld == losses = 0 /\ seq > 0 /\ seq \notin processed => Held(seq)

(* A live run has the one active job of its version, or the dead letter of  *)
(* its version; its call is of its version; the sweep has one call.         *)
OneOwner ==
    \A h \in Handlers, v \in Versions : Owns(h, v) =>
        /\ active[v] > 0
        /\ \A g \in Handlers : Owns(g, v) => g = h

LettersAgree ==
    \A h \in Handlers, d \in DeadIds :
        OwnsDead(h, d) => run[h].ver = dead[d].ver

CallsAgree ==
    /\ \A h \in Handlers : call[h].st /= "none" => call[h].ver = run[h].ver
    /\ sweep.st = "scan" => call[Sweeper].st = "none"

JobsAgree == Typing /\ OneOwner /\ LettersAgree /\ CallsAgree

JobsInv == JobsAgree /\ HiddenIsHeld
-----------------------------------------------------------------------------
(* What the queues and the runs agree on.                                   *)

\* A run as it was, but for where it is, or one that has ended.
Onward(g) == \/ run'[g] = Idle
             \/ /\ run'[g].ver = run[g].ver
                /\ run'[g].dead = run[g].dead
                /\ run[g].aborted => run'[g].aborted
                /\ run'[g].pc /= "idle" => run[g].pc /= "idle"

LEMMA OwnersOnward ==
    ASSUME Typing, NEW h \in Handlers, Onward(h)
    PROVE  /\ \A v \in Versions : Owns(h, v)' => Owns(h, v)
           /\ \A d \in DeadIds : OwnsDead(h, d)' => OwnsDead(h, d)
  BY DEF Onward, Owns, OwnsDead, Salvaging, Idle

LEMMA OwnersStay ==
    ASSUME JobsAgree, \A g \in Handlers : Onward(g),
           \A v \in Versions : active'[v] = active[v] \/
              \A g \in Handlers : ~Owns(g, v)'
    PROVE  OneOwner'
  <1>1. \A g \in Handlers, v \in Versions : Owns(g, v)' => Owns(g, v)
    BY OwnersOnward DEF JobsAgree
  <1> QED BY <1>1 DEF JobsAgree, OneOwner

LEMMA LettersStay ==
    ASSUME JobsAgree, \A g \in Handlers : Onward(g),
           \A d \in DeadIds : dead'[d].ver = dead[d].ver \/
              \A g \in Handlers : ~OwnsDead(g, d)
    PROVE  LettersAgree'
  <1>1. \A g \in Handlers, d \in DeadIds : OwnsDead(g, d)' => OwnsDead(g, d)
    BY OwnersOnward DEF JobsAgree
  <1>2. \A g \in Handlers, d \in DeadIds :
           OwnsDead(g, d)' => run'[g].ver = run[g].ver
    BY DEF Onward, OwnsDead, Idle
  <1> QED BY <1>1, <1>2 DEF JobsAgree, LettersAgree

LEMMA HandlersCall == \A h \in Handlers : h \in Callers
  BY DEF Callers

\* A failed job has no owner any more, and its letter had none.
LEMMA FailJobStays ==
    ASSUME JobsAgree, NEW v \in Versions, FailJob(v),
           \A g \in Handlers : Onward(g) /\ ~Owns(g, v)'
    PROVE  OneOwner' /\ LettersAgree'
  <1>1. \A u \in Versions : u /= v => active'[u] = active[u]
    BY DEF FailJob, JobsAgree, Typing, TypeOK
  <1>2. \A u \in Versions : active'[u] = active[u] \/
           \A g \in Handlers : ~Owns(g, u)'
    BY <1>1
  <1>3. OneOwner'
    BY <1>2, OwnersStay
  <1>4. \A d \in DeadIds : dead'[d] = dead[d] \/ dead[d].st = "free"
    BY DEF FailJob, JobsAgree, Typing, TypeOK
  <1>5. \A d \in DeadIds : dead[d].st = "free" =>
           \A g \in Handlers : ~OwnsDead(g, d)
    BY DEF JobsAgree, Typing, DeadHaveOneOwner
  <1>6. \A d \in DeadIds : dead'[d].ver = dead[d].ver \/
           \A g \in Handlers : ~OwnsDead(g, d)
    BY <1>4, <1>5
  <1> QED BY <1>3, <1>6, LettersStay

LEMMA FailJobOfStays ==
    ASSUME JobsAgree, NEW h \in Handlers, Live(h), FailJobOf(h),
           \A g \in Handlers : Onward(g),
           \A g \in Handlers : g /= h => run'[g] = run[g],
           run'[h] = Idle \/ run'[h].aborted
    PROVE  OneOwner' /\ LettersAgree'
  <1>0. /\ run[h].ver \in Versions
        /\ Salvaging(h) => run[h].dead \in DeadIds
        /\ \A v \in Versions : ~Owns(h, v)'
    <2>1. run[h].ver \in Versions /\ run[h].dead \in DeadIds \cup {0}
      BY RunVersion DEF JobsAgree, Live
    <2> QED BY <2>1 DEF Salvaging, Owns, Idle
  <1>1. CASE Salvaging(h)
    <2>1. PICK d \in DeadIds : d = run[h].dead
      BY <1>0, <1>1
    <2>2. \A e \in DeadIds : dead'[e].ver = dead[e].ver
      BY <1>1, <2>1 DEF FailJobOf, FailDead, JobsAgree, Typing, TypeOK
    <2>3. UNCHANGED active
      BY <1>1 DEF FailJobOf, FailDead
    <2> QED BY <2>2, <2>3, OwnersStay, LettersStay
  <1>2. CASE ~Salvaging(h)
    <2>1. PICK v \in Versions : v = run[h].ver
      BY <1>0
    <2>2. FailJob(v)
      BY <1>2, <2>1 DEF FailJobOf
    <2>3. Owns(h, v)
      BY <1>2, <2>1 DEF Owns, Live
    <2>4. \A g \in Handlers : Owns(g, v)' => Owns(g, v)
      BY OwnersOnward DEF JobsAgree
    <2>5. \A g \in Handlers : ~Owns(g, v)'
      BY <1>0, <2>3, <2>4 DEF JobsAgree, OneOwner
    <2> QED BY <2>2, <2>5, FailJobStays
  <1> QED BY <1>1, <1>2
-----------------------------------------------------------------------------
\* A step of the pipeline takes its run onward; a job or a dead letter is only
\* completed by the run that has it.
LEMMA PipelineOnward ==
    ASSUME JobsAgree, NEW h \in Handlers, Pipeline(h)
    PROVE  /\ \A g \in Handlers : Onward(g)
           /\ \A g \in Handlers : g /= h => run'[g] = run[g]
           /\ \/ UNCHANGED queue
              \/ Complete(h)
           /\ \/ UNCHANGED call
              \/ Requeue(h)
           /\ UNCHANGED <<sweep, bounds, created, retry>>
  <1>0. run \in [Handlers -> Runs] /\ run[h] \in Runs
    BY DEF JobsAgree, Typing, TypeOK
  <1>1. \/ \E pc \in Pcs : run' = [run EXCEPT ![h].pc = pc]
        \/ run' = [run EXCEPT ![h] = Idle]
        \/ run' = [run EXCEPT ![h].pc = "flag", ![h].name = name]
    BY DEF Pipeline, ReadTarget, CoreStep, CoreSteps, GateSummarize, GiveUp,
           Withheld, Send, SkipSummary, SaveSummary, ModelCallAborts,
           MarkProcessed, AskStanding, MarkSuperseded, Requeue, Complete,
           WriteCard, Goto, GoOn, AfterStale, Pcs
  <1>2. run[h].pc /= "idle" /\ \A g \in Handlers : g /= h => run'[g] = run[g]
    BY PipelineStays DEF JobsAgree
  <1>3. Onward(h)
    <2>1. CASE \E pc \in Pcs : run' = [run EXCEPT ![h].pc = pc]
      <3>1. PICK pc \in Pcs : run' = [run EXCEPT ![h].pc = pc]
        BY <2>1
      <3>2. run'[h] = [run[h] EXCEPT !.pc = pc]
        BY <1>0, <3>1
      <3> QED BY <1>0, <1>2, <3>2 DEF Onward, Runs
    <2>2. CASE run' = [run EXCEPT ![h] = Idle]
      BY <1>0, <2>2 DEF Onward
    <2>3. CASE run' = [run EXCEPT ![h].pc = "flag", ![h].name = name]
      <3>1. run'[h] = [run[h] EXCEPT !.pc = "flag", !.name = name]
        BY <1>0, <2>3
      <3> QED BY <1>0, <1>2, <3>1 DEF Onward, Runs
    <2> QED BY <1>1, <2>1, <2>2, <2>3
  <1>4. \A g \in Handlers : Onward(g)
    BY <1>2, <1>3 DEF Onward
  <1>5. UNCHANGED queue \/ Complete(h)
    BY DEF Pipeline, ReadTarget, CoreStep, GateSummarize, GiveUp,
           Withheld, Send, SkipSummary, SaveSummary, ModelCallAborts,
           MarkProcessed, AskStanding, MarkSuperseded, Requeue, WriteCard
  <1>6. UNCHANGED call \/ Requeue(h)
    BY DEF Pipeline, ReadTarget, CoreStep, GateSummarize, GiveUp,
           Withheld, Send, SkipSummary, SaveSummary, ModelCallAborts,
           MarkProcessed, AskStanding, MarkSuperseded, Complete, WriteCard
  <1>7. UNCHANGED <<sweep, bounds, created, retry>>
    BY DEF Pipeline, ReadTarget, CoreStep, GateSummarize, GiveUp,
           Withheld, Send, SkipSummary, SaveSummary, ModelCallAborts,
           MarkProcessed, AskStanding, MarkSuperseded, Requeue, Complete,
           WriteCard, queue
  <1> QED BY <1>2, <1>4, <1>5, <1>6, <1>7

\* Calls that are as they were, over, or opened for the run's own version.
LEMMA CallsStay ==
    ASSUME JobsAgree, Typing', \A g \in Handlers : Onward(g),
           \A h \in Handlers :
              call'[h].st /= "none" =>
                 \/ call[h].st /= "none" /\ call'[h].ver = call[h].ver
                 \/ call'[h].ver = run[h].ver,
           sweep'.st = "scan" => call'[Sweeper].st = "none"
    PROVE  CallsAgree'
  <1>1. \A h \in Handlers :
           call'[h].st /= "none" => run'[h].ver = run[h].ver
    BY DEF Typing, CallsAreOpen, Onward, Idle
  <1> QED BY <1>1 DEF JobsAgree, CallsAgree

LEMMA AgreeInit == Init => OneOwner /\ LettersAgree /\ CallsAgree
  <1> SUFFICES ASSUME Init PROVE OneOwner /\ LettersAgree /\ CallsAgree
    OBVIOUS
  <1>1. \A h \in Handlers : run[h].pc = "idle" /\ call[h].st = "none"
    BY HandlersCall DEF Init, Idle, NoCall
  <1> QED BY <1>1 DEF Init, OneOwner, LettersAgree, CallsAgree, Owns, OwnsDead

LEMMA AgreeNext ==
    ASSUME JobsAgree, [Next]_vars
    PROVE  JobsAgree'
  <1> USE DEF catalog, queue, actors, bounds
  <1>0. Typing' /\ Typing
    BY TypingNext DEF JobsAgree
  <1>t. /\ call \in [Callers -> Calls] /\ run \in [Handlers -> Runs]
        /\ \A h \in Handlers : h \in Callers
        /\ dead \in [DeadIds -> [ver : 0..MaxVersions, st : DeadSt]]
        /\ active \in [Versions -> 0..RetryLimit + 1]
    BY <1>0, HandlersCall DEF Typing, TypeOK, Calls
  <1>e. UNCHANGED run => \A g \in Handlers : Onward(g)
    BY DEF Onward
  <1>q. ASSUME \A g \in Handlers : Onward(g), UNCHANGED queue
        PROVE  OneOwner' /\ LettersAgree'
    BY <1>q, OwnersStay, LettersStay
  <1>1. ASSUME NEW c \in Ingesters, NEW n \in Names, NEW isNew \in BOOLEAN,
               Ingest(c, n, isNew)
        PROVE  JobsAgree'
    <2>1. UNCHANGED <<run, queue, sweep>> /\ Enqueue(c, seq')
      BY <1>1 DEF Ingest
    <2>2. \A k \in Callers : k /= c => call'[k] = call[k]
      BY <1>t, <2>1 DEF Enqueue
    <2>3. (\A h \in Handlers : h /= c) /\ Sweeper /= c /\ Sweeper \in Callers
      BY ActorsAssumption DEF Callers
    <2>4. CallsAgree'
      BY <1>0, <1>t, <1>e, <2>1, <2>2, <2>3 DEF JobsAgree, CallsAgree
    <2> QED BY <1>0, <1>e, <1>q, <2>1, <2>4 DEF JobsAgree
  <1>2. ASSUME NEW c \in Ingesters, LoseEnqueue(c) PROVE JobsAgree'
    <2>1. UNCHANGED <<run, queue, sweep>> /\ call' = [call EXCEPT ![c] = NoCall]
      BY <1>2 DEF LoseEnqueue
    <2>2. \A k \in Callers : call'[k] = call[k] \/ call'[k].st = "none"
      BY <1>t, <2>1 DEF NoCall
    <2>3. Sweeper \in Callers
      BY DEF Callers
    <2>4. CallsAgree'
      BY <1>t, <2>1, <2>2, <2>3 DEF JobsAgree, CallsAgree
    <2> QED BY <1>0, <1>e, <1>q, <2>1, <2>4 DEF JobsAgree
  <1>3. ASSUME NEW c \in Callers, UpsertFinds(c) \/ UpsertInserts(c)
        PROVE  JobsAgree'
    <2>1. UNCHANGED <<active, dead, sweep>> /\ call[c].st /= "none"
      BY <1>3 DEF UpsertFinds, UpsertInserts
    <2>2. UNCHANGED run \/ Return(c)
      BY <1>3 DEF UpsertFinds, UpsertInserts
    <2>3. \A g \in Handlers : Onward(g)
      <3>1. ASSUME c \in Handlers PROVE run[c].pc = "calling"
        BY <1>0, <2>1, <3>1 DEF Typing, CallsAreOpen
      <3> QED BY <1>t, <2>2, <3>1 DEF Return, Onward, Runs
    <2>4. \A k \in Callers : \/ call'[k].st = "none"
                             \/ /\ call[k].st /= "none"
                                /\ call'[k].ver = call[k].ver
      <3>1. \/ call' = [call EXCEPT ![c] = NoCall]
            \/ call' = [call EXCEPT ![c].st = "insert"]
        BY <1>3 DEF UpsertFinds, UpsertInserts
      <3>2. CASE call' = [call EXCEPT ![c] = NoCall]
        BY <1>t, <3>2 DEF NoCall
      <3>3. CASE call' = [call EXCEPT ![c].st = "insert"]
        BY <1>t, <2>1, <3>3 DEF Calls
      <3> QED BY <3>1, <3>2, <3>3
    <2>5. Sweeper \in Callers
      BY DEF Callers
    <2>6. CallsAgree'
      BY <1>0, <1>t, <2>1, <2>3, <2>4, <2>5, CallsStay DEF JobsAgree, CallsAgree
    <2>7. OneOwner' /\ LettersAgree'
      BY <2>1, <2>3, OwnersStay, LettersStay
    <2> QED BY <1>0, <2>6, <2>7 DEF JobsAgree
  <1>4. ASSUME NEW h \in Handlers, NEW v \in Versions, Fetch(h, v)
        PROVE  JobsAgree'
    <2>1. /\ run[h].pc = "idle" /\ active[v] = 0 /\ UNCHANGED <<dead, call, sweep>>
          /\ run' = [run EXCEPT ![h] = Started(v, 0)]
      BY <1>4 DEF Fetch
    <2>2. active'[v] > 0 /\ \A u \in Versions : u /= v => active'[u] = active[u]
      BY <1>0, <1>t, <1>4, BoundsAssumption DEF Fetch, Typing, TypeOK
    <2>3. /\ \A g \in Handlers : g /= h => run'[g] = run[g]
          /\ run'[h].ver = v /\ run'[h].dead = 0
      BY <1>t, <2>1 DEF Started
    <2>4. \A g \in Handlers : ~Owns(g, v)
      BY <2>1, <1>t DEF JobsAgree, OneOwner
    <2>5. \A g \in Handlers, u \in Versions :
             Owns(g, u)' => \/ g = h /\ u = v
                            \/ g /= h /\ u /= v /\ Owns(g, u)
      BY <2>3, <2>4 DEF Owns, Salvaging
    <2>6. OneOwner'
      BY <2>2, <2>5 DEF JobsAgree, OneOwner
    <2>7. \A d \in DeadIds : ~OwnsDead(h, d)'
      BY <2>3, BoundsAssumption DEF OwnsDead
    <2>8. LettersAgree'
      BY <2>1, <2>3, <2>7 DEF JobsAgree, LettersAgree, OwnsDead
    <2>9. call[h].st = "none"
      BY <1>0, <2>1 DEF Typing, CallsAreOpen
    <2>10. CallsAgree'
      BY <2>1, <2>3, <2>9 DEF JobsAgree, CallsAgree
    <2> QED BY <1>0, <2>6, <2>8, <2>10 DEF JobsAgree
  <1>5. ASSUME NEW h \in Handlers, NEW d \in DeadIds, FetchDead(h, d)
        PROVE  JobsAgree'
    <2>1. /\ run[h].pc = "idle" /\ UNCHANGED <<active, call, sweep>>
          /\ run' = [run EXCEPT ![h] = Started(dead[d].ver, d)]
          /\ dead[d].st \in {"created", "retry"}
      BY <1>5 DEF FetchDead
    <2>2. \A e \in DeadIds : dead'[e].ver = dead[e].ver
      BY <1>t, <1>5 DEF FetchDead
    <2>3. /\ \A g \in Handlers : g /= h => run'[g] = run[g]
          /\ run'[h].ver = dead[d].ver /\ run'[h].dead = d
      BY <1>t, <2>1 DEF Started
    <2>4. \A v \in Versions : ~Owns(h, v)'
      BY <2>3, BoundsAssumption DEF Owns, Salvaging
    <2>5. \A g \in Handlers, v \in Versions : Owns(g, v)' => Owns(g, v)
      BY <2>3, <2>4 DEF Owns, Salvaging
    <2>6. OneOwner'
      BY <2>1, <2>5 DEF JobsAgree, OneOwner
    <2>7. LettersAgree'
      BY <2>2, <2>3 DEF JobsAgree, LettersAgree, OwnsDead
    <2>9. call[h].st = "none"
      BY <1>0, <2>1 DEF Typing, CallsAreOpen
    <2>10. CallsAgree'
      BY <2>1, <2>3, <2>9 DEF JobsAgree, CallsAgree
    <2> QED BY <1>0, <2>6, <2>7, <2>10 DEF JobsAgree
  <1>6. ASSUME NEW h \in Handlers, Pipeline(h) PROVE JobsAgree'
    <2>1. \A g \in Handlers : Onward(g)
      BY <1>6, PipelineOnward
    <2>2. OneOwner' /\ LettersAgree'
      <3>1. CASE UNCHANGED queue
        BY <1>q, <2>1, <3>1
      <3>2. CASE Complete(h)
        <4>1. run' = [run EXCEPT ![h] = Idle]
          BY <3>2 DEF Complete
        <4>2. \A v \in Versions : ~Owns(h, v)'
          BY <1>t, <4>1 DEF Owns, Idle
        <4>3. \A d \in DeadIds : dead'[d].ver = dead[d].ver
          BY <1>t, <3>2 DEF Complete
        <4>4. \A u \in Versions : active'[u] = active[u] \/ Owns(h, u)
          BY <1>t, <3>2 DEF Complete, Owns
        <4>5. \A u \in Versions : active'[u] = active[u] \/
                 \A g \in Handlers : ~Owns(g, u)'
          BY <1>0, <2>1, <4>2, <4>4, OwnersOnward DEF JobsAgree, OneOwner
        <4> QED BY <2>1, <4>3, <4>5, OwnersStay, LettersStay
      <3> QED BY <1>6, <3>1, <3>2, PipelineOnward
    <2>3. CallsAgree'
      <3>1. UNCHANGED sweep /\ Sweeper \in Callers /\ h /= Sweeper
        BY <1>6, PipelineOnward, ActorsAssumption DEF Callers
      <3>2. \A k \in Callers : \/ call'[k] = call[k]
                               \/ k = h /\ call'[k].ver = run[h].ver
        <4>1. CASE Requeue(h)
          BY <1>t, <4>1 DEF Requeue, Enqueue
        <4> QED BY <1>6, <4>1, PipelineOnward
      <3> QED BY <1>0, <1>t, <2>1, <3>1, <3>2, CallsStay
              DEF JobsAgree, CallsAgree
    <2> QED BY <1>0, <2>2, <2>3 DEF JobsAgree
  <1>7. ASSUME NEW h \in Handlers,
               StepFails(h) \/ LeaseEnds(h) \/ HandlerCrashes(h)
        PROVE  JobsAgree'
    <2>1. /\ run[h].pc /= "idle" /\ UNCHANGED sweep
          /\ UNCHANGED call \/ call' = [call EXCEPT ![h] = NoCall]
          /\ \/ run' = [run EXCEPT ![h] = Idle]
             \/ run' = [run EXCEPT ![h].aborted = TRUE]
          /\ \/ UNCHANGED queue
             \/ Live(h) /\ FailJobOf(h)
      BY <1>7 DEF StepFails, LeaseEnds, HandlerCrashes, Live
    <2>2. /\ \A g \in Handlers : Onward(g)
          /\ \A g \in Handlers : g /= h => run'[g] = run[g]
          /\ run'[h] = Idle \/ run'[h].aborted
      BY <1>t, <2>1 DEF Onward, Runs
    <2>3. OneOwner' /\ LettersAgree'
      BY <1>q, <2>1, <2>2, FailJobOfStays
    <2>4. \A k \in Callers : call'[k] = call[k] \/ call'[k].st = "none"
      BY <1>t, <2>1 DEF NoCall
    <2>5. Sweeper \in Callers
      BY DEF Callers
    <2>6. CallsAgree'
      BY <1>0, <1>t, <2>1, <2>2, <2>4, <2>5, CallsStay DEF JobsAgree, CallsAgree
    <2> QED BY <1>0, <2>3, <2>6 DEF JobsAgree
  <1>8. ASSUME NEW v \in Versions, Supervise(v) PROVE JobsAgree'
    <2>1. /\ UNCHANGED <<run, call, sweep>> /\ FailJob(v)
          /\ \A g \in Handlers : ~Owns(g, v)
      BY <1>8 DEF Supervise
    <2>2. \A g \in Handlers : Onward(g) /\ ~Owns(g, v)'
      BY <1>e, <2>1 DEF Owns, Salvaging
    <2>3. OneOwner' /\ LettersAgree'
      BY <2>1, <2>2, FailJobStays
    <2> QED BY <1>0, <2>1, <2>3 DEF JobsAgree, CallsAgree
  <1>9. ASSUME NEW d \in DeadIds,
               SuperviseDead(d) \/ PruneDead(d) \/ OperatorRetries(d)
        PROVE  JobsAgree'
    <2>1. /\ UNCHANGED <<active, run, call, sweep>>
          /\ \A e \in DeadIds : e /= d => dead'[e] = dead[e]
          /\ \/ dead'[d].ver = dead[d].ver
             \/ dead[d].st \in {"completed", "failed"}
      BY <1>t, <1>9
      DEF SuperviseDead, PruneDead, OperatorRetries, FailDead
    <2>2. \A e \in DeadIds : dead'[e].ver = dead[e].ver \/
             \A g \in Handlers : ~OwnsDead(g, e)
      BY <1>0, <2>1 DEF Typing, DeadHaveOneOwner
    <2>3. OneOwner' /\ LettersAgree'
      BY <1>e, <2>1, <2>2, OwnersStay, LettersStay
    <2> QED BY <1>0, <2>1, <2>3 DEF JobsAgree, CallsAgree
  <1>10. ASSUME SweepReadsDead \/ SweepScans \/ Resummarize PROVE JobsAgree'
    <2>1. UNCHANGED <<run, queue>>
      BY <1>10 DEF SweepReadsDead, SweepScans, Resummarize
    <2>2. \A k \in Callers : k /= Sweeper => call'[k] = call[k]
      BY <1>t, <1>10 DEF SweepReadsDead, SweepScans, Resummarize, Enqueue
    <2>3. sweep'.st = "scan" => call'[Sweeper].st = "none"
      BY <1>10 DEF SweepReadsDead, SweepScans, Resummarize, NewPass
    <2>4. \A h \in Handlers : h /= Sweeper
      BY ActorsAssumption
    <2>5. CallsAgree'
      BY <1>t, <2>1, <2>2, <2>3, <2>4 DEF JobsAgree, CallsAgree
    <2> QED BY <1>0, <1>e, <1>q, <2>1, <2>5 DEF JobsAgree
  <1>11. CASE UNCHANGED vars
    BY <1>0, <1>e, <1>q, <1>11 DEF vars, JobsAgree, CallsAgree
  <1> QED BY <1>1, <1>2, <1>3, <1>4, <1>5, <1>6, <1>7, <1>8, <1>9, <1>10,
             <1>11 DEF Next
-----------------------------------------------------------------------------
(* Whoever holds a version goes on holding it, or hands it over.            *)

\* A run that is live, of version v and about to end was so before the step.
EndedAlready(h, v) ==
    Live(h)' /\ run'[h].ver = v /\ Ending(h)' =>
        /\ Live(h) /\ run[h].ver = v /\ Ending(h)
        /\ run'[h].dead = run[h].dead

\* What the step leaves alone of what holds v goes on holding it.
LEMMA HeldStays ==
    ASSUME JobsAgree, JobsAgree', NEW v \in Versions, Held(v),
           \A c \in Callers : CallOf(c, v) => CallOf(c, v)',
           created'[v] = created[v], retry'[v] = retry[v],
           active'[v] = active[v] \/
              \E h \in Handlers : Owns(h, v) /\ Ending(h),
           \A d \in DeadIds : LetterOf(d, v) => dead'[d] = dead[d],
           \A h \in Handlers : EndedAlready(h, v)
    PROVE  Held(v)'
  <1>1. CASE CallHolds(v)
    BY <1>1 DEF CallHolds, Held
  <1>2. CASE Waiting(v)
    BY <1>2 DEF Waiting, Held
  <1>3. CASE JobHolds(v)
    <2>1. active'[v] > 0
      BY <1>3 DEF JobHolds
    <2>2. ASSUME NEW h \in Handlers, Owns(h, v)' PROVE ~Ending(h)'
      <3>1. Live(h)' /\ run'[h].ver = v /\ ~Salvaging(h)'
        BY <2>2 DEF Owns, Live
      <3>2. Ending(h)' => Owns(h, v) /\ Ending(h)
        BY <3>1 DEF EndedAlready, Owns, Live, Salvaging
      <3> QED BY <1>3, <3>2 DEF JobHolds
    <2> QED BY <2>1, <2>2 DEF JobHolds, Held
  <1>4. CASE LetterHolds(v)
    <2>1. PICK d \in DeadIds : LetterOf(d, v)
      BY <1>4 DEF LetterHolds
    <2>2. dead'[d] = dead[d] /\ dead[d].ver = v
      BY <2>1 DEF LetterOf
    <2>3. ASSUME NEW h \in Handlers, OwnsDead(h, d)',
                 dead[d].st \in {"active", "active2"}
          PROVE  ~Ending(h)'
      <3>1. Live(h)' /\ run'[h].dead = d
        BY <2>3 DEF OwnsDead, Live
      <3>2. run'[h].ver = v
        BY <2>2, <2>3 DEF JobsAgree, LettersAgree
      <3>3. Ending(h)' => OwnsDead(h, d) /\ Ending(h)
        BY <3>1, <3>2 DEF EndedAlready, OwnsDead, Live
      <3> QED BY <2>1, <2>3, <3>3 DEF LetterOf
    <2>4. LetterOf(d, v)'
      BY <2>1, <2>2, <2>3 DEF LetterOf
    <2> QED BY <2>4 DEF LetterHolds, Held
  <1> QED BY <1>1, <1>2, <1>3, <1>4 DEF Held

\* A job that fails waits for its retry, or is a dead letter.
LEMMA FailJobHolds ==
    ASSUME JobsAgree, NEW v \in Versions, FailJob(v), active[v] > 0
    PROVE  Held(v)'
  <1>1. CASE retry' = [retry EXCEPT ![v] = active[v]]
    <2>1. retry'[v] > 0
      BY <1>1 DEF JobsAgree, Typing, TypeOK
    <2> QED BY <2>1 DEF Waiting, Held
  <1>2. CASE \E d \in DeadIds :
                dead' = [dead EXCEPT ![d] = [ver |-> v, st |-> "created"]]
    <2>1. PICK d \in DeadIds :
             dead' = [dead EXCEPT ![d] = [ver |-> v, st |-> "created"]]
      BY <1>2
    <2>2. dead'[d] = [ver |-> v, st |-> "created"]
      BY <2>1 DEF JobsAgree, Typing, TypeOK
    <2>3. LetterOf(d, v)'
      BY <2>2 DEF LetterOf
    <2> QED BY <2>3 DEF LetterHolds, Held
  <1> QED BY <1>1, <1>2 DEF FailJob

\* The failure of another version's job leaves this one's alone.
LEMMA FailJobOther ==
    ASSUME JobsAgree, NEW v \in Versions, NEW u \in Versions, FailJob(u),
           u /= v
    PROVE  /\ created'[v] = created[v] /\ retry'[v] = retry[v]
           /\ active'[v] = active[v]
           /\ \A d \in DeadIds : LetterOf(d, v) => dead'[d] = dead[d]
  <1>1. created'[v] = created[v] /\ retry'[v] = retry[v]
        /\ active'[v] = active[v]
    BY DEF FailJob, JobsAgree, Typing, TypeOK
  <1>2. \A d \in DeadIds : dead'[d] = dead[d] \/ dead[d].st = "free"
    BY DEF FailJob, JobsAgree, Typing, TypeOK
  <1> QED BY <1>1, <1>2 DEF LetterOf

\* A live run's version has its job or its dead letter.
LEMMA LiveHasJob ==
    ASSUME JobsAgree, NEW h \in Handlers, Live(h), NEW v \in Versions,
           run[h].ver = v
    PROVE  \/ ~Salvaging(h) /\ Owns(h, v) /\ active[v] > 0
           \/ \E d \in DeadIds :
                 /\ Salvaging(h) /\ run[h].dead = d /\ OwnsDead(h, d)
                 /\ dead[d].ver = v /\ dead[d].st \in {"active", "active2"}
  <1>1. CASE Salvaging(h)
    <2>1. PICK d \in DeadIds : d = run[h].dead
      BY <1>1, RunVersion DEF JobsAgree, Live, Salvaging
    <2>2. OwnsDead(h, d)
      BY <2>1 DEF OwnsDead, Live
    <2>3. dead[d].ver = v /\ dead[d].st \in {"active", "active2"}
      BY <2>2 DEF JobsAgree, LettersAgree, Typing, DeadHaveOneOwner
    <2> QED BY <1>1, <2>1, <2>2, <2>3
  <1>2. CASE ~Salvaging(h)
    BY <1>2 DEF Owns, Live, JobsAgree, OneOwner
  <1> QED BY <1>1, <1>2

\* A run that did not move, or is where runs do not end, did not begin to end.
LEMMA NotEnding ==
    ASSUME JobsAgree, UNCHANGED <<seq, name>>, NEW v \in Versions,
           NEW h \in Handlers,
           \/ run'[h] = run[h]
           \/ run'[h].pc \notin {"done", "supersede", "standing"}
           \/ run'[h].ver /= v
           \/ run'[h].aborted
    PROVE  EndedAlready(h, v)
  BY DEF EndedAlready, Ending, Live, Standing

LEMMA UpsertHolds ==
    ASSUME JobsAgree, JobsAgree', NEW v \in Versions, Held(v),
           NEW c \in Callers, UpsertFinds(c) \/ UpsertInserts(c)
    PROVE  Held(v)'
  <1> USE DEF catalog, queue, bounds
  <1>0. /\ call \in [Callers -> Calls] /\ run \in [Handlers -> Runs]
        /\ created \in [Versions -> BOOLEAN]
        /\ UNCHANGED <<seq, name, retry, active, dead>> /\ call[c].st /= "none"
    BY DEF JobsAgree, Typing, TypeOK, Calls, UpsertFinds, UpsertInserts
  <1>1. CASE Waiting(v)'
    BY <1>1 DEF Held
  <1>2. CASE ~Waiting(v)'
    <2>1. created'[v] = created[v] /\ ~Waiting(v)
      BY <1>0, <1>2 DEF Waiting, UpsertFinds, UpsertInserts
    <2>2. \/ call' = [call EXCEPT ![c].st = "insert"] /\ UNCHANGED run
          \/ call' = [call EXCEPT ![c] = NoCall] /\ Return(c) /\ call[c].ver /= v
      BY <1>0, <1>2, <2>1 DEF Waiting, UpsertFinds, UpsertInserts
    <2>3. CASE call' = [call EXCEPT ![c].st = "insert"] /\ UNCHANGED run
      <3>1. \A k \in Callers : CallOf(k, v) => CallOf(k, v)'
        BY <1>0, <2>3 DEF CallOf, Calls
      <3>2. \A h \in Handlers : EndedAlready(h, v)
        BY <1>0, <2>3, NotEnding
      <3> QED BY <1>0, <2>1, <3>1, <3>2, HeldStays
    <2>4. CASE call' = [call EXCEPT ![c] = NoCall] /\ Return(c)
               /\ call[c].ver /= v
      <3>1. \A h \in Handlers : /\ h /= c => run'[h] = run[h]
                                /\ run'[h].ver = run[h].ver
                                /\ run'[h].aborted = run[h].aborted
        BY <1>0, <2>4 DEF Return, Runs
      <3>2. \A k \in Callers : CallOf(k, v) => CallOf(k, v)'
        BY <1>0, <2>4, <3>1 DEF CallOf
      <3>3. c \in Handlers => run[c].ver /= v
        BY <1>0, <2>4 DEF JobsAgree, CallsAgree
      <3>4. \A h \in Handlers : EndedAlready(h, v)
        BY <1>0, <3>1, <3>3, NotEnding
      <3> QED BY <1>0, <2>1, <3>2, <3>4, HeldStays
    <2> QED BY <2>2, <2>3, <2>4
  <1> QED BY <1>1, <1>2

LEMMA FetchHolds ==
    ASSUME JobsAgree, JobsAgree', NEW v \in Versions, Held(v),
           NEW h \in Handlers,
           \/ \E u \in Versions : Fetch(h, u)
           \/ \E d \in DeadIds : FetchDead(h, d)
    PROVE  Held(v)'
  <1> USE DEF catalog, queue, bounds
  <1>0. /\ run \in [Handlers -> Runs] /\ run[h].pc = "idle"
        /\ UNCHANGED <<seq, name, call>>
        /\ \A g \in Handlers : g /= h => run'[g] = run[g]
        /\ run'[h].pc = "read" /\ ~run'[h].aborted
    BY DEF JobsAgree, Typing, TypeOK, Fetch, FetchDead, Started
  <1>1. \A g \in Handlers : EndedAlready(g, v)
    BY <1>0, NotEnding
  <1>2. \A c \in Callers : CallOf(c, v) => CallOf(c, v)'
    BY <1>0 DEF CallOf
  <1>3. ASSUME NEW u \in Versions, Fetch(h, u) PROVE Held(v)'
    <2>1. CASE u = v
      <3>1. active'[v] > 0 /\ Owns(h, v)'
        BY <1>0, <1>3, <2>1 DEF JobsAgree, Typing, TypeOK, Fetch, Owns,
           Salvaging, Started
      <3>2. \A g \in Handlers : Owns(g, v)' => g = h
        BY <3>1 DEF JobsAgree, OneOwner
      <3>3. ~Ending(h)'
        BY <1>0 DEF Ending
      <3> QED BY <3>1, <3>2, <3>3 DEF JobHolds, Held
    <2>2. CASE u /= v
      <3>1. created'[v] = created[v] /\ retry'[v] = retry[v]
            /\ active'[v] = active[v] /\ dead' = dead
        BY <1>3, <2>2 DEF JobsAgree, Typing, TypeOK, Fetch
      <3> QED BY <1>1, <1>2, <3>1, HeldStays
    <2> QED BY <2>1, <2>2
  <1>4. ASSUME NEW d \in DeadIds, FetchDead(h, d) PROVE Held(v)'
    <2>1. /\ UNCHANGED <<created, retry, active>>
          /\ \A e \in DeadIds : e /= d => dead'[e] = dead[e]
          /\ dead'[d].ver = dead[d].ver
          /\ dead'[d].st \in {"active", "active2"}
      BY <1>4 DEF JobsAgree, Typing, TypeOK, FetchDead
    <2>2. CASE dead[d].ver = v
      <3>1. OwnsDead(h, d)'
        BY <1>0, <1>4 DEF FetchDead, OwnsDead, Started
      <3>2. \A g \in Handlers : OwnsDead(g, d)' => g = h
        BY <3>1 DEF JobsAgree, Typing, DeadHaveOneOwner
      <3>3. ~Ending(h)'
        BY <1>0 DEF Ending
      <3>4. LetterOf(d, v)'
        BY <2>1, <2>2, <3>2, <3>3 DEF LetterOf
      <3> QED BY <3>4 DEF LetterHolds, Held
    <2>3. CASE dead[d].ver /= v
      <3>1. \A e \in DeadIds : LetterOf(e, v) => dead'[e] = dead[e]
        BY <2>1, <2>3 DEF LetterOf
      <3> QED BY <1>1, <1>2, <2>1, <3>1, HeldStays
    <2> QED BY <2>2, <2>3
  <1> QED BY <1>3, <1>4

\* A run ends only when it was about to, unless it found its version replaced
\* or has just processed it.
LEMMA PipelineHolds ==
    ASSUME JobsAgree, JobsAgree', NEW v \in Versions, Held(v), v = seq,
           v \notin processed', NEW h \in Handlers, Pipeline(h)
    PROVE  Held(v)'
  <1> USE DEF catalog, queue, bounds
  <1>0. /\ run \in [Handlers -> Runs] /\ call \in [Callers -> Calls]
        /\ dead \in [DeadIds -> [ver : 0..MaxVersions, st : DeadSt]]
        /\ active \in [Versions -> 0..RetryLimit + 1]
        /\ UNCHANGED <<seq, name>>
        /\ \A g \in Handlers : g /= h => run'[g] = run[g]
        /\ run[h].pc /= "idle"
    BY PipelineStays DEF JobsAgree, Typing, TypeOK, Calls
  <1>1. created'[v] = created[v] /\ retry'[v] = retry[v]
    BY PipelineOnward
  <1>2. \A c \in Callers : CallOf(c, v) => CallOf(c, v)'
    <2>1. CASE UNCHANGED call
      <3>1. CallOf(h, v) => run[h].pc = "calling"
        BY DEF CallOf, JobsAgree, Typing, CallsAreOpen
      <3>2. run[h].pc /= "calling"
        BY DEF Pipeline, ReadTarget, CoreStep, CoreSteps, GateSummarize,
           GiveUp, Withheld, Send, SkipSummary, SaveSummary, ModelCallAborts,
           MarkProcessed, AskStanding, MarkSuperseded, Requeue, Complete
      <3> QED BY <1>0, <2>1, <3>1, <3>2 DEF CallOf
    <2>2. CASE Requeue(h)
      <3>1. \A c \in Callers : c /= h => call'[c] = call[c]
        BY <1>0, <2>2 DEF Requeue, Enqueue
      <3>2. call[h].st = "none"
        BY <2>2 DEF Requeue, JobsAgree, Typing, CallsAreOpen
      <3> QED BY <1>0, <3>1, <3>2 DEF CallOf
    <2> QED BY <2>1, <2>2, PipelineOnward
  <1>3. /\ active'[v] /= active[v] => Owns(h, v) /\ Ending(h)
        /\ \A d \in DeadIds :
              dead'[d] /= dead[d] => OwnsDead(h, d) /\ Ending(h)
    <2>1. CASE UNCHANGED queue
      BY <2>1
    <2>2. CASE Complete(h)
      BY <1>0, <2>2 DEF Complete, Owns, OwnsDead, Ending
    <2> QED BY <2>1, <2>2, PipelineOnward
  <1>4. \A d \in DeadIds : LetterOf(d, v) => dead'[d] = dead[d]
    <2>1. SUFFICES ASSUME NEW d \in DeadIds, LetterOf(d, v), OwnsDead(h, d),
                          Ending(h)
                   PROVE  FALSE
      BY <1>3
    <2>2. dead[d].st \in {"active", "active2"}
      BY <2>1 DEF JobsAgree, Typing, DeadHaveOneOwner
    <2> QED BY <2>1, <2>2 DEF LetterOf
  <1>5. EndedAlready(h, v)
    <2> SUFFICES ASSUME Live(h)', run'[h].ver = v, Ending(h)'
                 PROVE  /\ Live(h) /\ run[h].ver = v /\ Ending(h)
                        /\ run'[h].dead = run[h].dead
      BY DEF EndedAlready
    <2>1. /\ Live(h) /\ run[h].ver = v /\ run'[h].dead = run[h].dead
      BY <1>0, PipelineOnward DEF Onward, Live, Idle, JobsAgree, Typing, TypeOK,
         Runs
    <2>2. Standing(h) \in {"current", "renamed"} /\ AfterStale(h) = "requeue"
      BY <2>1 DEF Standing, AfterStale
    <2>3. CASE AskStanding(h) \/ MarkSuperseded(h)
      <3>1. CASE MarkSuperseded(h)
        BY <2>1, <3>1 DEF MarkSuperseded, Ending
      <3>2. CASE AskStanding(h)
        <4>1. Standing(h) = "renamed" => run'[h].pc = "requeue"
          BY <1>0, <2>2, <3>2 DEF AskStanding, Goto
        <4> QED BY <2>1, <2>2, <3>2, <4>1 DEF AskStanding, Ending
      <3> QED BY <2>3, <3>1, <3>2
    <2>4. CASE MarkProcessed(h)
      <3>1. Standing(h) = "current" /\ v \notin processed => v \in processed'
        BY <2>1, <2>4 DEF MarkProcessed
      <3>2. processed \subseteq processed'
        BY <2>4 DEF MarkProcessed
      <3>3. Standing(h) /= "current"
        BY <3>1, <3>2
      <3>4. /\ run'[h].pc = "standing"
            /\ run'[h].name = run[h].name /\ run'[h].ver = run[h].ver
        BY <1>0, <2>4, <3>3 DEF MarkProcessed, Goto, Runs
      <3>5. Standing(h)' /= "current"
        BY <1>0, <3>3, <3>4 DEF Standing
      <3> QED BY <3>4, <3>5 DEF Ending
    <2>5. CASE ReadTarget(h) \/ GateSummarize(h) \/ Send(h) \/ Requeue(h)
               \/ Complete(h)
      <3>1. run'[h].pc \in {"idle", "flag", "giveUp", "withheld", "mark",
                            "send", "answer", "calling"}
        BY <1>0, <2>1, <2>5 DEF ReadTarget, GateSummarize, Send, Requeue,
           Complete, Goto, GoOn, Idle, Runs
      <3> QED BY <3>1 DEF Ending
    <2>6. CASE CoreStep(h) \/ GiveUp(h) \/ Withheld(h) \/ SkipSummary(h)
               \/ SaveSummary(h) \/ ModelCallAborts(h)
      <3>1. run'[h].pc \in {"idle", "tags", "summarize", "requeue", "mark"}
        BY <1>0, <2>2, <2>6 DEF CoreStep, GiveUp, Withheld, SkipSummary,
           SaveSummary, ModelCallAborts, WriteCard, Goto, GoOn, Idle, Runs
      <3> QED BY <3>1 DEF Ending
    <2> QED BY <2>3, <2>4, <2>5, <2>6 DEF Pipeline
  <1>6. \A g \in Handlers : EndedAlready(g, v)
    BY <1>0, <1>5, NotEnding
  <1> QED BY <1>1, <1>2, <1>3, <1>4, <1>6, HeldStays

\* A run that fails, outlives its lease or dies leaves its job to somebody.
LEMMA FaultHolds ==
    ASSUME JobsAgree, JobsAgree', NEW v \in Versions, Held(v),
           NEW h \in Handlers,
           StepFails(h) \/ LeaseEnds(h) \/ HandlerCrashes(h)
    PROVE  Held(v)'
  <1> USE DEF catalog, queue, bounds
  <1>0. /\ run \in [Handlers -> Runs] /\ call \in [Callers -> Calls]
        /\ dead \in [DeadIds -> [ver : 0..MaxVersions, st : DeadSt]]
        /\ UNCHANGED <<seq, name>> /\ run[h].pc /= "idle"
    BY DEF JobsAgree, Typing, TypeOK, Calls, StepFails, LeaseEnds,
           HandlerCrashes
  <1>1. /\ \A c \in Callers : c /= h => call'[c] = call[c]
        /\ call'[h] = call[h] \/ ~Live(h)'
        /\ \A g \in Handlers : g /= h => run'[g] = run[g]
        /\ ~Live(h)'
    BY <1>0 DEF StepFails, LeaseEnds, HandlerCrashes, Live, Idle, Runs
  <1>2. \A g \in Handlers : EndedAlready(g, v)
    BY <1>0, <1>1, NotEnding DEF EndedAlready
  <1>3. run[h].ver \in Versions
    BY <1>0, RunVersion DEF JobsAgree
  <1>4. ASSUME ~Live(h) \/ run[h].ver /= v
        PROVE  \A c \in Callers : CallOf(c, v) => CallOf(c, v)'
    <2>1. ~CallOf(h, v)
      BY <1>0, <1>4 DEF CallOf, Live, JobsAgree, CallsAgree
    <2> QED BY <1>1, <2>1 DEF CallOf
  <1>5. CASE HandlerCrashes(h)
    <2>1. UNCHANGED queue
      BY <1>5 DEF HandlerCrashes
    <2>2. CASE ~Live(h) \/ run[h].ver /= v
      BY <1>0, <1>2, <1>4, <2>1, <2>2, HeldStays
    <2>3. CASE ~Salvaging(h) /\ Owns(h, v) /\ active[v] > 0
      <3>1. \A g \in Handlers : ~Owns(g, v)'
        <4>1. ASSUME NEW g \in Handlers, Owns(g, v)' PROVE FALSE
          <5>1. g /= h
            BY <1>1, <4>1 DEF Owns, Live
          <5>2. Owns(g, v)
            BY <1>1, <4>1, <5>1 DEF Owns, Salvaging
          <5> QED BY <2>3, <5>1, <5>2 DEF JobsAgree, OneOwner
        <4> QED BY <4>1
      <3> QED BY <2>1, <2>3, <3>1 DEF JobHolds, Held
    <2>4. ASSUME NEW d \in DeadIds, OwnsDead(h, d), dead[d].ver = v,
                 dead[d].st \in {"active", "active2"}
          PROVE  Held(v)'
      <3>1. \A g \in Handlers : ~OwnsDead(g, d)'
        <4>1. ASSUME NEW g \in Handlers, OwnsDead(g, d)' PROVE FALSE
          <5>1. g /= h
            BY <1>1, <4>1 DEF OwnsDead, Live
          <5>2. OwnsDead(g, d)
            BY <1>1, <4>1, <5>1 DEF OwnsDead
          <5> QED BY <2>4, <5>1, <5>2 DEF JobsAgree, Typing, DeadHaveOneOwner
        <4> QED BY <4>1
      <3>2. LetterOf(d, v)'
        BY <2>1, <2>4, <3>1 DEF LetterOf
      <3> QED BY <3>2 DEF LetterHolds, Held
    <2> QED BY <2>2, <2>3, <2>4, LiveHasJob
  <1>6. CASE FailJobOf(h) /\ Live(h)
    <2>1. CASE Salvaging(h)
      <3>1. PICK d \in DeadIds : d = run[h].dead
        BY <1>0, <2>1, RunVersion DEF JobsAgree, Salvaging
      <3>2. /\ UNCHANGED <<created, retry, active>>
            /\ dead'[d].ver = dead[d].ver /\ dead'[d].st \in {"retry", "failed"}
            /\ \A e \in DeadIds : e /= d => dead'[e] = dead[e]
        BY <1>0, <1>6, <2>1, <3>1 DEF FailJobOf, FailDead
      <3>3. dead[d].ver = run[h].ver
        BY <1>6, <3>1 DEF Live, OwnsDead, JobsAgree, LettersAgree
      <3>4. CASE run[h].ver = v
        <4>1. LetterOf(d, v)'
          BY <3>2, <3>3, <3>4 DEF LetterOf
        <4> QED BY <4>1 DEF LetterHolds, Held
      <3>5. CASE run[h].ver /= v
        <4>1. \A e \in DeadIds : LetterOf(e, v) => dead'[e] = dead[e]
          BY <3>2, <3>3, <3>5 DEF LetterOf
        <4> QED BY <1>2, <1>4, <3>2, <3>5, <4>1, HeldStays
      <3> QED BY <3>4, <3>5
    <2>2. CASE ~Salvaging(h)
      <3>1. PICK u \in Versions : u = run[h].ver
        BY <1>3
      <3>2. FailJob(u) /\ Owns(h, u)
        BY <1>6, <2>2, <3>1 DEF FailJobOf, Owns, Live
      <3>3. CASE u = v
        BY <3>2, <3>3, FailJobHolds DEF JobsAgree, OneOwner
      <3>4. CASE u /= v
        BY <1>2, <1>4, <3>1, <3>2, <3>4, FailJobOther, HeldStays
      <3> QED BY <3>3, <3>4
    <2> QED BY <2>1, <2>2
  <1>7. HandlerCrashes(h) \/ (FailJobOf(h) /\ Live(h))
    BY <1>0 DEF StepFails, LeaseEnds, Live
  <1> QED BY <1>5, <1>6, <1>7

LEMMA KeepersHold ==
    ASSUME JobsAgree, JobsAgree', NEW v \in Versions, Held(v),
           losses' = 0, losses \in Nat,
           \/ \E u \in Versions : Supervise(u)
           \/ \E d \in DeadIds :
                 SuperviseDead(d) \/ PruneDead(d) \/ OperatorRetries(d)
    PROVE  Held(v)'
  <1> USE DEF catalog, queue, actors, bounds
  <1>0. /\ UNCHANGED <<seq, name, run, call>>
        /\ dead \in [DeadIds -> [ver : 0..MaxVersions, st : DeadSt]]
    BY DEF Supervise, SuperviseDead, PruneDead, OperatorRetries, JobsAgree,
           Typing, TypeOK
  <1>1. \A h \in Handlers : EndedAlready(h, v)
    BY <1>0, NotEnding
  <1>2. \A c \in Callers : CallOf(c, v) => CallOf(c, v)'
    BY <1>0 DEF CallOf
  <1>3. ASSUME NEW u \in Versions, Supervise(u) PROVE Held(v)'
    <2>1. CASE u = v
      BY <1>3, <2>1, FailJobHolds DEF Supervise
    <2>2. CASE u /= v
      BY <1>1, <1>2, <1>3, <2>2, FailJobOther, HeldStays DEF Supervise
    <2> QED BY <2>1, <2>2
  <1>4. ASSUME NEW d \in DeadIds,
               SuperviseDead(d) \/ PruneDead(d) \/ OperatorRetries(d)
        PROVE  Held(v)'
    <2>1. /\ UNCHANGED <<created, retry, active>>
          /\ \A e \in DeadIds : e /= d => dead'[e] = dead[e]
          /\ \/ dead'[d].ver = dead[d].ver /\ dead'[d].st \in {"retry", "failed"}
             \/ dead[d].st = "completed"
      BY <1>0, <1>4 DEF SuperviseDead, PruneDead, OperatorRetries, FailDead
    <2>2. CASE dead[d].st = "completed" \/ dead[d].ver /= v
      <3>1. \A e \in DeadIds : LetterOf(e, v) => dead'[e] = dead[e]
        BY <2>1, <2>2 DEF LetterOf
      <3> QED BY <1>1, <1>2, <2>1, <3>1, HeldStays
    <2>3. CASE dead'[d].ver = v /\ dead'[d].st \in {"retry", "failed"}
      <3>1. LetterOf(d, v)'
        BY <2>3 DEF LetterOf
      <3> QED BY <3>1 DEF LetterHolds, Held
    <2> QED BY <2>1, <2>2, <2>3
  <1> QED BY <1>3, <1>4

LEMMA HiddenNext == JobsInv /\ [Next]_vars => JobsInv'
  <1> SUFFICES ASSUME JobsInv, [Next]_vars PROVE JobsInv'
    OBVIOUS
  <1> USE DEF catalog, queue, actors, bounds
  <1>1. JobsAgree /\ JobsAgree'
    BY AgreeNext DEF JobsInv
  <1>3. /\ seq \in 0..MaxVersions /\ MaxVersions \in Nat
        /\ losses \in Nat /\ losses' \in Nat
        /\ call \in [Callers -> Calls] /\ processed \subseteq Versions
    BY <1>1, BoundsAssumption DEF JobsAgree, Typing, TypeOK, Calls
  <1>4. HiddenIsHeld'
    <2>1. ASSUME NEW c \in Ingesters, NEW n \in Names, NEW isNew \in BOOLEAN,
                 Ingest(c, n, isNew)
          PROVE  HiddenIsHeld'
      <3>1. call'[c] = [ver |-> seq', st |-> "find"] /\ c \in Callers
        BY <1>3, <2>1 DEF Ingest, Enqueue, Callers
      <3>2. c \notin Handlers
        BY ActorsAssumption
      <3>3. Held(seq)'
        BY <3>1, <3>2 DEF CallOf, CallHolds, Held
      <3> QED BY <3>3 DEF HiddenIsHeld
    <2>2. ASSUME NEW c \in Ingesters, LoseEnqueue(c) PROVE HiddenIsHeld'
      BY <1>3, <2>2 DEF LoseEnqueue, HiddenIsHeld
    <2>3. ASSUME UNCHANGED seq, losses' = 0 => losses = 0,
                 processed \subseteq processed' \/ seq = 0,
                 ASSUME NEW v \in Versions, v = seq, Held(v), losses' = 0,
                        v \notin processed'
                 PROVE  Held(v)'
          PROVE  HiddenIsHeld'
      <3> SUFFICES ASSUME losses' = 0, seq > 0, seq \notin processed'
                   PROVE  Held(seq)'
        BY <2>3 DEF HiddenIsHeld
      <3>1. PICK v \in Versions : v = seq
        BY <1>3 DEF Versions
      <3>2. Held(v)
        BY <2>3, <3>1 DEF JobsInv, HiddenIsHeld
      <3>3. Held(v)'
        BY <2>3, <3>1, <3>2
      <3>4. v = seq'
        BY <2>3, <3>1
      <3> QED BY <3>3, <3>4 DEF Held, CallHolds, CallOf, Waiting, JobHolds,
                 LetterHolds, LetterOf, Owns
    <2>4. ASSUME NEW c \in Callers, UpsertFinds(c) \/ UpsertInserts(c)
          PROVE  HiddenIsHeld'
      BY <1>1, <2>3, <2>4, UpsertHolds DEF UpsertFinds, UpsertInserts
    <2>5. ASSUME NEW h \in Handlers,
                 \/ \E v \in Versions : Fetch(h, v)
                 \/ \E d \in DeadIds : FetchDead(h, d)
          PROVE  HiddenIsHeld'
      BY <1>1, <2>3, <2>5, FetchHolds DEF Fetch, FetchDead
    <2>6. ASSUME NEW h \in Handlers, Pipeline(h) PROVE HiddenIsHeld'
      <3>1. processed \subseteq processed'
        BY <2>6 DEF Pipeline, ReadTarget, CoreStep, GateSummarize, GiveUp,
           Withheld, Send, SkipSummary, SaveSummary, ModelCallAborts,
           MarkProcessed, AskStanding, MarkSuperseded, Requeue, Complete,
           WriteCard
      <3>2. UNCHANGED <<seq, losses>>
        BY <1>1, <2>6, PipelineStays, PipelineOnward DEF JobsAgree
      <3> QED BY <1>1, <2>3, <2>6, <3>1, <3>2, PipelineHolds
    <2>7. ASSUME NEW h \in Handlers,
                 StepFails(h) \/ LeaseEnds(h) \/ HandlerCrashes(h)
          PROVE  HiddenIsHeld'
      BY <1>1, <2>3, <2>7, FaultHolds DEF StepFails, LeaseEnds, HandlerCrashes
    <2>8. ASSUME \/ \E u \in Versions : Supervise(u)
                 \/ \E d \in DeadIds :
                       SuperviseDead(d) \/ PruneDead(d) \/ OperatorRetries(d)
          PROVE  HiddenIsHeld'
      <3>1. UNCHANGED <<seq, processed>> /\ (losses' = 0 => losses = 0)
        BY <1>3, <2>8
        DEF Supervise, SuperviseDead, PruneDead, OperatorRetries
      <3> QED BY <1>1, <1>3, <2>3, <2>8, <3>1, KeepersHold
    <2>9. ASSUME \/ SweepReadsDead \/ SweepScans \/ Resummarize
                 \/ UNCHANGED vars
          PROVE  HiddenIsHeld'
      <3>1. /\ UNCHANGED <<seq, name, processed, losses, queue, run>>
            /\ \/ UNCHANGED call
               \/ /\ call[Sweeper].st = "none"
                  /\ \A c \in Callers : c /= Sweeper => call'[c] = call[c]
        BY <1>1, <1>3, <2>9 DEF SweepReadsDead, SweepScans, Resummarize,
           NewPass, Enqueue, vars, JobsAgree, CallsAgree
      <3>2. ASSUME NEW v \in Versions, Held(v) PROVE Held(v)'
        <4>1. \A c \in Callers : CallOf(c, v) => CallOf(c, v)'
          BY <3>1 DEF CallOf
        <4>2. \A h \in Handlers : EndedAlready(h, v)
          BY <1>1, <3>1, NotEnding
        <4> QED BY <1>1, <3>1, <3>2, <4>1, <4>2, HeldStays
      <3> QED BY <2>3, <3>1, <3>2
    <2> QED BY <2>1, <2>2, <2>4, <2>5, <2>6, <2>7, <2>8, <2>9 DEF Next
  <1> QED BY <1>1, <1>4 DEF JobsInv

\* A file's present version that is not processed is always in somebody's
\* hand, unless an enqueue was lost with its process: whatever the order of
\* ingests, renames, upserts, retries, late runs and dead letters, no run ends
\* as the last that knew of it (jobs.ts, markProcessed(), enqueueAll()).
THEOREM NoneOrphaned == Spec => []NothingOrphaned
  <1>1. Init => JobsInv
    <2> SUFFICES ASSUME Init PROVE JobsInv
      OBVIOUS
    <2>1. JobsAgree
      BY TypingInit, AgreeInit DEF JobsAgree
    <2>2. HiddenIsHeld
      BY DEF Init, HiddenIsHeld
    <2> QED BY <2>1, <2>2 DEF JobsInv
  <1>2. JobsInv => NothingOrphaned
    BY DEF JobsInv, HiddenIsHeld, Held, CallHolds, CallOf, JobHolds,
           LetterHolds, LetterOf, NothingOrphaned, InHand
  <1> QED BY <1>1, <1>2, HiddenNext, PTL DEF Spec
=============================================================================
