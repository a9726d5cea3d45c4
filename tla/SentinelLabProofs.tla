------------------------- MODULE SentinelLabProofs -------------------------
(***************************************************************************)
(* Proofs about SentinelLab for every number of warmup windows, stages and *)
(* changes of the card.                                                    *)
(***************************************************************************)
EXTENDS SentinelLab, TLAPS

LEMMA Bounds ==
  /\ MaxGeneration \in Nat /\ MaxGeneration >= 1
  /\ WarmupWindows \in Nat /\ WarmupWindows >= 1
  /\ StageCount \in Nat /\ StageCount >= 1
  BY MaxGenerationAssumption, WarmupWindowsAssumption, RunAssumption

USE Bounds

----------------------------------------------------------------------------
(* Types.                                                                  *)

LEMMA NothingCountedType == NothingCounted \in Counted
  BY DEF NothingCounted, Counted

LEMMA CountedBothType ==
  ASSUME NEW c \in Counted, NEW d \in Counted
  PROVE  CountedBoth(c, d) \in Counted
  BY DEF CountedBoth, Earlier, Worse, Injected, Counted, Errors

LEMMA CountType ==
  ASSUME MonitorTypeOK, NEW error \in Outcomes, Count(error)
  PROVE  acc' \in Counted
<1>1. [first |-> media.generation, error |-> error,
       injected |-> IF InjectionActive THEN "yes" ELSE "no"] \in Counted
  BY DEF MonitorTypeOK, LabTypeOK, Generations, Counted, Outcomes, Errors
<1> QED BY <1>1, CountedBothType DEF Count, MonitorTypeOK

LEMMA BaselineInitType == BaselineInit \in Baselines
  BY NothingCountedType DEF BaselineInit, Baselines

LEMMA RestartedType ==
  ASSUME NEW b \in Baselines, NEW generation \in 0 .. MaxGeneration
  PROVE  Restarted(b, generation) \in Baselines
  BY NothingCountedType DEF Restarted, BaselineStart, Baselines

LEMMA NoWindowType == NoWindow \in Windows
  BY NothingCountedType
  DEF NoWindow, NoFeature, Windows, Features, Statuses, Defects

LEMMA NoRunType == NoRun \in Monitors
<1>1. WarmupStage \in WarmupStage .. StageCount - 1
  BY DEF WarmupStage
<1> QED BY <1>1 DEF NoRun, Monitors, Points, States

LEMMA SamplerType ==
  ASSUME NEW valid \in BOOLEAN, NEW generation \in 0 .. MaxGeneration
  PROVE  [valid |-> valid, generation |-> generation] \in Samplers
  BY DEF Samplers

LEMMA GenerationTypes ==
  /\ 1 \in Generations
  /\ \A g \in Generations : g \in 0 .. MaxGeneration /\ g >= 1
  BY DEF Generations

LEMMA LabTypeInit == Init => LabAppTypeOK
<1> SUFFICES ASSUME Init PROVE LabAppTypeOK
  OBVIOUS
<1>1. LabTypeOK
  BY DEF Init, MonitorInit, LabInit, LabTypeOK, MediaStates, Generations
<1>2. mon \in Monitors
  BY NoRunType DEF Init, MonitorInit
<1>3. window \in Windows /\ acc \in Counted /\ base \in Baselines
  BY NoWindowType, NothingCountedType, BaselineInitType
  DEF Init, MonitorInit
<1>4. sampler \in Samplers /\ mounted \in BOOLEAN
  BY SamplerType, GenerationTypes DEF Init, MonitorInit
<1>5. SessionTypeOK
  BY DEF Init, SessionInit, SessionTypeOK, NoSession, Sessions,
         SessionPoints, Memories, NpuInit, Npus, NpuPoints
<1>6. infer \in Inferences
  BY DEF Init, NoInference, Inferences, InferPoints
<1> QED BY <1>1, <1>2, <1>3, <1>4, <1>5, <1>6
        DEF LabAppTypeOK, MonitorTypeOK

LEMMA RunType ==
  ASSUME MonitorTypeOK, Run PROVE MonitorTypeOK'
<1> USE DEF MonitorTypeOK, LabTypeOK
<1>1. CASE RunStart
  <2>1. mon' \in Monitors
    BY <1>1, NoRunType DEF RunStart, Monitors, Points
  <2>2. sampler' \in Samplers
    BY <1>1, SamplerType, GenerationTypes DEF RunStart
  <2> QED BY <1>1, <2>1, <2>2, NoWindowType, NothingCountedType
          DEF RunStart, Ask, Calls
<1>2. CASE WindowDone
  <2>1. mon.stage + 1 < StageCount =>
          mon.stage + 1 \in WarmupStage .. StageCount - 1
    BY DEF Monitors, WarmupStage
  <2>2. mon.stage = WarmupStage =>
          mon.stage + 1 \in WarmupStage .. StageCount - 1
    BY DEF WarmupStage
  <2>3. Failed \in BOOLEAN
    BY DEF Failed, Monitors
  <2>4. mon' \in Monitors
    BY <1>2, <2>1, <2>2, <2>3
    DEF WindowDone, WarmupNext, StageNext, Again, NextStage, EndRun,
        Monitors, Points, States
  <2> QED BY <1>2, <2>4, NoWindowType DEF WindowDone
<1>3. CASE RunClose
  BY <1>3 DEF RunClose, Ask, Calls
<1>4. ASSUME NEW ok \in BOOLEAN, Opened(ok) PROVE MonitorTypeOK'
  BY <1>4, BaselineInitType, SamplerType, GenerationTypes
  DEF Opened, Answered, Goto, Monitors, Points
<1>5. ASSUME NEW ok \in BOOLEAN, RunClosed(ok) PROVE MonitorTypeOK'
  <2>1. mon' \in Monitors
    BY <1>5, NoRunType DEF RunClosed
  <2> QED
    BY <1>5, <2>1, BaselineInitType, NoWindowType, NothingCountedType,
       SamplerType, GenerationTypes
    DEF RunClosed, Answered
<1> QED BY <1>1, <1>2, <1>3, <1>4, <1>5 DEF Run

LEMMA WindowType ==
  ASSUME MonitorTypeOK, Window PROVE MonitorTypeOK'
<1> USE DEF MonitorTypeOK, LabTypeOK
<1>1. CASE MediaReady \/ WorkloadEnd \/ Metadata
  BY <1>1 DEF MediaReady, WorkloadEnd, Metadata, Goto, Monitors, Points,
              Windows, Statuses, Generations
<1>2. CASE MediaNotReady \/ AcquireFails
  BY <1>2 DEF MediaNotReady, AcquireFails, EndRun, Goto, Monitors, Points,
              States, Windows, Statuses
<1>3. ASSUME NEW ok \in BOOLEAN, MediaMount(ok) PROVE MonitorTypeOK'
  BY <1>3, CountType
  DEF MediaMount, Goto, Monitors, Points, Windows, Statuses
<1>4. CASE WorkloadCall
  BY <1>4, CountType DEF WorkloadCall
<1>5. CASE SampleFails
  BY <1>5 DEF SampleFails, Goto, Monitors, Points, Windows, Counted
<1>6. ASSUME NEW gap \in {"none", "before", "in"},
             NEW incomplete \in BOOLEAN, NEW time_valid \in BOOLEAN,
             Sample(gap, incomplete, time_valid)
      PROVE  MonitorTypeOK'
  <2>1. window' \in Windows
    BY <1>6, NothingCountedType DEF Sample, Windows, Features, Defects
  <2>2. sampler' \in Samplers
    BY <1>6, SamplerType DEF Sample, Windows
  <2>3. mon' \in Monitors
    BY <1>6 DEF Sample, Goto, Monitors, Points
  <2> QED BY <1>6, <2>1, <2>2, <2>3, NothingCountedType DEF Sample
<1> QED BY <1>1, <1>2, <1>3, <1>4, <1>5, <1>6 DEF Window

LEMMA JudgeType ==
  ASSUME mon \in Monitors, NEW state \in States, Judge(state)
  PROVE  mon' \in Monitors
  BY DEF Judge, Monitors, Points

LEMMA GotoType ==
  ASSUME mon \in Monitors, NEW point \in Points, Goto(point)
  PROVE  mon' \in Monitors
  BY DEF Goto, Monitors

LEMMA RuleType ==
  ASSUME NEW w \in Windows, NEW m
  PROVE  /\ Rule(w, m) \in RuleStates \cup {"none"}
         /\ Rule(w, m) \in States
<1>1. w.feature.defect \in Defects
  BY DEF Windows, Features
<1> QED BY <1>1 DEF Rule, Defects, RuleStates, States

LEMMA InvalidateType ==
  ASSUME NEW b \in Baselines PROVE BaselineInvalidate(b) \in Baselines
<1>2. [b EXCEPT !.state = "INVALID"] \in Baselines
  BY DEF Baselines
<1>3. ASSUME NEW c \in Baselines PROVE [c EXCEPT !.count = 0] \in Baselines
  BY DEF Baselines
<1>4. ASSUME NEW c \in Baselines
      PROVE  [c EXCEPT !.counted = NothingCounted] \in Baselines
  BY NothingCountedType DEF Baselines
<1> QED BY <1>2, <1>3, <1>4 DEF BaselineInvalidate

LEMMA ObserveType ==
  ASSUME NEW b \in Baselines, NEW f \in Features, NEW injection_active,
         b.state = "READY" \/ b.count < WarmupWindows
  PROVE  BaselineObserve(b, f, injection_active) \in Baselines
<1>1. CountedBoth(b.counted, f.counted) \in Counted
  BY CountedBothType DEF Baselines, Features
<1>2. b.state # "READY" => b.count + 1 \in 0 .. WarmupWindows
  BY DEF Baselines
<1>3. BaselineInvalidate(b) \in Baselines
  BY InvalidateType
<1>4. CASE b.state # "READY" /\ ~injection_active
            /\ f.generation = b.generation
  <2> DEFINE learned == CountedBoth(b.counted, f.counted)
  <2>1. learned \in Counted
    BY <1>1
  <2>2. BaselineObserve(b, f, injection_active) =
          [b EXCEPT !.count = b.count + 1, !.counted = learned,
                    !.state = IF b.count + 1 = WarmupWindows
                              THEN "READY" ELSE "WARMUP"]
    BY <1>4 DEF BaselineObserve, Baselines
  <2> HIDE DEF learned
  <2> QED BY <1>2, <1>4, <2>1, <2>2 DEF Baselines
<1> QED BY <1>3, <1>4 DEF BaselineObserve

\* A learned baseline is a complete one, and only that.
LearnedInFull(b) == b.state = "READY" <=> b.count = WarmupWindows

LEMMA EvaluateType ==
  ASSUME MonitorTypeOK, LearnedInFull(base), Evaluate
  PROVE  MonitorTypeOK'
<1> USE DEF MonitorTypeOK, LabTypeOK
<1>1. CASE ApplyRule
  <2>1. Rule(window, media.state) \in States
    BY RuleType
  <2>2. mon' \in Monitors
    BY <1>1, <2>1 DEF ApplyRule, Monitors, Points, Windows, Features
  <2> QED BY <1>1, <2>2 DEF ApplyRule
<1>2. CASE NormalizeWarmup
  <2> DEFINE started == Restarted(base, window.feature.generation)
  <2>1. window.feature \in Features /\ window.feature.generation \in 0 .. MaxGeneration
    BY DEF Windows, Features
  <2>2. started \in Baselines
    BY <2>1, RestartedType
  <2>3. started.state = "WARMUP" /\ started.count < WarmupWindows
    BY <1>2, <2>2 DEF NormalizeWarmup, Restarted, BaselineStart,
                      LearnedInFull, Baselines
  <2>4. base' \in Baselines
    BY <1>2, <2>1, <2>2, <2>3, ObserveType DEF NormalizeWarmup
  <2>5. mon' \in Monitors
    BY <1>2, JudgeType DEF NormalizeWarmup, States
  <2> QED BY <1>2, <2>4, <2>5 DEF NormalizeWarmup
<1>3. CASE NormalizeReady
  <2>1. mon' \in Monitors
    BY <1>3, JudgeType, GotoType
    DEF NormalizeReady, States, Verdicts, Points
  <2> QED BY <1>3, <2>1 DEF NormalizeReady, Ask, Calls
<1>4. CASE NpuAnswered
  <2>1. mon' \in Monitors
    BY <1>4, JudgeType, GotoType DEF NpuAnswered, States, Verdicts, Points
  <2> QED BY <1>4, <2>1 DEF NpuAnswered, Answered
<1>5. CASE NpuFailed
  BY <1>5, GotoType DEF NpuFailed, Answered, Points
<1>6. CASE AskCpu
  BY <1>6 DEF AskCpu, Ask, Calls
<1>7. ASSUME NEW ok \in BOOLEAN, CpuAnswered(ok) PROVE MonitorTypeOK'
  <2>1. mon' \in Monitors
    BY <1>7, JudgeType DEF CpuAnswered, States, Verdicts
  <2> QED BY <1>7, <2>1 DEF CpuAnswered, Answered
<1> QED BY <1>1, <1>2, <1>3, <1>4, <1>5, <1>6, <1>7 DEF Evaluate

LEMMA MediaType ==
  ASSUME LabTypeOK, MediaMoves
  PROVE  /\ media' \in [state : MediaStates, generation : Generations,
                        stable : BOOLEAN]
         /\ media'.generation >= media.generation
<1>1. CASE MediaUnsettles
  BY <1>1 DEF MediaUnsettles, LabTypeOK, MediaStates, Generations
<1>2. ASSUME NEW present \in BOOLEAN, MediaSettles(present)
      PROVE  /\ media' \in [state : MediaStates, generation : Generations,
                            stable : BOOLEAN]
             /\ media'.generation >= media.generation
  BY <1>2 DEF MediaSettles, LabTypeOK, MediaStates, Generations
<1> QED BY <1>1, <1>2 DEF MediaMoves

ProviderTypeOK == provider \in {"none"} \cup Calls \cup Replies

LEMMA FailsType ==
  ASSUME SessionTypeOK
  PROVE  Fails \in Sessions /\ [Fails EXCEPT !.keys = {}] \in Sessions
<1>1. Fails \in Sessions
  BY DEF SessionTypeOK, Fails, Sessions, SessionPoints
<1>2. {} \in SUBSET {"fleet", "model"}
  OBVIOUS
<1> QED BY <1>1, <1>2 DEF Sessions

LEMMA OpenFailType ==
  ASSUME SessionTypeOK, OpenFail \/ LoadFail
  PROVE  sess' \in Sessions /\ memory' \in Memories
<1>1. CASE OpenFail
  BY <1>1, FailsType DEF OpenFail, SessionTypeOK, Memories
<1>2. CASE LoadFail
  BY <1>2, FailsType DEF LoadFail, Memories
<1> QED BY <1>1, <1>2

LEMMA OpenType ==
  ASSUME ProviderTypeOK, SessionTypeOK, Open
  PROVE  SessionTypeOK' /\ ProviderTypeOK'
<1> USE DEF SessionTypeOK, ProviderTypeOK, Sessions, Memories, SessionPoints
<1>1. CASE OpenBegin
  <2>1. PICK created \in SUBSET Mutexes :
          sess' = [NoSession EXCEPT
            !.mutexes = created,
            !.pc = IF created = Mutexes THEN "reader" ELSE "close npu",
            !.failed = created # Mutexes]
    BY <1>1 DEF OpenBegin
  <2>2. NoSession \in Sessions
    BY DEF NoSession
  <2>3. sess' \in Sessions
    BY <2>1, <2>2
  <2> QED BY <1>1, <2>3 DEF OpenBegin
<1>2. CASE OpenReader \/ OpenNor \/ OpenCrypto
  BY <1>2 DEF OpenReader, OpenNor, OpenCrypto, Fails
<1>3. CASE ReadPackage
  BY <1>3, OpenFailType DEF ReadPackage
<1>4. CASE OpenFleetKey
  <2>1. {"fleet"} \in SUBSET {"fleet", "model"}
    OBVIOUS
  <2> QED BY <1>4, <2>1, OpenFailType DEF OpenFleetKey
<1>5. CASE OpenModelKey
  <2>1. sess.keys \cup {"model"} \in SUBSET {"fleet", "model"}
    OBVIOUS
  <2> QED BY <1>5, <2>1, OpenFailType DEF OpenModelKey
<1>6. CASE ReadChunk
  BY <1>6, OpenFailType DEF ReadChunk
<1>7. CASE DecryptChunk
  BY <1>7, OpenFailType DEF DecryptChunk
<1>8. CASE ReleaseReader \/ Parse
  BY <1>8 DEF ReleaseReader, Parse, Fails
<1>9. CASE OpenNpu
  BY <1>9 DEF OpenNpu, Fails, Installed, Reply, Npus, Replies
<1> QED BY <1>1, <1>2, <1>3, <1>4, <1>5, <1>6, <1>7, <1>8, <1>9 DEF Open

LEMMA CleanupType ==
  ASSUME ProviderTypeOK, SessionTypeOK, CloseBegin \/ Cleanup
  PROVE  SessionTypeOK' /\ ProviderTypeOK'
<1> USE DEF SessionTypeOK, ProviderTypeOK, Sessions, Memories, SessionPoints
<1>1. CASE CloseBegin
  BY <1>1 DEF CloseBegin
<1>2. CASE CloseNpu
  BY <1>2 DEF CloseNpu, Uninstalled, Npus
<1>3. CASE CloseModel
  BY <1>3 DEF CloseModel
<1>4. CASE CloseReader
  BY <1>4 DEF CloseReader
<1>5. CASE CloseCrypto
  BY <1>5 DEF CloseCrypto
<1>6. CASE Erase
  BY <1>6 DEF Erase, Reply, Replies
<1> QED BY <1>1, <1>2, <1>3, <1>4, <1>5, <1>6 DEF Cleanup

LEMMA CallType ==
  ASSUME ProviderTypeOK, SessionTypeOK,
         InferNpu \/ InferNpuOver \/ InferCpu
  PROVE  SessionTypeOK' /\ ProviderTypeOK'
<1> USE DEF SessionTypeOK, ProviderTypeOK
<1>1. CASE InferNpu
  BY <1>1 DEF InferNpu, NpuGoto, Npus, NpuPoints, Sessions, SessionPoints
<1>2. CASE InferNpuOver
  BY <1>2 DEF InferNpuOver, NpuGoto, Npus, NpuPoints, Sessions,
              SessionPoints, Reply, Replies
<1>3. CASE InferCpu
  BY <1>3 DEF InferCpu, Reply, Replies, sessionVars
<1> QED BY <1>1, <1>2, <1>3

LEMMA NpuType ==
  ASSUME npu \in Npus, NpuTask \/ NpuHardware PROVE npu' \in Npus
<1> USE DEF Npus, NpuPoints
<1>1. CASE Begin \/ Activate \/ Recover \/ End \/ Drain
  BY <1>1 DEF Begin, Activate, Recover, End, Drain
<1>2. CASE EpochWaits \/ EpochStarts \/ EpochInSoftware \/ NetworkDone
  BY <1>2 DEF EpochWaits, EpochStarts, EpochInSoftware, NetworkDone, NpuGoto
<1>3. CASE WaitPolls \/ WaitNotified \/ WaitAgain \/ RunFails
  BY <1>3 DEF WaitPolls, PollEvent, WaitNotified, WaitAgain, RunFails, NpuGoto
<1>4. CASE NpuHardware
  BY <1>4 DEF NpuHardware, EpochCompletes, Interrupt, LateInterrupt, Signalled
<1> QED BY <1>1, <1>2, <1>3, <1>4 DEF NpuTask

LEMMA SessionType ==
  ASSUME ProviderTypeOK, SessionTypeOK, SessionNext
  PROVE  SessionTypeOK' /\ ProviderTypeOK'
<1>1. CASE Open \/ CloseBegin \/ Cleanup
  BY <1>1, OpenType, CleanupType
<1>2. CASE InferNpu \/ InferNpuOver \/ InferCpu
  BY <1>2, CallType
<1>3. CASE (NpuTask \/ NpuHardware) /\ UNCHANGED <<provider, sess, memory>>
  BY <1>3, NpuType DEF SessionTypeOK, ProviderTypeOK
<1> QED BY <1>1, <1>2, <1>3 DEF SessionNext

LEMMA InferenceType ==
  ASSUME ProviderTypeOK, infer \in Inferences, Inference
  PROVE  ProviderTypeOK' /\ infer' \in Inferences
<1> USE DEF ProviderTypeOK, Calls, Inferences, InferPoints, InferGoto, Ask
<1>1. CASE InferenceStart
  BY <1>1 DEF InferenceStart, NoInference
<1>2. CASE AwaitRemoval
  BY <1>2 DEF AwaitRemoval
<1>3. CASE AwaitInsertion
  <2>1. NoInference \in Inferences
    BY DEF NoInference
  <2> QED BY <1>3, <2>1 DEF AwaitInsertion
<1>4. CASE InferenceCloses
  BY <1>4 DEF InferenceCloses
<1>5. ASSUME NEW call \in {"cpu", "npu"}, InferenceAsks(call)
      PROVE  ProviderTypeOK' /\ infer' \in Inferences
  BY <1>5 DEF InferenceAsks
<1>6. ASSUME NEW ok \in BOOLEAN, InferenceOpened(ok)
      PROVE  ProviderTypeOK' /\ infer' \in Inferences
  <2>1. provider' = "none" /\ NoInference \in Inferences
    BY <1>6 DEF InferenceOpened, Answered, NoInference
  <2>2. infer' \in {NoInference, [infer EXCEPT !.pc = "removal"],
                    [infer EXCEPT !.pc = "cpu"],
                    [infer EXCEPT !.pc = "closing"]}
    BY <1>6 DEF InferenceOpened
  <2> QED BY <2>1, <2>2
<1>7. ASSUME NEW ok \in BOOLEAN, InferenceResult(ok)
      PROVE  ProviderTypeOK' /\ infer' \in Inferences
  BY <1>7 DEF InferenceResult, Answered
<1>8. ASSUME NEW ok \in BOOLEAN, InferenceClosed(ok)
      PROVE  ProviderTypeOK' /\ infer' \in Inferences
  BY <1>8 DEF InferenceClosed, Answered, NoInference
<1>9. ASSUME NEW ok \in BOOLEAN, InferenceReopened(ok)
      PROVE  ProviderTypeOK' /\ infer' \in Inferences
  BY <1>9 DEF InferenceReopened, Answered, NoInference
<1> QED BY <1>1, <1>2, <1>3, <1>4, <1>5, <1>6, <1>7, <1>8, <1>9 DEF Inference

LEMMA LabTypeStep ==
  ASSUME LabAppTypeOK, LearnedInFull(base), [Next]_labVars
  PROVE  LabAppTypeOK'
<1> USE DEF LabAppTypeOK, MonitorTypeOK, LabTypeOK, SessionTypeOK,
            ProviderTypeOK
<1>1. CASE MonitorStep
  <2>1. MonitorTypeOK'
    BY <1>1, RunType, WindowType, EvaluateType DEF MonitorStep, MonitorNext
  <2> QED BY <1>1, <2>1 DEF MonitorStep, sessionVars
<1>2. CASE InferenceStep
  BY <1>2, InferenceType DEF InferenceStep, sessionVars
<1>3. CASE SessionStep
  BY <1>3, SessionType DEF SessionStep
<1>4. CASE CardMoves
  BY <1>4, MediaType DEF CardMoves, MediaWorker, sessionVars
<1>5. CASE UNCHANGED labVars
  BY <1>5 DEF labVars, monitorVars, sessionVars
<1> QED BY <1>1, <1>2, <1>3, <1>4, <1>5 DEF Next

----------------------------------------------------------------------------
(* The windows.  What is counted between two samples of one generation is  *)
(* of that generation: the counted calls lie between the sampler's         *)
(* generation and the one of the metadata, and a sample that finds them    *)
(* different counts nothing.                                               *)

CountedSinceSample ==
  /\ sampler.generation <= media.generation
  /\ acc.first # 0 =>
       sampler.generation <= acc.first /\ acc.first <= media.generation
  /\ At("sample") =>
       /\ sampler.generation <= window.metadata
       /\ window.metadata <= media.generation
       /\ acc.first # 0 => acc.first <= window.metadata

\* Faults are injected by the stage the window belongs to.
InjectedByStage ==
  /\ window.feature.counted.injected = "yes" => InjectionActive
  /\ acc.injected = "yes" =>
       mon.pc \in {"workload", "metadata", "sample"} /\ InjectionActive

Inferring ==
  \/ mon.pc \in {"npu", "fallback", "arbitration"}
  \/ At("judged") /\ mon.state \in Verdicts

FeatureOfSession ==
  LET f == window.feature IN
  /\ f.counted.first \in {0, f.generation}
  /\ Inferring \/ At("normalize") => f.counted.error = "none"
  /\ Inferring => base.state = "READY" /\ base.generation = f.generation

MonitorInv ==
  /\ MonitorTypeOK
  /\ CountedSinceSample /\ InjectedByStage /\ FeatureOfSession
  /\ LearnsFromCleanWindows

\* Properties of the abstract counting.
LEMMA CountingNothing ==
  /\ NothingCounted.first = 0 /\ NothingCounted.error = "none"
  /\ NothingCounted.injected = "no"
  BY DEF NothingCounted

LEMMA CountedBothOfSession ==
  ASSUME NEW c \in Counted, NEW d \in Counted, NEW g \in Nat,
         OfSession(c, g), OfSession(d, g)
  PROVE  OfSession(CountedBoth(c, d), g)
  BY DEF OfSession, CountedBoth, Earlier, Worse, Counted

LEMMA CountedBothInjected ==
  ASSUME NEW c \in Counted, NEW d \in Counted
  PROVE  CountedBoth(c, d).injected = "yes" =>
           c.injected = "yes" \/ d.injected = "yes"
  BY DEF CountedBoth, Injected, Counted

LEMMA CountedBothBetween ==
  ASSUME NEW c \in Counted, NEW d \in Counted, NEW low \in Nat, NEW high \in Nat,
         c.first # 0 => low <= c.first /\ c.first <= high,
         d.first # 0 => low <= d.first /\ d.first <= high
  PROVE  LET both == CountedBoth(c, d)
         IN  both.first # 0 => low <= both.first /\ both.first <= high
  BY DEF CountedBoth, Earlier, Counted

LEMMA CountInv ==
  ASSUME MonitorInv, NEW error \in Outcomes, Count(error)
  PROVE  /\ acc' \in Counted
         /\ acc'.first # 0 =>
              /\ sampler.generation <= acc'.first
              /\ acc'.first <= media.generation
         /\ acc'.injected = "yes" => acc.injected = "yes" \/ InjectionActive
<1> DEFINE call == [first |-> media.generation, error |-> error,
                    injected |-> IF InjectionActive THEN "yes" ELSE "no"]
<1>1. media.generation \in Nat /\ sampler.generation \in Nat
  BY DEF MonitorInv, MonitorTypeOK, LabTypeOK, Generations, Samplers
<1>2. call \in Counted /\ acc \in Counted
  BY DEF MonitorInv, MonitorTypeOK, LabTypeOK, Generations, Counted, Outcomes,
         Errors
<1>3. acc' = CountedBoth(acc, call)
  BY DEF Count
<1>4. call.first = media.generation /\ (call.injected = "yes" => InjectionActive)
  OBVIOUS
<1>5. sampler.generation <= media.generation
      /\ (acc.first # 0 => sampler.generation <= acc.first
                           /\ acc.first <= media.generation)
  BY DEF MonitorInv, CountedSinceSample
<1> HIDE DEF call
<1> QED BY <1>1, <1>2, <1>3, <1>4, <1>5, CountType, CountedBothInjected,
           CountedBothBetween DEF MonitorInv

LEMMA MonitorInvInit == Init => MonitorInv
<1> SUFFICES ASSUME Init PROVE MonitorInv
  OBVIOUS
<1>1. MonitorTypeOK
  BY LabTypeInit DEF LabAppTypeOK
<1>2. media.generation = 1 /\ sampler.generation = 1 /\ acc = NothingCounted
      /\ mon.pc = "idle" /\ window.feature.counted = NothingCounted
      /\ window.feature.generation = 0
      /\ base = BaselineInit
  BY DEF Init, MonitorInit, LabInit, NoRun, NoWindow, NoFeature
<1>3. CountedSinceSample /\ InjectedByStage /\ FeatureOfSession
  BY <1>2, CountingNothing
  DEF CountedSinceSample, InjectedByStage, FeatureOfSession, Inferring, At
<1>4. LearnsFromCleanWindows
  BY <1>2, CountingNothing
  DEF LearnsFromCleanWindows, OfSession, BaselineInit
<1> QED BY <1>1, <1>3, <1>4 DEF MonitorInv

LEMMA RunInv ==
  ASSUME MonitorInv, Run PROVE MonitorInv'
<1> USE DEF MonitorInv
<1>1. MonitorTypeOK'
  BY RunType
<1>2. media' = media
  BY DEF Run, RunStart, WindowDone, RunClose, Opened, RunClosed
<1>3. LearnsFromCleanWindows'
  <2>1. base' \in {base, BaselineInit}
    BY DEF Run, RunStart, WindowDone, RunClose, Opened, RunClosed
  <2>2. CASE base' = base
    BY <2>2 DEF LearnsFromCleanWindows
  <2>3. CASE base' = BaselineInit
    BY <2>3, CountingNothing
    DEF LearnsFromCleanWindows, OfSession, BaselineInit
  <2> QED BY <2>1, <2>2, <2>3
<1>4. NoWindow.feature.counted = NothingCounted
      /\ NoWindow.feature.generation = 0
  BY DEF NoWindow, NoFeature
<1>5. CASE RunStart
  <2>1. media.generation \in Nat /\ mon'.pc = "opening"
    BY <1>5, NoRunType
    DEF RunStart, MonitorTypeOK, LabTypeOK, Generations, NoRun
  <2>2. acc' = NothingCounted /\ window' = NoWindow
        /\ sampler'.generation = media.generation
    BY <1>5 DEF RunStart
  <2> QED BY <1>1, <1>2, <1>3, <1>4, <2>1, <2>2, CountingNothing
          DEF CountedSinceSample, InjectedByStage, FeatureOfSession,
              Inferring, At
<1>6. CASE WindowDone
  <2>1. mon'.pc \in {"ready", "closing"}
    BY <1>6 DEF WindowDone, WarmupNext, StageNext, Again, NextStage, EndRun,
                MonitorTypeOK, Monitors
  <2>2. window' = NoWindow /\ acc' = acc /\ sampler' = sampler
    BY <1>6 DEF WindowDone
  <2>3. acc.injected # "yes"
    BY <1>6 DEF WindowDone, At, InjectedByStage
  <2> QED BY <1>1, <1>2, <1>3, <1>4, <2>1, <2>2, <2>3, CountingNothing
          DEF CountedSinceSample, InjectedByStage, FeatureOfSession,
              Inferring, At
<1>7. CASE RunClose
  BY <1>1, <1>2, <1>3, <1>7
  DEF RunClose, CountedSinceSample, InjectedByStage, FeatureOfSession,
      Inferring, At, InjectionActive
<1>8. ASSUME NEW ok \in BOOLEAN, Opened(ok) PROVE MonitorInv'
  <2>1. mon'.pc \in {"ready", "idle"} /\ mon'.stage = mon.stage
    BY <1>8 DEF Opened, Goto, MonitorTypeOK, Monitors
  <2>2. window' = window /\ acc' = acc
        /\ (sampler' = sampler \/ sampler'.generation = 1)
    BY <1>8 DEF Opened
  <2>3. acc.injected # "yes"
    BY <1>8 DEF Opened, At, InjectedByStage
  <2>4. media.generation >= 1 /\ (acc.first # 0 => 1 <= acc.first)
    BY DEF MonitorTypeOK, LabTypeOK, Generations, Counted
  <2> QED BY <1>1, <1>2, <1>3, <2>1, <2>2, <2>3, <2>4
          DEF CountedSinceSample, InjectedByStage, FeatureOfSession,
              Inferring, At, InjectionActive
<1>9. ASSUME NEW ok \in BOOLEAN, RunClosed(ok) PROVE MonitorInv'
  <2>1. mon'.pc = "idle" /\ media.generation >= 1
    BY <1>9 DEF RunClosed, NoRun, MonitorTypeOK, LabTypeOK, Generations
  <2>2. window' = NoWindow /\ acc' = NothingCounted /\ sampler'.generation = 1
    BY <1>9 DEF RunClosed
  <2> QED BY <1>1, <1>2, <1>3, <1>4, <2>1, <2>2, CountingNothing
          DEF CountedSinceSample, InjectedByStage, FeatureOfSession,
              Inferring, At
<1> QED BY <1>5, <1>6, <1>7, <1>8, <1>9 DEF Run

LEMMA WindowInv ==
  ASSUME MonitorInv, Window PROVE MonitorInv'
<1> USE DEF MonitorInv
<1>1. MonitorTypeOK'
  BY WindowType
<1>2. media' = media /\ base' = base
  BY DEF Window, MediaReady, MediaNotReady, AcquireFails, MediaMount,
         WorkloadCall, WorkloadEnd, Metadata, SampleFails, Sample
<1>3. LearnsFromCleanWindows'
  BY <1>2 DEF LearnsFromCleanWindows
<1>4. mon'.stage = mon.stage
  BY DEF Window, MediaReady, MediaNotReady, AcquireFails, MediaMount,
         WorkloadCall, WorkloadEnd, Metadata, SampleFails, Sample, EndRun,
         Goto, MonitorTypeOK, Monitors
<1>5. InjectionActive' <=> InjectionActive
  BY <1>4 DEF InjectionActive
<1>6. CASE MediaReady \/ MediaNotReady \/ AcquireFails \/ WorkloadEnd
  <2>1. acc' = acc /\ sampler' = sampler /\ window'.feature = window.feature
        /\ mon'.pc \in {"workload", "metadata", "closing"}
    BY <1>6 DEF MediaReady, MediaNotReady, AcquireFails, WorkloadEnd, EndRun,
                Goto, MonitorTypeOK, Monitors, Windows
  <2>2. mon'.pc = "closing" => mon.pc = "ready"
    BY <1>6 DEF MediaReady, MediaNotReady, AcquireFails, WorkloadEnd,
                Goto, At, MonitorTypeOK, Monitors
  <2> QED BY <1>1, <1>2, <1>3, <1>5, <2>1, <2>2
          DEF CountedSinceSample, InjectedByStage, FeatureOfSession,
              Inferring, At
<1>7. ASSUME NEW ok \in BOOLEAN, MediaMount(ok) PROVE MonitorInv'
  <2>1. sampler' = sampler /\ window'.feature = window.feature
        /\ mon'.pc \in {"workload", "metadata"}
    BY <1>7 DEF MediaMount, Goto, MonitorTypeOK, Monitors, Windows
  <2>2. PICK error \in Outcomes : Count(error)
    BY <1>7 DEF MediaMount
  <2>3. acc.injected # "yes"
    BY <1>7 DEF MediaMount, At, InjectedByStage
  <2> QED BY <1>1, <1>2, <1>3, <1>5, <2>1, <2>2, <2>3, CountInv
          DEF CountedSinceSample, InjectedByStage, FeatureOfSession,
              Inferring, At
<1>8. CASE WorkloadCall
  <2>1. sampler' = sampler /\ window' = window /\ mon' = mon
        /\ mon.pc = "workload"
    BY <1>8 DEF WorkloadCall, At
  <2>2. PICK error \in Outcomes : Count(error)
    BY <1>8 DEF WorkloadCall
  <2> QED BY <1>1, <1>2, <1>3, <1>5, <2>1, <2>2, CountInv
          DEF CountedSinceSample, InjectedByStage, FeatureOfSession,
              Inferring, At
<1>9. CASE Metadata
  <2>1. acc' = acc /\ sampler' = sampler /\ window'.feature = window.feature
        /\ mon'.pc = "sample" /\ mon.pc = "metadata"
        /\ window'.metadata = media.generation
    BY <1>9 DEF Metadata, At, Goto, MonitorTypeOK, Monitors, Windows
  <2>2. media.generation \in Nat
    BY DEF MonitorTypeOK, LabTypeOK, Generations
  <2> QED BY <1>1, <1>2, <1>3, <1>5, <2>1, <2>2
          DEF CountedSinceSample, InjectedByStage, FeatureOfSession,
              Inferring, At
<1>10. CASE SampleFails
  <2>1. sampler' = sampler /\ window'.feature = window.feature
        /\ mon'.pc = "media" /\ mon.pc = "sample"
        /\ acc'.first = acc.first /\ acc'.injected # "yes"
    BY <1>10 DEF SampleFails, At, Goto, MonitorTypeOK, Monitors, Windows,
                 Counted
  <2> QED BY <1>1, <1>2, <1>3, <1>5, <2>1
          DEF CountedSinceSample, InjectedByStage, FeatureOfSession,
              Inferring, At
<1>11. ASSUME NEW gap \in {"none", "before", "in"},
              NEW incomplete \in BOOLEAN, NEW time_valid \in BOOLEAN,
              Sample(gap, incomplete, time_valid)
       PROVE  MonitorInv'
  <2>1. mon'.pc = "media" /\ mon.pc = "sample" /\ acc' = NothingCounted
        /\ sampler'.generation = window.metadata
        /\ window'.feature.generation = window.metadata
    BY <1>11 DEF Sample, At, Goto, MonitorTypeOK, Monitors, Windows
  <2>2. \/ window'.feature.counted = NothingCounted
        \/ /\ window'.feature.counted = acc
           /\ window.metadata = sampler.generation
    BY <1>11 DEF Sample, MonitorTypeOK, Windows
  <2>3. acc.first # 0 =>
          sampler.generation <= acc.first /\ acc.first <= window.metadata
    BY <2>1 DEF CountedSinceSample, At
  <2>4. /\ sampler.generation \in Nat /\ window.metadata \in Nat
        /\ acc.first \in Nat /\ media.generation \in Nat
    BY DEF MonitorTypeOK, LabTypeOK, Generations, Samplers, Windows, Counted
  <2>5. window'.feature.counted.first \in {0, window.metadata}
    BY <2>2, <2>3, <2>4, CountingNothing
  <2> QED BY <1>1, <1>2, <1>3, <1>5, <2>1, <2>2, <2>4, <2>5, CountingNothing
          DEF CountedSinceSample, InjectedByStage, FeatureOfSession,
              Inferring, At
<1> QED BY <1>6, <1>7, <1>8, <1>9, <1>10, <1>11 DEF Window

LEMMA EvaluateInv ==
  ASSUME MonitorInv, Evaluate PROVE MonitorInv'
<1> USE DEF MonitorInv
<1>1. MonitorTypeOK'
  BY EvaluateType DEF LearnsFromCleanWindows, LearnedInFull
<1>2. media' = media /\ window' = window /\ acc' = acc /\ sampler' = sampler
  BY DEF Evaluate, ApplyRule, NormalizeWarmup, NormalizeReady, NpuAnswered,
         NpuFailed, AskCpu, CpuAnswered
<1>3. mon'.stage = mon.stage
      /\ mon'.pc \in {"normalize", "judged", "npu", "fallback", "arbitration"}
      /\ mon.pc \in {"media", "normalize", "npu", "fallback", "arbitration"}
  BY DEF Evaluate, ApplyRule, NormalizeWarmup, NormalizeReady, NpuAnswered,
         NpuFailed, AskCpu, CpuAnswered, At, Goto, Judge, MonitorTypeOK,
         Monitors
<1>4. CountedSinceSample' /\ InjectedByStage'
  BY <1>2, <1>3 DEF CountedSinceSample, InjectedByStage, InjectionActive, At
<1>5. window.feature.counted.first \in {0, window.feature.generation}
  BY DEF FeatureOfSession
<1>6. CASE ApplyRule
  <2> DEFINE state == Rule(window, media.state)
  <2>1. mon'.state = state
        /\ mon'.pc = IF state = "none" THEN "normalize" ELSE "judged"
    BY <1>6 DEF ApplyRule, MonitorTypeOK, Monitors
  <2>2. state \notin Verdicts
    BY RuleType DEF MonitorTypeOK, RuleStates, Verdicts
  <2>3. state = "none" => window.feature.counted.error = "none"
    <3>1. window.feature.counted.error \in {"none"} \cup Errors
      BY DEF MonitorTypeOK, Windows, Features, Counted
    <3> QED BY <3>1 DEF Rule, Errors
  <2>4. base'.state = base.state /\ base'.generation = base.generation
        /\ base'.count = base.count
        /\ base'.counted = base.counted
    BY <1>6 DEF ApplyRule
  <2>5. LearnsFromCleanWindows'
    BY <2>4 DEF LearnsFromCleanWindows
  <2> HIDE DEF state
  <2> QED BY <1>1, <1>2, <1>4, <1>5, <2>1, <2>2, <2>3, <2>5
          DEF FeatureOfSession, Inferring, At
<1>7. CASE NormalizeWarmup
  <2> DEFINE f == window.feature
             started == Restarted(base, f.generation)
  <2>1. f \in Features /\ f.generation \in Nat
        /\ f.generation \in 0 .. MaxGeneration /\ OfSession(f.counted, f.generation)
    BY <1>5, <1>7 DEF NormalizeWarmup, FeatureOfSession, OfSession,
         MonitorTypeOK, Windows, Features
  <2>2. started \in Baselines /\ started.generation = f.generation
        /\ started.state = "WARMUP" /\ started.count # WarmupWindows
        /\ OfSession(started.counted, f.generation)
        /\ started.counted.injected # "yes"
    <3>1. started \in Baselines /\ started.state = "WARMUP"
      BY <1>7, <2>1, RestartedType DEF NormalizeWarmup, MonitorTypeOK
    <3>2. CASE started = base /\ base.generation = f.generation
      BY <3>1, <3>2 DEF LearnsFromCleanWindows
    <3>3. CASE started = BaselineStart(f.generation)
      BY <3>1, <3>3, CountingNothing DEF BaselineStart, OfSession
    <3> QED BY <3>2, <3>3 DEF Restarted
  <2>3. base' = BaselineObserve(started, f, InjectionActive)
    BY <1>7 DEF NormalizeWarmup
  <2>4. mon'.pc = "judged" /\ mon'.state \notin Verdicts
    BY <1>7 DEF NormalizeWarmup, Judge, Verdicts, MonitorTypeOK, Monitors
  <2>5. LearnsFromCleanWindows'
    <3>1. CASE InjectionActive
      BY <2>2, <2>3, <3>1 DEF BaselineObserve, LearnsFromCleanWindows
    <3>2. CASE ~InjectionActive
      <4> DEFINE both == CountedBoth(started.counted, f.counted)
      <4>1. base'.generation = f.generation /\ base'.count = started.count + 1
            /\ base'.counted = both
            /\ base'.state = IF started.count + 1 = WarmupWindows
                             THEN "READY" ELSE "WARMUP"
        BY <2>2, <2>3, <3>2 DEF BaselineObserve, Baselines
      <4>2. started.counted \in Counted /\ f.counted \in Counted
        BY <2>1, <2>2 DEF Baselines, Features
      <4>3. f.counted.injected # "yes"
        BY <3>2 DEF InjectedByStage
      <4>4. OfSession(both, f.generation) /\ both.injected # "yes"
        BY <2>1, <2>2, <4>2, <4>3, CountedBothOfSession, CountedBothInjected
      <4> HIDE DEF both
      <4> QED BY <4>1, <4>4 DEF LearnsFromCleanWindows
    <3> QED BY <3>1, <3>2
  <2> QED BY <1>1, <1>2, <1>4, <1>5, <2>4, <2>5
          DEF FeatureOfSession, Inferring, At
<1>8. CASE NormalizeReady
  <2>1. base' = base /\ base.state = "READY"
        /\ base.generation = window.feature.generation
    BY <1>8 DEF NormalizeReady, Restarted, BaselineStart
  <2>2. window.feature.counted.error = "none"
    BY <1>8 DEF NormalizeReady, FeatureOfSession
  <2> QED BY <1>1, <1>2, <1>4, <1>5, <2>1, <2>2
          DEF FeatureOfSession, LearnsFromCleanWindows
<1>9. CASE NpuAnswered \/ NpuFailed \/ AskCpu
            \/ \E ok \in BOOLEAN : CpuAnswered(ok)
  <2>1. base' = base /\ Inferring
    <3>1. CASE NpuAnswered \/ NpuFailed
      BY <3>1 DEF NpuAnswered, NpuFailed, Inferring, At
    <3>2. CASE AskCpu
      BY <3>2 DEF AskCpu, Inferring
    <3>3. ASSUME NEW ok \in BOOLEAN, CpuAnswered(ok)
          PROVE  base' = base /\ Inferring
      BY <3>3 DEF CpuAnswered, Inferring
    <3> QED BY <1>9, <3>1, <3>2, <3>3
  <2> QED BY <1>1, <1>2, <1>4, <2>1 DEF FeatureOfSession, LearnsFromCleanWindows
<1> QED BY <1>6, <1>7, <1>8, <1>9 DEF Evaluate

LEMMA MonitorInvStep ==
  ASSUME MonitorInv, LabAppTypeOK, [Next]_labVars PROVE MonitorInv'
<1>1. CASE MonitorStep
  BY <1>1, RunInv, WindowInv, EvaluateInv DEF MonitorStep, MonitorNext
<1>2. CASE CardMoves
  <2>1. media'.generation >= media.generation
        /\ media'.generation \in Nat /\ media.generation \in Nat
        /\ LabTypeOK'
    BY <1>2, MediaType
    DEF CardMoves, MediaWorker, MonitorInv, MonitorTypeOK, LabTypeOK,
        Generations
  <2>2. UNCHANGED <<mon, window, acc, sampler, base, mounted>>
    BY <1>2 DEF CardMoves, MediaWorker
  <2>3. acc.first \in Nat /\ sampler.generation \in Nat
        /\ window.metadata \in Nat
    BY DEF MonitorInv, MonitorTypeOK, Samplers, Windows, Counted
  <2>4. CountedSinceSample'
    BY <2>1, <2>2, <2>3 DEF MonitorInv, CountedSinceSample, At
  <2>5. MonitorTypeOK'
    BY <2>1, <2>2 DEF MonitorInv, MonitorTypeOK
  <2> QED BY <2>2, <2>4, <2>5
          DEF MonitorInv, InjectedByStage, FeatureOfSession, Inferring,
              LearnsFromCleanWindows, InjectionActive, At
<1>3. ASSUME UNCHANGED <<media, mon, window, acc, sampler, base, mounted>>
      PROVE  MonitorInv'
  <2>1. ProviderTypeOK'
    BY LabTypeStep
    DEF LabAppTypeOK, MonitorTypeOK, LabTypeOK, ProviderTypeOK, MonitorInv,
        LearnsFromCleanWindows, LearnedInFull
  <2> QED
    BY <1>3, <2>1
    DEF MonitorInv, MonitorTypeOK, LabTypeOK, ProviderTypeOK,
        CountedSinceSample, InjectedByStage, FeatureOfSession, Inferring,
        LearnsFromCleanWindows, InjectionActive, At
<1>4. CASE InferenceStep \/ SessionStep \/ UNCHANGED labVars
  BY <1>3, <1>4 DEF InferenceStep, SessionStep, labVars, monitorVars
<1> QED BY <1>1, <1>2, <1>4 DEF Next

----------------------------------------------------------------------------
(* The NPU.  The event is consumed only where no epoch is awaited, or to    *)
(* look at the epoch again.                                                *)

NpuInv ==
  /\ npu \in Npus
  /\ npu.active <=> npu.pc \in {"run", "wfe", "wait", "recover", "end"}
  /\ npu.pc \in {"wfe", "wait"} =>
       /\ npu.hw \in {"running", "raised", "done"}
       /\ npu.hw = "done" => npu.event

LEMMA NpuInvStep ==
  ASSUME NpuInv, NpuTask \/ NpuHardware PROVE NpuInv'
<1> USE DEF NpuInv
<1>1. npu' \in Npus
  BY NpuType
<1>2. CASE Begin \/ Activate \/ Recover \/ End \/ Drain
  BY <1>1, <1>2 DEF Begin, Activate, Recover, End, Drain, NpuAt, Npus
<1>3. CASE EpochWaits \/ EpochStarts \/ EpochInSoftware \/ NetworkDone
  BY <1>1, <1>3
  DEF EpochWaits, EpochStarts, EpochInSoftware, NetworkDone, NpuAt, NpuGoto,
      Npus
<1>4. CASE WaitPolls \/ WaitNotified \/ WaitAgain \/ RunFails
  BY <1>1, <1>4
  DEF WaitPolls, PollEvent, WaitNotified, WaitAgain, RunFails, NpuAt, NpuGoto,
      Npus
<1>5. CASE NpuHardware
  BY <1>1, <1>5
  DEF NpuHardware, EpochCompletes, Interrupt, LateInterrupt, Signalled, Npus
<1> QED BY <1>2, <1>3, <1>4, <1>5 DEF NpuTask

----------------------------------------------------------------------------
(* The session.  What is open follows from the point its calls are at.     *)

OpenPoints == {"reader", "nor", "crypto", "package", "fleet key",
               "model key", "chunk", "decrypt", "release", "parse", "npu"}
ClosePoints == {"close npu", "close model", "close reader", "close crypto",
                "erase"}

Clean ==
  /\ memory = [arena |-> "zero", work |-> FALSE]
  /\ sess.keys = {} /\ sess.mutexes = {}

SessionInv ==
  /\ SessionTypeOK /\ NpuInv
  /\ npu.installed <=> sess.npu_open
  /\ sess.locked <=> sess.npu_open
  /\ sess.npu_open =>
       memory.arena = "payload" /\ sess.pc \in {"idle", "infer", "close npu"}
  /\ sess.pc \in {"release", "parse", "npu"} => memory.arena = "payload"
  /\ sess.file =>
       sess.pc \in (OpenPoints \ {"parse", "npu"})
                   \cup {"close npu", "close model", "close reader"}
  /\ sess.pc \in {"close reader", "close crypto", "erase"} => sess.keys = {}
  /\ npu.pc # "idle" => sess.pc = "infer" /\ sess.npu_open
  /\ SessAt("idle") /\ ~sess.npu_open => Clean

\* Where the client of the session is: it asks to open, holds an open
\* session, asks something of it, asks to close it.
Opening == At("opening") \/ infer.pc \in {"opening", "reopening"}
Asking == \/ mon.pc \in {"npu", "fallback", "arbitration"}
          \/ infer.pc \in {"cpu", "npu"}
Closing == At("closing") \/ InferAt("closing")
Holding == \/ mon.pc \notin {"idle", "opening"}
           \/ infer.pc \in {"removal", "cpu", "npu", "closing"}

\* The client knows whether the session is open.
ClientInv ==
  /\ At("idle") \/ InferAt("idle")
  /\ provider = "none" =>
       SessAt("idle") /\ ~Opening /\ (sess.npu_open <=> Holding)
  /\ provider = "open" => Opening /\ (SessAt("idle") => ~sess.npu_open)
  /\ provider = "close" => Closing
  /\ provider \in {"npu", "cpu"} => Asking /\ sess.npu_open
  /\ provider \in Replies =>
       /\ SessAt("idle") /\ (Opening \/ Asking \/ Closing)
       /\ Opening => (sess.npu_open <=> provider = "ok")
       /\ Asking => sess.npu_open
       /\ Closing => ~sess.npu_open
  /\ sess.pc \in OpenPoints => provider = "open"
  /\ sess.pc = "infer" => provider = "npu"
  /\ sess.pc \in ClosePoints =>
       provider = "close" \/ (provider = "open" /\ sess.failed)

LEMMA SessionInvInit == Init => SessionInv /\ ClientInv
<1> SUFFICES ASSUME Init PROVE SessionInv /\ ClientInv
  OBVIOUS
<1>1. SessionTypeOK
  BY LabTypeInit DEF LabAppTypeOK
<1>2. NpuInv
  BY <1>1 DEF Init, SessionInit, NpuInit, NpuInv, SessionTypeOK
<1>3. SessionInv
  BY <1>1, <1>2
  DEF SessionInv, Init, SessionInit, NoSession, NpuInit, Clean, SessAt
<1>4. ClientInv
  BY DEF ClientInv, Init, MonitorInit, LabInit, SessionInit, NoRun, NoSession,
         NoInference, At, InferAt, SessAt, Opening, Asking, Closing, Holding,
         OpenPoints, ClosePoints, Replies
<1> QED BY <1>3, <1>4

\* A failure of session_open, with whatever was opened by then.
LEMMA FailsFacts ==
  ASSUME SessionTypeOK
  PROVE  /\ Fails.pc = "close npu" /\ Fails.failed = TRUE
         /\ Fails.npu_open = sess.npu_open /\ Fails.locked = sess.locked
         /\ Fails.file = sess.file
  BY DEF Fails, SessionTypeOK, Sessions

LEMMA OpenFailFacts ==
  ASSUME SessionTypeOK, OpenFail \/ LoadFail
  PROVE  /\ sess'.pc = "close npu" /\ sess'.failed = TRUE
         /\ sess'.npu_open = sess.npu_open /\ sess'.locked = sess.locked
<1>1. sess' = [Fails EXCEPT !.keys = {}]
  BY DEF OpenFail, LoadFail
<1>2. Fails \in Sessions
  BY FailsType
<1> QED BY <1>1, <1>2, FailsFacts DEF Sessions

LEMMA OpenInv ==
  ASSUME ProviderTypeOK, SessionInv, ClientInv, Open,
         UNCHANGED <<media, mon, window, acc, sampler, base, mounted, infer>>
  PROVE  SessionInv' /\ ClientInv'
<1> USE DEF SessAt
<1>1. SessionTypeOK' /\ ProviderTypeOK'
  BY OpenType DEF SessionInv
<1>2. /\ Opening' <=> Opening
      /\ Asking' <=> Asking
      /\ Closing' <=> Closing
      /\ Holding' <=> Holding
      /\ (At("idle") \/ InferAt("idle"))' <=> At("idle") \/ InferAt("idle")
  BY DEF Opening, Asking, Closing, Holding, At, InferAt
<1>3. provider = "open" /\ ~sess.npu_open /\ ~npu.installed /\ ~sess.locked
      /\ npu.pc = "idle" /\ sess.pc \in {"idle"} \cup OpenPoints
      /\ Opening /\ NpuInv
  BY DEF Open, OpenBegin, OpenReader, OpenNor, OpenCrypto, ReadPackage,
         OpenFleetKey, OpenModelKey, ReadChunk, DecryptChunk, ReleaseReader,
         Parse, OpenNpu, SessionInv, ClientInv, OpenPoints
<1>4. CASE OpenNpu /\ provider' # provider
  <2>1. sess.pc = "npu" /\ sess'.pc = "idle" /\ sess'.npu_open
        /\ sess'.locked /\ sess'.file = sess.file
        /\ memory' = memory /\ npu' = Installed /\ provider' = "ok"
    BY <1>4 DEF OpenNpu, Reply, SessionInv, SessionTypeOK, Sessions
  <2>2. npu'.installed /\ npu'.pc = "idle" /\ NpuInv'
    BY <1>1, <1>3, <2>1 DEF Installed, NpuInv, SessionTypeOK, Npus
  <2>3. SessionInv'
    BY <1>1, <2>1, <2>2 DEF SessionInv, OpenPoints
  <2>4. ClientInv'
    BY <1>2, <1>3, <2>1
    DEF ClientInv, Opening, Asking, Closing, Holding, At, InferAt,
        OpenPoints, ClosePoints, Replies
  <2> QED BY <2>3, <2>4
<1>5. ASSUME provider' = provider PROVE SessionInv' /\ ClientInv'
  <2>1. /\ npu' = npu
        /\ sess'.pc \in OpenPoints \cup {"close npu"}
        /\ ~sess'.npu_open /\ ~sess'.locked
        /\ sess'.pc = "close npu" => sess'.failed
        /\ sess'.file /\ sess'.pc \in OpenPoints =>
             sess'.pc \notin {"parse", "npu"}
        /\ sess'.pc \in {"release", "parse", "npu"} =>
             memory'.arena = "payload"
    <3>1. CASE OpenBegin
      BY <1>3, <1>5, <3>1 DEF OpenBegin, NoSession, OpenPoints
    <3>2. CASE OpenReader \/ OpenNor \/ OpenCrypto
      BY <1>3, <3>2, FailsFacts
      DEF OpenReader, OpenNor, OpenCrypto, OpenPoints, SessionInv,
          SessionTypeOK, Sessions
    <3>3. CASE ReadPackage
      BY <1>3, <3>3, OpenFailFacts
      DEF ReadPackage, OpenPoints, SessionInv, SessionTypeOK, Sessions
    <3>4. CASE OpenFleetKey
      BY <1>3, <3>4, OpenFailFacts
      DEF OpenFleetKey, OpenPoints, SessionInv, SessionTypeOK, Sessions
    <3>5. CASE OpenModelKey
      BY <1>3, <3>5, OpenFailFacts
      DEF OpenModelKey, OpenPoints, SessionInv, SessionTypeOK, Sessions
    <3>6. CASE ReadChunk
      BY <1>3, <3>6, OpenFailFacts
      DEF ReadChunk, OpenPoints, SessionInv, SessionTypeOK, Sessions
    <3>7. CASE DecryptChunk
      BY <1>3, <3>7, OpenFailFacts
      DEF DecryptChunk, OpenPoints, SessionInv, SessionTypeOK, Sessions, Memories
    <3>8. CASE ReleaseReader
      <4>1. [Fails EXCEPT !.file = FALSE].pc = "close npu"
            /\ [Fails EXCEPT !.file = FALSE].failed = TRUE
            /\ [Fails EXCEPT !.file = FALSE].npu_open = sess.npu_open
            /\ [Fails EXCEPT !.file = FALSE].locked = sess.locked
        BY FailsFacts, FailsType DEF SessionInv, Sessions
      <4> QED BY <1>3, <3>8, <4>1
              DEF ReleaseReader, OpenPoints, SessionInv, SessionTypeOK,
                  Sessions
    <3>9. CASE Parse
      BY <1>3, <3>9, FailsFacts
      DEF Parse, OpenPoints, SessionInv, SessionTypeOK, Sessions
    <3>10. CASE OpenNpu
      BY <1>3, <1>5, <3>10, FailsFacts
      DEF OpenNpu, Reply, OpenPoints, SessionInv, SessionTypeOK, Sessions
    <3> QED BY <3>1, <3>2, <3>3, <3>4, <3>5, <3>6, <3>7, <3>8, <3>9, <3>10
            DEF Open
  <2>2. SessionInv'
    BY <1>1, <1>3, <2>1 DEF SessionInv, NpuInv, OpenPoints
  <2>3. ClientInv'
    BY <1>2, <1>3, <1>5, <2>1
    DEF ClientInv, OpenPoints, ClosePoints, Replies
  <2> QED BY <2>2, <2>3
<1> QED BY <1>4, <1>5 DEF Open, OpenBegin, OpenReader, OpenNor, OpenCrypto,
           ReadPackage, OpenFleetKey, OpenModelKey, ReadChunk, DecryptChunk,
           ReleaseReader, Parse

LEMMA CloseInv ==
  ASSUME ProviderTypeOK, SessionInv, ClientInv, CloseBegin \/ Cleanup,
         UNCHANGED <<media, mon, window, acc, sampler, base, mounted, infer>>
  PROVE  SessionInv' /\ ClientInv'
<1> USE DEF SessAt
<1>1. SessionTypeOK' /\ ProviderTypeOK'
  BY CleanupType DEF SessionInv
<1>2. /\ Opening' <=> Opening
      /\ Asking' <=> Asking
      /\ Closing' <=> Closing
      /\ Holding' <=> Holding
      /\ (At("idle") \/ InferAt("idle"))' <=> At("idle") \/ InferAt("idle")
  BY DEF Opening, Asking, Closing, Holding, At, InferAt
<1>3. sess \in Sessions /\ memory \in Memories /\ npu \in Npus /\ NpuInv
      /\ npu.pc = "idle"
  BY DEF SessionInv, SessionTypeOK, CloseBegin, Cleanup, CloseNpu, CloseModel,
         CloseReader, CloseCrypto, Erase
<1>4. CASE CloseBegin
  <2>1. sess'.pc = "close npu" /\ sess'.npu_open = sess.npu_open
        /\ sess'.locked = sess.locked /\ sess'.file = sess.file
        /\ memory' = memory /\ npu' = npu /\ provider' = provider
        /\ provider = "close" /\ sess.pc = "idle"
    BY <1>3, <1>4 DEF CloseBegin, Sessions
  <2> QED BY <1>1, <1>2, <1>3, <2>1
          DEF SessionInv, ClientInv, NpuInv, OpenPoints, ClosePoints, Replies
<1>5. CASE CloseNpu
  <2>1. sess'.pc = "close model" /\ ~sess'.npu_open /\ ~sess'.locked
        /\ sess'.failed = sess.failed /\ provider' = provider
        /\ sess.pc = "close npu"
    BY <1>3, <1>5 DEF CloseNpu, Sessions, SessionInv
  <2>2. npu'.pc = "idle" /\ ~npu'.installed /\ NpuInv'
    BY <1>1, <1>3, <1>5
    DEF CloseNpu, Uninstalled, NpuInv, SessionInv, SessionTypeOK, Npus
  <2> QED BY <1>1, <1>2, <2>1, <2>2
          DEF SessionInv, ClientInv, OpenPoints, ClosePoints, Replies
<1>6. CASE CloseModel \/ CloseReader \/ CloseCrypto
  <2>1. /\ sess.pc \in {"close model", "close reader", "close crypto"}
        /\ sess'.pc \in {"close reader", "close crypto", "erase"}
        /\ sess'.keys = {} /\ sess'.npu_open = sess.npu_open
        /\ sess'.locked = sess.locked /\ sess.failed => sess'.failed
    BY <1>3, <1>6
    DEF CloseModel, CloseReader, CloseCrypto, Sessions, SessionInv
  <2>2. /\ sess'.npu_open = sess.npu_open /\ sess'.locked = sess.locked
        /\ sess.failed => sess'.failed
        /\ sess'.file => sess'.pc = "close reader"
    BY <1>3, <1>6
    DEF CloseModel, CloseReader, CloseCrypto, Sessions, SessionInv,
        OpenPoints
  <2>3. npu' = npu /\ provider' = provider
    BY <1>6 DEF CloseModel, CloseReader, CloseCrypto
  <2>4. ~sess.npu_open
    BY <2>1 DEF SessionInv
  <2> QED BY <1>1, <1>2, <1>3, <2>1, <2>2, <2>3, <2>4
          DEF SessionInv, ClientInv, NpuInv, OpenPoints, ClosePoints, Replies
<1>7. CASE Erase
  <2>1. sess.pc = "erase" /\ ~sess.npu_open
    BY <1>7 DEF Erase, SessionInv
  <2>2. sess'.pc = "idle" /\ ~sess'.npu_open /\ ~sess'.locked
        /\ sess'.keys = {} /\ sess'.mutexes = {} /\ ~sess'.file
        /\ memory' = [arena |-> "zero", work |-> FALSE] /\ npu' = npu
    BY <1>3, <1>7, <2>1 DEF Erase, Sessions, SessionInv, OpenPoints
  <2>3. provider' \in Replies /\ (provider' = "ok" => ~sess.failed)
    BY <1>7 DEF Erase, Reply, Replies
  <2>4. SessionInv'
    BY <1>1, <1>3, <2>1, <2>2 DEF SessionInv, NpuInv, Clean
  <2>5. ClientInv'
    <3>1. \/ provider = "close" /\ Closing
          \/ provider = "open" /\ sess.failed /\ Opening
      BY <2>1 DEF ClientInv, ClosePoints
    <3>2. Closing => ~Opening /\ ~Asking
      BY DEF ClientInv, Closing, Opening, Asking, At, InferAt
    <3>3. Opening => ~Closing /\ ~Asking
      BY DEF ClientInv, Closing, Opening, Asking, At, InferAt
    <3> QED BY <1>2, <2>2, <2>3, <3>1, <3>2, <3>3
            DEF ClientInv, OpenPoints, ClosePoints, Replies
  <2> QED BY <2>4, <2>5
<1> QED BY <1>4, <1>5, <1>6, <1>7 DEF Cleanup

LEMMA CallInv ==
  ASSUME ProviderTypeOK, SessionInv, ClientInv,
         \/ InferNpu \/ InferNpuOver \/ InferCpu
         \/ (NpuTask \/ NpuHardware) /\ UNCHANGED <<provider, sess, memory>>,
         UNCHANGED <<media, mon, window, acc, sampler, base, mounted, infer>>
  PROVE  SessionInv' /\ ClientInv'
<1> USE DEF SessAt
<1>1. /\ Opening' <=> Opening
      /\ Asking' <=> Asking
      /\ Closing' <=> Closing
      /\ Holding' <=> Holding
      /\ (At("idle") \/ InferAt("idle"))' <=> At("idle") \/ InferAt("idle")
  BY DEF Opening, Asking, Closing, Holding, At, InferAt
<1>2. sess \in Sessions /\ memory \in Memories /\ npu \in Npus /\ NpuInv
  BY DEF SessionInv, SessionTypeOK
<1>3. Asking => ~Opening /\ ~Closing
  BY DEF ClientInv, Closing, Opening, Asking, At, InferAt
<1>4. CASE InferNpu
  <2>1. SessionTypeOK'
    BY <1>4, CallType DEF SessionInv
  <2>2. sess'.pc = "infer" /\ sess'.npu_open /\ sess'.locked = sess.locked
        /\ sess'.file = sess.file /\ memory' = memory /\ sess.npu_open
        /\ provider' = provider /\ provider = "npu" /\ sess.pc = "idle"
    BY <1>2, <1>4 DEF InferNpu, Sessions
  <2>3. npu'.installed = npu.installed /\ NpuInv'
    BY <1>2, <1>4, <2>1, <2>2
    DEF InferNpu, NpuGoto, NpuInv, Npus, SessionTypeOK, SessionInv
  <2> QED BY <1>1, <1>2, <2>1, <2>2, <2>3
          DEF SessionInv, ClientInv, OpenPoints, ClosePoints, Replies
<1>5. CASE InferNpuOver
  <2>1. SessionTypeOK'
    BY <1>5, CallType DEF SessionInv
  <2>2. sess'.pc = "idle" /\ sess'.npu_open = sess.npu_open
        /\ sess'.locked = sess.locked /\ sess.npu_open
        /\ sess'.file = sess.file /\ memory' = memory /\ sess.pc = "infer"
    BY <1>2, <1>5 DEF InferNpuOver, Sessions, SessionInv, NpuAt
  <2>3. npu'.installed = npu.installed /\ npu'.pc = "idle" /\ NpuInv'
    BY <1>2, <1>5, <2>1
    DEF InferNpuOver, NpuAt, NpuGoto, NpuInv, Npus, SessionTypeOK
  <2>4. provider' \in Replies /\ Asking
    BY <1>5, <2>2 DEF InferNpuOver, Reply, Replies, ClientInv
  <2> QED BY <1>1, <1>2, <1>3, <2>1, <2>2, <2>3, <2>4
          DEF SessionInv, ClientInv, OpenPoints, ClosePoints, Replies
<1>6. CASE InferCpu
  <2>1. provider' \in Replies /\ UNCHANGED sessionVars /\ sess.pc = "idle"
        /\ provider \in {"npu", "cpu"}
    BY <1>6 DEF InferCpu, Reply, Replies
  <2>2. Asking /\ sess.npu_open
    BY <2>1 DEF ClientInv
  <2> QED BY <1>1, <1>3, <2>1, <2>2
          DEF SessionInv, NpuInv, SessionTypeOK, ClientInv, Clean,
              OpenPoints, ClosePoints, Replies, sessionVars
<1>7. CASE (NpuTask \/ NpuHardware) /\ UNCHANGED <<provider, sess, memory>>
  <2>1. NpuInv'
    BY <1>2, <1>7, NpuInvStep
  <2>2. npu'.installed = npu.installed
    <3>1. CASE NpuTask
      BY <1>2, <3>1
      DEF NpuTask, Begin, Activate, EpochWaits, EpochStarts, EpochInSoftware,
          NetworkDone, WaitPolls, PollEvent, WaitNotified, WaitAgain,
          RunFails, Recover, End, Drain, NpuGoto, Npus
    <3>2. CASE NpuHardware
      BY <1>2, <3>2
      DEF NpuHardware, EpochCompletes, Interrupt, LateInterrupt, Npus
    <3> QED BY <1>7, <3>1, <3>2
  <2>3. npu.pc = "idle" => npu'.pc = "idle"
    <3>1. CASE NpuTask
      BY <3>1
      DEF NpuTask, Begin, Activate, EpochWaits, EpochStarts, EpochInSoftware,
          NetworkDone, WaitPolls, WaitNotified, WaitAgain, RunFails, Recover,
          End, Drain, NpuAt
    <3>2. CASE NpuHardware
      BY <1>2, <3>2
      DEF NpuHardware, EpochCompletes, Interrupt, LateInterrupt, Npus
    <3> QED BY <1>7, <3>1, <3>2
  <2> QED BY <1>1, <1>7, <2>1, <2>2, <2>3
          DEF SessionInv, SessionTypeOK, NpuInv, ClientInv, Clean
<1> QED BY <1>4, <1>5, <1>6, <1>7

\* The steps of the two clients leave the session alone.
LEMMA ClientKeepsSession ==
  ASSUME SessionInv, UNCHANGED sessionVars PROVE SessionInv'
  BY DEF SessionInv, SessionTypeOK, NpuInv, Clean, SessAt, sessionVars

LEMMA MonitorClient ==
  ASSUME LabAppTypeOK, SessionInv, ClientInv, MonitorStep
  PROVE  SessionInv' /\ ClientInv'
<1> USE DEF SessAt
<1>1. SessionInv'
  BY ClientKeepsSession DEF MonitorStep
<1>2. sess' = sess /\ infer' = infer /\ MonitorNext
      /\ mon \in Monitors /\ infer \in Inferences
      /\ (infer.pc = "idle" \/ mon.pc # "idle")
  BY DEF MonitorStep, sessionVars, LabAppTypeOK, MonitorTypeOK, At, InferAt
<1>3. infer.pc = "idle"
  BY <1>2 DEF ClientInv, At, InferAt
<1> USE DEF At, InferAt
<1> DEFINE Working == {"ready", "workload", "metadata", "sample", "media",
                       "normalize", "judged"}
<1>4. CASE RunStart
  <2>1. mon.pc = "idle" /\ mon'.pc = "opening"
        /\ provider = "none" /\ provider' = "open"
    BY <1>4 DEF RunStart, Ask, NoRun
  <2> QED BY <1>1, <1>2, <1>3, <2>1
          DEF ClientInv, Opening, Asking, Closing, Holding, OpenPoints,
              ClosePoints, Replies
<1>5. ASSUME NEW ok \in BOOLEAN, Opened(ok) PROVE ClientInv'
  <2>1. mon.pc = "opening" /\ mon'.pc = (IF ok THEN "ready" ELSE "idle")
        /\ provider = (IF ok THEN "ok" ELSE "fail") /\ provider' = "none"
    BY <1>2, <1>5 DEF Opened, Answered, Goto, Monitors
  <2> QED BY <1>1, <1>2, <1>3, <2>1
          DEF ClientInv, Opening, Asking, Closing, Holding, OpenPoints,
              ClosePoints, Replies
<1>6. CASE RunClose
  <2>1. mon.pc = "closing" /\ mon'.pc = "closing"
        /\ provider = "none" /\ provider' = "close"
    BY <1>6 DEF RunClose, Ask
  <2> QED BY <1>1, <1>2, <1>3, <2>1
          DEF ClientInv, Opening, Asking, Closing, Holding, OpenPoints,
              ClosePoints, Replies
<1>7. ASSUME NEW ok \in BOOLEAN, RunClosed(ok) PROVE ClientInv'
  <2>1. mon.pc = "closing" /\ mon'.pc = "idle"
        /\ provider \in Replies /\ provider' = "none"
    BY <1>7 DEF RunClosed, Answered, NoRun, Replies
  <2> QED BY <1>1, <1>2, <1>3, <2>1
          DEF ClientInv, Opening, Asking, Closing, Holding, OpenPoints,
              ClosePoints, Replies
<1>8. CASE WindowDone \/ Window \/ ApplyRule \/ NormalizeWarmup
            \/ (NormalizeReady /\ provider' = provider)
  <2>1. mon.pc \in Working /\ provider' = provider
    BY <1>8 DEF WindowDone, Window, MediaReady, MediaNotReady, AcquireFails,
         MediaMount, WorkloadCall, WorkloadEnd, Metadata, SampleFails, Sample,
         ApplyRule, NormalizeWarmup, NormalizeReady
  <2>2. mon'.pc \in Working \cup {"closing"}
    <3>1. CASE WindowDone
      BY <1>2, <3>1 DEF WindowDone, WarmupNext, StageNext, Again, NextStage,
                        EndRun, Monitors
    <3>2. CASE Window
      BY <1>2, <3>2
      DEF Window, MediaReady, MediaNotReady, AcquireFails, MediaMount,
          WorkloadCall, WorkloadEnd, Metadata, SampleFails, Sample, EndRun,
          Goto, Monitors
    <3>3. CASE ApplyRule \/ NormalizeWarmup
      BY <1>2, <3>3 DEF ApplyRule, NormalizeWarmup, Judge, Monitors
    <3>4. CASE NormalizeReady /\ provider' = provider
      BY <1>2, <3>4 DEF NormalizeReady, Ask, Judge, Monitors
    <3> QED BY <1>8, <3>1, <3>2, <3>3, <3>4
  <2>3. provider = "none"
    <3>1. provider \in {"none"} \cup Calls \cup Replies
      BY DEF LabAppTypeOK, MonitorTypeOK, LabTypeOK
    <3>2. ~Opening /\ ~Asking /\ ~Closing
      BY <1>3, <2>1 DEF Opening, Asking, Closing
    <3> QED BY <3>1, <3>2 DEF ClientInv, Calls, Replies
  <2> QED BY <1>1, <1>2, <1>3, <2>1, <2>2, <2>3
          DEF ClientInv, Opening, Asking, Closing, Holding, OpenPoints,
              ClosePoints, Replies
<1>9. CASE NormalizeReady /\ provider' # provider
  <2>1. mon.pc = "normalize" /\ mon'.pc = "npu"
        /\ provider = "none" /\ provider' = "npu"
    BY <1>2, <1>9 DEF NormalizeReady, Ask, Goto, Monitors
  <2> QED BY <1>1, <1>2, <1>3, <2>1
          DEF ClientInv, Opening, Asking, Closing, Holding, OpenPoints,
              ClosePoints, Replies
<1>10. CASE AskCpu
  <2>1. mon.pc \in {"fallback", "arbitration"} /\ mon'.pc = mon.pc
        /\ provider = "none" /\ provider' = "cpu"
    BY <1>10 DEF AskCpu, Ask
  <2> QED BY <1>1, <1>2, <1>3, <2>1
          DEF ClientInv, Opening, Asking, Closing, Holding, OpenPoints,
              ClosePoints, Replies
<1>11. CASE NpuAnswered \/ NpuFailed \/ \E ok \in BOOLEAN : CpuAnswered(ok)
  <2>1. mon.pc \in {"npu", "fallback", "arbitration"}
        /\ provider \in Replies /\ provider' = "none"
    BY <1>11 DEF NpuAnswered, NpuFailed, CpuAnswered, Answered, Replies
  <2>2. mon'.pc \in {"fallback", "arbitration", "judged"}
    BY <1>2, <1>11 DEF NpuAnswered, NpuFailed, CpuAnswered, Goto, Judge,
                       Monitors
  <2> QED BY <1>1, <1>2, <1>3, <2>1, <2>2
          DEF ClientInv, Opening, Asking, Closing, Holding, OpenPoints,
              ClosePoints, Replies
<1> QED BY <1>1, <1>2, <1>4, <1>5, <1>6, <1>7, <1>8, <1>9, <1>10, <1>11
        DEF MonitorNext, Run, Evaluate

LEMMA InferenceClient ==
  ASSUME LabAppTypeOK, SessionInv, ClientInv, InferenceStep
  PROVE  SessionInv' /\ ClientInv'
<1> USE DEF SessAt, At, InferAt
<1>1. SessionInv'
  BY ClientKeepsSession DEF InferenceStep
<1>2. sess' = sess /\ mon' = mon /\ Inference /\ infer \in Inferences
      /\ provider \in {"none"} \cup Calls \cup Replies
  BY DEF InferenceStep, sessionVars, LabAppTypeOK, MonitorTypeOK, LabTypeOK
<1> USE DEF ClientInv, Opening, Asking, Closing, Holding, OpenPoints,
            ClosePoints, Calls, Replies, Inferences, InferGoto, Ask, Answered
<1>3. CASE InferenceStart
  BY <1>1, <1>2, <1>3 DEF InferenceStart, NoInference
<1>4. CASE AwaitRemoval
  BY <1>1, <1>2, <1>4 DEF AwaitRemoval
<1>5. CASE InferenceCloses
  BY <1>1, <1>2, <1>5 DEF InferenceCloses
<1>6. CASE AwaitInsertion
  <2>1. CASE provider' = "open" /\ provider = "none"
               /\ infer' = [infer EXCEPT !.pc = "reopening"]
    BY <1>1, <1>2, <1>6, <2>1 DEF AwaitInsertion
  <2>2. CASE UNCHANGED provider /\ infer' = NoInference
    BY <1>1, <1>2, <1>6, <2>2 DEF AwaitInsertion, NoInference
  <2> QED BY <1>6, <2>1, <2>2 DEF AwaitInsertion
<1>7. ASSUME NEW call \in {"cpu", "npu"}, InferenceAsks(call)
      PROVE  ClientInv'
  BY <1>1, <1>2, <1>7 DEF InferenceAsks
<1>8. ASSUME NEW ok \in BOOLEAN, InferenceOpened(ok) PROVE ClientInv'
  <2>1. CASE ok
    BY <1>1, <1>2, <1>8, <2>1 DEF InferenceOpened
  <2>2. CASE ~ok
    <3>1. infer' = NoInference /\ InferAt("opening") /\ Answered(ok)
      <4> HIDE DEF InferGoto
      <4> QED BY <1>8, <2>2 DEF InferenceOpened
    <3> QED BY <1>1, <1>2, <2>2, <3>1 DEF NoInference
  <2> QED BY <2>1, <2>2
<1>9. ASSUME NEW ok \in BOOLEAN, InferenceResult(ok) PROVE ClientInv'
  BY <1>1, <1>2, <1>9 DEF InferenceResult
<1>10. ASSUME NEW ok \in BOOLEAN, InferenceClosed(ok) PROVE ClientInv'
  BY <1>1, <1>2, <1>10 DEF InferenceClosed, NoInference
<1>11. ASSUME NEW ok \in BOOLEAN, InferenceReopened(ok) PROVE ClientInv'
  BY <1>1, <1>2, <1>11 DEF InferenceReopened, NoInference
<1> QED BY <1>1, <1>2, <1>3, <1>4, <1>5, <1>6, <1>7, <1>8, <1>9, <1>10, <1>11
        DEF Inference

LEMMA SessionInvStep ==
  ASSUME LabAppTypeOK, SessionInv, ClientInv, [Next]_labVars
  PROVE  SessionInv' /\ ClientInv'
<1>1. ProviderTypeOK
  BY DEF LabAppTypeOK, MonitorTypeOK, LabTypeOK, ProviderTypeOK
<1>2. CASE MonitorStep
  BY <1>2, MonitorClient
<1>3. CASE InferenceStep
  BY <1>3, InferenceClient
<1>4. CASE SessionStep
  BY <1>1, <1>4, OpenInv, CloseInv, CallInv DEF SessionStep, SessionNext
<1>5. CASE CardMoves \/ UNCHANGED labVars
  <2>1. UNCHANGED <<provider, mon, infer>> /\ UNCHANGED sessionVars
    BY <1>5 DEF CardMoves, MediaWorker, labVars, monitorVars
  <2>2. SessionInv'
    BY <2>1, ClientKeepsSession
  <2> QED BY <2>1, <2>2
          DEF ClientInv, Opening, Asking, Closing, Holding, At, InferAt,
              SessAt, sessionVars
<1> QED BY <1>2, <1>3, <1>4, <1>5 DEF Next

----------------------------------------------------------------------------
(* The theorems.                                                           *)

LabInv == LabAppTypeOK /\ MonitorInv /\ SessionInv /\ ClientInv

LEMMA LabInvariant == Spec => []LabInv
<1>1. Init => LabInv
  BY LabTypeInit, MonitorInvInit, SessionInvInit DEF LabInv
<1>2. LabInv /\ [Next]_labVars => LabInv'
  <2> SUFFICES ASSUME LabInv, [Next]_labVars PROVE LabInv'
    OBVIOUS
  <2>1. LearnedInFull(base)
    BY DEF LabInv, MonitorInv, LearnsFromCleanWindows, LearnedInFull
  <2> QED BY <2>1, LabTypeStep, MonitorInvStep, SessionInvStep DEF LabInv
<1> QED BY <1>1, <1>2, PTL DEF Spec

\* The variables of the application stay in their types.
THEOREM TypeCorrect == Spec => []LabAppTypeOK
<1>1. LabInv => LabAppTypeOK
  BY DEF LabInv
<1> QED BY <1>1, LabInvariant, PTL

\* A window judged by inference counts calls of one session only, and is
\* compared with what was learned, in full, from the same session, whenever
\* the card is changed.
THEOREM VerdictsOfOneSession == Spec => []VerdictOfOneSession
<1>1. LabInv => VerdictOfOneSession
  BY DEF LabInv, MonitorInv, FeatureOfSession, Inferring,
         LearnsFromCleanWindows, VerdictOfOneSession, OfSession, At
<1> QED BY <1>1, LabInvariant, PTL

\* The baseline learns from no window with an error, of another session or
\* with injected faults.
THEOREM CleanLearning == Spec => []LearnsFromCleanWindows
<1>1. LabInv => LearnsFromCleanWindows
  BY DEF LabInv, MonitorInv
<1> QED BY <1>1, LabInvariant, PTL

\* The plaintext behind an installed network is all there, until the NPU has
\* been closed.
THEOREM BackingStays == Spec => []BackingNotErased
<1>1. LabInv => BackingNotErased
  BY DEF LabInv, SessionInv, BackingNotErased
<1> QED BY <1>1, LabInvariant, PTL

\* No open that fails at any of its steps and no close leaves plaintext, a
\* key, a file, the lock or the NPU behind.
THEOREM CleanupIsComplete == Spec => []CleanAfterwards
<1>1. LabInv => CleanAfterwards
  BY DEF LabInv, SessionInv, Clean, CleanAfterwards, SessAt, OpenPoints
<1> QED BY <1>1, LabInvariant, PTL

\* No completion of an epoch is lost between the NPU and the task that waits
\* for it.
THEOREM CompletionsArrive == Spec => []NoLostCompletion
<1>1. LabInv => NoLostCompletion
  BY DEF LabInv, SessionInv, NpuInv, NoLostCompletion, NpuAt
<1> QED BY <1>1, LabInvariant, PTL
=============================================================================
