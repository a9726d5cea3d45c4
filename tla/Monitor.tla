------------------------------ MODULE Monitor ------------------------------
(***************************************************************************)
(* The Sentinel monitor: mtfs_sentinel_monitor_run and _evaluate, the      *)
(* window step of the lab, the callbacks of the STM32 application and the  *)
(* normalization by the learned baseline.  One task runs all of it; the    *)
(* media worker changes the state of the card between any two of its looks *)
(* at it.  The session behind the provider calls is Session; here a call   *)
(* gets some answer.                                                       *)
(*                                                                         *)
(* The counters of the observed device are abstracted to acc: what a       *)
(* reader of them must know of the calls since the last sample.  A feature *)
(* is a copy of it with the sampler's flags (Sentinel has the details).    *)
(***************************************************************************)
EXTENDS Lab, Baseline

CONSTANTS
  StageCount,        \* run_config.stage_count, 5 with injected faults
  InjectedStages     \* the stages with injected faults, 1..3 of the 5

ASSUME RunAssumption ==
  StageCount \in Nat \ {0} /\ InjectedStages \subseteq 0 .. StageCount - 1

VARIABLES
  mon,       \* mtfs_sentinel_monitor_t and the locals of the run
  window,    \* the input of the window: statuses and feature
  acc,       \* the calls since the last sample
  sampler,   \* baseline_valid and previous_media of the sampler
  base,      \* the baseline of the session
  mounted    \* target_monitor_context_t.mounted

monitorVars == <<media, provider, mon, window, acc, sampler, base, mounted>>

Points == {"idle", "opening", "ready", "workload", "metadata", "sample",
           "media", "normalize", "npu", "fallback", "arbitration", "judged",
           "closing"}
Verdicts == {"NORMAL", "ANOMALY", "OUT_OF_DISTRIBUTION"}
RuleStates == {"UNAVAILABLE", "BLOCK_ERROR", "INVALID", "DISCONTINUITY",
               "INSUFFICIENT"}
States == RuleStates \cup Verdicts \cup {"WARMUP", "INFERENCE_ERROR", "none"}
\* NO_MEDIA and NOT_READY are one: UNAVAILABLE.
Errors == {"UNAVAILABLE", "OTHER"}
Statuses == {"OK", "UNAVAILABLE", "IO"}
WarmupStage == -1            \* UINT32_MAX in the code

Counted == [first : 0 .. MaxGeneration, error : {"none"} \cup Errors,
            injected : {"no", "late", "yes"}]
\* What the rules look at in the flags and masks of a feature, the first of
\* them in their order.
Defects == {"none", "DISCONTINUITY", "INSUFFICIENT", "INVALID"}

\* Part of a feature that is 0 after the memset of the input.
NoFeature == [schema |-> FALSE, generation |-> 0, defect |-> "none",
              counted |-> NothingCounted]
NoWindow == [workload |-> "OK", metadata |-> 0, sample |-> "OK",
             feature |-> NoFeature]

Features == [schema : BOOLEAN, generation : 0 .. MaxGeneration,
             defect : Defects, counted : Counted]
Monitors == [pc : Points, stage : WarmupStage .. StageCount - 1,
             failed : BOOLEAN, generation : 0 .. MaxGeneration,
             state : States]
Windows == [workload : Statuses, metadata : 0 .. MaxGeneration,
            sample : {"OK", "UNAVAILABLE"}, feature : Features]
Samplers == [valid : BOOLEAN, generation : 0 .. MaxGeneration]
Baselines == [state : {"UNINITIALIZED", "WARMUP", "READY", "INVALID"},
              generation : 0 .. MaxGeneration, count : 0 .. WarmupWindows,
              counted : Counted]

MonitorTypeOK ==
  /\ LabTypeOK
  /\ mon \in Monitors /\ window \in Windows /\ acc \in Counted
  /\ sampler \in Samplers /\ base \in Baselines /\ mounted \in BOOLEAN

\* generation 0: previous_generation_valid is 0.
NoRun == [pc |-> "idle", stage |-> WarmupStage, failed |-> FALSE,
          generation |-> 0, state |-> "none"]

MonitorInit ==
  /\ LabInit
  /\ mon = NoRun /\ window = NoWindow /\ acc = NothingCounted
  /\ sampler = [valid |-> FALSE, generation |-> 1]
  /\ base = BaselineInit
  /\ mounted = FALSE

At(point) == mon.pc = point
Goto(point) == mon' = [mon EXCEPT !.pc = point]

\* monitor_stage_begin and _end.
InjectionActive == mon.stage \in InjectedStages

----------------------------------------------------------------------------
(* The run: open, warmup, stages, close.                                   *)

\* run_monitor prepares the card and the observer, mounts the volume and
\* takes the first sample; then the monitor opens the session.
RunStart ==
  /\ At("idle") /\ media.state = "PRESENT"
  /\ Ask("open")
  /\ mon' = [NoRun EXCEPT !.pc = "opening"]
  /\ window' = NoWindow /\ acc' = NothingCounted /\ mounted' = TRUE
  /\ \E valid \in BOOLEAN :
       sampler' = [valid |-> valid, generation |-> media.generation]
  /\ UNCHANGED <<media, base>>

\* After the session is open the baseline has been initialized.
Opened(ok) ==
  /\ At("opening") /\ Answered(ok)
  /\ Goto(IF ok THEN "ready" ELSE "idle")
  /\ base' = BaselineInit
  /\ mounted' = ok
  /\ sampler' = IF ok THEN sampler ELSE [valid |-> FALSE, generation |-> 1]
  /\ UNCHANGED <<media, window, acc>>

\* After a window: another one of the same stage, or the end of the stage.
\* How many windows a stage has is left open.
Failed == mon.failed \/ mon.state = "INFERENCE_ERROR"
Again ==
  mon' = [mon EXCEPT !.pc = "ready", !.state = "none", !.failed = Failed]
NextStage ==
  mon' = [mon EXCEPT !.pc = "ready", !.state = "none", !.stage = @ + 1]
EndRun ==
  mon' = [mon EXCEPT !.pc = "closing", !.state = "none"]

WarmupNext ==
  LET complete == mon.state = "WARMUP" /\ base.count = WarmupWindows IN
  \/ ~Failed /\ complete /\ NextStage
  \/ ~Failed /\ ~complete /\ Again
  \/ ~complete /\ EndRun

StageNext ==
  \/ Again
  \/ ~Failed /\ mon.stage + 1 < StageCount /\ NextStage
  \/ (Failed \/ mon.stage + 1 = StageCount) /\ EndRun

WindowDone ==
  /\ At("judged")
  /\ IF mon.stage = WarmupStage THEN WarmupNext ELSE StageNext
  /\ window' = NoWindow
  /\ UNCHANGED <<media, provider, acc, sampler, base, mounted>>

\* The wait for the card of the hotplug command has timed out.
AcquireFails ==
  /\ At("ready") /\ mon.stage = 0 /\ EndRun
  /\ UNCHANGED <<media, provider, window, acc, sampler, base, mounted>>

RunClose ==
  /\ At("closing") /\ Ask("close") /\ UNCHANGED mon
  /\ UNCHANGED <<media, window, acc, sampler, base, mounted>>

\* The cleanup of the session has erased the baseline, failed or not; the
\* observer and the volume are released.
RunClosed(ok) ==
  /\ At("closing") /\ Answered(ok)
  /\ mon' = NoRun /\ window' = NoWindow /\ acc' = NothingCounted
  /\ sampler' = [valid |-> FALSE, generation |-> 1]
  /\ base' = BaselineInit /\ mounted' = FALSE
  /\ UNCHANGED media

----------------------------------------------------------------------------
(* One window: mtfs_sentinel_lab_window_step.                              *)

\* A call of the device, and its outcome.
Count(error) ==
  acc' = CountedBoth(acc, [first |-> media.generation, error |-> error,
                           injected |-> IF InjectionActive THEN "yes"
                                        ELSE "no"])
Outcomes == {"none"} \cup Errors

\* monitor_media_ready: mounts, or unmounts and gives up the workload.
MediaReady ==
  /\ At("ready") /\ media.state = "PRESENT" /\ mounted
  /\ Goto("workload")
  /\ UNCHANGED <<media, provider, window, acc, sampler, base, mounted>>
MediaMount(ok) ==
  /\ At("ready") /\ media.state = "PRESENT" /\ ~mounted
  /\ \E error \in Outcomes : Count(error)
  /\ mounted' = ok
  /\ Goto(IF ok THEN "workload" ELSE "metadata")
  /\ window' = [window EXCEPT !.workload = IF ok THEN @ ELSE "UNAVAILABLE"]
  /\ UNCHANGED <<media, provider, sampler, base>>
MediaNotReady ==
  /\ At("ready") /\ media.state # "PRESENT"
  /\ mounted' = FALSE
  /\ Goto("metadata")
  /\ window' = [window EXCEPT !.workload = "UNAVAILABLE"]
  /\ UNCHANGED <<media, provider, acc, sampler, base>>

\* mtfs_sentinel_recorder_workload_ex: calls of the device, then the status
\* FatFs makes of them.
WorkloadCall ==
  /\ At("workload")
  /\ \E error \in Outcomes : Count(error)
  /\ UNCHANGED <<media, provider, mon, window, sampler, base, mounted>>
WorkloadEnd ==
  /\ At("workload") /\ Goto("metadata")
  /\ \E status \in {"OK", "IO"} :
       window' = [window EXCEPT !.workload = status]
  /\ UNCHANGED <<media, provider, acc, sampler, base, mounted>>

\* collect_metadata.
Metadata ==
  /\ At("metadata") /\ Goto("sample")
  /\ window' = [window EXCEPT !.metadata = media.generation]
  /\ UNCHANGED <<media, provider, acc, sampler, base, mounted>>

\* mtfs_sentinel_sample.  A gap is a reset epoch, a transport, a saturated
\* counter or a clock that does not continue the last sample: found before
\* the counters are compared, or in comparing them.  incomplete stands for a
\* timing that is not there.  A clock that fails leaves the next sample
\* without a predecessor.
Sample(gap, incomplete, time_valid) ==
  LET before == gap = "before" \/ window.metadata # sampler.generation
      defect == IF ~sampler.valid THEN "INSUFFICIENT"
                ELSE IF before \/ gap = "in" THEN "DISCONTINUITY"
                ELSE IF incomplete \/ ~time_valid THEN "INVALID" ELSE "none"
  IN
  /\ At("sample") /\ Goto("media")
  /\ window' = [window EXCEPT !.feature =
       [schema |-> TRUE, generation |-> window.metadata, defect |-> defect,
        counted |-> IF ~sampler.valid \/ before THEN NothingCounted ELSE acc]]
  /\ sampler' = [valid |-> time_valid, generation |-> window.metadata]
  /\ acc' = NothingCounted
  /\ UNCHANGED <<media, provider, base, mounted>>

\* The snapshots cannot be taken: what they would have counted is left for
\* the next window.
SampleFails ==
  /\ At("sample") /\ Goto("media")
  /\ window' = [window EXCEPT !.sample = "UNAVAILABLE"]
  /\ acc' = [acc EXCEPT !.injected = IF @ = "yes" THEN "late" ELSE @]
  /\ UNCHANGED <<media, provider, sampler, base, mounted>>

----------------------------------------------------------------------------
(* mtfs_sentinel_monitor_evaluate.                                         *)

\* apply_rule, in the order of the code; "none" leaves it to the inference.
Rule(w, m) ==
  LET f == w.feature IN
  IF m # "PRESENT" \/ w.workload = "UNAVAILABLE" THEN "UNAVAILABLE"
  ELSE IF w.workload # "OK" THEN "BLOCK_ERROR"
  ELSE IF w.sample # "OK" \/ ~f.schema THEN "INVALID"
  ELSE IF f.counted.error = "UNAVAILABLE" THEN "UNAVAILABLE"
  ELSE IF mon.generation \notin {0, f.generation} THEN "DISCONTINUITY"
  ELSE IF f.defect # "none" THEN f.defect
  ELSE IF f.counted.error # "none" THEN "BLOCK_ERROR"
  ELSE "none"

\* monitor_media_state is read after the sample.
ApplyRule ==
  LET state == Rule(window, media.state) IN
  /\ At("media")
  /\ mon' = [mon EXCEPT
       !.pc = IF state = "none" THEN "normalize" ELSE "judged",
       !.state = state,
       !.generation = IF window.feature.schema
                      THEN window.feature.generation ELSE @]
  /\ UNCHANGED <<media, provider, window, acc, sampler, base, mounted>>

\* Mutant: the generation of the baseline is not compared.
RestartedAtStart(b, generation) ==
  IF b.state \in {"UNINITIALIZED", "INVALID"}
  THEN BaselineStart(generation) ELSE b

\* The baseline is given up and started again with another generation.
Restarted(b, generation) ==
  IF b.state \in {"UNINITIALIZED", "INVALID"} \/ b.generation # generation
  THEN BaselineStart(generation) ELSE b

Judge(state) == mon' = [mon EXCEPT !.pc = "judged", !.state = state]

\* mtfs_stm32n6570_sentinel_monitor_normalize, while the baseline is learned
\* and with a learned one.
NormalizeWarmup ==
  LET f        == window.feature
      started  == Restarted(base, f.generation)
      observed == BaselineObserve(started, f, InjectionActive)
  IN
  /\ At("normalize") /\ started.state = "WARMUP"
  /\ base' = observed
  /\ Judge(IF observed.state = "INVALID" THEN "INFERENCE_ERROR" ELSE "WARMUP")
  /\ UNCHANGED <<media, provider, window, acc, sampler, mounted>>
NormalizeReady ==
  /\ At("normalize")
  /\ Restarted(base, window.feature.generation).state = "READY"
  /\ \/ Ask("npu") /\ Goto("npu")
     \/ /\ \E state \in {"OUT_OF_DISTRIBUTION", "INFERENCE_ERROR"} :
             Judge(state)
        /\ UNCHANGED provider
  /\ UNCHANGED <<media, window, acc, sampler, base, mounted>>

\* The NPU decides, the CPU does in its place, or arbitrates when the score
\* is too near to the threshold; a score outside its own interval is an
\* error.
NpuAnswered ==
  /\ At("npu") /\ Answered(TRUE)
  /\ \/ Goto("arbitration")
     \/ \E state \in {"NORMAL", "ANOMALY", "INFERENCE_ERROR"} : Judge(state)
  /\ UNCHANGED <<media, window, acc, sampler, base, mounted>>
NpuFailed ==
  /\ At("npu") /\ Answered(FALSE) /\ Goto("fallback")
  /\ UNCHANGED <<media, window, acc, sampler, base, mounted>>
AskCpu ==
  /\ mon.pc \in {"fallback", "arbitration"} /\ Ask("cpu") /\ UNCHANGED mon
  /\ UNCHANGED <<media, window, acc, sampler, base, mounted>>
CpuAnswered(ok) ==
  /\ mon.pc \in {"fallback", "arbitration"} /\ Answered(ok)
  /\ \E state \in IF ok THEN {"NORMAL", "ANOMALY"} ELSE {"INFERENCE_ERROR"} :
       Judge(state)
  /\ UNCHANGED <<media, window, acc, sampler, base, mounted>>

----------------------------------------------------------------------------
Window ==
  \/ MediaReady \/ MediaNotReady \/ AcquireFails
  \/ \E ok \in BOOLEAN : MediaMount(ok)
  \/ WorkloadCall \/ WorkloadEnd \/ Metadata \/ SampleFails
  \/ \E gap \in {"none", "before", "in"}, incomplete, time_valid \in BOOLEAN :
       Sample(gap, incomplete, time_valid)

Evaluate ==
  \/ ApplyRule \/ NormalizeWarmup \/ NormalizeReady
  \/ NpuAnswered \/ NpuFailed \/ AskCpu
  \/ \E ok \in BOOLEAN : CpuAnswered(ok)

Run ==
  \/ RunStart \/ WindowDone \/ RunClose
  \/ \E ok \in BOOLEAN : Opened(ok) \/ RunClosed(ok)

MediaWorker ==
  /\ MediaMoves
  /\ UNCHANGED <<provider, mon, window, acc, sampler, base, mounted>>

MonitorNext == Run \/ Window \/ Evaluate

----------------------------------------------------------------------------
(* Properties.                                                             *)

\* A window is judged by inference only if all calls it counts are of the
\* session it names, without an error, and the baseline was learned to its
\* end from windows of that same session: a card that was changed at any
\* point of the run is never judged by what was learned from another one.
OfSession(counted, generation) ==
  counted.first \in {0, generation} /\ counted.error = "none"

VerdictOfOneSession ==
  LET f == window.feature IN
  At("judged") /\ mon.state \in Verdicts =>
    /\ OfSession(f.counted, f.generation)
    /\ base.state = "READY" /\ base.count = WarmupWindows
    /\ base.generation = f.generation
    /\ OfSession(base.counted, f.generation)

\* The baseline learns from no window with an error, of another session or
\* with injected faults; the exception for the last is a window that carries
\* the calls of one before it whose sample failed.
LearnsFromCleanWindows ==
  LET counted == base.counted IN
  /\ OfSession(counted, base.generation) /\ counted.injected # "yes"
  /\ base.state = "READY" <=> base.count = WarmupWindows
=============================================================================
