---------------------------- MODULE SentinelLab ----------------------------
(***************************************************************************)
(* The Sentinel lab application of the STM32 as its console runs it: the   *)
(* monitor or the inference command, one after the other, over the         *)
(* inference session and its NPU, while the media worker, the card and the *)
(* interrupt of the NPU go on at any point.                                *)
(***************************************************************************)
EXTENDS Monitor, Session

VARIABLE infer      \* the locals of inference_run

labVars == <<monitorVars, sessionVars, infer>>

InferPoints == {"idle", "opening", "removal", "cpu", "npu", "closing",
                "insertion", "reopening"}
NoInference == [pc |-> "idle", hotplug |-> FALSE, reopened |-> FALSE]

Inferences == [pc : InferPoints, hotplug : BOOLEAN, reopened : BOOLEAN]

LabAppTypeOK == MonitorTypeOK /\ SessionTypeOK /\ infer \in Inferences

Init == MonitorInit /\ SessionInit /\ infer = NoInference

InferAt(point) == infer.pc = point
InferGoto(point) == infer' = [infer EXCEPT !.pc = point]

----------------------------------------------------------------------------
(* inference_run.                                                          *)

InferenceStart ==
  /\ InferAt("idle") /\ At("idle")
  /\ Ask("open")
  /\ \E hotplug \in BOOLEAN :
       infer' = [NoInference EXCEPT !.pc = "opening", !.hotplug = hotplug]
\* Without a usable input or clock nothing is inferred.
InferenceOpened(ok) ==
  /\ InferAt("opening") /\ Answered(ok)
  /\ \/ ~ok /\ infer' = NoInference
     \/ ok /\ infer.hotplug /\ InferGoto("removal")
     \/ ok /\ ~infer.hotplug /\ (InferGoto("cpu") \/ InferGoto("closing"))
\* wait_media, which gives up after some time.
AwaitRemoval ==
  /\ InferAt("removal") /\ UNCHANGED provider
  /\ \/ media.state = "ABSENT" /\ InferGoto("cpu")
     \/ InferGoto("closing")
InferenceAsks(call) ==
  /\ InferAt(call) /\ Ask(call) /\ UNCHANGED infer
\* CPU and NPU in turn, until the last iteration or the first that fails.
InferenceResult(ok) ==
  /\ infer.pc \in {"cpu", "npu"} /\ Answered(ok)
  /\ \/ ok /\ InferGoto(IF InferAt("cpu") THEN "npu" ELSE "cpu")
     \/ (ok => InferAt("npu")) /\ InferGoto("closing")
InferenceCloses ==
  /\ InferAt("closing") /\ Ask("close") /\ UNCHANGED infer
InferenceClosed(ok) ==
  /\ InferAt("closing") /\ Answered(ok)
  /\ infer' = IF ok /\ infer.hotplug /\ ~infer.reopened
              THEN [infer EXCEPT !.pc = "insertion", !.reopened = TRUE]
              ELSE NoInference
AwaitInsertion ==
  /\ InferAt("insertion")
  /\ \/ media.state = "PRESENT" /\ Ask("open") /\ InferGoto("reopening")
     \/ UNCHANGED provider /\ infer' = NoInference
InferenceReopened(ok) ==
  /\ InferAt("reopening") /\ Answered(ok)
  /\ infer' = IF ok THEN [infer EXCEPT !.pc = "closing"] ELSE NoInference

Inference ==
  \/ InferenceStart \/ AwaitRemoval \/ AwaitInsertion \/ InferenceCloses
  \/ \E call \in {"cpu", "npu"} : InferenceAsks(call)
  \/ \E ok \in BOOLEAN :
       \/ InferenceOpened(ok) \/ InferenceResult(ok)
       \/ InferenceClosed(ok) \/ InferenceReopened(ok)

----------------------------------------------------------------------------
MonitorStep ==
  /\ InferAt("idle") \/ ~At("idle")
  /\ MonitorNext
  /\ UNCHANGED <<sessionVars, infer>>
InferenceStep ==
  /\ Inference
  /\ UNCHANGED <<media, mon, window, acc, sampler, base, mounted, sessionVars>>
SessionStep ==
  /\ SessionNext
  /\ UNCHANGED <<media, mon, window, acc, sampler, base, mounted, infer>>
CardMoves == MediaWorker /\ UNCHANGED <<sessionVars, infer>>

Next == MonitorStep \/ InferenceStep \/ SessionStep \/ CardMoves

Spec == Init /\ [][Next]_labVars
=============================================================================
