----------------------------- MODULE NpuRuntime -----------------------------
(***************************************************************************)
(* The NPU of the STM32N6 behind the NPU provider: mtfs_stm32n6_neural_art *)
(* with mtfs_stm32n6_async_wait and mtfs_stm32n6_aton_osal.  One task runs *)
(* an inference as epochs of the NPU; between two of them it waits for an  *)
(* event flag that the interrupt of the NPU sets while an inference is     *)
(* active.  The wait and the whole run have a timeout: an inference that   *)
(* is given up leaves an epoch behind whose interrupt may still come, at   *)
(* any time.  The runtime of the vendor that starts the epochs is external:*)
(* how many there are, and which of them need the hardware, is left open.  *)
(***************************************************************************)
EXTENDS Naturals

VARIABLE npu

NpuPoints == {"idle", "begin", "activate", "run", "wfe", "wait", "recover",
              "end", "drain", "over"}

\* installed: the relocated runtime, its event flag and network exist.
\* hw: the epoch on the NPU; raised: its interrupt has not been taken yet.
\* late: the interrupt of an epoch that was given up is still to come.
Npus == [pc : NpuPoints, installed : BOOLEAN, active : BOOLEAN,
         event : BOOLEAN, hw : {"idle", "running", "raised", "done"},
         late : BOOLEAN, ok : BOOLEAN]

NpuInit == npu = [pc |-> "idle", installed |-> FALSE, active |-> FALSE,
                  event |-> FALSE, hw |-> "idle", late |-> FALSE,
                  ok |-> FALSE]

NpuAt(point) == npu.pc = point
NpuGoto(point) == npu' = [npu EXCEPT !.pc = point]

\* mtfs_stm32n6_aton_osal_signal_event: lost unless an inference is active.
Signalled == npu.event \/ npu.active

\* LL_ATON_RT_RuntimeInit and Init_Network: a new event flag.  Deinit deletes
\* it and stops the network.
Installed == [npu EXCEPT !.installed = TRUE, !.event = FALSE, !.hw = "idle"]
Uninstalled == [npu EXCEPT !.installed = FALSE, !.active = FALSE,
                           !.event = FALSE, !.hw = "idle",
                           !.late = @ \/ npu.hw \in {"running", "raised"}]

----------------------------------------------------------------------------
(* The task: infer_runtime.                                                *)

\* mtfs_stm32n6_aton_osal_inference_begin consumes what is left of the event
\* before it lets the interrupt set it.
Begin ==
  /\ NpuAt("begin")
  /\ npu' = [npu EXCEPT !.pc = IF npu.installed THEN "activate" ELSE "over",
                        !.event = FALSE, !.ok = FALSE]
Activate ==
  /\ NpuAt("activate")
  /\ npu' = [npu EXCEPT !.pc = "run", !.active = TRUE, !.hw = "idle"]

\* LL_ATON_RT_RunEpochBlock waits for the epoch in progress, or starts the
\* next one, or runs one in software (NO_WFE).
EpochWaits ==
  /\ NpuAt("run") /\ npu.hw \in {"running", "raised"}
  /\ NpuGoto("wfe")
EpochStarts ==
  /\ NpuAt("run") /\ npu.hw \in {"idle", "done"}
  /\ npu' = [npu EXCEPT !.pc = "wfe", !.hw = "running"]
EpochInSoftware ==
  /\ NpuAt("run") /\ npu.hw = "done"
  /\ npu' = [npu EXCEPT !.hw = "idle"]
NetworkDone ==
  /\ NpuAt("run") /\ npu.hw \in {"idle", "done"}
  /\ npu' = [npu EXCEPT !.pc = "end", !.ok = TRUE]

\* Mutant: the event is cleared before the wait without looking at it.
PollEventBlindly == npu' = [npu EXCEPT !.event = FALSE, !.pc = "wait"]

\* mtfs_stm32n6_aton_osal_wait_event: first without waiting, then until the
\* event or the rest of the timeout.
PollEvent == npu' = [npu EXCEPT !.event = FALSE,
                                !.pc = IF npu.event THEN "run" ELSE "wait"]
WaitPolls == NpuAt("wfe") /\ PollEvent
WaitNotified ==
  /\ NpuAt("wait") /\ npu.event
  /\ npu' = [npu EXCEPT !.event = FALSE, !.pc = "run"]
\* A wait that ends before the timeout of the run is over is started again.
WaitAgain == NpuAt("wait") /\ ~npu.event /\ NpuGoto("wfe")

\* The timeout of the run, too many epochs in software, an unknown state of
\* the network, an error of the kernel.
RunFails == npu.pc \in {"run", "wfe", "wait"} /\ NpuGoto("recover")
Recover ==
  /\ NpuAt("recover")
  /\ npu' = [npu EXCEPT !.pc = "end", !.hw = "idle",
                        !.late = @ \/ npu.hw \in {"running", "raised"}]

\* mtfs_stm32n6_aton_osal_inference_end.
End == NpuAt("end") /\ npu' = [npu EXCEPT !.pc = "drain", !.active = FALSE]
Drain == NpuAt("drain") /\ npu' = [npu EXCEPT !.pc = "over", !.event = FALSE]

NpuTask ==
  \/ Begin \/ Activate \/ EpochWaits \/ EpochStarts \/ EpochInSoftware
  \/ NetworkDone \/ WaitPolls \/ WaitNotified \/ WaitAgain \/ RunFails
  \/ Recover \/ End \/ Drain

----------------------------------------------------------------------------
(* The NPU.                                                                *)

EpochCompletes == npu.hw = "running" /\ npu' = [npu EXCEPT !.hw = "raised"]
Interrupt ==
  /\ npu.hw = "raised"
  /\ npu' = [npu EXCEPT !.hw = "done", !.event = Signalled]
LateInterrupt ==
  /\ npu.late
  /\ npu' = [npu EXCEPT !.late = FALSE, !.event = Signalled]

NpuHardware == EpochCompletes \/ Interrupt \/ LateInterrupt

----------------------------------------------------------------------------
\* The task never waits for an epoch whose interrupt has been taken already:
\* no event is consumed between the end of the epoch and the wait, late
\* interrupts of given-up inferences included.  It would run into the timeout
\* and the window be judged without the NPU.
NoLostCompletion == NpuAt("wait") /\ npu.hw = "done" => npu.event
=============================================================================
