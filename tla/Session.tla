------------------------------ MODULE Session ------------------------------
(***************************************************************************)
(* The inference session of the STM32 application: the provider calls of   *)
(* the monitor and of the inference command, from the sealed model on the  *)
(* card to the NPU and back: session_open, the sealed reader, the model    *)
(* store and the sealed blob, the keys of the SAES provider, the NPU       *)
(* provider, and session_cleanup, which every failure ends in.  The card   *)
(* may go at every step of it.                                             *)
(*                                                                         *)
(* The code has two session structures, one for each of its two clients,   *)
(* over one arena.  They are one here: neither client leaves its session   *)
(* open (CleanAfterwards).                                                 *)
(***************************************************************************)
EXTENDS Lab, NpuRuntime

VARIABLES
  sess,      \* sentinel_session_t and what its calls have opened
  memory     \* the arena and the four work buffers

sessionVars == <<sess, memory, npu>>

SessionPoints == {"idle", "reader", "nor", "crypto", "package", "fleet key",
                  "model key", "chunk", "decrypt", "release", "parse",
                  "npu", "infer", "close npu", "close model", "close reader",
                  "close crypto", "erase"}
Mutexes == {"saes", "npu"}

Sessions == [pc : SessionPoints, mutexes : SUBSET Mutexes,
             reader_open : BOOLEAN, file : BOOLEAN, crypto_open : BOOLEAN,
             keys : SUBSET {"fleet", "model"}, locked : BOOLEAN,
             npu_open : BOOLEAN, failed : BOOLEAN]
Memories == [arena : {"zero", "part", "payload"}, work : BOOLEAN]

SessionTypeOK == sess \in Sessions /\ memory \in Memories /\ npu \in Npus

NoSession == [pc |-> "idle", mutexes |-> {}, reader_open |-> FALSE,
              file |-> FALSE, crypto_open |-> FALSE, keys |-> {},
              locked |-> FALSE, npu_open |-> FALSE, failed |-> FALSE]

SessionInit ==
  /\ sess = NoSession
  /\ memory = [arena |-> "zero", work |-> FALSE]
  /\ NpuInit

SessAt(point) == sess.pc = point
Present == media.state = "PRESENT"

\* session_open returns a stage that is not 0: the caller cleans up.
Fails == [sess EXCEPT !.pc = "close npu", !.failed = TRUE]

----------------------------------------------------------------------------
(* session_open.                                                           *)

OpenBegin ==
  /\ SessAt("idle") /\ provider = "open"
  /\ \E created \in SUBSET Mutexes :
       sess' = [NoSession EXCEPT
         !.mutexes = created,
         !.pc = IF created = Mutexes THEN "reader" ELSE "close npu",
         !.failed = created # Mutexes]
  /\ UNCHANGED <<provider, memory, npu>>

\* mtfs_sealed_reader_fatfs_open.
OpenReader ==
  /\ SessAt("reader")
  /\ \/ /\ Present
        /\ sess' = [sess EXCEPT !.pc = "nor", !.reader_open = TRUE,
                                !.file = TRUE]
     \/ sess' = Fails
  /\ UNCHANGED <<provider, memory, npu>>
OpenNor ==
  /\ SessAt("nor")
  /\ sess' \in {[sess EXCEPT !.pc = "crypto"], Fails}
  /\ UNCHANGED <<provider, memory, npu>>
OpenCrypto ==
  /\ SessAt("crypto")
  /\ sess' \in {[sess EXCEPT !.pc = "package", !.crypto_open = TRUE], Fails}
  /\ UNCHANGED <<provider, memory, npu>>

\* mtfs_model_open: preamble, metadata and envelope are read, then the keys
\* are opened.  mtfs_open_fail closes the keys and erases the work buffers.
OpenFail ==
  /\ sess' = [Fails EXCEPT !.keys = {}]
  /\ memory' = [memory EXCEPT !.work = FALSE]
ReadPackage ==
  /\ SessAt("package")
  /\ \/ /\ Present
        /\ sess' = [sess EXCEPT !.pc = "fleet key"]
        /\ memory' = [memory EXCEPT !.work = TRUE]
     \/ OpenFail
  /\ UNCHANGED <<provider, npu>>
OpenFleetKey ==
  /\ SessAt("fleet key")
  /\ \/ /\ sess' = [sess EXCEPT !.pc = "model key", !.keys = {"fleet"}]
        /\ UNCHANGED memory
     \/ OpenFail
  /\ UNCHANGED <<provider, npu>>
\* With the policy of mtfs_model_open, whose refusal closes the blob; then
\* session_open clears the arena.
OpenModelKey ==
  /\ SessAt("model key")
  /\ \/ /\ sess' = [sess EXCEPT !.pc = "chunk", !.keys = @ \cup {"model"}]
        /\ memory' = [memory EXCEPT !.arena = "zero"]
     \/ OpenFail
  /\ UNCHANGED <<provider, npu>>

\* mtfs_model_load, chunk by chunk.  mtfs_load_fail erases what is loaded.
LoadFail ==
  /\ sess' = [Fails EXCEPT !.keys = {}]
  /\ memory' = [arena |-> "zero", work |-> FALSE]
ReadChunk ==
  /\ SessAt("chunk")
  /\ \/ /\ Present
        /\ sess' = [sess EXCEPT !.pc = "decrypt"]
        /\ UNCHANGED memory
     \/ LoadFail
  /\ UNCHANGED <<provider, npu>>
DecryptChunk ==
  /\ SessAt("decrypt")
  /\ \/ /\ sess' = [sess EXCEPT !.pc = "chunk"]
        /\ memory' = [memory EXCEPT !.arena = "part"]
     \/ /\ sess' = [sess EXCEPT !.pc = "release"]
        /\ memory' = [memory EXCEPT !.arena = "payload"]
     \/ LoadFail
  /\ UNCHANGED <<provider, npu>>

\* The card is no longer needed.  A close that fails has closed all the same.
ReleaseReader ==
  /\ SessAt("release")
  /\ sess' \in {[sess EXCEPT !.pc = "parse", !.file = FALSE,
                             !.reader_open = FALSE],
                [Fails EXCEPT !.file = FALSE]}
  /\ UNCHANGED <<provider, memory, npu>>
\* Bundle, baseline, memory plan, CPU, policy: nothing is opened.
Parse ==
  /\ SessAt("parse")
  /\ sess' \in {[sess EXCEPT !.pc = "npu"], Fails}
  /\ UNCHANGED <<provider, memory, npu>>

\* mtfs_sentinel_npu_open: an installation that fails erases its part of the
\* arena and gives the lock back.
OpenNpu ==
  /\ SessAt("npu")
  /\ \/ /\ sess' = [sess EXCEPT !.pc = "idle", !.npu_open = TRUE,
                                !.locked = TRUE]
        /\ npu' = Installed
        /\ Reply(TRUE)
        /\ UNCHANGED memory
     \/ /\ sess' = Fails
        /\ memory' \in {memory, [memory EXCEPT !.arena = "part"]}
        /\ UNCHANGED <<npu, provider>>

Open ==
  \/ OpenBegin \/ OpenReader \/ OpenNor \/ OpenCrypto \/ ReadPackage
  \/ OpenFleetKey \/ OpenModelKey \/ ReadChunk \/ DecryptChunk
  \/ ReleaseReader \/ Parse \/ OpenNpu

----------------------------------------------------------------------------
(* The calls of an open session.  Each is refused without one, which no    *)
(* client asks for: the refusal is no step here.                           *)

InferNpu ==
  /\ SessAt("idle") /\ provider = "npu" /\ sess.npu_open
  /\ sess' = [sess EXCEPT !.pc = "infer"]
  /\ NpuGoto("begin")
  /\ UNCHANGED <<provider, memory>>
\* The output, or a requantization or a score out of range.
InferNpuOver ==
  /\ SessAt("infer") /\ NpuAt("over")
  /\ sess' = [sess EXCEPT !.pc = "idle"]
  /\ NpuGoto("idle")
  /\ \E ok \in BOOLEAN : (ok => npu.ok) /\ Reply(ok)
  /\ UNCHANGED memory
\* In the scratch part of the arena.
InferCpu ==
  /\ SessAt("idle") /\ provider = "cpu" /\ sess.npu_open
  /\ \E ok \in BOOLEAN : Reply(ok)
  /\ UNCHANGED sessionVars

----------------------------------------------------------------------------
(* session_cleanup.                                                        *)

\* Mutant: the arena is erased first.
CloseBeginErasing ==
  /\ SessAt("idle") /\ provider = "close"
  /\ sess' = [sess EXCEPT !.pc = "close npu", !.failed = FALSE]
  /\ memory' = [memory EXCEPT !.arena = "zero"]
  /\ UNCHANGED <<provider, npu>>

CloseBegin ==
  /\ SessAt("idle") /\ provider = "close"
  /\ sess' = [sess EXCEPT !.pc = "close npu", !.failed = FALSE]
  /\ UNCHANGED <<provider, memory, npu>>

\* mtfs_sentinel_npu_close: target, its part of the arena, lock.
CloseNpu ==
  /\ SessAt("close npu")
  /\ sess' = [sess EXCEPT !.pc = "close model", !.npu_open = FALSE,
                          !.locked = @ /\ ~sess.npu_open]
  /\ npu' = IF sess.npu_open THEN Uninstalled ELSE npu
  /\ memory' = IF sess.npu_open THEN [memory EXCEPT !.arena = "part"]
                                ELSE memory
  /\ UNCHANGED provider
\* mtfs_model_close closes the keys that are still open.
CloseModel ==
  /\ SessAt("close model")
  /\ sess' = [sess EXCEPT !.pc = "close reader", !.keys = {}]
  /\ memory' = [memory EXCEPT !.work = FALSE]
  /\ UNCHANGED <<provider, npu>>
\* What the close makes of a card that has gone is not an error.
CloseReader ==
  /\ SessAt("close reader")
  /\ \E failed \in BOOLEAN :
       /\ failed => sess.reader_open
       /\ sess' = [sess EXCEPT !.pc = "close crypto", !.file = FALSE,
                               !.reader_open = FALSE,
                               !.failed = @ \/ failed]
  /\ UNCHANGED <<provider, memory, npu>>
CloseCrypto ==
  /\ SessAt("close crypto")
  /\ sess' = [sess EXCEPT !.pc = "erase", !.crypto_open = FALSE,
                          !.keys = IF sess.crypto_open THEN {} ELSE @]
  /\ UNCHANGED <<provider, memory, npu>>
\* Mutant: the arena is left to the NPU provider, which erases its part.
EraseWorkOnly ==
  /\ SessAt("erase")
  /\ sess' = [sess EXCEPT !.pc = "idle", !.mutexes = {}]
  /\ memory' = [memory EXCEPT !.work = FALSE]
  /\ Reply(~sess.failed)
  /\ UNCHANGED npu

Erase ==
  /\ SessAt("erase")
  /\ sess' = [sess EXCEPT !.pc = "idle",
                          !.mutexes = IF sess.npu_open THEN @ ELSE {}]
  /\ memory' = [arena |-> IF sess.npu_open THEN memory.arena ELSE "zero",
                work |-> FALSE]
  /\ Reply(~sess.failed)
  /\ UNCHANGED npu

Cleanup == CloseNpu \/ CloseModel \/ CloseReader \/ CloseCrypto \/ Erase

----------------------------------------------------------------------------
SessionNext ==
  \/ Open \/ CloseBegin \/ Cleanup
  \/ InferNpu \/ InferNpuOver \/ InferCpu
  \/ (NpuTask \/ NpuHardware) /\ UNCHANGED <<provider, sess, memory>>

----------------------------------------------------------------------------
(* Properties.                                                             *)

\* The comment of session_cleanup: the plaintext that backs the NPU is not
\* erased, or given to the next model, before the NPU is closed.
BackingNotErased == npu.installed => memory.arena = "payload"

\* After a failed open and after every close, whatever had been opened by
\* then: no plaintext and no key is left, no file, no lock, no mutex, and the
\* NPU is off.  An open session holds no file: it does not need the card.
CleanAfterwards ==
  SessAt("idle") =>
    /\ ~sess.file
    /\ ~sess.npu_open =>
         /\ memory = [arena |-> "zero", work |-> FALSE]
         /\ sess.keys = {} /\ sess.mutexes = {} /\ ~sess.locked
         /\ ~npu.installed /\ npu.pc = "idle"
=============================================================================
