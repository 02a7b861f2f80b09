------------------------------ MODULE BringUp ------------------------------
(***************************************************************************)
(* Bringing the GPU up: the InitDevice and LoadFirmware calls of           *)
(* dext/MacAMDGPU.cpp, the ladder of stages of dext/amdgpu/amdgpu_init.cpp *)
(* and the parts it starts: the PSP and its command ring (psp_v14_0.cpp),  *)
(* the SMU mailbox (smu_v14_0.cpp), the command processor (cp_v12_0.cpp),  *)
(* the MES pipes (mes_v12_1.cpp) and SDMA (sdma_v7_0.cpp).                 *)
(*                                                                         *)
(* Calls run one at a time on the driver queue; the firmware behind the    *)
(* rings and the mailbox runs by itself.  A call holds the functions it    *)
(* still has to run; one step runs one of them.  The answer to a command   *)
(* may come in time, may refuse it, or may come after the driver stopped   *)
(* waiting, and then the firmware may still be working on the command when *)
(* the client calls again.                                                 *)
(*                                                                         *)
(* psp_setup_fw_buf_sysmem and psp_load_non_psp_fw have no callers; the    *)
(* SETUP_TMR command is for other PSP families.                            *)
(***************************************************************************)
EXTENDS Integers, Sequences

CONSTANTS
    Files,          \* firmware files for LOAD_IP_FW
    Payloads,       \* Payloads[f]: what amdgpu_ucode_extract finds in file f
    CPFiles,        \* files with an entry in cp.firmware
    MESFiles,       \* files treated as a MES package
    MESPayloads,    \* the images that make MES usable: mesPayloadMask = 0xf
    Packages,       \* SOS packages: has a TOC, has a register list
    FwBufSlots,     \* room for staged images in fw_buf
    Targets,        \* stages a client asks InitDevice for
    SDMAInstances   \* the SDMA engines, in order

ASSUME BringUpAssumption ==
    /\ Payloads \in [Files -> Seq(STRING)]
    /\ CPFiles \subseteq Files /\ MESFiles \subseteq Files
    /\ MESPayloads \subseteq STRING
    /\ Packages \subseteq [toc : BOOLEAN, rl : BOOLEAN]
    /\ FwBufSlots \in Nat /\ Targets \subseteq 0 .. 15 /\ SDMAInstances \in Seq(STRING)

VARIABLES
    reached,    \* bringup.reached
    blocked,    \* shutdownBlocked
    call,       \* the call in progress
    psp,        \* PSPContext
    bump,       \* fwBufBumpOffset, in slots
    loaded,     \* the microcode_loaded flags, cp.firmware and the MES flags
    cp,         \* CPContext
    mes,        \* MESContext
    smu,        \* mailbox latch, smuOnline and the metrics reservation
    wptr,       \* write pointer of each SDMA ring
    sos,        \* the PSP's secure OS is alive
    acked,      \* what the firmware has acknowledged in this session
    refused,    \* the PSP refused a command in this session
    out,        \* commands published to each unit and not answered
    maps        \* GFX queue mappings sent to the KIQ

driverVars == <<reached, psp, bump, loaded, cp, mes, smu, wptr>>
deviceVars == <<sos, acked, refused, out, maps>>
vars == <<blocked, call, driverVars, deviceVars>>

-----------------------------------------------------------------------------

\* BringupStage
IPDiscovery == 1
IHInit == 2
GMCInit == 3
PSPInit == 4
PSPLoadSOS == 5
PSPRingCreate == 6
TMRSetup == 7
PSPFwLoad == 8
SMUInit == 9
IMUInit == 10
RLCInit == 11
CPInit == 12
MESInit == 13
GFXInit == 14
SDMAInit == 15
Stages == 0 .. SDMAInit

Engines == {SDMAInstances[k] : k \in DOMAIN SDMAInstances}
Pipes == {"sched", "kiq"}
Units == Pipes \cup {"psp", "smu"}

\* MES commands, by the pipe they go to.
KIQCommands == {"KIQ_SET_HW_RSRC", "KIQ_SET_HW_RSRC_1", "MAP_SCHED", "MAP_GFX"}
SchedCommands == {"SET_HW_RSRC", "SET_HW_RSRC_1", "QUERY"}
PipeOf(command) == IF command \in KIQCommands THEN "kiq" ELSE "sched"

NoPackage == [toc |-> FALSE, rl |-> FALSE]
Op(fn, arg) == [fn |-> fn, arg |-> arg]

\* BringupContext as bringup_release_resources leaves it.
NoPSP == [fwPri |-> FALSE, sosAlive |-> FALSE, ring |-> FALSE, tmr |-> FALSE,
          complete |-> FALSE, pkg |-> NoPackage, asd |-> 0]
NoCP == [prepared |-> FALSE, started |-> FALSE, mqd |-> FALSE, ready |-> FALSE]
NoMES == [active |-> FALSE, pending |-> {}]
NoSMU == [pending |-> FALSE, online |-> FALSE, table |-> 0, setup |-> FALSE]
NoWork == [i \in Engines |-> 0]
Idle == [prog |-> <<>>, busy |-> FALSE, submitted |-> FALSE, wptr |-> NoWork]

\* After power-on or a function reset the secure OS may already be alive.
Init ==
    /\ reached = 0 /\ psp = NoPSP /\ bump = 0 /\ loaded = {} /\ cp = NoCP
    /\ mes = NoMES /\ smu = NoSMU /\ wptr = NoWork
    /\ sos \in BOOLEAN /\ acked = {} /\ refused = FALSE /\ maps = 0
    /\ out = [u \in Units |-> 0]
    /\ call = Idle /\ blocked = FALSE

-----------------------------------------------------------------------------
\* Running a call.

Running(fn) == call.prog # <<>> /\ Head(call.prog).fn = fn
Arg == Head(call.prog).arg
Then(ops) == call' = [call EXCEPT !.prog = ops \o Tail(@)] /\ UNCHANGED blocked
Continue == Then(<<>>)

\* Mutant: only a timeout blocks the session.
BlocksOnTimeout(error, submitted) == error = "Timeout"

\* A call that fails leaves the session blocked if it timed out or may have
\* handed work to the PSP or to SDMA since it began.
Blocks(error, submitted) ==
    error = "Timeout" \/ submitted \/ wptr' # call.wptr

FailAfter(error, submitted) ==
    call' = Idle /\ blocked' = Blocks(error, submitted)
Fail(error) == FailAfter(error, call.submitted)

Begin(prog) ==
    call' = [prog |-> prog, busy |-> TRUE, submitted |-> FALSE, wptr |-> wptr]

Succeed ==
    /\ call.busy /\ call.prog = <<>> /\ call' = Idle
    /\ UNCHANGED <<blocked, driverVars, deviceVars>>

\* A function that only programs registers, waits for a status bit or
\* allocates: it works or fails with one of the given errors.
Hardware ==
    /\ Running("hardware")
    /\ UNCHANGED <<driverVars, deviceVars>>
    /\ Continue \/ \E e \in Arg : Fail(e)

-----------------------------------------------------------------------------
\* The PSP.

psp_init ==
    /\ Running("psp_init")
    /\ UNCHANGED <<reached, loaded, cp, mes, smu, wptr, deviceVars>>
    /\ \/ psp.fwPri /\ Continue /\ UNCHANGED <<psp, bump>>
       \/ ~psp.fwPri /\ Fail("NotReady") /\ UNCHANGED <<psp, bump>>
       \/ /\ ~psp.fwPri /\ Continue /\ bump' = 0
          /\ psp' = [psp EXCEPT !.fwPri = TRUE, !.sosAlive = FALSE]

\* The slot psp.sosFirmware is only set inside psp_load_sos_package, so the
\* stage fails: SOS is loaded by LoadFirmware, which also moves the ladder.
psp_load_sos ==
    /\ Running("psp_load_sos") /\ UNCHANGED <<driverVars, deviceVars>>
    /\ Fail("BadArgument")

psp_ring_create ==
    /\ Running("psp_ring_create")
    /\ UNCHANGED <<reached, bump, loaded, cp, mes, smu, wptr, deviceVars>>
    /\ \/ psp.ring /\ Continue /\ UNCHANGED psp
       \/ ~psp.ring /\ ~psp.sosAlive /\ Fail("NotReady") /\ UNCHANGED psp
       \/ ~psp.ring /\ psp.sosAlive /\ Continue /\ psp' = [psp EXCEPT !.ring = TRUE]
       \/ /\ ~psp.ring /\ psp.sosAlive /\ UNCHANGED psp
          /\ \E e \in {"NotReady", "Timeout", "IOError"} : Fail(e)

\* Queries an older secure OS may not know: an unknown command is no failure.
Optional == {"FB_FW_RESERV_ADDR", "FB_FW_RESERV_EXT_ADDR"}

\* Commands after which nothing later asks whether they were acknowledged.
Untracked == Optional \cup {"TOC", "IMU_I", "SET_HW_RSRC_1"}
Ack(command) == acked' = acked \cup ({command} \ Untracked)

\* One frame on the PSP ring: counted, published, then polled for a second.
\* A write pointer that reads out of range stops it before it is counted.
psp_ring_cmd_submit ==
    /\ Running("psp_ring_cmd_submit")
    /\ UNCHANGED <<driverVars, sos, maps>>
    /\ \/ ~psp.ring /\ Fail("NotReady") /\ UNCHANGED <<acked, refused, out>>
       \/ psp.ring /\ Fail("InternalError") /\ UNCHANGED <<acked, refused, out>>
       \/ /\ psp.ring /\ Ack(Arg)
          /\ call' = [call EXCEPT !.prog = Tail(@), !.submitted = TRUE]
          /\ UNCHANGED <<blocked, refused, out>>
       \/ /\ psp.ring /\ FailAfter("Error", TRUE) /\ refused' = TRUE
          /\ UNCHANGED <<acked, out>>
       \/ /\ psp.ring /\ out' = [out EXCEPT !["psp"] = @ + 1]
          /\ \E e \in {"Timeout", "NotAttached"} : FailAfter(e, TRUE)
          /\ UNCHANGED <<acked, refused>>

\* The PSP set up its memory at boot; it wants the TOC of the SOS package.
psp_setup_tmr ==
    /\ Running("psp_setup_tmr")
    /\ UNCHANGED <<reached, bump, loaded, cp, mes, smu, wptr, deviceVars>>
    /\ \/ psp.tmr /\ Continue /\ UNCHANGED psp
       \/ ~psp.tmr /\ ~psp.ring /\ Fail("NotReady") /\ UNCHANGED psp
       \/ /\ ~psp.tmr /\ psp.ring /\ psp.pkg.toc
          /\ Then(<<Op("psp_ring_cmd_submit", "TOC"), Op("tmr_is_set_up", "")>>)
          /\ UNCHANGED psp
       \/ /\ ~psp.tmr /\ psp.ring /\ ~psp.pkg.toc
          /\ Continue /\ psp' = [psp EXCEPT !.tmr = TRUE]

tmr_is_set_up ==
    /\ Running("tmr_is_set_up") /\ Continue /\ psp' = [psp EXCEPT !.tmr = TRUE]
    /\ UNCHANGED <<reached, bump, loaded, cp, mes, smu, wptr, deviceVars>>

psp_load_ip_fw ==
    /\ Running("psp_load_ip_fw") /\ UNCHANGED <<driverVars, deviceVars>>
    /\ IF psp.tmr THEN Then(<<Op("psp_ring_cmd_submit", Arg)>>)
                  ELSE Fail("NotReady")

\* Nothing to do when no ASD image was staged.
psp_asd_initialize ==
    /\ Running("psp_asd_initialize") /\ UNCHANGED <<driverVars, deviceVars>>
    /\ IF psp.asd = 0 THEN Continue
                      ELSE Then(<<Op("psp_ring_cmd_submit", "ASD")>>)

\* Nothing to do when the package has no register list.  The staged copy is
\* read back before the PSP is told.
psp_rl_load ==
    /\ Running("psp_rl_load") /\ UNCHANGED <<driverVars, deviceVars>>
    /\ IF psp.pkg.rl
       THEN Then(<<Op("psp_load_ip_fw", "REG_LIST")>>) \/ Fail("IOError")
       ELSE Continue

HasRoom == bump < FwBufSlots

\* Mutant: the bump pointer is not moved past the image.
StageInPlace == bump' = bump

\* Slot bump + 1 of fw_buf is written; the bump pointer moves past it.
Stage == bump' = bump + 1

\* A fresh parse forgets the earlier ASD, then stages the one it finds.
psp_parse_ta_microcode ==
    /\ Running("psp_parse_ta_microcode")
    /\ UNCHANGED <<reached, loaded, cp, mes, smu, wptr, deviceVars>>
    /\ \/ \E e \in {"BadArgument", "Unsupported"} :
              Fail(e) /\ psp' = [psp EXCEPT !.asd = 0] /\ UNCHANGED bump
       \/ Continue /\ psp' = [psp EXCEPT !.asd = 0] /\ UNCHANGED bump
       \/ /\ ~HasRoom /\ Fail("NoSpace")
          /\ psp' = [psp EXCEPT !.asd = 0] /\ UNCHANGED bump
       \/ /\ HasRoom /\ Continue /\ Stage
          /\ psp' = [psp EXCEPT !.asd = bump + 1]

\* The package is copied; a bad one leaves the retained one in place.
psp_parse_sos_microcode ==
    /\ Running("psp_parse_sos_microcode")
    /\ UNCHANGED <<reached, bump, loaded, cp, mes, smu, wptr, deviceVars>>
    /\ \/ Fail("BadArgument") /\ UNCHANGED psp
       \/ \E p \in Packages :
              Continue /\ psp' = [psp EXCEPT !.pkg = p, !.complete = FALSE]

\* The boot loader takes the parts of the package in turn, SOS last.
psp_load_sos_package ==
    /\ Running("psp_load_sos_package")
    /\ UNCHANGED <<bump, loaded, cp, mes, smu, wptr,
                   acked, refused, out, maps>>
    /\ \/ /\ Continue /\ sos' = TRUE /\ psp' = [psp EXCEPT !.sosAlive = TRUE]
          /\ reached' = IF reached < PSPLoadSOS THEN PSPLoadSOS ELSE reached
       \/ /\ ~sos /\ UNCHANGED <<psp, sos, reached>>
          /\ \E e \in {"BadArgument", "NoSpace", "Timeout", "NotAttached"} : Fail(e)

\* One boot-loader part by itself; skipped once SOS is alive.
psp_bootloader_load_component ==
    /\ Running("psp_bootloader_load_component")
    /\ UNCHANGED <<driverVars, deviceVars>>
    /\ \/ ~psp.fwPri /\ Fail("NotReady")
       \/ psp.fwPri /\ Continue
       \/ psp.fwPri /\ ~sos /\ Fail("Timeout")

psp_load_toc ==
    /\ Running("psp_load_toc") /\ UNCHANGED <<driverVars, deviceVars>>
    /\ \/ ~psp.ring /\ Fail("NotReady")
       \/ psp.ring /\ Fail("BadArgument")
       \/ psp.ring /\ Then(<<Op("psp_ring_cmd_submit", "TOC")>>)

-----------------------------------------------------------------------------
\* The SMU mailbox: one message at a time.  The latch smuMessagePending says
\* that the last one was never seen answered.

\* Mutant: the latch is not looked at.
MailboxAlwaysFree == TRUE

\* Whether the mailbox may be written: without the latch always, with it only
\* when the firmware has answered the earlier message.
MailboxFree == ~smu.pending \/ out["smu"] = 0

\* What a failed message means to its caller: required messages stop the
\* stage, the others are logged.
MessageFails(error) == IF Arg = "required" THEN Fail(error) ELSE Continue

smu_send_msg ==
    /\ Running("smu_send_msg")
    /\ UNCHANGED <<reached, psp, bump, loaded, cp, mes, wptr,
                   sos, acked, refused, maps>>
    /\ \/ smu.pending /\ MessageFails("NotAttached") /\ UNCHANGED <<smu, out>>
       \/ ~MailboxFree /\ MessageFails("Timeout") /\ UNCHANGED <<smu, out>>
       \/ /\ MailboxFree /\ smu' = [smu EXCEPT !.pending = FALSE]
          /\ UNCHANGED out
          /\ Continue \/ MessageFails("Error")
       \/ /\ MailboxFree /\ smu' = [smu EXCEPT !.pending = TRUE]
          /\ out' = [out EXCEPT !["smu"] = @ + 1]
          /\ \E e \in {"Timeout", "NotAttached"} : MessageFails(e)

smu_is_online ==
    /\ Running("smu_is_online") /\ Continue
    /\ smu' = [smu EXCEPT !.online = TRUE]
    /\ UNCHANGED <<reached, psp, bump, loaded, cp, mes, wptr, deviceVars>>

\* The driver table is reserved once; a stage that failed after the
\* reservation can only be repeated after a reset.
smu_setup_begin ==
    /\ Running("smu_setup_begin") /\ UNCHANGED <<driverVars, deviceVars>>
    /\ IF smu.table # 0 THEN Fail("Busy") ELSE Continue

smu_metrics_reserve ==
    /\ Running("smu_metrics_reserve")
    /\ UNCHANGED <<reached, psp, loaded, cp, mes, wptr, deviceVars>>
    /\ \/ ~HasRoom /\ Fail("NoSpace") /\ UNCHANGED <<bump, smu>>
       \/ /\ HasRoom /\ Continue /\ Stage
          /\ smu' = [smu EXCEPT !.table = bump + 1]

smu_setup_complete ==
    /\ Running("smu_setup_complete") /\ Continue
    /\ smu' = [smu EXCEPT !.setup = ~smu.pending]
    /\ UNCHANGED <<reached, psp, bump, loaded, cp, mes, wptr, deviceVars>>

Message(kind) == Op("smu_send_msg", kind)

\* SMUInit: TestMessage, GetSmuVersion, then smu_smc_hw_setup, whose messages
\* are GetDriverIfVersion, the table address in two halves, the power table,
\* calibration, the power source, two feature masks, EnableAllSmuFeatures and
\* two queries.
SMUOps ==
    <<Message("required"), Message("best effort"), Op("smu_is_online", ""),
      Op("smu_setup_begin", ""), Message("required"),
      Op("smu_metrics_reserve", ""),
      Message("required"), Message("required"), Message("best effort"),
      Message("required"), Message("best effort"), Message("best effort"),
      Message("best effort"), Message("required"), Message("best effort"),
      Message("best effort"), Op("smu_setup_complete", "")>>

-----------------------------------------------------------------------------
\* The MES pipes: one command and its chained query at a time on each.

\* Fence slots are cleared, the two frames written, the latch set, the
\* doorbell rung, the query fence polled.  The latch is only cleared by an
\* answer seen in time.
mes_submit_pkt ==
    /\ Running("mes_submit_pkt")
    /\ UNCHANGED <<reached, psp, bump, loaded, cp, smu, wptr, sos, refused>>
    /\ LET pipe == PipeOf(Arg)
           Latch == mes' = [mes EXCEPT !.pending = @ \cup {pipe}]
           Send == maps' = IF Arg = "MAP_GFX" THEN maps + 1 ELSE maps
       IN \/ /\ pipe \in mes.pending /\ Fail("Busy")
             /\ UNCHANGED <<mes, acked, out, maps>>
          \/ /\ pipe \notin mes.pending /\ Fail("IOError")
             /\ UNCHANGED <<mes, acked, out, maps>>
          \/ /\ pipe \notin mes.pending /\ Fail("IOError")
             /\ Latch /\ UNCHANGED <<acked, out, maps>>
          \/ /\ pipe \notin mes.pending /\ Continue /\ Send
             /\ Ack(Arg) /\ UNCHANGED <<mes, out>>
          \/ /\ pipe \notin mes.pending /\ Fail("InternalError") /\ Send
             /\ UNCHANGED <<mes, acked, out>>
          \/ /\ pipe \notin mes.pending /\ Latch /\ Send
             /\ out' = [out EXCEPT ![pipe] = @ + 1]
             /\ \E e \in {"Timeout", "NotAttached"} : Fail(e)
             /\ UNCHANGED acked

Submit(command) == Op("mes_submit_pkt", command)

\* Storage for both pipes, then mes_enable restarts them: what a pipe had
\* acknowledged before is gone.
mes_enable ==
    /\ Running("mes_enable")
    /\ UNCHANGED <<reached, psp, bump, loaded, cp, smu, wptr,
                   sos, refused, out, maps>>
    /\ \/ "mes" \notin loaded /\ Fail("NotReady") /\ UNCHANGED <<mes, acked>>
       \/ "mes" \in loaded /\ Fail("NoMemory") /\ UNCHANGED <<mes, acked>>
       \/ /\ "mes" \in loaded /\ mes' = [mes EXCEPT !.active = TRUE]
          /\ acked' = acked \ (KIQCommands \cup SchedCommands)
          /\ Continue \/ Fail("NotReady")

\* SET_HW_RESOURCES_1 is only for newer schedulers.
mes_scheduler_resources_1 ==
    /\ Running("mes_scheduler_resources_1")
    /\ UNCHANGED <<driverVars, deviceVars>>
    /\ Continue \/ Then(<<Submit("SET_HW_RSRC_1")>>)

\* mes_init_full.  The KIQ is set up through registers and maps the scheduler.
MESOps ==
    <<Op("cp_start_engines", ""), Op("mes_enable", ""),
      Op("hardware", {"IOError"}), Submit("KIQ_SET_HW_RSRC"),
      Submit("KIQ_SET_HW_RSRC_1"), Op("hardware", {"IOError"}),
      Submit("MAP_SCHED"), Op("hardware", {"NotReady"}),
      Submit("SET_HW_RSRC"), Op("mes_scheduler_resources_1", ""),
      Op("hardware", {"NotReady"}), Submit("QUERY")>>

-----------------------------------------------------------------------------
\* The command processor and SDMA.

\* Repeating it is harmless; it needs every CP file.
cp_prepare_firmware ==
    /\ Running("cp_prepare_firmware")
    /\ UNCHANGED <<reached, psp, bump, loaded, mes, smu, wptr, deviceVars>>
    /\ \/ cp.prepared /\ Continue /\ UNCHANGED cp
       \/ /\ ~cp.prepared /\ UNCHANGED cp
          /\ \E e \in {"NoMemory", "Timeout"} : Fail(e)
       \/ ~cp.prepared /\ ~(CPFiles \subseteq loaded) /\ Fail("NotReady") /\ UNCHANGED cp
       \/ /\ ~cp.prepared /\ CPFiles \subseteq loaded
          /\ Continue /\ cp' = [cp EXCEPT !.prepared = TRUE]

cp_start_engines ==
    /\ Running("cp_start_engines")
    /\ UNCHANGED <<reached, psp, bump, loaded, mes, smu, wptr, deviceVars>>
    /\ \/ ~cp.prepared /\ Fail("NotReady") /\ UNCHANGED cp
       \/ cp.prepared /\ cp.started /\ Continue /\ UNCHANGED cp
       \/ cp.prepared /\ ~cp.started /\ Fail("Timeout") /\ UNCHANGED cp
       \/ /\ cp.prepared /\ ~cp.started
          /\ Continue /\ cp' = [cp EXCEPT !.started = TRUE]

FirmwareOwnsMQD == cp.mqd

\* The queue descriptor belongs to the firmware from the first attempt on: a
\* second attempt is refused even if the first one failed.
cp_map_gfx_queue ==
    /\ Running("cp_map_gfx_queue")
    /\ UNCHANGED <<reached, psp, bump, loaded, mes, smu, wptr, deviceVars>>
    /\ \/ ~(cp.started /\ mes.active) /\ Fail("NotReady") /\ UNCHANGED cp
       \/ cp.started /\ mes.active /\ FirmwareOwnsMQD /\ Fail("NotReady") /\ UNCHANGED cp
       \/ cp.started /\ mes.active /\ ~FirmwareOwnsMQD /\ Fail("NoMemory") /\ UNCHANGED cp
       \/ /\ cp.started /\ mes.active /\ ~FirmwareOwnsMQD
          /\ cp' = [cp EXCEPT !.mqd = TRUE]
          /\ Fail("IOError") \/ Then(<<Submit("MAP_GFX"), Op("cp_is_ready", "")>>)

cp_is_ready ==
    /\ Running("cp_is_ready") /\ Continue /\ cp' = [cp EXCEPT !.ready = TRUE]
    /\ UNCHANGED <<reached, psp, bump, loaded, mes, smu, wptr, deviceVars>>

cp_init_full ==
    /\ Running("cp_init_full") /\ UNCHANGED <<driverVars, deviceVars>>
    /\ \/ cp.ready /\ Continue
       \/ ~cp.ready /\ ~(cp.prepared /\ cp.started) /\ Fail("NotReady")
       \/ /\ ~cp.ready /\ cp.prepared /\ cp.started
          /\ Then(<<Op("cp_map_gfx_queue", "")>>)

sdma_gfx_resume_instance ==
    /\ Running("sdma_gfx_resume_instance")
    /\ UNCHANGED <<reached, psp, bump, loaded, cp, mes, smu, deviceVars>>
    /\ \/ wptr' = [wptr EXCEPT ![Arg] = 0] /\ Continue
       \/ UNCHANGED wptr /\ Fail("NotReady")

\* The fence slot is cleared and read back; then a fence packet of four words
\* is written to the ring, the doorbell rung and the slot polled.
sdma_ring_test ==
    /\ Running("sdma_ring_test")
    /\ UNCHANGED <<reached, psp, bump, loaded, cp, mes, smu,
                   sos, refused, out, maps>>
    /\ \/ UNCHANGED <<wptr, acked>> /\ Fail("IOError")
       \/ /\ wptr' = [wptr EXCEPT ![Arg] = @ + 4] /\ UNCHANGED acked
          /\ \E e \in {"Timeout", "IOError"} : Fail(e)
       \/ /\ wptr' = [wptr EXCEPT ![Arg] = @ + 4] /\ Continue
          /\ Ack(Arg)

-----------------------------------------------------------------------------
\* The ladder.

\* A stage that only looks at the flags LoadFirmware sets.
require_loaded ==
    /\ Running("require_loaded") /\ UNCHANGED <<driverVars, deviceVars>>
    /\ IF Arg \subseteq loaded THEN Continue ELSE Fail("NotReady")

psp_fw_load_check ==
    /\ Running("psp_fw_load_check") /\ UNCHANGED <<driverVars, deviceVars>>
    /\ IF psp.sosAlive /\ psp.complete
       THEN Then(<<Op("require_loaded", {"rlc", "imu", "sdma"})>>)
       ELSE Fail("NotReady")

ForEachSDMA(fn) == [k \in 1 .. Len(SDMAInstances) |-> Op(fn, SDMAInstances[k])]

\* run_stage
StageOps(stage) ==
    CASE stage \in {IPDiscovery, IHInit} -> <<Op("hardware", {"NotReady"})>>
      [] stage = GMCInit -> <<Op("hardware", {"NoMemory", "Timeout"})>>
      [] stage = PSPInit -> <<Op("psp_init", "")>>
      [] stage = PSPLoadSOS -> <<Op("psp_load_sos", "")>>
      [] stage = PSPRingCreate ->
             <<Op("psp_ring_create", ""),
               Op("psp_ring_cmd_submit", "FB_FW_RESERV_ADDR"),
               Op("psp_ring_cmd_submit", "FB_FW_RESERV_EXT_ADDR")>>
      [] stage = TMRSetup -> <<Op("psp_setup_tmr", "")>>
      [] stage = PSPFwLoad -> <<Op("psp_fw_load_check", "")>>
      [] stage = SMUInit -> SMUOps
      [] stage = IMUInit -> <<Op("require_loaded", {"imu"})>>
      [] stage = RLCInit -> <<Op("require_loaded", {"rlc"}),
                              Op("hardware", {"Timeout", "NotAttached"})>>
      [] stage = CPInit -> <<Op("cp_prepare_firmware", ""),
                             Op("hardware", {"NotReady", "Timeout"}),
                             Op("require_loaded", {"rlc"}),
                             Op("hardware", {"NoMemory"})>>
      [] stage = MESInit -> MESOps
      [] stage = GFXInit -> <<Op("cp_init_full", "")>>
      [] stage = SDMAInit -> <<Op("hardware", {"NoMemory"}),
                               Op("require_loaded", {"sdma"})>>
                             \o ForEachSDMA("sdma_gfx_resume_instance")
                             \o ForEachSDMA("sdma_ring_test")

\* One turn of the loop in bringup_to: the stages above `reached', in order.
bringup_to ==
    /\ Running("bringup_to") /\ UNCHANGED <<driverVars, deviceVars>>
    /\ IF reached >= Arg
       THEN Continue
       ELSE Then(StageOps(reached + 1) \o <<Op("stage_done", ""), Head(call.prog)>>)

stage_done ==
    /\ Running("stage_done") /\ Continue /\ reached' = reached + 1
    /\ UNCHANGED <<psp, bump, loaded, cp, mes, smu, wptr, deviceVars>>

-----------------------------------------------------------------------------
\* The calls.

InitDevice(target) ==
    /\ call = Idle /\ ~blocked /\ Begin(<<Op("bringup_to", target)>>)
    /\ UNCHANGED <<blocked, driverVars, deviceVars>>

\* Every upload first forgets that the firmware chain was complete.
LoadFirmware(prog) ==
    /\ call = Idle /\ ~blocked /\ Begin(prog)
    /\ psp' = [psp EXCEPT !.complete = FALSE]
    /\ UNCHANGED <<blocked, reached, bump, loaded, cp, mes, smu, wptr, deviceVars>>

LoadSOS ==
    LoadFirmware(<<Op("bringup_to", PSPInit), Op("psp_parse_sos_microcode", ""),
                   Op("psp_load_sos_package", "")>>)
LoadTA ==
    LoadFirmware(<<Op("bringup_to", PSPInit), Op("psp_parse_ta_microcode", "")>>)
LoadTOC == LoadFirmware(<<Op("psp_load_toc", "")>>)
LoadComponent == LoadFirmware(<<Op("psp_bootloader_load_component", "")>>)
LoadFile(f) == LoadFirmware(<<Op("open_file", f)>>)

\* Headers are checked and what an earlier upload of the file had achieved is
\* forgotten.  CP files cannot be replaced once their entry points are in use.
open_file ==
    /\ Running("open_file")
    /\ UNCHANGED <<reached, psp, bump, cp, mes, smu, wptr, deviceVars>>
    /\ LET forgotten == (IF Arg \in CPFiles THEN {Arg} ELSE {})
                        \cup (IF Arg \in MESFiles THEN {"mes"} ELSE {})
       IN \/ ~psp.fwPri /\ Fail("NotReady") /\ UNCHANGED loaded
          \/ /\ psp.fwPri /\ Arg \in CPFiles /\ (cp.prepared \/ cp.ready)
             /\ Fail("Busy") /\ UNCHANGED loaded
          \/ /\ psp.fwPri /\ ~(Arg \in CPFiles /\ (cp.prepared \/ cp.ready))
             /\ loaded' = loaded \ forgotten
             /\ Then(<<Op("payload_loop", <<Arg, 1>>)>>) \/ Fail("BadArgument")
          \/ /\ psp.fwPri /\ ~(Arg \in CPFiles /\ (cp.prepared \/ cp.ready))
             /\ loaded' = IF Arg \in CPFiles THEN loaded \ {Arg} ELSE loaded
             /\ Fail("Unsupported")

\* One turn of the loop over the images in the file: stage one, hand it over.
payload_loop ==
    /\ Running("payload_loop")
    /\ UNCHANGED <<reached, psp, loaded, cp, mes, smu, wptr, deviceVars>>
    /\ LET f == Arg[1]
           k == Arg[2]
       IN \/ /\ k > Len(Payloads[f]) /\ UNCHANGED bump
             /\ Then(<<Op("file_loaded", f)>>)
          \/ /\ k <= Len(Payloads[f]) /\ UNCHANGED bump
             /\ Fail("BadArgument") \/ (~HasRoom /\ Fail("NoSpace"))
          \/ /\ k <= Len(Payloads[f]) /\ HasRoom /\ Stage
             /\ Then(<<Op("psp_load_ip_fw", Payloads[f][k]),
                       Op("payload_acked", Payloads[f][k]),
                       Op("payload_loop", <<f, k + 1>>)>>)

\* RLC_G comes last and starts the autoload chain.
payload_acked ==
    /\ Running("payload_acked")
    /\ UNCHANGED <<reached, psp, bump, cp, mes, smu, wptr, deviceVars>>
    /\ loaded' = IF Arg = "IMU_D" THEN loaded \cup {"imu"} ELSE loaded
    /\ IF Arg # "RLC_G" THEN Continue
       ELSE Then(<<Op("psp_ring_cmd_submit", "AUTOLOAD_RLC"),
                   Op("rlc_autoload_started", ""), Op("psp_asd_initialize", ""),
                   Op("psp_rl_load", ""), Op("firmware_load_complete", "")>>)

rlc_autoload_started ==
    /\ Running("rlc_autoload_started") /\ Continue
    /\ loaded' = loaded \ {"rlc"}
    /\ UNCHANGED <<reached, psp, bump, cp, mes, smu, wptr, deviceVars>>

firmware_load_complete ==
    /\ Running("firmware_load_complete") /\ Continue
    /\ loaded' = loaded \cup {"rlc"} /\ psp' = [psp EXCEPT !.complete = TRUE]
    /\ UNCHANGED <<reached, bump, cp, mes, smu, wptr, deviceVars>>

\* Every payload of the file was acknowledged in this call.
PayloadsOf(f) == {Payloads[f][k] : k \in DOMAIN Payloads[f]}

MESComplete(f) == MESPayloads \subseteq PayloadsOf(f)

\* The names used for images, engines and commands are told apart: they are codes of different
\* enumerations (GfxFwType, MesOp) and indices.  The extractor finds IMU_I only in the IMU file.
ASSUME NamesAssumption ==
    /\ CPFiles \cap {"imu", "rlc", "sdma", "mes"} = {}
    /\ \A f \in Files : PayloadsOf(f) \cap (KIQCommands \cup SchedCommands) = {}
    /\ \A f \in CPFiles : PayloadsOf(f) \cap Untracked = {}
    /\ (MESPayloads \cup Engines) \cap (KIQCommands \cup SchedCommands \cup Untracked) = {}

\* amdgpu_ucode_extract lists RLC_G, which starts the autoload, last.
ASSUME LastAssumption ==
    \A f \in Files : \A k \in DOMAIN Payloads[f] : Payloads[f][k] = "RLC_G" => k = Len(Payloads[f])

file_loaded ==
    /\ Running("file_loaded")
    /\ UNCHANGED <<reached, psp, bump, cp, mes, smu, wptr, deviceVars>>
    /\ \/ /\ Arg \in MESFiles /\ ~MESComplete(Arg)
          /\ Fail("NotReady") /\ UNCHANGED loaded
       \/ /\ Arg \in MESFiles => MESComplete(Arg)
          /\ Continue
          /\ loaded' = loaded \cup (IF Arg \in MESFiles THEN {"mes"} ELSE {})
                       \cup (IF Arg \in CPFiles THEN {Arg} ELSE {})
                       \cup (IF "SDMA" \in PayloadsOf(Arg) THEN {"sdma"} ELSE {})

FunctionReset ==
    /\ sos' \in BOOLEAN /\ acked' = {} /\ refused' = FALSE /\ maps' = 0
    /\ out' = [u \in Units |-> 0]

bringup_release_resources ==
    /\ reached' = 0 /\ psp' = NoPSP /\ bump' = 0 /\ loaded' = {} /\ cp' = NoCP
    /\ mes' = NoMES /\ smu' = NoSMU /\ wptr' = NoWork

\* One that fails keeps the driver's state and the session blocked; the
\* device may have been reset by then.
ShutdownGPU ==
    /\ call = Idle /\ UNCHANGED call
    /\ \/ blocked' = FALSE /\ FunctionReset /\ bringup_release_resources
       \/ /\ blocked' = TRUE /\ smu' = [smu EXCEPT !.setup = FALSE]
          /\ UNCHANGED <<reached, psp, bump, loaded, cp, mes, wptr>>
          /\ UNCHANGED deviceVars \/ FunctionReset

\* Firmware answers a command the driver no longer waits for.
LateAnswer(u) ==
    /\ out[u] > 0 /\ out' = [out EXCEPT ![u] = @ - 1]
    /\ UNCHANGED <<blocked, call, driverVars, sos, acked, refused, maps>>

Step ==
    \/ Hardware \/ Succeed
    \/ psp_init \/ psp_load_sos \/ psp_ring_create \/ psp_ring_cmd_submit
    \/ psp_setup_tmr \/ tmr_is_set_up \/ psp_load_ip_fw \/ psp_asd_initialize
    \/ psp_rl_load \/ psp_parse_ta_microcode \/ psp_parse_sos_microcode
    \/ psp_load_sos_package \/ psp_bootloader_load_component \/ psp_load_toc
    \/ smu_send_msg \/ smu_is_online \/ smu_setup_begin \/ smu_metrics_reserve
    \/ smu_setup_complete
    \/ mes_submit_pkt \/ mes_enable \/ mes_scheduler_resources_1
    \/ cp_prepare_firmware \/ cp_start_engines \/ cp_map_gfx_queue \/ cp_is_ready
    \/ cp_init_full \/ sdma_gfx_resume_instance \/ sdma_ring_test
    \/ require_loaded \/ psp_fw_load_check \/ bringup_to \/ stage_done
    \/ open_file \/ payload_loop \/ payload_acked \/ rlc_autoload_started
    \/ firmware_load_complete \/ file_loaded

Next ==
    \/ Step
    \/ \E target \in Targets : InitDevice(target)
    \/ LoadSOS \/ LoadTA \/ LoadTOC \/ LoadComponent
    \/ \E f \in Files : LoadFile(f)
    \/ ShutdownGPU
    \/ \E u \in Units : LateAnswer(u)

Spec == Init /\ [][Next]_vars

-----------------------------------------------------------------------------
\* Properties.

TypeOK ==
    /\ reached \in Stages /\ blocked \in BOOLEAN
    /\ call.busy \in BOOLEAN /\ call.submitted \in BOOLEAN
    /\ psp \in [fwPri : BOOLEAN, sosAlive : BOOLEAN, ring : BOOLEAN,
                tmr : BOOLEAN, complete : BOOLEAN,
                pkg : Packages \cup {NoPackage}, asd : 0 .. FwBufSlots]
    /\ bump \in 0 .. FwBufSlots
    /\ loaded \subseteq CPFiles \cup {"imu", "rlc", "sdma", "mes"}
    /\ cp \in [prepared : BOOLEAN, started : BOOLEAN, mqd : BOOLEAN,
               ready : BOOLEAN]
    /\ mes \in [active : BOOLEAN, pending : SUBSET Pipes]
    /\ smu \in [pending : BOOLEAN, online : BOOLEAN, table : 0 .. FwBufSlots,
                setup : BOOLEAN]
    /\ wptr \in [Engines -> Nat] /\ out \in [Units -> Nat]

\* What a stage number promises to a client, in terms of what the firmware
\* really acknowledged in this session.
Acknowledged(stage) ==
    CASE stage = PSPFwLoad -> {"IMU_D", "SDMA", "RLC_G", "AUTOLOAD_RLC"}
      [] stage = CPInit -> UNION {PayloadsOf(f) : f \in CPFiles}
      [] stage = MESInit ->
             MESPayloads \cup {"KIQ_SET_HW_RSRC", "KIQ_SET_HW_RSRC_1",
                               "MAP_SCHED", "SET_HW_RSRC", "QUERY"}
      [] stage = GFXInit -> {"MAP_GFX"}
      [] stage = SDMAInit -> Engines
      [] OTHER -> {}

\* In a session that is not blocked the stage reached is backed: the secure OS
\* runs, the ring exists, every image and command of the stages up to
\* `reached' was acknowledged since the last reset, however many uploads and
\* InitDevice calls failed or were repeated on the way (run_stage, bringup_to
\* and the flags LoadFirmware sets).
LadderBacked ==
    ~blocked =>
        /\ reached >= PSPLoadSOS => psp.sosAlive /\ sos
        /\ reached >= PSPRingCreate => psp.ring
        /\ reached >= TMRSetup => psp.tmr
        /\ reached >= SMUInit => smu.online /\ smu.table # 0
        /\ reached >= GFXInit => cp.ready
        /\ \A stage \in 1 .. reached : Acknowledged(stage) \subseteq acked

\* firmwareLoadComplete is never left set by an earlier upload: the autoload
\* was acknowledged, and so were the trusted application and register list
\* that are retained now (LoadFirmware clears it, psp_rl_load is required).
CompleteIsCurrent ==
    ~blocked /\ psp.complete =>
        /\ "rlc" \in loaded /\ {"RLC_G", "AUTOLOAD_RLC"} \subseteq acked
        /\ psp.pkg.rl => "REG_LIST" \in acked
        /\ psp.asd # 0 => "ASD" \in acked

\* No unit is handed a command while an earlier one is unanswered, also after
\* timeouts and repeated calls: the PSP because the session is blocked, the
\* SMU and the MES pipes because of their latches.  The metrics path may only
\* open with a quiet mailbox.
CommandsSerialized ==
    /\ \A u \in Units : out[u] <= 1
    /\ smu.setup => out["smu"] = 0

\* A session that takes new calls has no PSP command in the air or refused and
\* no SDMA test behind it that did not end in a finished bring-up (the
\* "submitted" tests at the end of InitDevice and LoadFirmware).
CleanWhenOpen ==
    call = Idle /\ ~blocked =>
        /\ out["psp"] = 0 /\ ~refused
        /\ reached < SDMAInit => \A i \in Engines : wptr[i] = 0

\* What bring-up reports is true of this session: stages, the firmware-complete flag, and a session
\* that is open for calls at all (InitDevice, LoadFirmware, run_stage).
LadderHonest == TypeOK /\ LadderBacked /\ CompleteIsCurrent /\ CleanWhenOpen

\* Images the firmware may still read are never staged over: the trusted
\* application and the SMU driver table lie below the bump pointer, apart.
StagingIntact ==
    /\ psp.asd <= bump /\ smu.table <= bump
    /\ psp.asd # 0 => psp.asd # smu.table

\* The KIQ is asked at most once per reset to map the GFX queue: its
\* descriptor is firmware property after a failed attempt (cp_map_gfx_queue).
GFXMapOnce == maps <= 1

\* One command at a time to each unit, and the one that may not be repeated only once.
CommandsOrdered == CommandsSerialized /\ GFXMapOnce

=============================================================================
