--------------------------- MODULE BringUpProofs ---------------------------
(***************************************************************************)
(* BringUpInv is an inductive invariant of BringUp, for any firmware files *)
(* and packages, any number of staging slots, stages a client may ask for  *)
(* and SDMA engines.                                                       *)
(*                                                                         *)
(* A call is a program: the functions still to run.  What it may count on  *)
(* when one of them runs has been brought about by earlier ones, by then   *)
(* gone from the program.  So the invariant speaks of facts (Holds): what  *)
(* each function brings about (Gives), what it may undo (Takes) and what   *)
(* it needs (Needs).  NeedsMet says that every need of every function in   *)
(* the rest of the program is either true now or given on the way, and not *)
(* taken before it is needed.  The rest of the invariant:                  *)
(*   OneStage, StageRises, StageEnds: stages are climbed one at a time,    *)
(*     and what marks the end of one comes right before it;                *)
(*   OpenSound: of a session that is not blocked, what the stages up to    *)
(*     `reached' promise is true (PromisesKept), and so is what the flags  *)
(*     of the uploads say (LoadedSound);                                   *)
(*   EffectsSound: rings and the metrics path are used in the last stages; *)
(*   StagingSound, CommandsSound: the staging buffer, and the commands in  *)
(*     the air against the latches.                                        *)
(*                                                                         *)
(* A step replaces the head of the program by the functions it calls.      *)
(* NeedsStayMet and ShapeStays reduce that to facts about the two, and     *)
(* StageSound says that the functions of a stage bring about its promise.  *)
(***************************************************************************)
EXTENDS BringUp, TLAPS

Acked(x) == <<"acked", x>>
Is(flag) == <<"is", flag>>
At(stage) == <<"at", stage>>

Volatile == KIQCommands \cup SchedCommands
PayloadNames == UNION {PayloadsOf(f) : f \in Files}
CPPayloads == UNION {PayloadsOf(f) : f \in CPFiles}

\* A fact about the driver and the device.
Holds(f) ==
    \/ f[1] = "acked" /\ f[2] \in acked
    \/ f[1] = "at" /\ f[2] = reached
    \/ f = Is("fwPri") /\ psp.fwPri
    \/ f = Is("sosAlive") /\ psp.sosAlive
    \/ f = Is("ring") /\ psp.ring
    \/ f = Is("tmr") /\ psp.tmr
    \/ f = Is("incomplete") /\ ~psp.complete
    \/ f = Is("rl") /\ (psp.pkg.rl => "REG_LIST" \in acked)
    \/ f = Is("asd") /\ (psp.asd # 0 => "ASD" \in acked)
    \/ f = Is("online") /\ smu.online
    \/ f = Is("table") /\ smu.table # 0
    \/ f = Is("ready") /\ cp.ready
    \/ f = Is("mqd") /\ cp.mqd
    \/ f = Is("unmapped") /\ maps = 0

\* What a stage promises.
StageFlags(stage) ==
    CASE stage = PSPInit -> {"fwPri"}
      [] stage = PSPLoadSOS -> {"sosAlive"}
      [] stage = PSPRingCreate -> {"ring"}
      [] stage = TMRSetup -> {"tmr"}
      [] stage = SMUInit -> {"online", "table"}
      [] stage = GFXInit -> {"ready"}
      [] OTHER -> {}
Promise(stage) == {Acked(x) : x \in Acknowledged(stage)} \cup {Is(flag) : flag \in StageFlags(stage)}

\* What is true once a function has come to its good end, with everything it called.
GivesCommand(x, f) ==
    \/ x \notin Untracked /\ f = Acked(x)
    \/ x = "REG_LIST" /\ f = Is("rl")
    \/ x = "ASD" /\ f = Is("asd")

FlagOf(fn) ==
    CASE fn = "psp_init" -> "fwPri"
      [] fn = "psp_load_sos" -> "sosAlive"
      [] fn = "psp_ring_create" -> "ring"
      [] fn \in {"psp_setup_tmr", "tmr_is_set_up"} -> "tmr"
      [] fn = "smu_is_online" -> "online"
      [] fn = "smu_metrics_reserve" -> "table"
      [] fn \in {"cp_is_ready", "cp_map_gfx_queue", "cp_init_full"} -> "ready"
      [] fn = "psp_asd_initialize" -> "asd"
      [] fn = "psp_rl_load" -> "rl"
      [] OTHER -> "none"

Gives(op, f) ==
    \/ FlagOf(op.fn) # "none" /\ f = Is(FlagOf(op.fn))
    \/ op.fn = "bringup_to" /\ op.arg >= PSPInit /\ f = Is("fwPri")
    \/ op.fn \in {"psp_ring_cmd_submit", "psp_load_ip_fw"} /\ GivesCommand(op.arg, f)
    \/ op.fn \in {"mes_submit_pkt", "sdma_ring_test"} /\ op.arg \notin Untracked /\ f = Acked(op.arg)
    \/ op.fn \in {"cp_map_gfx_queue", "cp_init_full"} /\ f = Acked("MAP_GFX")
    \/ op.fn = "cp_prepare_firmware" /\ f[1] = "acked" /\ f[2] \in CPPayloads
    \/ op.fn = "mes_enable" /\ f[1] = "acked" /\ f[2] \in MESPayloads
    \/ op.fn = "require_loaded" /\ "imu" \in op.arg /\ f = Acked("IMU_D")
    \/ op.fn = "require_loaded" /\ "sdma" \in op.arg /\ f = Acked("SDMA")
    \/ op.fn = "require_loaded" /\ "rlc" \in op.arg /\ f \in {Acked("RLC_G"), Acked("AUTOLOAD_RLC")}
    \/ op.fn = "psp_fw_load_check" /\ f \in Promise(PSPFwLoad)

\* What may no longer be true then.
Takes(op, f) ==
    \/ op.fn \in {"stage_done", "psp_load_sos_package"} /\ f[1] = "at"
    \/ op.fn = "bringup_to" /\ f \notin {Is("fwPri"), Is("incomplete")}
    \/ op.fn = "mes_enable" /\ f[1] = "acked" /\ f[2] \in Volatile
    \/ op.fn \in {"cp_init_full", "cp_map_gfx_queue", "mes_submit_pkt", "mes_scheduler_resources_1"}
       /\ f = Is("unmapped")
    \/ op.fn = "psp_parse_sos_microcode" /\ f = Is("rl")
    \/ op.fn = "psp_parse_ta_microcode" /\ f = Is("asd")
    \/ op.fn \in {"open_file", "payload_loop", "firmware_load_complete"} /\ f = Is("incomplete")
    \/ op.fn = "payload_acked" /\ op.arg = "RLC_G" /\ f = Is("incomplete")

\* What a function counts on when it runs.
NeedsOf(op) ==
    CASE op.fn = "psp_parse_ta_microcode" -> {Is("fwPri"), Is("incomplete")}
      [] op.fn = "psp_load_sos_package" -> {Is("fwPri")}
      [] op.fn = "smu_metrics_reserve" -> {Is("fwPri")}
      [] op.fn \in {"smu_send_msg", "smu_setup_complete"} -> {At(SMUInit - 1)}
      [] op.fn = "mes_enable" -> {At(MESInit - 1)}
      [] op.fn \in {"cp_init_full", "cp_map_gfx_queue", "cp_is_ready"} -> {At(GFXInit - 1)}
      [] op.fn \in {"sdma_gfx_resume_instance", "sdma_ring_test"} -> {At(SDMAInit - 1)}
      [] op.fn = "mes_submit_pkt" -> IF op.arg = "MAP_GFX" THEN {Is("mqd"), Is("unmapped")} ELSE {}
      [] op.fn = "open_file" -> {Is("incomplete")}
      [] op.fn = "payload_loop" ->
             {Acked(Payloads[op.arg[1]][j]) : j \in {i \in 1 .. op.arg[2] - 1 : Payloads[op.arg[1]][i] \notin Untracked}}
             \cup {Is("incomplete") : j \in {i \in DOMAIN Payloads[op.arg[1]] : i >= op.arg[2] /\ Payloads[op.arg[1]][i] = "RLC_G"}}
      [] op.fn = "payload_acked" ->
             {Acked(x) : x \in {op.arg} \ Untracked} \cup {Is("incomplete") : x \in {op.arg} \cap {"RLC_G"}}
      [] op.fn = "rlc_autoload_started" -> {Is("incomplete")}
      [] op.fn = "firmware_load_complete" -> {Acked("RLC_G"), Acked("AUTOLOAD_RLC"), Is("rl"), Is("asd")}
      [] op.fn = "file_loaded" -> {Acked(x) : x \in PayloadsOf(op.arg) \ Untracked}
      [] OTHER -> {}

\* The end of a stage counts on what that stage promises, with reached = r before.
Needs(op, r) == IF op.fn = "stage_done" THEN Promise(r + 1) ELSE NeedsOf(op)

-----------------------------------------------------------------------------
\* No function from a to b of a program takes f.
Kept(prog, f, a, b) == \A i \in a .. b : ~Takes(prog[i], f)

\* f will be true when the k-th function of a program runs, if it is now or not (held).
Comes(prog, k, f, held) ==
    \/ held /\ Kept(prog, f, 1, k - 1)
    \/ \E j \in 1 .. k - 1 : Gives(prog[j], f) /\ Kept(prog, f, j + 1, k - 1)

NeedsMet(prog) == \A k \in DOMAIN prog : \A f \in Needs(prog[k], reached) : Comes(prog, k, f, Holds(f))

Climbers == {"stage_done", "psp_load_sos_package", "bringup_to"}
Enders == {"smu_setup_complete", "cp_init_full", "cp_map_gfx_queue", "cp_is_ready"}
SDMASteps == {"sdma_gfx_resume_instance", "sdma_ring_test"}

OneStage(prog) ==
    \A j, k \in DOMAIN prog : j < k /\ prog[k].fn = "stage_done" => prog[j].fn \notin Climbers
StageRises(prog) == reached < SDMAInit \/ \A k \in DOMAIN prog : prog[k].fn # "stage_done"
StageEnds(prog) ==
    \A k \in DOMAIN prog :
        /\ prog[k].fn \in Enders => k + 1 \in DOMAIN prog /\ prog[k + 1].fn = "stage_done"
        /\ prog[k].fn \in SDMASteps => \E m \in DOMAIN prog : m > k /\ prog[m].fn = "stage_done"

\* What a function may be called with.
FunctionNames ==
    {"hardware", "psp_init", "psp_load_sos", "psp_ring_create", "psp_ring_cmd_submit", "psp_setup_tmr",
     "tmr_is_set_up", "psp_load_ip_fw", "psp_asd_initialize", "psp_rl_load", "psp_parse_ta_microcode",
     "psp_parse_sos_microcode", "psp_load_sos_package", "psp_bootloader_load_component", "psp_load_toc",
     "smu_send_msg", "smu_is_online", "smu_setup_begin", "smu_metrics_reserve", "smu_setup_complete",
     "mes_submit_pkt", "mes_enable", "mes_scheduler_resources_1", "cp_prepare_firmware", "cp_start_engines",
     "cp_map_gfx_queue", "cp_is_ready", "cp_init_full", "sdma_gfx_resume_instance", "sdma_ring_test",
     "require_loaded", "psp_fw_load_check", "bringup_to", "stage_done", "open_file", "payload_loop",
     "payload_acked", "rlc_autoload_started", "firmware_load_complete", "file_loaded"}
PSPCommands == {"ASD", "TOC", "REG_LIST", "AUTOLOAD_RLC"} \cup Optional
Errors == {"NotReady", "NoMemory", "Timeout", "NotAttached", "IOError"}
Flags == {"rlc", "imu", "sdma"}
Words == {"", "required", "best effort"} \cup PSPCommands \cup Volatile
Args == Words \cup PayloadNames \cup Engines \cup Files \cup Stages \cup (Files \X Nat)
        \cup (SUBSET Errors) \cup (SUBSET Flags)
Ops ==
    {op \in [fn : FunctionNames, arg : Args] :
        /\ op.fn = "payload_loop" => op.arg \in Files \X (Nat \ {0})
        /\ op.fn \in {"open_file", "file_loaded"} => op.arg \in Files
        /\ op.fn \in SDMASteps => op.arg \in Engines
        /\ op.fn = "bringup_to" => op.arg \in Stages
        /\ op.fn \in {"psp_load_ip_fw", "payload_acked"} => op.arg \notin Volatile}

CallTypes == [prog : Seq(Ops), busy : BOOLEAN, submitted : BOOLEAN, wptr : [Engines -> Nat]]

ProgramSound ==
    /\ call \in CallTypes
    /\ NeedsMet(call.prog) /\ OneStage(call.prog) /\ StageRises(call.prog) /\ StageEnds(call.prog)

AtStageDone(stage) == reached = stage - 1 /\ call.prog # <<>> /\ Head(call.prog).fn = "stage_done"

Quiet == \A i \in Engines : wptr[i] = 0
QuietBefore ==
    \/ Quiet \/ reached = SDMAInit
    \/ reached = SDMAInit - 1 /\ \E k \in DOMAIN call.prog : call.prog[k].fn = "stage_done"

LoadedSound ==
    /\ "imu" \in loaded => "IMU_D" \in acked
    /\ "sdma" \in loaded => "SDMA" \in acked
    /\ "rlc" \in loaded => {"RLC_G", "AUTOLOAD_RLC"} \subseteq acked
    /\ "mes" \in loaded => MESPayloads \subseteq acked
    /\ \A f \in CPFiles : f \in loaded \/ cp.prepared => PayloadsOf(f) \subseteq acked

PromisesKept == \A s \in 1 .. reached : \A f \in Promise(s) : Holds(f)

OpenSound ==
    ~blocked => /\ PromisesKept /\ LoadedSound
                /\ psp.sosAlive => sos
                /\ psp.complete => "rlc" \in loaded /\ Holds(Is("rl")) /\ Holds(Is("asd"))
                /\ out["psp"] = 0 /\ ~refused

EffectsSound ==
    /\ ~blocked => QuietBefore
    /\ smu.setup => reached >= SMUInit \/ AtStageDone(SMUInit)
    /\ cp.ready => reached >= GFXInit \/ AtStageDone(GFXInit)

StagingSound ==
    /\ StagingIntact
    /\ psp.sosAlive => psp.fwPri
    /\ ~psp.fwPri => psp.asd = 0 /\ smu.table = 0

CommandsSound ==
    /\ \A u \in Units : out[u] <= 1
    /\ out["psp"] > 0 => blocked
    /\ ~smu.pending => out["smu"] = 0
    /\ \A u \in Pipes \ mes.pending : out[u] = 0
    /\ smu.setup => out["smu"] = 0
    /\ maps \in Nat /\ maps <= 1 /\ (maps > 0 => cp.mqd)

CallSound ==
    /\ blocked => call = Idle
    /\ call.prog # <<>> => call.busy
    /\ call.prog # <<>> /\ reached < SDMAInit => \A i \in Engines : call.wptr[i] = 0

DataSound == OpenSound /\ StagingSound /\ CommandsSound
BringUpInv == TypeOK /\ CallSound /\ ProgramSound /\ EffectsSound /\ DataSound

-----------------------------------------------------------------------------
\* f is true after the functions ops, or one of them makes it so.
Arrives(ops, f, held) ==
    \/ held /\ \A i \in DOMAIN ops : ~Takes(ops[i], f)
    \/ \E j \in DOMAIN ops : Gives(ops[j], f) /\ \A i \in DOMAIN ops : i > j => ~Takes(ops[i], f)

\* Replacing the head of a program by ops.
LEMMA Replaced ==
    ASSUME NEW p \in Seq(Ops), p # <<>>, NEW ops \in Seq(Ops)
    PROVE  /\ ops \o Tail(p) \in Seq(Ops) /\ Len(p) \in Nat /\ Len(p) >= 1 /\ Len(ops) \in Nat
           /\ DOMAIN p = 1 .. Len(p) /\ DOMAIN ops = 1 .. Len(ops)
           /\ DOMAIN (ops \o Tail(p)) = 1 .. Len(ops) + Len(p) - 1
           /\ \A k \in 1 .. Len(ops) : (ops \o Tail(p))[k] = ops[k]
           /\ \A k \in 2 .. Len(p) : (ops \o Tail(p))[Len(ops) + k - 1] = p[k]
           /\ Head(p) = p[1] /\ p[1] \in Ops
<1>1. Tail(p) \in Seq(Ops) /\ Len(Tail(p)) = Len(p) - 1 /\ Len(p) \in Nat /\ Len(p) >= 1
  OBVIOUS
<1>2. \A k \in 1 .. Len(p) - 1 : Tail(p)[k] = p[k + 1]
  OBVIOUS
<1>3. Len(ops \o Tail(p)) = Len(ops) + Len(p) - 1 /\ Len(ops) \in Nat
  BY <1>1
<1>4. \A k \in 1 .. Len(ops) : (ops \o Tail(p))[k] = ops[k]
  BY <1>1, <1>3
<1>5. ASSUME NEW k \in 2 .. Len(p) PROVE (ops \o Tail(p))[Len(ops) + k - 1] = p[k]
  <2>1. Len(ops) + k - 1 \in Len(ops) + 1 .. Len(ops) + Len(Tail(p))
    BY <1>1, <1>3
  <2>2. (ops \o Tail(p))[Len(ops) + k - 1] = Tail(p)[k - 1]
    BY <1>1, <1>3, <2>1
  <2> QED
    BY <1>1, <1>2, <2>2
<1>6. Head(p) = p[1] /\ p[1] \in Ops
  BY <1>1
<1> QED
  BY <1>1, <1>3, <1>4, <1>5, <1>6

\* What the rest of a call needs stays on its way when the head is replaced by ops: they must
\* bring about what the head would have, and be served themselves.
LEMMA NeedsStayMet ==
    ASSUME NEW p \in Seq(Ops), p = call.prog, p # <<>>, NEW ops \in Seq(Ops), NeedsMet(p),
           call'.prog = ops \o Tail(p),
           \A f : (Holds(f) /\ ~Takes(p[1], f)) \/ Gives(p[1], f) => Arrives(ops, f, Holds(f)'),
           \A k \in DOMAIN ops : \A f \in Needs(ops[k], reached') : Comes(ops, k, f, Holds(f)'),
           reached' = reached \/ \A k \in 2 .. Len(p) : p[k].fn # "stage_done"
    PROVE  NeedsMet(call.prog)'
<1> DEFINE q == ops \o Tail(p)
           n == Len(ops)
<1>1. /\ q \in Seq(Ops) /\ Len(p) \in Nat /\ Len(p) >= 1 /\ n \in Nat
      /\ DOMAIN p = 1 .. Len(p) /\ DOMAIN ops = 1 .. n
      /\ DOMAIN q = 1 .. n + Len(p) - 1
      /\ \A k \in 1 .. n : q[k] = ops[k]
      /\ \A k \in 2 .. Len(p) : q[n + k - 1] = p[k]
  BY Replaced
<1>2. call'.prog = q
  OBVIOUS
<1>3. \A k \in 1 .. Len(p) : \A f \in Needs(p[k], reached) : Comes(p, k, f, Holds(f))
  BY <1>1 DEF NeedsMet
<1>4. \A k \in 2 .. Len(p) : Needs(p[k], reached') = Needs(p[k], reached)
  BY DEF Needs
<1>8. n \in Nat /\ Len(p) \in Nat /\ Len(p) >= 1
  BY <1>1
<1>9. /\ DOMAIN ops = 1 .. n /\ DOMAIN q = 1 .. n + Len(p) - 1 /\ DOMAIN p = 1 .. Len(p)
      /\ \A k \in 1 .. n : q[k] = ops[k]
  BY <1>1
<1>10. \A k \in 2 .. Len(p) : q[n + k - 1] = p[k]
  BY <1>1
<1> DEFINE m == Len(p)
<1>11. /\ n \in Nat /\ m \in Nat /\ m >= 1
       /\ DOMAIN ops = 1 .. n /\ DOMAIN q = 1 .. n + m - 1
       /\ \A k \in 1 .. n : q[k] = ops[k]
       /\ \A k \in 2 .. m : q[n + k - 1] = p[k]
  BY <1>8, <1>9, <1>10
<1> HIDE DEF q, n, m
<1>5. ASSUME NEW k \in 1 .. n, NEW f \in Needs(q[k], reached') PROVE Comes(q, k, f, Holds(f)')
  <2>1. Comes(ops, k, f, Holds(f)')
    BY <1>11, <1>5
  <2>2. \A i \in 1 .. k : q[i] = ops[i]
    BY <1>11
  <2>3. Kept(q, f, 1, k - 1) <=> Kept(ops, f, 1, k - 1)
    BY <1>11, <2>2 DEF Kept
  <2>4. \A j \in 1 .. k - 1 : q[j] = ops[j] /\ (Kept(q, f, j + 1, k - 1) <=> Kept(ops, f, j + 1, k - 1))
    BY <1>11, <2>2 DEF Kept
  <2> QED
    BY <2>1, <2>3, <2>4 DEF Comes
<1>6. ASSUME NEW k \in 2 .. m, NEW f \in Needs(p[k], reached')
      PROVE  Comes(q, n + k - 1, f, Holds(f)')
  <2>1. Comes(p, k, f, Holds(f))
    BY <1>3, <1>4, <1>6 DEF m
  <2>2. ASSUME Arrives(ops, f, Holds(f)'), Kept(p, f, 2, k - 1) PROVE Comes(q, n + k - 1, f, Holds(f)')
    <3>1. \A i \in n + 1 .. n + k - 2 : ~Takes(q[i], f)
      <4> SUFFICES ASSUME NEW i \in n + 1 .. n + k - 2 PROVE ~Takes(q[i], f)
        OBVIOUS
      <4>1. i - n + 1 \in 2 .. k - 1 /\ q[n + (i - n + 1) - 1] = p[i - n + 1] /\ n + (i - n + 1) - 1 = i
        BY <1>11
      <4> QED
        BY <2>2, <4>1 DEF Kept
    <3>2. CASE Holds(f)' /\ \A i \in 1 .. n : ~Takes(ops[i], f)
      <4>1. \A i \in 1 .. n + k - 2 : ~Takes(q[i], f)
        BY <1>11, <3>1, <3>2
      <4> QED
        BY <1>11, <3>2, <4>1 DEF Comes, Kept
    <3>3. CASE \E j \in 1 .. n : Gives(ops[j], f) /\ \A i \in 1 .. n : i > j => ~Takes(ops[i], f)
      <4>1. PICK j \in 1 .. n : Gives(ops[j], f) /\ \A i \in 1 .. n : i > j => ~Takes(ops[i], f)
        BY <3>3
      <4>2. \A i \in j + 1 .. n + k - 2 : ~Takes(q[i], f)
        BY <1>11, <3>1, <4>1
      <4>3. Gives(q[j], f) /\ j \in 1 .. n + k - 2
        BY <1>11, <4>1
      <4>4. (n + k - 1) - 1 = n + k - 2
        BY <1>11
      <4> QED
        BY <4>2, <4>3, <4>4 DEF Comes, Kept
    <3> QED
      BY <1>11, <2>2, <3>2, <3>3 DEF Arrives
  <2>3. CASE Holds(f) /\ Kept(p, f, 1, k - 1)
    <3>1. ~Takes(p[1], f) /\ Kept(p, f, 2, k - 1)
      BY <2>3 DEF Kept
    <3> QED
      BY <2>2, <2>3, <3>1
  <2>4. CASE \E j \in 1 .. k - 1 : Gives(p[j], f) /\ Kept(p, f, j + 1, k - 1)
    <3>1. PICK j \in 1 .. k - 1 : Gives(p[j], f) /\ Kept(p, f, j + 1, k - 1)
      BY <2>4
    <3>2. CASE j = 1
      BY <2>2, <3>1, <3>2
    <3>3. CASE j > 1
      <4>0. k \in Nat /\ j \in 2 .. m /\ j <= k - 1
        BY <1>11, <3>3
      <4>6. q[n + j - 1] = p[j] /\ n + j - 1 \in 1 .. n + k - 2
        BY <1>11, <4>0
      <4>1. Gives(q[n + j - 1], f) /\ n + j - 1 \in 1 .. n + k - 2
        BY <3>1, <4>6
      <4>2. \A i \in n + j .. n + k - 2 : ~Takes(q[i], f)
        <5> SUFFICES ASSUME NEW i \in n + j .. n + k - 2 PROVE ~Takes(q[i], f)
          OBVIOUS
        <5>1. i - n + 1 \in j + 1 .. k - 1 /\ i - n + 1 \in 2 .. m /\ n + (i - n + 1) - 1 = i
          BY <1>11, <3>3
        <5>2. q[i] = p[i - n + 1]
          BY <1>11, <5>1
        <5> QED
          BY <3>1, <5>1, <5>2 DEF Kept
      <4>3. \A i \in (n + j - 1) + 1 .. (n + k - 1) - 1 : ~Takes(q[i], f)
        <5>1. (n + j - 1) + 1 = n + j /\ (n + k - 1) - 1 = n + k - 2
          BY <1>11, <4>0
        <5> QED
          BY <4>2, <5>1
      <4>4. n + j - 1 \in 1 .. (n + k - 1) - 1
        BY <1>11, <4>0, <4>1
      <4> QED
        BY <4>1, <4>3, <4>4 DEF Comes, Kept
    <3> QED
      BY <3>2, <3>3
  <2> QED
    BY <2>1, <2>3, <2>4 DEF Comes
<1>7. ASSUME NEW k \in 1 .. n + m - 1, NEW f \in Needs(q[k], reached')
      PROVE  Comes(q, k, f, Holds(f)')
  <2>1. CASE k <= n
    BY <1>11, <1>5, <1>7, <2>1
  <2>2. CASE k > n
    <3>1. k - n + 1 \in 2 .. m /\ n + (k - n + 1) - 1 = k /\ q[k] = p[k - n + 1]
      BY <1>11, <2>2
    <3>2. Comes(q, n + (k - n + 1) - 1, f, Holds(f)')
      BY <1>6, <1>7, <3>1
    <3> QED
      BY <3>1, <3>2
  <2> QED
    BY <1>11, <2>1, <2>2
<1> QED
  BY <1>2, <1>9, <1>7 DEF NeedsMet, m

\* The shape of a program when its head is replaced by ops: one stage at a time, and the
\* functions that must come last in their stage still do.
LEMMA ShapeStays ==
    ASSUME NEW p \in Seq(Ops), p # <<>>, NEW ops \in Seq(Ops),
           OneStage(p), StageEnds(p), NEW q, q = ops \o Tail(p),
           \A j, k \in DOMAIN ops : j < k /\ ops[k].fn = "stage_done" => ops[j].fn \notin Climbers,
           (\A k \in DOMAIN ops : ops[k].fn \notin Climbers) \/ p[1].fn \in Climbers,
           \A k \in DOMAIN ops : ops[k].fn \in Enders =>
               (k < Len(ops) /\ ops[k + 1].fn = "stage_done") \/ (k = Len(ops) /\ p[1].fn \in Enders),
           \A k \in DOMAIN ops : ops[k].fn \in SDMASteps =>
               \E m \in DOMAIN ops : m > k /\ ops[m].fn = "stage_done"
    PROVE  OneStage(q) /\ StageEnds(q)
<1> DEFINE n == Len(ops)
           l == Len(p)
<1>1. /\ n \in Nat /\ l \in Nat /\ l >= 1
      /\ DOMAIN ops = 1 .. n /\ DOMAIN p = 1 .. l /\ DOMAIN q = 1 .. n + l - 1
  BY Replaced
<1>2. \A k \in 1 .. n : q[k] = ops[k]
  BY Replaced
<1>3. \A k \in 2 .. l : q[n + k - 1] = p[k]
  BY Replaced
<1> HIDE DEF n, l
<1>4. \A k \in n + 1 .. n + l - 1 : k - n + 1 \in 2 .. l /\ q[k] = p[k - n + 1]
  <2> SUFFICES ASSUME NEW k \in n + 1 .. n + l - 1 PROVE k - n + 1 \in 2 .. l /\ q[k] = p[k - n + 1]
    OBVIOUS
  <2>1. k - n + 1 \in 2 .. l /\ n + (k - n + 1) - 1 = k
    BY <1>1
  <2> QED
    BY <1>3, <2>1
<1>5. ASSUME NEW j \in DOMAIN q, NEW k \in DOMAIN q, j < k, q[k].fn = "stage_done" PROVE q[j].fn \notin Climbers
  <2>1. CASE k <= n
    BY <1>1, <1>2, <1>5, <2>1
  <2>2. CASE k > n /\ j > n
    <3>1. /\ k - n + 1 \in 1 .. l /\ j - n + 1 \in 1 .. l /\ j - n + 1 < k - n + 1
          /\ q[k] = p[k - n + 1] /\ q[j] = p[j - n + 1]
      <4>1. k \in n + 1 .. n + l - 1 /\ j \in n + 1 .. n + l - 1
        BY <1>1, <2>2
      <4>2. k - n + 1 \in 2 .. l /\ j - n + 1 \in 2 .. l /\ q[k] = p[k - n + 1] /\ q[j] = p[j - n + 1]
        BY <1>4, <4>1
      <4>3. \A i \in 2 .. l : i \in 1 .. l
        BY <1>1
      <4>4. j \in Int /\ k \in Int /\ j < k
        BY <1>1, <1>5, <4>1
      <4>5. j - n + 1 < k - n + 1
        BY <1>1, <4>4
      <4> QED
        BY <4>2, <4>3, <4>5
    <3> QED
      BY <1>1, <1>5, <3>1 DEF OneStage
  <2>3. CASE k > n /\ j <= n
    <3>1. 1 \in 1 .. l /\ k - n + 1 \in 1 .. l /\ 1 < k - n + 1 /\ q[k] = p[k - n + 1] /\ j \in 1 .. n /\ q[j] = ops[j]
      BY <1>1, <1>2, <1>4, <1>5, <2>3
    <3>2. p[1].fn \notin Climbers
      BY <1>1, <1>5, <3>1 DEF OneStage
    <3> QED
      BY <1>1, <3>1, <3>2
  <2> QED
    BY <1>1, <1>5, <2>1, <2>2, <2>3
<1>6. ASSUME NEW k \in DOMAIN q, q[k].fn \in Enders PROVE k + 1 \in DOMAIN q /\ q[k + 1].fn = "stage_done"
  <2>1. CASE k <= n
    <3>1. k \in 1 .. n /\ q[k] = ops[k]
      BY <1>1, <1>2, <1>6, <2>1
    <3>2. CASE k < n /\ ops[k + 1].fn = "stage_done"
      BY <1>1, <1>2, <3>1, <3>2
    <3>3. CASE k = n /\ p[1].fn \in Enders
      <4>1. 1 \in 1 .. l
        BY <1>1
      <4>2. 2 \in 1 .. l /\ p[2].fn = "stage_done"
        BY <1>1, <3>3, <4>1 DEF StageEnds
      <4>3. 2 \in 2 .. l /\ n + 2 - 1 = n + 1 /\ n + 1 \in 1 .. n + l - 1
        BY <1>1, <4>2
      <4> QED
        BY <1>1, <1>3, <3>3, <4>2, <4>3
    <3> QED
      BY <1>1, <1>6, <3>1, <3>2, <3>3 DEF n
  <2>2. CASE k > n
    <3>1. k - n + 1 \in 2 .. l /\ q[k] = p[k - n + 1] /\ k \in Int
      BY <1>1, <1>4, <2>2
    <3>2. k - n + 1 \in 1 .. l
      BY <1>1, <3>1
    <3>3. (k - n + 1) + 1 \in 1 .. l /\ p[(k - n + 1) + 1].fn = "stage_done"
      BY <1>1, <1>6, <3>1, <3>2 DEF StageEnds
    <3>4. k + 1 \in n + 1 .. n + l - 1 /\ (k + 1) - n + 1 = (k - n + 1) + 1 /\ k + 1 \in 1 .. n + l - 1
      <4>1. n \in Nat /\ l \in Nat /\ k \in Int
        BY <1>1, <3>1
      <4>2. k - n + 1 \in 2 .. l /\ (k - n + 1) + 1 \in 1 .. l
        BY <3>1, <3>3
      <4> QED
        BY <4>1, <4>2, SMTT(30)
    <3> QED
      BY <1>1, <1>4, <3>3, <3>4
  <2> QED
    BY <1>1, <2>1, <2>2
<1>7. ASSUME NEW k \in DOMAIN q, q[k].fn \in SDMASteps PROVE \E m \in DOMAIN q : m > k /\ q[m].fn = "stage_done"
  <2>1. CASE k <= n
    <3>1. k \in 1 .. n /\ q[k] = ops[k]
      BY <1>1, <1>2, <1>7, <2>1
    <3>2. PICK m \in 1 .. n : m > k /\ ops[m].fn = "stage_done"
      BY <1>1, <1>7, <3>1
    <3>3. m \in 1 .. n + l - 1 /\ q[m] = ops[m]
      BY <1>1, <1>2, <3>2
    <3> QED
      BY <1>1, <3>2, <3>3
  <2>2. CASE k > n
    <3>1. k - n + 1 \in 2 .. l /\ q[k] = p[k - n + 1] /\ k \in Int /\ k - n + 1 \in 1 .. l
      BY <1>1, <1>4, <2>2
    <3>2. PICK m \in 1 .. l : m > k - n + 1 /\ p[m].fn = "stage_done"
      BY <1>1, <1>7, <3>1 DEF StageEnds
    <3>3. m \in 2 .. l /\ n + m - 1 \in 1 .. n + l - 1 /\ n + m - 1 > k
      BY <1>1, <2>2, <3>1, <3>2
    <3> QED
      BY <1>1, <1>3, <3>2, <3>3
  <2> QED
    BY <1>1, <2>1, <2>2
<1> QED
  BY <1>5, <1>6, <1>7 DEF OneStage, StageEnds

\* The ends of stages in the rest of a program are those of ops and of what follows the head.
LEMMA EndsAfter ==
    ASSUME NEW p \in Seq(Ops), p # <<>>, NEW ops \in Seq(Ops), OneStage(p)
    PROVE  /\ p[1].fn \in Climbers => \A k \in 2 .. Len(p) : p[k].fn # "stage_done"
           /\ \A k \in DOMAIN (ops \o Tail(p)) : (ops \o Tail(p))[k].fn = "stage_done" =>
                  (\E i \in DOMAIN ops : ops[i].fn = "stage_done")
                  \/ (p[1].fn \notin Climbers /\ \E i \in DOMAIN p : p[i].fn = "stage_done")
           /\ \A k \in 2 .. Len(p) : p[k].fn = "stage_done" => \E i \in DOMAIN (ops \o Tail(p)) : (ops \o Tail(p))[i].fn = "stage_done"
<1> DEFINE n == Len(ops)
           l == Len(p)
           q == ops \o Tail(p)
<1>1. /\ n \in Nat /\ l \in Nat /\ l >= 1
      /\ DOMAIN ops = 1 .. n /\ DOMAIN p = 1 .. l /\ DOMAIN q = 1 .. n + l - 1
  BY Replaced
<1>2. \A k \in 1 .. n : q[k] = ops[k]
  BY Replaced
<1>3. \A k \in 2 .. l : q[n + k - 1] = p[k]
  BY Replaced
<1> HIDE DEF n, l, q
<1>4. p[1].fn \in Climbers => \A k \in 2 .. l : p[k].fn # "stage_done"
  <2> SUFFICES ASSUME p[1].fn \in Climbers, NEW k \in 2 .. l, p[k].fn = "stage_done" PROVE FALSE
    OBVIOUS
  <2>1. 1 \in 1 .. l /\ k \in 1 .. l /\ 1 < k
    BY <1>1
  <2> QED
    BY <1>1, <2>1 DEF OneStage
<1>5. ASSUME NEW k \in DOMAIN q, q[k].fn = "stage_done"
      PROVE  \/ \E i \in DOMAIN ops : ops[i].fn = "stage_done"
             \/ p[1].fn \notin Climbers /\ \E i \in DOMAIN p : p[i].fn = "stage_done"
  <2>1. CASE k <= n
    BY <1>1, <1>2, <1>5, <2>1
  <2>2. CASE k > n
    <3>1. k - n + 1 \in 2 .. l /\ n + (k - n + 1) - 1 = k
      <4>1. k \in 1 .. n + l - 1
        BY <1>1
      <4> QED
        BY <1>1, <2>2, <4>1
    <3>2. p[k - n + 1].fn = "stage_done" /\ k - n + 1 \in 1 .. l
      BY <1>1, <1>3, <1>5, <3>1
    <3> QED
      BY <1>1, <1>4, <3>1, <3>2
  <2> QED
    BY <1>1, <1>5, <2>1, <2>2
<1>6. ASSUME NEW k \in 2 .. l, p[k].fn = "stage_done" PROVE \E i \in DOMAIN q : q[i].fn = "stage_done"
  <2>1. n + k - 1 \in 1 .. n + l - 1
    BY <1>1
  <2> QED
    BY <1>1, <1>3, <1>6, <2>1
<1> QED
  BY <1>4, <1>5, <1>6 DEF l, q

\* The call goes on with ops in place of its head.
MovesOn(ops) ==
    /\ call' \in CallTypes /\ call'.prog = ops \o Tail(call.prog)
    /\ call'.busy = call.busy /\ call'.wptr = call.wptr /\ blocked' = blocked

\* ops may stand where the head is: stages stay in order, and what must end a stage does.
Fits(ops) ==
    /\ \A j, k \in DOMAIN ops : j < k /\ ops[k].fn = "stage_done" => ops[j].fn \notin Climbers
    /\ (\A k \in DOMAIN ops : ops[k].fn \notin Climbers) \/ Head(call.prog).fn \in Climbers
    /\ \A k \in DOMAIN ops : ops[k].fn \in Enders =>
           (k < Len(ops) /\ ops[k + 1].fn = "stage_done") \/ (k = Len(ops) /\ Head(call.prog).fn \in Enders)
    /\ \A k \in DOMAIN ops : ops[k].fn \in SDMASteps => \E m \in DOMAIN ops : m > k /\ ops[m].fn = "stage_done"
    /\ reached < SDMAInit \/ \A k \in DOMAIN ops : ops[k].fn # "stage_done"

\* While a function runs the session is open.
LEMMA RunningFacts ==
    ASSUME BringUpInv, call.prog # <<>>
    PROVE  /\ ~blocked /\ call # Idle /\ call.busy
           /\ call \in CallTypes /\ call.prog \in Seq(Ops) /\ call.wptr \in [Engines -> Nat]
           /\ Head(call.prog) = call.prog[1] /\ call.prog[1] \in Ops
           /\ 1 \in DOMAIN call.prog
<1>1. call \in CallTypes /\ call.prog \in Seq(Ops) /\ call.wptr \in [Engines -> Nat]
  BY DEF BringUpInv, ProgramSound, CallTypes
<1>2. call # Idle
  BY DEF Idle
<1> QED
  BY <1>1, <1>2 DEF BringUpInv, CallSound

\* Then puts ops in place of the head, and leaves the rest of the call as it is.
LEMMA ThenMovesOn ==
    ASSUME call \in CallTypes, call.prog # <<>>, NEW ops \in Seq(Ops), Then(ops)
    PROVE  MovesOn(ops)
<1>1. call.prog \in Seq(Ops)
  BY DEF CallTypes
<1>2. ops \o Tail(call.prog) \in Seq(Ops)
  BY <1>1, Replaced
<1>3. call' = [call EXCEPT !.prog = ops \o Tail(call.prog)] /\ blocked' = blocked
  BY DEF Then
<1> DEFINE q == ops \o Tail(call.prog)
<1>4. call'.prog = q /\ call' \in CallTypes /\ call'.busy = call.busy /\ call'.wptr = call.wptr
  <2>1. q \in Seq(Ops) /\ call' = [call EXCEPT !.prog = q]
    BY <1>2, <1>3
  <2> HIDE DEF q
  <2> QED
    BY <2>1 DEF CallTypes
<1> QED
  BY <1>3, <1>4 DEF MovesOn

\* What is promised at the head of a program holds.
LEMMA HeadServed ==
    ASSUME BringUpInv, call.prog # <<>>
    PROVE  \A f \in Needs(Head(call.prog), reached) : Holds(f)
<1>1. 1 \in DOMAIN call.prog /\ Head(call.prog) = call.prog[1]
  BY RunningFacts
<1>2. \A f \in Needs(call.prog[1], reached) : Comes(call.prog, 1, f, Holds(f))
  BY <1>1 DEF BringUpInv, ProgramSound, NeedsMet
<1> QED
  BY <1>1, <1>2 DEF Comes

\* A call goes on: its program stays sound if ops bring about what the head would have.
LEMMA ProgramGoes ==
    ASSUME BringUpInv, call.prog # <<>>, NEW ops \in Seq(Ops), MovesOn(ops),
           Fits(ops), reached' = reached, Head(call.prog).fn # "stage_done",
           \A f : (Holds(f) /\ ~Takes(Head(call.prog), f)) \/ Gives(Head(call.prog), f) => Arrives(ops, f, Holds(f)'),
           \A k \in DOMAIN ops : \A f \in Needs(ops[k], reached) : Comes(ops, k, f, Holds(f)')
    PROVE  /\ ProgramSound' /\ CallSound'
           /\ (\E k \in DOMAIN call.prog : call.prog[k].fn = "stage_done") =>
                  \E k \in DOMAIN call'.prog : call'.prog[k].fn = "stage_done"
<1>1. /\ ~blocked /\ call # Idle /\ call.busy /\ call.prog \in Seq(Ops)
      /\ Head(call.prog) = call.prog[1]
  BY RunningFacts
<1>2. NeedsMet(call.prog) /\ OneStage(call.prog) /\ StageRises(call.prog) /\ StageEnds(call.prog)
  BY DEF BringUpInv, ProgramSound
<1>3. PICK p \in Seq(Ops) : p = call.prog
  BY <1>1
<1>4. PICK q : q = ops \o Tail(p)
  OBVIOUS
<1>5. call'.prog = q /\ call' \in CallTypes /\ call'.busy = call.busy /\ call'.wptr = call.wptr /\ ~blocked'
  BY <1>1, <1>3, <1>4 DEF MovesOn
<1>7. NeedsMet(call.prog)'
  <2>1. \A k \in DOMAIN ops : \A f \in Needs(ops[k], reached') : Comes(ops, k, f, Holds(f)')
    OBVIOUS
  <2> QED
    BY <1>1, <1>2, <1>3, <1>4, <1>5, <2>1, NeedsStayMet
<1>8. OneStage(q) /\ StageEnds(q)
  BY <1>1, <1>2, <1>3, <1>4, ShapeStays DEF Fits
<1>9. /\ \A k \in DOMAIN q : q[k].fn = "stage_done" =>
             (\E i \in DOMAIN ops : ops[i].fn = "stage_done") \/ \E i \in DOMAIN p : p[i].fn = "stage_done"
      /\ \A k \in 2 .. Len(p) : p[k].fn = "stage_done" => \E i \in DOMAIN q : q[i].fn = "stage_done"
  <2>1. p # <<>> /\ OneStage(p)
    BY <1>2, <1>3
  <2>2. /\ \A k \in DOMAIN q : q[k].fn = "stage_done" =>
               (\E i \in DOMAIN ops : ops[i].fn = "stage_done")
               \/ (p[1].fn \notin Climbers /\ \E i \in DOMAIN p : p[i].fn = "stage_done")
        /\ \A k \in 2 .. Len(p) : p[k].fn = "stage_done" => \E i \in DOMAIN q : q[i].fn = "stage_done"
    BY <1>4, <2>1, EndsAfter
  <2> QED
    BY <2>2
<1>10. StageRises(call.prog)'
  BY <1>2, <1>3, <1>5, <1>9 DEF StageRises, Fits
<1>11. ProgramSound'
  BY <1>5, <1>7, <1>8, <1>10 DEF ProgramSound, OneStage, StageEnds
<1>12. CallSound'
  BY <1>1, <1>5 DEF BringUpInv, CallSound
<1>13. ASSUME NEW k \in DOMAIN p, p[k].fn = "stage_done"
       PROVE  \E j \in DOMAIN call'.prog : call'.prog[j].fn = "stage_done"
  <2>1. k \in 2 .. Len(p)
    BY <1>1, <1>3, <1>13
  <2> QED
    BY <1>5, <1>9, <1>13, <2>1
<1> QED
  BY <1>3, <1>11, <1>12, <1>13

\* A call that goes on within its stage, with the rings as they are.
LEMMA ProgramStays ==
    ASSUME BringUpInv, call.prog # <<>>, NEW ops \in Seq(Ops), MovesOn(ops),
           Fits(ops), reached' = reached, wptr' = wptr, Head(call.prog).fn # "stage_done",
           smu'.setup => smu.setup, cp'.ready => cp.ready,
           \A f : (Holds(f) /\ ~Takes(Head(call.prog), f)) \/ Gives(Head(call.prog), f) => Arrives(ops, f, Holds(f)'),
           \A k \in DOMAIN ops : \A f \in Needs(ops[k], reached) : Comes(ops, k, f, Holds(f)')
    PROVE  ProgramSound' /\ CallSound' /\ EffectsSound'
<1>1. /\ ProgramSound' /\ CallSound'
      /\ (\E k \in DOMAIN call.prog : call.prog[k].fn = "stage_done") =>
             \E k \in DOMAIN call'.prog : call'.prog[k].fn = "stage_done"
  BY ProgramGoes
<1>2. ~blocked /\ Head(call.prog) = call.prog[1]
  BY RunningFacts
<1>3. QuietBefore'
  BY <1>1, <1>2 DEF BringUpInv, EffectsSound, QuietBefore, Quiet
<1>4. EffectsSound'
  BY <1>3 DEF BringUpInv, EffectsSound, AtStageDone
<1> QED
  BY <1>1, <1>4

\* A call that goes on with nothing in place of its head.
LEMMA ContinueGoes ==
    ASSUME BringUpInv, call.prog # <<>>, Continue \/ MovesOn(<<>>),
           reached' = reached, Head(call.prog).fn # "stage_done",
           \A f : (Holds(f) /\ ~Takes(Head(call.prog), f)) \/ Gives(Head(call.prog), f) => Holds(f)'
    PROVE  /\ ProgramSound' /\ CallSound' /\ MovesOn(<<>>)
           /\ (\E k \in DOMAIN call.prog : call.prog[k].fn = "stage_done") =>
                  \E k \in DOMAIN call'.prog : call'.prog[k].fn = "stage_done"
<1>1. <<>> \in Seq(Ops) /\ DOMAIN <<>> = {}
  OBVIOUS
<1>2. MovesOn(<<>>)
  BY <1>1, RunningFacts, ThenMovesOn DEF Continue
<1>3. Fits(<<>>)
  BY <1>1 DEF Fits
<1>4. \A f : (Holds(f) /\ ~Takes(Head(call.prog), f)) \/ Gives(Head(call.prog), f) => Arrives(<<>>, f, Holds(f)')
  BY <1>1 DEF Arrives
<1>5. \A k \in DOMAIN <<>> : \A f \in Needs(<<>>[k], reached) : Comes(<<>>, k, f, Holds(f)')
  BY <1>1
<1> QED
  BY <1>1, <1>2, <1>3, <1>4, <1>5, ProgramGoes

\* The same, with nothing in place of the head.
LEMMA ContinueStays ==
    ASSUME BringUpInv, call.prog # <<>>, Continue \/ MovesOn(<<>>),
           reached' = reached, wptr' = wptr, Head(call.prog).fn # "stage_done",
           smu'.setup => smu.setup, cp'.ready => cp.ready,
           \A f : (Holds(f) /\ ~Takes(Head(call.prog), f)) \/ Gives(Head(call.prog), f) => Holds(f)'
    PROVE  /\ ProgramSound' /\ CallSound' /\ EffectsSound' /\ MovesOn(<<>>)
           /\ ~blocked' /\ blocked' \in BOOLEAN /\ call' \in CallTypes
<1>1. /\ ProgramSound' /\ CallSound' /\ MovesOn(<<>>)
      /\ (\E k \in DOMAIN call.prog : call.prog[k].fn = "stage_done") =>
             \E k \in DOMAIN call'.prog : call'.prog[k].fn = "stage_done"
  BY ContinueGoes
<1>2. ~blocked /\ Head(call.prog) = call.prog[1]
  BY RunningFacts
<1>3. QuietBefore'
  BY <1>1, <1>2 DEF BringUpInv, EffectsSound, QuietBefore, Quiet
<1>4. EffectsSound'
  BY <1>3 DEF BringUpInv, EffectsSound, AtStageDone
<1> QED
  BY <1>1, <1>2, <1>4 DEF MovesOn, BringUpInv, TypeOK

\* A call that fails has no program left, and a session that stays open after it is quiet.
LEMMA FailStays ==
    ASSUME BringUpInv, call.prog # <<>>, NEW e, NEW s, FailAfter(e, s), s \in BOOLEAN,
           reached' = reached, Head(call.prog).fn # "stage_done",
           smu'.setup => smu.setup, cp'.ready => cp.ready
    PROVE  /\ ProgramSound' /\ CallSound' /\ EffectsSound' /\ blocked' \in BOOLEAN
           /\ call' = Idle /\ (s => blocked')
<1>1. /\ ~blocked /\ call # Idle /\ call.busy
  BY RunningFacts
<1>2. call' = Idle /\ blocked' \in BOOLEAN /\ (s => blocked') /\ (~blocked' => wptr' = call.wptr)
  BY DEF FailAfter, Blocks
<1>3. call'.prog = <<>> /\ Idle \in CallTypes
  <2>1. NoWork \in [Engines -> Nat] /\ <<>> \in Seq(Ops)
    BY DEF NoWork
  <2> QED
    BY <1>2, <2>1 DEF Idle, CallTypes
<1>4. ProgramSound'
  BY <1>2, <1>3 DEF ProgramSound, NeedsMet, OneStage, StageRises, StageEnds
<1>5. CallSound'
  BY <1>2, <1>3 DEF CallSound
<1>6. ~blocked' => QuietBefore'
  <2>1. reached < SDMAInit \/ reached = SDMAInit
    BY DEF BringUpInv, TypeOK, Stages, SDMAInit
  <2>2. CASE reached = SDMAInit
    BY <2>2 DEF QuietBefore
  <2>3. CASE reached < SDMAInit
    <3>1. \A i \in Engines : call.wptr[i] = 0
      BY <2>3 DEF BringUpInv, CallSound
    <3>2. ~blocked' => \A i \in Engines : wptr'[i] = 0
      BY <1>2, <3>1
    <3> QED
      BY <3>2 DEF QuietBefore, Quiet, Engines
  <2> QED
    BY <2>1, <2>2, <2>3
<1>7. EffectsSound'
  BY <1>6 DEF BringUpInv, EffectsSound, AtStageDone
<1> QED
  BY <1>2, <1>4, <1>5, <1>7

-----------------------------------------------------------------------------
\* What only moves the call, with the driver and the device as they are.
LEMMA DataSame ==
    ASSUME BringUpInv, call.prog # <<>>, UNCHANGED <<driverVars, deviceVars>>,
           blocked' \in BOOLEAN, call' \in CallTypes
    PROVE  TypeOK' /\ DataSound'
<1>1. ~blocked
  BY RunningFacts
<1>2. /\ UNCHANGED <<reached, psp, bump, loaded, cp, mes, smu, wptr>>
      /\ UNCHANGED <<sos, acked, refused, out, maps>>
  BY DEF driverVars, deviceVars
<1>3. TypeOK'
  BY <1>2 DEF BringUpInv, TypeOK, CallTypes
<1>4. OpenSound'
  <2>1. PromisesKept' /\ LoadedSound'
    BY <1>1, <1>2 DEF BringUpInv, DataSound, OpenSound, PromisesKept, LoadedSound, Holds
  <2> QED
    BY <1>1, <1>2, <2>1 DEF BringUpInv, DataSound, OpenSound, Holds
<1>5. StagingSound' /\ CommandsSound'
  BY <1>1, <1>2 DEF BringUpInv, DataSound, OpenSound, StagingSound, StagingIntact, CommandsSound
<1> QED
  BY <1>3, <1>4, <1>5 DEF DataSound

\* Facts speak of the driver and the device only.
LEMMA FactsSame ==
    ASSUME UNCHANGED <<driverVars, deviceVars>>
    PROVE  \A f : Holds(f)' <=> Holds(f)
BY DEF driverVars, deviceVars, Holds

\* A function that only calls others.
LEMMA CallsOn ==
    ASSUME BringUpInv, call.prog # <<>>, UNCHANGED <<driverVars, deviceVars>>,
           Head(call.prog).fn # "stage_done", NEW ops \in Seq(Ops), Then(ops), Fits(ops),
           \A f : \A held \in BOOLEAN :
               (held /\ ~Takes(Head(call.prog), f)) \/ Gives(Head(call.prog), f) => Arrives(ops, f, held),
           \A k \in DOMAIN ops : \A f \in Needs(ops[k], reached) : Comes(ops, k, f, Holds(f))
    PROVE  BringUpInv'
<1>1. /\ UNCHANGED <<reached, wptr, smu, cp>>
      /\ call \in CallTypes
  BY RunningFacts DEF driverVars
<1>2. MovesOn(ops)
  BY <1>1, ThenMovesOn
<1>3. \A f : Holds(f)' <=> Holds(f)
  BY FactsSame
<1>4. \A f : (Holds(f) /\ ~Takes(Head(call.prog), f)) \/ Gives(Head(call.prog), f) => Arrives(ops, f, Holds(f)')
  <2> SUFFICES ASSUME NEW f, (Holds(f) /\ ~Takes(Head(call.prog), f)) \/ Gives(Head(call.prog), f)
               PROVE  Arrives(ops, f, Holds(f)')
    OBVIOUS
  <2>1. Holds(f)' \in BOOLEAN
    BY DEF Holds
  <2>2. (Holds(f)' /\ ~Takes(Head(call.prog), f)) \/ Gives(Head(call.prog), f)
    BY <1>3
  <2>3. PICK held \in BOOLEAN : held <=> Holds(f)'
    BY <2>1
  <2>4. Arrives(ops, f, held)
    BY <2>2, <2>3
  <2> QED
    BY <2>3, <2>4 DEF Arrives
<1>5. \A k \in DOMAIN ops : \A f \in Needs(ops[k], reached) : Comes(ops, k, f, Holds(f)')
  BY <1>3 DEF Comes
<1>6. ProgramSound' /\ CallSound' /\ EffectsSound'
  BY <1>1, <1>2, <1>4, <1>5, ProgramStays
<1>7. blocked' \in BOOLEAN /\ call' \in CallTypes
  BY <1>2 DEF MovesOn, BringUpInv, TypeOK
<1> QED
  BY <1>6, <1>7, DataSame DEF BringUpInv

\* A function that finds true what it should bring about.
LEMMA ContinuesOn ==
    ASSUME BringUpInv, call.prog # <<>>, UNCHANGED <<driverVars, deviceVars>>,
           Head(call.prog).fn # "stage_done", Continue, \A f : Gives(Head(call.prog), f) => Holds(f)
    PROVE  BringUpInv'
<1>1. UNCHANGED <<reached, wptr, smu, cp>> /\ call \in CallTypes
  BY RunningFacts DEF driverVars
<1>2. \A f : Holds(f)' <=> Holds(f)
  BY FactsSame
<1>3. ProgramSound' /\ CallSound' /\ EffectsSound'
  BY <1>1, <1>2, ContinueStays
<1>4. blocked' \in BOOLEAN /\ call' \in CallTypes
  BY <1>3 DEF ProgramSound, Continue, Then, BringUpInv, TypeOK
<1> QED
  BY <1>3, <1>4, DataSame DEF BringUpInv

\* A function that fails and has changed nothing.
LEMMA FailsOn ==
    ASSUME BringUpInv, call.prog # <<>>, UNCHANGED <<driverVars, deviceVars>>,
           Head(call.prog).fn # "stage_done", NEW e, Fail(e)
    PROVE  BringUpInv'
<1>1. UNCHANGED <<reached, wptr, smu, cp>> /\ call.submitted \in BOOLEAN
  BY RunningFacts DEF driverVars, CallTypes
<1>2. ProgramSound' /\ CallSound' /\ EffectsSound' /\ blocked' \in BOOLEAN
  BY <1>1, FailStays DEF Fail
<1>3. call' \in CallTypes
  BY <1>2 DEF ProgramSound
<1> QED
  BY <1>2, <1>3, DataSame DEF BringUpInv

\* A list of one function.
LEMMA OneArrives ==
    ASSUME NEW o, NEW f, NEW held \in BOOLEAN, (held /\ ~Takes(o, f)) \/ Gives(o, f)
    PROVE  Arrives(<<o>>, f, held)
BY DEF Arrives

\* A function that calls one other in its place.
LEMMA CallsOne ==
    ASSUME BringUpInv, call.prog # <<>>, UNCHANGED <<driverVars, deviceVars>>,
           Head(call.prog).fn # "stage_done", NEW o \in Ops, Then(<<o>>),
           o.fn \notin Climbers, o.fn \notin SDMASteps, o.fn \in Enders => Head(call.prog).fn \in Enders,
           \A f : Takes(o, f) => Takes(Head(call.prog), f),
           \A f : Gives(Head(call.prog), f) => Gives(o, f),
           \A f \in NeedsOf(o) : Holds(f)
    PROVE  BringUpInv'
<1>1. <<o>> \in Seq(Ops) /\ DOMAIN <<o>> = {1} /\ <<o>>[1] = o /\ Len(<<o>>) = 1
  OBVIOUS
<1>2. Fits(<<o>>)
  BY <1>1 DEF Fits, Climbers
<1>3. \A f : \A held \in BOOLEAN :
          (held /\ ~Takes(Head(call.prog), f)) \/ Gives(Head(call.prog), f) => Arrives(<<o>>, f, held)
  BY OneArrives
<1>4. \A k \in DOMAIN <<o>> : \A f \in Needs(<<o>>[k], reached) : Comes(<<o>>, k, f, Holds(f))
  BY <1>1 DEF Needs, Climbers, Comes, Kept
<1> QED
  BY <1>1, <1>2, <1>3, <1>4, CallsOn

\* The functions that can only be called with some arguments.
Chosen == {"payload_loop", "open_file", "file_loaded", "bringup_to", "psp_load_ip_fw", "payload_acked",
           "sdma_gfx_resume_instance", "sdma_ring_test"}

\* The functions a program may have.
LEMMA Typed ==
    /\ \A fn \in FunctionNames, x \in Args :
           /\ Op(fn, x) = [fn |-> fn, arg |-> x] /\ Op(fn, x).fn = fn /\ Op(fn, x).arg = x
           /\ fn \notin Chosen => Op(fn, x) \in Ops
    /\ \A x \in Words : x \in Args
    /\ \A op \in Ops : op.fn \in FunctionNames /\ op.arg \in Args
<1>1. ASSUME NEW fn \in FunctionNames, NEW x \in Args
      PROVE  Op(fn, x) = [fn |-> fn, arg |-> x] /\ Op(fn, x).fn = fn /\ Op(fn, x).arg = x
             /\ Op(fn, x) \in [fn : FunctionNames, arg : Args]
  BY DEF Op
<1>2. ASSUME NEW fn \in FunctionNames, NEW x \in Args,
             fn \notin Chosen
      PROVE  Op(fn, x) \in Ops
  BY <1>1, <1>2 DEF Ops, Chosen, SDMASteps
<1>3. \A op \in Ops : op.fn \in FunctionNames /\ op.arg \in Args
  BY DEF Ops
<1>4. \A x \in Words : x \in Args
  BY DEF Args
<1> QED
  BY <1>1, <1>2, <1>3, <1>4

\* Functions that have no need of their own and that later functions cannot notice.
LEMMA HardwareKeeps == ASSUME BringUpInv, Hardware PROVE BringUpInv'
<1>1. call.prog # <<>> /\ Head(call.prog).fn = "hardware" /\ UNCHANGED <<driverVars, deviceVars>>
  BY DEF Hardware, Running
<1>2. CASE Continue
  <2>1. \A f : ~Gives(Head(call.prog), f)
    BY <1>1 DEF Gives, FlagOf
  <2> QED
    BY <1>1, <1>2, <2>1, ContinuesOn
<1>3. CASE \E e \in Arg : Fail(e)
  BY <1>1, <1>3, FailsOn
<1> QED
  BY <1>2, <1>3 DEF Hardware

\* A call whose program is empty has done everything and returns.
LEMMA SucceedKeeps == ASSUME BringUpInv, Succeed PROVE BringUpInv'
<1>1. /\ call.prog = <<>> /\ call' = Idle /\ UNCHANGED <<blocked, reached, psp, bump, loaded, cp, mes, smu, wptr>>
      /\ UNCHANGED <<sos, acked, refused, out, maps>>
  BY DEF Succeed, driverVars, deviceVars
<1>2. call'.prog = <<>> /\ Idle \in CallTypes
  <2>1. NoWork \in [Engines -> Nat] /\ <<>> \in Seq(Ops)
    BY DEF NoWork
  <2> QED
    BY <1>1, <2>1 DEF Idle, CallTypes
<1>3. TypeOK'
  BY <1>1, <1>2 DEF BringUpInv, TypeOK, CallTypes
<1>4. ProgramSound' /\ CallSound'
  BY <1>1, <1>2 DEF ProgramSound, NeedsMet, OneStage, StageRises, StageEnds, CallSound
<1>5. EffectsSound'
  BY <1>1, <1>2 DEF BringUpInv, EffectsSound, QuietBefore, Quiet, AtStageDone
<1>6. OpenSound'
  <2>1. ~blocked => PromisesKept' /\ LoadedSound'
    BY <1>1 DEF BringUpInv, DataSound, OpenSound, PromisesKept, LoadedSound, Holds
  <2> QED
    BY <1>1, <2>1 DEF BringUpInv, DataSound, OpenSound, Holds
<1>7. StagingSound' /\ CommandsSound'
  BY <1>1 DEF BringUpInv, DataSound, StagingSound, StagingIntact, CommandsSound
<1> QED
  BY <1>3, <1>4, <1>5, <1>6, <1>7 DEF BringUpInv, DataSound

\* The secure OS is only looked for: without it the stage fails.
LEMMA LoadSOSStageKeeps == ASSUME BringUpInv, psp_load_sos PROVE BringUpInv'
BY FailsOn DEF psp_load_sos, Running

\* The functions that send one command after a look at the state.
LEMMA LoadIPFirmwareKeeps == ASSUME BringUpInv, psp_load_ip_fw PROVE BringUpInv'
<1>1. /\ call.prog # <<>> /\ Head(call.prog).fn = "psp_load_ip_fw"
      /\ UNCHANGED <<driverVars, deviceVars>>
  BY DEF psp_load_ip_fw, Running
<1>2. CASE Fail("NotReady")
  BY <1>1, <1>2, FailsOn
<1>3. CASE Then(<<Op("psp_ring_cmd_submit", Arg)>>)
  <2> DEFINE o == Op("psp_ring_cmd_submit", Arg)
  <2>1. o \in Ops
    BY <1>1, RunningFacts, Typed DEF Arg, Chosen, FunctionNames
  <2>2. o.fn = "psp_ring_cmd_submit" /\ o.arg = Arg /\ Arg = Head(call.prog).arg
    BY DEF Op, Arg
  <2> HIDE DEF o
  <2>3. \A f : ~Takes(o, f)
    BY <2>2 DEF Takes
  <2>4. \A f : Gives(Head(call.prog), f) => Gives(o, f)
    BY <1>1, <2>2 DEF Gives, FlagOf
  <2>5. NeedsOf(o) = {} /\ o.fn \notin Climbers /\ o.fn \notin Enders /\ o.fn \notin SDMASteps
    BY <2>2 DEF NeedsOf, Climbers, Enders, SDMASteps
  <2>6. Then(<<o>>)
    BY <1>3 DEF o
  <2> QED
    BY <1>1, <2>1, <2>3, <2>4, <2>5, <2>6, CallsOne
<1> QED
  BY <1>2, <1>3 DEF psp_load_ip_fw

\* The trusted application is loaded if there is one.
LEMMA ASDKeeps == ASSUME BringUpInv, psp_asd_initialize PROVE BringUpInv'
<1>1. /\ call.prog # <<>> /\ Head(call.prog).fn = "psp_asd_initialize"
      /\ UNCHANGED <<driverVars, deviceVars>>
  BY DEF psp_asd_initialize, Running
<1>2. \A f : Gives(Head(call.prog), f) <=> f = Is("asd")
  BY <1>1 DEF Gives, FlagOf
<1>3. CASE psp.asd = 0 /\ Continue
  BY <1>1, <1>2, <1>3, ContinuesOn DEF Holds
<1>4. CASE Then(<<Op("psp_ring_cmd_submit", "ASD")>>)
  <2> DEFINE o == Op("psp_ring_cmd_submit", "ASD")
  <2>1. o \in Ops
    BY Typed DEF Chosen, FunctionNames, Words, PSPCommands
  <2>2. o.fn = "psp_ring_cmd_submit" /\ o.arg = "ASD"
    BY DEF Op
  <2> HIDE DEF o
  <2>3. (\A f : ~Takes(o, f)) /\ Gives(o, Is("asd"))
    BY <2>2 DEF Takes, Gives, GivesCommand
  <2>4. NeedsOf(o) = {} /\ o.fn \notin Climbers /\ o.fn \notin Enders /\ o.fn \notin SDMASteps
    BY <2>2 DEF NeedsOf, Climbers, Enders, SDMASteps
  <2>5. Then(<<o>>)
    BY <1>4 DEF o
  <2> QED
    BY <1>1, <1>2, <2>1, <2>3, <2>4, <2>5, CallsOne
<1> QED
  BY <1>3, <1>4 DEF psp_asd_initialize

\* The register list is loaded if the package has one.
LEMMA RegisterListKeeps == ASSUME BringUpInv, psp_rl_load PROVE BringUpInv'
<1>1. /\ call.prog # <<>> /\ Head(call.prog).fn = "psp_rl_load"
      /\ UNCHANGED <<driverVars, deviceVars>>
  BY DEF psp_rl_load, Running
<1>2. \A f : Gives(Head(call.prog), f) <=> f = Is("rl")
  BY <1>1 DEF Gives, FlagOf
<1>3. CASE ~psp.pkg.rl /\ Continue
  BY <1>1, <1>2, <1>3, ContinuesOn DEF Holds
<1>4. CASE Then(<<Op("psp_load_ip_fw", "REG_LIST")>>)
  <2> DEFINE o == Op("psp_load_ip_fw", "REG_LIST")
  <2>1. "psp_load_ip_fw" \in FunctionNames /\ "REG_LIST" \in Args
    BY DEF FunctionNames, Args, Words, PSPCommands
  <2>2. o = [fn |-> "psp_load_ip_fw", arg |-> "REG_LIST"]
    BY DEF Op
  <2>3. o.fn = "psp_load_ip_fw" /\ o.arg = "REG_LIST" /\ o \in Ops
    BY <2>1, <2>2 DEF Ops, SDMASteps, Volatile, KIQCommands, SchedCommands
  <2>4. Then(<<o>>)
    BY <1>4
  <2> HIDE DEF o
  <2>5. (\A f : ~Takes(o, f)) /\ Gives(o, Is("rl"))
    BY <2>3 DEF Takes, Gives, GivesCommand
  <2>6. NeedsOf(o) = {} /\ o.fn \notin Climbers /\ o.fn \notin Enders /\ o.fn \notin SDMASteps
    BY <2>3 DEF NeedsOf, Climbers, Enders, SDMASteps
  <2> QED
    BY <1>1, <1>2, <2>3, <2>4, <2>5, <2>6, CallsOne
<1>5. CASE Fail("IOError")
  BY <1>1, <1>5, FailsOn
<1> QED
  BY <1>3, <1>4, <1>5 DEF psp_rl_load

\* A component for the boot loader.
LEMMA BootloaderKeeps == ASSUME BringUpInv, psp_bootloader_load_component PROVE BringUpInv'
<1>1. /\ call.prog # <<>> /\ Head(call.prog).fn = "psp_bootloader_load_component"
      /\ UNCHANGED <<driverVars, deviceVars>>
  BY DEF psp_bootloader_load_component, Running
<1>2. \A f : ~Gives(Head(call.prog), f)
  BY <1>1 DEF Gives, FlagOf
<1> QED
  BY <1>1, <1>2, ContinuesOn, FailsOn DEF psp_bootloader_load_component

\* The table of contents, through the ring.
LEMMA LoadTOCKeeps == ASSUME BringUpInv, psp_load_toc PROVE BringUpInv'
<1>1. /\ call.prog # <<>> /\ Head(call.prog).fn = "psp_load_toc"
      /\ UNCHANGED <<driverVars, deviceVars>>
  BY DEF psp_load_toc, Running
<1>2. CASE \E e \in {"NotReady", "BadArgument"} : Fail(e)
  BY <1>1, <1>2, FailsOn
<1>3. CASE Then(<<Op("psp_ring_cmd_submit", "TOC")>>)
  <2> DEFINE o == Op("psp_ring_cmd_submit", "TOC")
  <2>1. o \in Ops
    BY Typed DEF Chosen, FunctionNames, Words, PSPCommands
  <2>2. o.fn = "psp_ring_cmd_submit" /\ o.arg = "TOC" /\ Then(<<o>>)
    BY <1>3 DEF Op
  <2> HIDE DEF o
  <2>3. (\A f : ~Takes(o, f)) /\ (\A f : ~Gives(Head(call.prog), f))
    BY <1>1, <2>2 DEF Takes, Gives, FlagOf
  <2>4. NeedsOf(o) = {} /\ o.fn \notin Climbers /\ o.fn \notin Enders /\ o.fn \notin SDMASteps
    BY <2>2 DEF NeedsOf, Climbers, Enders, SDMASteps
  <2> QED
    BY <1>1, <2>1, <2>2, <2>3, <2>4, CallsOne
<1> QED
  BY <1>2, <1>3 DEF psp_load_toc

\* The SMU setup begins only once.
LEMMA SetupBeginKeeps == ASSUME BringUpInv, smu_setup_begin PROVE BringUpInv'
<1>1. /\ call.prog # <<>> /\ Head(call.prog).fn = "smu_setup_begin"
      /\ UNCHANGED <<driverVars, deviceVars>>
  BY DEF smu_setup_begin, Running
<1>2. \A f : ~Gives(Head(call.prog), f)
  BY <1>1 DEF Gives, FlagOf
<1> QED
  BY <1>1, <1>2, ContinuesOn, FailsOn DEF smu_setup_begin

\* The second set of resources, which the code may leave out.
LEMMA Resources1Keeps == ASSUME BringUpInv, mes_scheduler_resources_1 PROVE BringUpInv'
<1>1. /\ call.prog # <<>> /\ Head(call.prog).fn = "mes_scheduler_resources_1"
      /\ UNCHANGED <<driverVars, deviceVars>>
  BY DEF mes_scheduler_resources_1, Running
<1>2. \A f : ~Gives(Head(call.prog), f)
  BY <1>1 DEF Gives, FlagOf
<1>3. CASE Continue
  BY <1>1, <1>2, <1>3, ContinuesOn
<1>4. CASE Then(<<Submit("SET_HW_RSRC_1")>>)
  <2> DEFINE o == Op("mes_submit_pkt", "SET_HW_RSRC_1")
  <2>1. o \in Ops
    <3>1. "mes_submit_pkt" \in FunctionNames /\ "mes_submit_pkt" \notin Chosen
      BY DEF FunctionNames, Chosen
    <3>2. "SET_HW_RSRC_1" \in Args
      BY DEF Args, Words, Volatile, SchedCommands
    <3> QED
      BY <3>1, <3>2, Typed
  <2>2. o.fn = "mes_submit_pkt" /\ o.arg = "SET_HW_RSRC_1" /\ Then(<<o>>)
    BY <1>4 DEF Op, Submit
  <2> HIDE DEF o
  <2>3. \A f : Takes(o, f) => Takes(Head(call.prog), f)
    BY <1>1, <2>2 DEF Takes
  <2>4. NeedsOf(o) = {} /\ o.fn \notin Climbers /\ o.fn \notin Enders /\ o.fn \notin SDMASteps
    BY <2>2 DEF NeedsOf, Climbers, Enders, SDMASteps
  <2> QED
    BY <1>1, <1>2, <2>1, <2>2, <2>3, <2>4, CallsOne
<1> QED
  BY <1>3, <1>4 DEF mes_scheduler_resources_1

\* The stages that only look at flags: what the flags stand for was acknowledged.
LEMMA RequireLoadedKeeps == ASSUME BringUpInv, require_loaded PROVE BringUpInv'
<1>1. /\ call.prog # <<>> /\ Head(call.prog).fn = "require_loaded"
      /\ UNCHANGED <<driverVars, deviceVars>>
  BY DEF require_loaded, Running
<1>2. CASE Arg \subseteq loaded /\ Continue
  <2>1. LoadedSound
    BY <1>1, RunningFacts DEF BringUpInv, DataSound, OpenSound
  <2>2. ASSUME NEW f, Gives(Head(call.prog), f) PROVE Holds(f)
    <3>1. \/ "imu" \in Arg /\ f = Acked("IMU_D")
          \/ "sdma" \in Arg /\ f = Acked("SDMA")
          \/ "rlc" \in Arg /\ f \in {Acked("RLC_G"), Acked("AUTOLOAD_RLC")}
      BY <1>1, <2>2 DEF Gives, FlagOf, Arg
    <3> QED
      BY <1>2, <2>1, <3>1 DEF LoadedSound, Holds, Acked
  <2> QED
    BY <1>1, <1>2, <2>2, ContinuesOn
<1>3. CASE Fail("NotReady")
  BY <1>1, <1>3, FailsOn
<1> QED
  BY <1>2, <1>3 DEF require_loaded

\* The stage that asks for the loaded firmware.
LEMMA LoadCheckKeeps == ASSUME BringUpInv, psp_fw_load_check PROVE BringUpInv'
<1>1. /\ call.prog # <<>> /\ Head(call.prog).fn = "psp_fw_load_check"
      /\ UNCHANGED <<driverVars, deviceVars>>
  BY DEF psp_fw_load_check, Running
<1>2. CASE Then(<<Op("require_loaded", {"rlc", "imu", "sdma"})>>)
  <2> DEFINE o == Op("require_loaded", {"rlc", "imu", "sdma"})
  <2>1. {"rlc", "imu", "sdma"} \in Args /\ "require_loaded" \in FunctionNames /\ "require_loaded" \notin Chosen
    <3>1. \A x \in SUBSET Flags : x \in Args
      BY DEF Args
    <3>2. {"rlc", "imu", "sdma"} \in Args
      BY <3>1 DEF Flags
    <3> QED
      BY <3>2 DEF FunctionNames, Chosen
  <2>2. o \in Ops
    BY <2>1, Typed
  <2>3. o.fn = "require_loaded" /\ o.arg = {"rlc", "imu", "sdma"} /\ Then(<<o>>)
    BY <1>2 DEF Op
  <2> HIDE DEF o
  <2>4. \A f : ~Takes(o, f)
    BY <2>3 DEF Takes
  <2>5. ASSUME NEW f, Gives(Head(call.prog), f) PROVE Gives(o, f)
    <3>1. f \in Promise(PSPFwLoad)
      BY <1>1, <2>5 DEF Gives, FlagOf
    <3>2. f \in {Acked("IMU_D"), Acked("SDMA"), Acked("RLC_G"), Acked("AUTOLOAD_RLC")}
      BY <3>1 DEF Promise, Acknowledged, StageFlags, PSPFwLoad, PSPInit, PSPLoadSOS, PSPRingCreate, TMRSetup,
                  SMUInit, GFXInit, CPInit, MESInit, SDMAInit
    <3> QED
      BY <2>3, <3>2 DEF Gives
  <2>6. NeedsOf(o) = {} /\ o.fn \notin Climbers /\ o.fn \notin Enders /\ o.fn \notin SDMASteps
    BY <2>3 DEF NeedsOf, Climbers, Enders, SDMASteps
  <2> QED
    BY <1>1, <2>2, <2>3, <2>4, <2>5, <2>6, CallsOne
<1>3. CASE Fail("NotReady")
  BY <1>1, <1>3, FailsOn
<1> QED
  BY <1>2, <1>3 DEF psp_fw_load_check

\* Nobody has set cp.ready before the stage is done.
LEMMA CPInitFullKeeps == ASSUME BringUpInv, cp_init_full PROVE BringUpInv'
<1>1. /\ call.prog # <<>> /\ Head(call.prog).fn = "cp_init_full"
      /\ UNCHANGED <<driverVars, deviceVars>>
  BY DEF cp_init_full, Running
<1>2. reached = GFXInit - 1
  <2>1. At(GFXInit - 1) \in Needs(Head(call.prog), reached)
    BY <1>1 DEF Needs, NeedsOf
  <2> QED
    BY <1>1, <2>1, HeadServed DEF Holds, At, Is
<1>3. ~cp.ready
  BY <1>1, <1>2 DEF BringUpInv, EffectsSound, AtStageDone, GFXInit
<1>4. CASE Fail("NotReady")
  BY <1>1, <1>4, FailsOn
<1>5. CASE Then(<<Op("cp_map_gfx_queue", "")>>)
  <2> DEFINE o == Op("cp_map_gfx_queue", "")
  <2>1. o \in Ops
    <3>1. "cp_map_gfx_queue" \in FunctionNames /\ "cp_map_gfx_queue" \notin Chosen
      BY DEF FunctionNames, Chosen
    <3>2. "" \in Args
      BY DEF Args, Words
    <3> QED
      BY <3>1, <3>2, Typed
  <2>2. o.fn = "cp_map_gfx_queue" /\ o.arg = "" /\ Then(<<o>>)
    BY <1>5 DEF Op
  <2> HIDE DEF o
  <2>3. \A f : Takes(o, f) => Takes(Head(call.prog), f)
    BY <1>1, <2>2 DEF Takes
  <2>4. \A f : Gives(Head(call.prog), f) => Gives(o, f)
    BY <1>1, <2>2 DEF Gives, FlagOf
  <2>5. NeedsOf(o) = {At(GFXInit - 1)} /\ o.fn \notin Climbers /\ o.fn \notin SDMASteps
    BY <2>2 DEF NeedsOf, Climbers, SDMASteps
  <2>6. Holds(At(GFXInit - 1)) /\ Head(call.prog).fn \in Enders
    BY <1>1, <1>2 DEF Holds, At, Enders
  <2> QED
    BY <1>1, <2>1, <2>2, <2>3, <2>4, <2>5, <2>6, CallsOne
<1> QED
  BY <1>3, <1>4, <1>5 DEF cp_init_full

-----------------------------------------------------------------------------
\* A stage's functions, in order, make what the stage promises true and keep what they and later
\* functions of the call count on.
StageSound(s, S) ==
    /\ S \in Seq(Ops)
    /\ \A k \in DOMAIN S :
           /\ S[k].fn \notin Climbers /\ (S[k].fn \in Enders => k = Len(S))
           /\ \A f \in {Is("fwPri"), Is("incomplete"), At(s - 1)} : ~Takes(S[k], f)
           /\ \A f \in NeedsOf(S[k]) : f = At(s - 1) \/ (f = Is("fwPri") /\ s > PSPInit)
    /\ \A f \in Promise(s) :
           \E j \in DOMAIN S : Gives(S[j], f) /\ \A i \in DOMAIN S : i > j => ~Takes(S[i], f)

\* Functions that need nothing and take nothing.
Innocent ==
    {"hardware", "psp_init", "psp_load_sos", "psp_ring_create", "psp_ring_cmd_submit", "psp_setup_tmr",
     "psp_fw_load_check", "require_loaded", "smu_is_online", "smu_setup_begin", "cp_prepare_firmware",
     "cp_start_engines"}
\* They do so whatever their arguments.
LEMMA InnocentOps ==
    ASSUME NEW o, o.fn \in Innocent
    PROVE  NeedsOf(o) = {} /\ (\A f : ~Takes(o, f)) /\ o.fn \notin Climbers /\ o.fn \notin Enders
<1>1. NeedsOf(o) = {}
  BY DEF Innocent, NeedsOf
<1>2. \A f : ~Takes(o, f)
  BY DEF Innocent, Takes
<1> QED
  BY <1>1, <1>2 DEF Innocent, Climbers, Enders

\* The stages by number.
LEMMA StageNumbers ==
    /\ IPDiscovery = 1 /\ IHInit = 2 /\ GMCInit = 3 /\ PSPInit = 4 /\ PSPLoadSOS = 5 /\ PSPRingCreate = 6
    /\ TMRSetup = 7 /\ PSPFwLoad = 8 /\ SMUInit = 9 /\ IMUInit = 10 /\ RLCInit = 11 /\ CPInit = 12
    /\ MESInit = 13 /\ GFXInit = 14 /\ SDMAInit = 15
BY DEF IPDiscovery, IHInit, GMCInit, PSPInit, PSPLoadSOS, PSPRingCreate, TMRSetup, PSPFwLoad, SMUInit, IMUInit,
       RLCInit, CPInit, MESInit, GFXInit, SDMAInit

\* What each stage promises.
LEMMA Promises ==
    /\ \A s \in {1, 2, 3, 10, 11} : Promise(s) = {}
    /\ Promise(4) = {Is("fwPri")} /\ Promise(5) = {Is("sosAlive")} /\ Promise(6) = {Is("ring")}
    /\ Promise(7) = {Is("tmr")}
    /\ Promise(8) = {Acked("IMU_D"), Acked("SDMA"), Acked("RLC_G"), Acked("AUTOLOAD_RLC")}
    /\ Promise(9) = {Is("online"), Is("table")}
    /\ Promise(12) = {Acked(x) : x \in CPPayloads}
    /\ Promise(13) = {Acked(x) : x \in MESPayloads \cup {"KIQ_SET_HW_RSRC", "KIQ_SET_HW_RSRC_1", "MAP_SCHED",
                                                         "SET_HW_RSRC", "QUERY"}}
    /\ Promise(14) = {Acked("MAP_GFX"), Is("ready")}
    /\ Promise(15) = {Acked(x) : x \in Engines}
<1>1. \A s \in {1, 2, 3, 10, 11} : Acknowledged(s) = {} /\ StageFlags(s) = {}
  BY StageNumbers DEF Acknowledged, StageFlags
<1>2. /\ Acknowledged(4) = {} /\ Acknowledged(5) = {} /\ Acknowledged(6) = {} /\ Acknowledged(7) = {}
      /\ Acknowledged(9) = {}
  BY StageNumbers DEF Acknowledged
<1>3. /\ Acknowledged(8) = {"IMU_D", "SDMA", "RLC_G", "AUTOLOAD_RLC"} /\ Acknowledged(12) = CPPayloads
      /\ Acknowledged(13) = MESPayloads \cup {"KIQ_SET_HW_RSRC", "KIQ_SET_HW_RSRC_1", "MAP_SCHED",
                                              "SET_HW_RSRC", "QUERY"}
      /\ Acknowledged(14) = {"MAP_GFX"} /\ Acknowledged(15) = Engines
  BY StageNumbers DEF Acknowledged, CPPayloads
<1>4. /\ StageFlags(4) = {"fwPri"} /\ StageFlags(5) = {"sosAlive"} /\ StageFlags(6) = {"ring"}
      /\ StageFlags(7) = {"tmr"} /\ StageFlags(9) = {"online", "table"} /\ StageFlags(14) = {"ready"}
  BY StageNumbers DEF StageFlags
<1>5. StageFlags(8) = {} /\ StageFlags(12) = {} /\ StageFlags(13) = {} /\ StageFlags(15) = {}
  BY StageNumbers DEF StageFlags
<1>6. \A s \in {1, 2, 3, 10, 11} : Promise(s) = {}
  BY <1>1 DEF Promise
<1>7. Promise(4) = {Is("fwPri")} /\ Promise(5) = {Is("sosAlive")} /\ Promise(6) = {Is("ring")}
  BY <1>2, <1>4 DEF Promise
<1>8. Promise(7) = {Is("tmr")} /\ Promise(9) = {Is("online"), Is("table")}
  BY <1>2, <1>4 DEF Promise
<1>9. Promise(8) = {Acked("IMU_D"), Acked("SDMA"), Acked("RLC_G"), Acked("AUTOLOAD_RLC")}
  BY <1>3, <1>5 DEF Promise
<1>10. Promise(14) = {Acked("MAP_GFX"), Is("ready")}
  BY <1>3, <1>4 DEF Promise
<1>11. /\ Promise(12) = {Acked(x) : x \in CPPayloads} /\ Promise(15) = {Acked(x) : x \in Engines}
       /\ Promise(13) = {Acked(x) : x \in MESPayloads \cup {"KIQ_SET_HW_RSRC", "KIQ_SET_HW_RSRC_1", "MAP_SCHED",
                                                            "SET_HW_RSRC", "QUERY"}}
  BY <1>3, <1>5 DEF Promise
<1> QED
  BY <1>6, <1>7, <1>8, <1>9, <1>10, <1>11

\* Functions with the arguments that the stages give them.
LEMMA SomeOps ==
    /\ \A E \in SUBSET Errors : Op("hardware", E) \in Ops
    /\ \A F \in SUBSET Flags : Op("require_loaded", F) \in Ops
    /\ \A fn \in FunctionNames \ Chosen : Op(fn, "") \in Ops
    /\ \A x \in Words : Op("psp_ring_cmd_submit", x) \in Ops /\ Op("mes_submit_pkt", x) \in Ops
                        /\ Op("smu_send_msg", x) \in Ops
<1>1. /\ "hardware" \in FunctionNames \ Chosen /\ "require_loaded" \in FunctionNames \ Chosen
      /\ "psp_ring_cmd_submit" \in FunctionNames \ Chosen /\ "mes_submit_pkt" \in FunctionNames \ Chosen
      /\ "smu_send_msg" \in FunctionNames \ Chosen
  BY DEF FunctionNames, Chosen
<1>2. (\A E \in SUBSET Errors : E \in Args) /\ (\A F \in SUBSET Flags : F \in Args)
  BY DEF Args
<1>3. (\A x \in Words : x \in Args) /\ "" \in Words
  BY DEF Args, Words
<1> QED
  BY <1>1, <1>2, <1>3, Typed

\* What each stage runs.
LEMMA StageLists ==
    ASSUME NEW s
    PROVE  /\ s \in {IPDiscovery, IHInit} =>
             StageOps(s) =
             <<Op("hardware", {"NotReady"})>>
           /\ s = GMCInit =>
             StageOps(s) =
             <<Op("hardware", {"NoMemory", "Timeout"})>>
           /\ s = PSPInit =>
             StageOps(s) =
             <<Op("psp_init", "")>>
           /\ s = PSPLoadSOS =>
             StageOps(s) =
             <<Op("psp_load_sos", "")>>
           /\ s = PSPRingCreate =>
             StageOps(s) =
             <<Op("psp_ring_create", ""), Op("psp_ring_cmd_submit", "FB_FW_RESERV_ADDR"),
             Op("psp_ring_cmd_submit", "FB_FW_RESERV_EXT_ADDR")>>
           /\ s = TMRSetup =>
             StageOps(s) =
             <<Op("psp_setup_tmr", "")>>
           /\ s = PSPFwLoad =>
             StageOps(s) =
             <<Op("psp_fw_load_check", "")>>
           /\ s = SMUInit => StageOps(s) = SMUOps
           /\ s = IMUInit =>
             StageOps(s) =
             <<Op("require_loaded", {"imu"})>>
           /\ s = RLCInit =>
             StageOps(s) =
             <<Op("require_loaded", {"rlc"}), Op("hardware", {"Timeout", "NotAttached"})>>
           /\ s = CPInit =>
             StageOps(s) =
             <<Op("cp_prepare_firmware", ""), Op("hardware", {"NotReady", "Timeout"}),
             Op("require_loaded", {"rlc"}), Op("hardware", {"NoMemory"})>>
           /\ s = MESInit => StageOps(s) = MESOps
           /\ s = GFXInit =>
             StageOps(s) =
             <<Op("cp_init_full", "")>>
           /\ s = SDMAInit =>
             StageOps(s) =
             <<Op("hardware", {"NoMemory"}), Op("require_loaded", {"sdma"})>>
             \o ForEachSDMA("sdma_gfx_resume_instance") \o ForEachSDMA("sdma_ring_test")
<1>1. CASE s \in {IPDiscovery, IHInit}
  <2>1. /\ s # GMCInit /\ s # PSPInit /\ s # PSPLoadSOS /\ s # PSPRingCreate /\ s # TMRSetup /\ s # PSPFwLoad /\ s # SMUInit
        /\ s # IMUInit /\ s # RLCInit /\ s # CPInit /\ s # MESInit /\ s # GFXInit /\ s # SDMAInit
    BY <1>1, StageNumbers
  <2> QED
    BY <1>1, <2>1, StageNumbers, Zenon DEF StageOps
<1>2. CASE s = GMCInit
  <2>1. /\ s \notin {IPDiscovery, IHInit} /\ s # PSPInit /\ s # PSPLoadSOS /\ s # PSPRingCreate /\ s # TMRSetup /\ s # PSPFwLoad /\ s # SMUInit
        /\ s # IMUInit /\ s # RLCInit /\ s # CPInit /\ s # MESInit /\ s # GFXInit /\ s # SDMAInit
    BY <1>2, StageNumbers
  <2> QED
    BY <1>2, <2>1, StageNumbers, Zenon DEF StageOps
<1>3. CASE s = PSPInit
  <2>1. /\ s \notin {IPDiscovery, IHInit} /\ s # GMCInit /\ s # PSPLoadSOS /\ s # PSPRingCreate /\ s # TMRSetup /\ s # PSPFwLoad /\ s # SMUInit
        /\ s # IMUInit /\ s # RLCInit /\ s # CPInit /\ s # MESInit /\ s # GFXInit /\ s # SDMAInit
    BY <1>3, StageNumbers
  <2> QED
    BY <1>3, <2>1, StageNumbers, Zenon DEF StageOps
<1>4. CASE s = PSPLoadSOS
  <2>1. /\ s \notin {IPDiscovery, IHInit} /\ s # GMCInit /\ s # PSPInit /\ s # PSPRingCreate /\ s # TMRSetup /\ s # PSPFwLoad /\ s # SMUInit
        /\ s # IMUInit /\ s # RLCInit /\ s # CPInit /\ s # MESInit /\ s # GFXInit /\ s # SDMAInit
    BY <1>4, StageNumbers
  <2> QED
    BY <1>4, <2>1, StageNumbers, Zenon DEF StageOps
<1>5. CASE s = PSPRingCreate
  <2>1. /\ s \notin {IPDiscovery, IHInit} /\ s # GMCInit /\ s # PSPInit /\ s # PSPLoadSOS /\ s # TMRSetup /\ s # PSPFwLoad /\ s # SMUInit
        /\ s # IMUInit /\ s # RLCInit /\ s # CPInit /\ s # MESInit /\ s # GFXInit /\ s # SDMAInit
    BY <1>5, StageNumbers
  <2> QED
    BY <1>5, <2>1, StageNumbers, Zenon DEF StageOps
<1>6. CASE s = TMRSetup
  <2>1. /\ s \notin {IPDiscovery, IHInit} /\ s # GMCInit /\ s # PSPInit /\ s # PSPLoadSOS /\ s # PSPRingCreate /\ s # PSPFwLoad /\ s # SMUInit
        /\ s # IMUInit /\ s # RLCInit /\ s # CPInit /\ s # MESInit /\ s # GFXInit /\ s # SDMAInit
    BY <1>6, StageNumbers
  <2> QED
    BY <1>6, <2>1, StageNumbers, Zenon DEF StageOps
<1>7. CASE s = PSPFwLoad
  <2>1. /\ s \notin {IPDiscovery, IHInit} /\ s # GMCInit /\ s # PSPInit /\ s # PSPLoadSOS /\ s # PSPRingCreate /\ s # TMRSetup /\ s # SMUInit
        /\ s # IMUInit /\ s # RLCInit /\ s # CPInit /\ s # MESInit /\ s # GFXInit /\ s # SDMAInit
    BY <1>7, StageNumbers
  <2> QED
    BY <1>7, <2>1, StageNumbers, Zenon DEF StageOps
<1>8. CASE s = SMUInit
  <2>1. /\ s \notin {IPDiscovery, IHInit} /\ s # GMCInit /\ s # PSPInit /\ s # PSPLoadSOS /\ s # PSPRingCreate /\ s # TMRSetup /\ s # PSPFwLoad
        /\ s # IMUInit /\ s # RLCInit /\ s # CPInit /\ s # MESInit /\ s # GFXInit /\ s # SDMAInit
    BY <1>8, StageNumbers
  <2> QED
    BY <1>8, <2>1, StageNumbers, Zenon DEF StageOps
<1>9. CASE s = IMUInit
  <2>1. /\ s \notin {IPDiscovery, IHInit} /\ s # GMCInit /\ s # PSPInit /\ s # PSPLoadSOS /\ s # PSPRingCreate /\ s # TMRSetup /\ s # PSPFwLoad
        /\ s # SMUInit /\ s # RLCInit /\ s # CPInit /\ s # MESInit /\ s # GFXInit /\ s # SDMAInit
    BY <1>9, StageNumbers
  <2> QED
    BY <1>9, <2>1, StageNumbers, Zenon DEF StageOps
<1>10. CASE s = RLCInit
  <2>1. /\ s \notin {IPDiscovery, IHInit} /\ s # GMCInit /\ s # PSPInit /\ s # PSPLoadSOS /\ s # PSPRingCreate /\ s # TMRSetup /\ s # PSPFwLoad
        /\ s # SMUInit /\ s # IMUInit /\ s # CPInit /\ s # MESInit /\ s # GFXInit /\ s # SDMAInit
    BY <1>10, StageNumbers
  <2> QED
    BY <1>10, <2>1, StageNumbers, Zenon DEF StageOps
<1>11. CASE s = CPInit
  <2>1. /\ s \notin {IPDiscovery, IHInit} /\ s # GMCInit /\ s # PSPInit /\ s # PSPLoadSOS /\ s # PSPRingCreate /\ s # TMRSetup /\ s # PSPFwLoad
        /\ s # SMUInit /\ s # IMUInit /\ s # RLCInit /\ s # MESInit /\ s # GFXInit /\ s # SDMAInit
    BY <1>11, StageNumbers
  <2> QED
    BY <1>11, <2>1, StageNumbers, Zenon DEF StageOps
<1>12. CASE s = MESInit
  <2>1. /\ s \notin {IPDiscovery, IHInit} /\ s # GMCInit /\ s # PSPInit /\ s # PSPLoadSOS /\ s # PSPRingCreate /\ s # TMRSetup /\ s # PSPFwLoad
        /\ s # SMUInit /\ s # IMUInit /\ s # RLCInit /\ s # CPInit /\ s # GFXInit /\ s # SDMAInit
    BY <1>12, StageNumbers
  <2> QED
    BY <1>12, <2>1, StageNumbers, Zenon DEF StageOps
<1>13. CASE s = GFXInit
  <2>1. /\ s \notin {IPDiscovery, IHInit} /\ s # GMCInit /\ s # PSPInit /\ s # PSPLoadSOS /\ s # PSPRingCreate /\ s # TMRSetup /\ s # PSPFwLoad
        /\ s # SMUInit /\ s # IMUInit /\ s # RLCInit /\ s # CPInit /\ s # MESInit /\ s # SDMAInit
    BY <1>13, StageNumbers
  <2> QED
    BY <1>13, <2>1, StageNumbers, Zenon DEF StageOps
<1>14. CASE s = SDMAInit
  <2>1. /\ s \notin {IPDiscovery, IHInit} /\ s # GMCInit /\ s # PSPInit /\ s # PSPLoadSOS /\ s # PSPRingCreate /\ s # TMRSetup /\ s # PSPFwLoad
        /\ s # SMUInit /\ s # IMUInit /\ s # RLCInit /\ s # CPInit /\ s # MESInit /\ s # GFXInit
    BY <1>14, StageNumbers
  <2> QED
    BY <1>14, <2>1, StageNumbers, Zenon DEF StageOps
<1> QED
  BY <1>1, <1>2, <1>3, <1>4, <1>5, <1>6, <1>7, <1>8, <1>9, <1>10, <1>11, <1>12, <1>13, <1>14

\* Short lists of functions.
LEMMA ShortLists ==
    ASSUME NEW a \in Ops, NEW b \in Ops
    PROVE  /\ <<a>> \in Seq(Ops) /\ DOMAIN <<a>> = {1} /\ <<a>>[1] = a
           /\ <<a, b>> \in Seq(Ops) /\ DOMAIN <<a, b>> = {1, 2} /\ <<a, b>>[1] = a /\ <<a, b>>[2] = b
OBVIOUS

\* A stage of innocent functions brings about what one of them gives.
LEMMA InnocentStage ==
    ASSUME NEW s, NEW S \in Seq(Ops), \A k \in DOMAIN S : S[k].fn \in Innocent,
           \A f \in Promise(s) : \E j \in DOMAIN S : Gives(S[j], f)
    PROVE  StageSound(s, S)
<1>1. \A k \in DOMAIN S : NeedsOf(S[k]) = {} /\ (\A f : ~Takes(S[k], f)) /\ S[k].fn \notin Climbers /\ S[k].fn \notin Enders
  BY InnocentOps
<1> QED
  BY <1>1 DEF StageSound

\* The stages before the PSP touch hardware only.
LEMMA EarlyStages ==
    \A s \in {1, 2, 3} : StageSound(s, StageOps(s))
<1>1. /\ StageOps(1) = <<Op("hardware", {"NotReady"})>> /\ StageOps(2) = <<Op("hardware", {"NotReady"})>>
      /\ StageOps(3) = <<Op("hardware", {"NoMemory", "Timeout"})>>
  BY StageNumbers, StageLists
<1>2. {"NotReady"} \in SUBSET Errors /\ {"NoMemory", "Timeout"} \in SUBSET Errors
  BY DEF Errors
<1>3. ASSUME NEW E \in SUBSET Errors, NEW s \in {1, 2, 3} PROVE StageSound(s, <<Op("hardware", E)>>)
  <2> DEFINE S == <<Op("hardware", E)>>
  <2>1. S \in Seq(Ops) /\ DOMAIN S = {1} /\ S[1] = Op("hardware", E)
    BY SomeOps, ShortLists
  <2>2. S[1].fn = "hardware"
    BY DEF Op
  <2> HIDE DEF S
  <2>3. \A k \in DOMAIN S : S[k].fn \in Innocent
    BY <2>1, <2>2 DEF Innocent
  <2>4. StageSound(s, S)
    BY <2>1, <2>3, Promises, InnocentStage
  <2> QED
    BY <2>4 DEF S
<1> QED
  BY <1>1, <1>2, <1>3

\* A stage of one function without arguments.
LEMMA StageOfOne ==
    ASSUME NEW s, NEW fn \in Innocent, fn # "hardware", fn # "require_loaded", fn # "psp_ring_cmd_submit",
           \A f \in Promise(s) : Gives(Op(fn, ""), f)
    PROVE  StageSound(s, <<Op(fn, "")>>)
<1> DEFINE S == <<Op(fn, "")>>
<1>1. fn \in FunctionNames \ Chosen
  BY DEF Innocent, FunctionNames, Chosen
<1>2. S \in Seq(Ops) /\ DOMAIN S = {1} /\ S[1] = Op(fn, "")
  BY <1>1, SomeOps, ShortLists
<1>3. S[1].fn = fn
  BY DEF Op
<1> HIDE DEF S
<1>4. StageSound(s, S)
  BY <1>2, <1>3, InnocentStage
<1> QED
  BY <1>4 DEF S

\* The PSP stages of one function.
LEMMA PSPStages ==
    /\ StageSound(4, StageOps(4)) /\ StageSound(5, StageOps(5)) /\ StageSound(7, StageOps(7))
    /\ StageSound(8, StageOps(8))
<1>1. /\ StageOps(4) = <<Op("psp_init", "")>> /\ StageOps(5) = <<Op("psp_load_sos", "")>>
      /\ StageOps(7) = <<Op("psp_setup_tmr", "")>> /\ StageOps(8) = <<Op("psp_fw_load_check", "")>>
  BY StageNumbers, StageLists
<1>2. /\ Gives(Op("psp_init", ""), Is("fwPri")) /\ Gives(Op("psp_load_sos", ""), Is("sosAlive"))
      /\ Gives(Op("psp_setup_tmr", ""), Is("tmr"))
  BY DEF Gives, FlagOf, Op
<1>3. \A f \in Promise(8) : Gives(Op("psp_fw_load_check", ""), f)
  BY StageNumbers DEF Gives, Op
<1>4. StageSound(4, <<Op("psp_init", "")>>)
  BY <1>2, StageOfOne, Promises DEF Innocent
<1>5. StageSound(5, <<Op("psp_load_sos", "")>>)
  BY <1>2, StageOfOne, Promises DEF Innocent
<1>6. StageSound(7, <<Op("psp_setup_tmr", "")>>)
  BY <1>2, StageOfOne, Promises DEF Innocent
<1>7. StageSound(8, <<Op("psp_fw_load_check", "")>>)
  BY <1>3, StageOfOne DEF Innocent
<1> QED
  BY <1>1, <1>4, <1>5, <1>6, <1>7

\* The ring is created first, then asked.
LEMMA RingStage == StageSound(6, StageOps(6))
<1> DEFINE S == <<Op("psp_ring_create", ""), Op("psp_ring_cmd_submit", "FB_FW_RESERV_ADDR"),
                  Op("psp_ring_cmd_submit", "FB_FW_RESERV_EXT_ADDR")>>
<1>1. StageOps(6) = S
  BY StageNumbers, StageLists
<1>2. /\ Op("psp_ring_create", "") \in Ops /\ Op("psp_ring_cmd_submit", "FB_FW_RESERV_ADDR") \in Ops
      /\ Op("psp_ring_cmd_submit", "FB_FW_RESERV_EXT_ADDR") \in Ops
  <2>1. "psp_ring_create" \in FunctionNames \ Chosen
    BY DEF FunctionNames, Chosen
  <2>2. "FB_FW_RESERV_ADDR" \in Words /\ "FB_FW_RESERV_EXT_ADDR" \in Words
    BY DEF Words, PSPCommands, Optional
  <2> QED
    BY <2>1, <2>2, SomeOps
<1>3. /\ S \in Seq(Ops) /\ DOMAIN S = 1 .. 3 /\ S[1].fn = "psp_ring_create"
      /\ S[2].fn = "psp_ring_cmd_submit" /\ S[3].fn = "psp_ring_cmd_submit"
  <2>1. /\ S \in Seq(Ops) /\ DOMAIN S = 1 .. 3 /\ S[1] = Op("psp_ring_create", "")
        /\ S[2] = Op("psp_ring_cmd_submit", "FB_FW_RESERV_ADDR")
        /\ S[3] = Op("psp_ring_cmd_submit", "FB_FW_RESERV_EXT_ADDR")
    <3> DEFINE a == Op("psp_ring_create", "")
               b == Op("psp_ring_cmd_submit", "FB_FW_RESERV_ADDR")
               c == Op("psp_ring_cmd_submit", "FB_FW_RESERV_EXT_ADDR")
    <3>1. a \in Ops /\ b \in Ops /\ c \in Ops
      BY <1>2
    <3> HIDE DEF a, b, c
    <3>2. S = <<a, b, c>>
      BY DEF a, b, c
    <3> HIDE DEF S
    <3>3. S \in Seq(Ops) /\ DOMAIN S = 1 .. 3 /\ S[1] = a /\ S[2] = b /\ S[3] = c
      BY <3>1, <3>2
    <3> QED
      BY <3>3 DEF a, b, c
  <2> QED
    BY <2>1 DEF Op
<1> HIDE DEF S
<1>4. \A k \in DOMAIN S : S[k].fn \in Innocent
  BY <1>3 DEF Innocent
<1>5. Gives(S[1], Is("ring")) /\ 1 \in DOMAIN S
  BY <1>3 DEF Gives, FlagOf
<1> QED
  BY <1>1, <1>3, <1>4, <1>5, InnocentStage, Promises

\* The stages that look at what the uploads have loaded.
LEMMA LookingStages == StageSound(10, StageOps(10)) /\ StageSound(11, StageOps(11))
<1> DEFINE S == <<Op("require_loaded", {"imu"})>>
           T == <<Op("require_loaded", {"rlc"}), Op("hardware", {"Timeout", "NotAttached"})>>
<1>1. StageOps(10) = S /\ StageOps(11) = T
  BY StageNumbers, StageLists
<1>2. /\ Op("require_loaded", {"imu"}) \in Ops /\ Op("require_loaded", {"rlc"}) \in Ops
      /\ Op("hardware", {"Timeout", "NotAttached"}) \in Ops
  <2>1. {"imu"} \in SUBSET Flags /\ {"rlc"} \in SUBSET Flags /\ {"Timeout", "NotAttached"} \in SUBSET Errors
    BY DEF Flags, Errors
  <2> QED
    BY <2>1, SomeOps
<1>3. /\ S \in Seq(Ops) /\ DOMAIN S = {1} /\ S[1].fn = "require_loaded"
      /\ T \in Seq(Ops) /\ DOMAIN T = {1, 2} /\ T[1].fn = "require_loaded" /\ T[2].fn = "hardware"
  BY <1>2 DEF Op
<1> HIDE DEF S, T
<1>4. (\A k \in DOMAIN S : S[k].fn \in Innocent) /\ \A k \in DOMAIN T : T[k].fn \in Innocent
  BY <1>3 DEF Innocent
<1> QED
  BY <1>1, <1>3, <1>4, InnocentStage, Promises

\* The CP stage: the images, then the engines.
LEMMA CPStage == StageSound(12, StageOps(12))
<1> DEFINE S == <<Op("cp_prepare_firmware", ""), Op("hardware", {"NotReady", "Timeout"}),
                  Op("require_loaded", {"rlc"}), Op("hardware", {"NoMemory"})>>
<1>1. StageOps(12) = S
  BY StageNumbers, StageLists
<1>2. /\ Op("cp_prepare_firmware", "") \in Ops /\ Op("require_loaded", {"rlc"}) \in Ops
      /\ Op("hardware", {"NotReady", "Timeout"}) \in Ops /\ Op("hardware", {"NoMemory"}) \in Ops
  <2>1. {"rlc"} \in SUBSET Flags /\ {"NotReady", "Timeout"} \in SUBSET Errors /\ {"NoMemory"} \in SUBSET Errors
    BY DEF Flags, Errors
  <2>2. "cp_prepare_firmware" \in FunctionNames \ Chosen
    BY DEF FunctionNames, Chosen
  <2> QED
    BY <2>1, <2>2, SomeOps
<1>3. /\ S \in Seq(Ops) /\ DOMAIN S = 1 .. 4 /\ S[1].fn = "cp_prepare_firmware" /\ S[2].fn = "hardware"
      /\ S[3].fn = "require_loaded" /\ S[4].fn = "hardware"
  <2>1. /\ S \in Seq(Ops) /\ DOMAIN S = 1 .. 4 /\ S[1] = Op("cp_prepare_firmware", "")
        /\ S[2] = Op("hardware", {"NotReady", "Timeout"}) /\ S[3] = Op("require_loaded", {"rlc"})
        /\ S[4] = Op("hardware", {"NoMemory"})
    <3> DEFINE a == Op("cp_prepare_firmware", "")
               b == Op("hardware", {"NotReady", "Timeout"})
               c == Op("require_loaded", {"rlc"})
               d == Op("hardware", {"NoMemory"})
    <3>1. a \in Ops /\ b \in Ops /\ c \in Ops /\ d \in Ops
      BY <1>2
    <3> HIDE DEF a, b, c, d
    <3>2. S = <<a, b, c, d>>
      BY DEF a, b, c, d
    <3> HIDE DEF S
    <3>3. S \in Seq(Ops) /\ DOMAIN S = 1 .. 4 /\ S[1] = a /\ S[2] = b /\ S[3] = c /\ S[4] = d
      BY <3>1, <3>2
    <3> QED
      BY <3>3 DEF a, b, c, d
  <2> QED
    BY <2>1 DEF Op
<1> HIDE DEF S
<1>4. \A k \in DOMAIN S : S[k].fn \in Innocent
  BY <1>3 DEF Innocent
<1>5. 1 \in DOMAIN S /\ \A f \in Promise(12) : Gives(S[1], f)
  BY <1>3, Promises DEF Gives, Acked
<1> QED
  BY <1>1, <1>3, <1>4, <1>5, InnocentStage

\* The SMU stage.
LEMMA SMUStage == StageSound(9, StageOps(9))
<1> DEFINE r == Op("smu_send_msg", "required")
           b == Op("smu_send_msg", "best effort")
           a3 == Op("smu_is_online", "")
           a4 == Op("smu_setup_begin", "")
           a6 == Op("smu_metrics_reserve", "")
           a17 == Op("smu_setup_complete", "")
           S == SMUOps
<1>1. r \in Ops /\ b \in Ops /\ a3 \in Ops /\ a4 \in Ops /\ a6 \in Ops /\ a17 \in Ops
  <2>1. "required" \in Words /\ "best effort" \in Words
    BY DEF Words
  <2>2. /\ "smu_is_online" \in FunctionNames \ Chosen /\ "smu_setup_begin" \in FunctionNames \ Chosen
        /\ "smu_metrics_reserve" \in FunctionNames \ Chosen /\ "smu_setup_complete" \in FunctionNames \ Chosen
    BY DEF FunctionNames, Chosen
  <2> QED
    BY <2>1, <2>2, SomeOps
<1>2. S = <<r, b, a3, a4, r, a6, r, r, b, r, b, b, b, r, b, b, a17>>
  BY Zenon DEF SMUOps, Message
<1>3. StageOps(9) = S
  BY StageNumbers, StageLists
<1>4. /\ r.fn = "smu_send_msg" /\ b.fn = "smu_send_msg" /\ a3.fn = "smu_is_online" /\ a4.fn = "smu_setup_begin"
      /\ a6.fn = "smu_metrics_reserve" /\ a17.fn = "smu_setup_complete"
  BY DEF Op
<1> HIDE DEF r, b, a3, a4, a6, a17, S
<1>5. /\ S \in Seq(Ops) /\ Len(S) = 17 /\ DOMAIN S = 1 .. 17
      /\ S[3] = a3 /\ S[4] = a4 /\ S[6] = a6 /\ S[17] = a17
      /\ \A k \in (1 .. 17) \ {3, 4, 6, 17} : S[k] \in {r, b}
  <2>1. S \in Seq(Ops) /\ Len(S) = 17 /\ DOMAIN S = 1 .. 17
    BY <1>1, <1>2
  <2>2. S[3] = a3 /\ S[4] = a4 /\ S[6] = a6 /\ S[17] = a17
    BY <1>2
  <2>3. /\ S[1] = r /\ S[2] = b /\ S[5] = r /\ S[7] = r /\ S[8] = r /\ S[9] = b /\ S[10] = r
        /\ S[11] = b /\ S[12] = b /\ S[13] = b /\ S[14] = r /\ S[15] = b /\ S[16] = b
    BY <1>2
  <2>4. \A k \in (1 .. 17) \ {3, 4, 6, 17} : k \in {1, 2, 5, 7, 8, 9, 10, 11, 12, 13, 14, 15, 16}
    OBVIOUS
  <2> QED
    BY <2>1, <2>2, <2>3, <2>4
<1>6. \A k \in 1 .. 17 : \/ k # 17 /\ S[k].fn \in {"smu_send_msg", "smu_is_online", "smu_setup_begin", "smu_metrics_reserve"}
                         \/ k = 17 /\ S[k].fn = "smu_setup_complete"
  BY <1>4, <1>5
<1>7. ASSUME NEW k \in 1 .. 17
      PROVE  /\ S[k].fn \notin Climbers /\ (S[k].fn \in Enders => k = 17)
             /\ \A f : ~Takes(S[k], f)
             /\ NeedsOf(S[k]) \subseteq {Is("fwPri"), At(9 - 1)}
  <2>1. S[k].fn \notin Climbers /\ (S[k].fn \in Enders => k = 17)
    BY <1>6 DEF Climbers, Enders
  <2>2. \A f : ~Takes(S[k], f)
    BY <1>6 DEF Takes
  <2>3. NeedsOf(S[k]) \in {{}, {Is("fwPri")}, {At(9 - 1)}}
    BY <1>6, StageNumbers DEF NeedsOf
  <2> QED
    BY <2>1, <2>2, <2>3
<1>8. Gives(S[3], Is("online")) /\ Gives(S[6], Is("table"))
  BY <1>4, <1>5 DEF Gives, FlagOf
<1>9. \A f \in Promise(9) : \E j \in 1 .. 17 : Gives(S[j], f) /\ \A i \in 1 .. 17 : i > j => ~Takes(S[i], f)
  BY <1>7, <1>8, Promises
<1>10. \A k \in 1 .. 17 : \A f \in NeedsOf(S[k]) : f = At(9 - 1) \/ (f = Is("fwPri") /\ 9 > PSPInit)
  BY <1>7, StageNumbers
<1>11. StageSound(9, S)
  BY <1>5, <1>7, <1>9, <1>10 DEF StageSound
<1> QED
  BY <1>3, <1>11

\* The MES stage: mes_enable forgets what the pipes acknowledged, the commands come after it.
LEMMA MESStage == StageSound(13, StageOps(13))
<1> DEFINE a1 == Op("cp_start_engines", "")
           a2 == Op("mes_enable", "")
           h == Op("hardware", {"IOError"})
           n == Op("hardware", {"NotReady"})
           a4 == Op("mes_submit_pkt", "KIQ_SET_HW_RSRC")
           a5 == Op("mes_submit_pkt", "KIQ_SET_HW_RSRC_1")
           a7 == Op("mes_submit_pkt", "MAP_SCHED")
           a9 == Op("mes_submit_pkt", "SET_HW_RSRC")
           a10 == Op("mes_scheduler_resources_1", "")
           a12 == Op("mes_submit_pkt", "QUERY")
           S == MESOps
           Commands == {"KIQ_SET_HW_RSRC", "KIQ_SET_HW_RSRC_1", "MAP_SCHED", "SET_HW_RSRC", "QUERY"}
<1>1. /\ a1 \in Ops /\ a2 \in Ops /\ h \in Ops /\ n \in Ops /\ a4 \in Ops /\ a5 \in Ops /\ a7 \in Ops
      /\ a9 \in Ops /\ a10 \in Ops /\ a12 \in Ops
  <2>1. /\ "cp_start_engines" \in FunctionNames \ Chosen /\ "mes_enable" \in FunctionNames \ Chosen
        /\ "mes_scheduler_resources_1" \in FunctionNames \ Chosen
    BY DEF FunctionNames, Chosen
  <2>2. Commands \subseteq Words /\ {"IOError"} \in SUBSET Errors /\ {"NotReady"} \in SUBSET Errors
    BY DEF Words, Volatile, KIQCommands, SchedCommands, Errors
  <2> QED
    BY <2>1, <2>2, SomeOps
<1>2. S = <<a1, a2, h, a4, a5, h, a7, n, a9, a10, n, a12>>
  BY Zenon DEF MESOps, Submit
<1>3. StageOps(13) = S
  BY StageNumbers, StageLists
<1>4. /\ a1.fn = "cp_start_engines" /\ a2.fn = "mes_enable" /\ h.fn = "hardware" /\ n.fn = "hardware"
      /\ a10.fn = "mes_scheduler_resources_1"
      /\ a4.fn = "mes_submit_pkt" /\ a4.arg = "KIQ_SET_HW_RSRC" /\ a5.fn = "mes_submit_pkt" /\ a5.arg = "KIQ_SET_HW_RSRC_1"
      /\ a7.fn = "mes_submit_pkt" /\ a7.arg = "MAP_SCHED" /\ a9.fn = "mes_submit_pkt" /\ a9.arg = "SET_HW_RSRC"
      /\ a12.fn = "mes_submit_pkt" /\ a12.arg = "QUERY"
  BY DEF Op
<1> HIDE DEF a1, a2, h, n, a4, a5, a7, a9, a10, a12, S
<1>5. S \in Seq(Ops) /\ Len(S) = 12 /\ DOMAIN S = 1 .. 12
  BY <1>1, <1>2
<1>6. /\ S[1] = a1 /\ S[2] = a2 /\ S[3] = h /\ S[4] = a4 /\ S[5] = a5 /\ S[6] = h /\ S[7] = a7 /\ S[8] = n
      /\ S[9] = a9 /\ S[10] = a10 /\ S[11] = n /\ S[12] = a12
  BY <1>2
<1>7. \A k \in 1 .. 12 : k \in {1, 2, 3, 4, 5, 6, 7, 8, 9, 10, 11, 12}
  OBVIOUS
<1>8. \A k \in 1 .. 12 : \/ k = 2 /\ S[k].fn = "mes_enable"
                         \/ k # 2 /\ S[k].fn \in {"cp_start_engines", "hardware", "mes_scheduler_resources_1"}
                         \/ k # 2 /\ S[k].fn = "mes_submit_pkt" /\ S[k].arg \in Commands
  BY <1>4, <1>6, <1>7
<1>9. ASSUME NEW k \in 1 .. 12
      PROVE  /\ S[k].fn \notin Climbers /\ S[k].fn \notin Enders
             /\ \A f \in {Is("fwPri"), Is("incomplete"), At(13 - 1)} : ~Takes(S[k], f)
             /\ \A x : k # 2 => ~Takes(S[k], Acked(x))
             /\ NeedsOf(S[k]) \subseteq {At(13 - 1)}
  <2>1. S[k].fn \notin Climbers /\ S[k].fn \notin Enders
    BY <1>8 DEF Climbers, Enders
  <2>2. \A f \in {Is("fwPri"), Is("incomplete"), At(13 - 1)} : ~Takes(S[k], f)
    BY <1>8 DEF Takes, Is, At
  <2>3. \A x : k # 2 => ~Takes(S[k], Acked(x))
    BY <1>8 DEF Takes, Is, Acked
  <2>4. NeedsOf(S[k]) \in {{}, {At(13 - 1)}}
    BY <1>8, StageNumbers DEF NeedsOf
  <2> QED
    BY <2>1, <2>2, <2>3, <2>4
<1>10. \A x \in Commands : x \notin Untracked
  BY DEF Untracked, Optional
<1>11. \A x \in Commands : \E j \in 3 .. 12 : Gives(S[j], Acked(x))
  <2>1. /\ Gives(S[4], Acked("KIQ_SET_HW_RSRC")) /\ Gives(S[5], Acked("KIQ_SET_HW_RSRC_1"))
        /\ Gives(S[7], Acked("MAP_SCHED")) /\ Gives(S[9], Acked("SET_HW_RSRC")) /\ Gives(S[12], Acked("QUERY"))
    BY <1>4, <1>6, <1>10 DEF Gives
  <2> QED
    BY <2>1
<1>12. \A x \in MESPayloads : Gives(S[2], Acked(x))
  BY <1>4, <1>6 DEF Gives, Acked
<1>13. \A f \in Promise(13) : \E j \in 1 .. 12 : Gives(S[j], f) /\ \A i \in 1 .. 12 : i > j => ~Takes(S[i], f)
  <2> SUFFICES ASSUME NEW x \in MESPayloads \cup Commands
               PROVE  \E j \in 1 .. 12 : Gives(S[j], Acked(x)) /\ \A i \in 1 .. 12 : i > j => ~Takes(S[i], Acked(x))
    BY Promises
  <2>1. PICK j \in 2 .. 12 : Gives(S[j], Acked(x))
    BY <1>11, <1>12
  <2> QED
    BY <1>9, <2>1
<1>14. \A k \in 1 .. 12 : \A f \in NeedsOf(S[k]) : f = At(13 - 1) \/ (f = Is("fwPri") /\ 13 > PSPInit)
  BY <1>9
<1>15. StageSound(13, S)
  BY <1>5, <1>9, <1>13, <1>14 DEF StageSound
<1> QED
  BY <1>3, <1>15

\* The graphics stage: the queue is mapped and is ready.
LEMMA GFXStage == StageSound(14, StageOps(14))
<1> DEFINE a == Op("cp_init_full", "")
           S == <<a>>
<1>1. StageOps(14) = S
  BY StageNumbers, StageLists
<1>2. a \in Ops
  <2>1. "cp_init_full" \in FunctionNames \ Chosen
    BY DEF FunctionNames, Chosen
  <2> QED
    BY <2>1, SomeOps
<1>3. a.fn = "cp_init_full"
  BY DEF Op
<1> HIDE DEF a
<1>4. S \in Seq(Ops) /\ DOMAIN S = {1} /\ S[1] = a /\ Len(S) = 1
  BY <1>2
<1> HIDE DEF S
<1>5. a.fn \notin Climbers /\ (\A f \in {Is("fwPri"), Is("incomplete"), At(14 - 1)} : ~Takes(a, f))
  BY <1>3 DEF Climbers, Takes, Is, At
<1>6. NeedsOf(a) = {At(14 - 1)}
  BY <1>3, StageNumbers DEF NeedsOf
<1>7. \A f \in Promise(14) : Gives(a, f)
  BY <1>3, Promises DEF Gives, FlagOf
<1>8. StageSound(14, S)
  BY <1>4, <1>5, <1>6, <1>7 DEF StageSound
<1> QED
  BY <1>1, <1>8

\* Concatenation, by position.
LEMMA Joined ==
    ASSUME NEW X \in Seq(Ops), NEW Y \in Seq(Ops)
    PROVE  /\ X \o Y \in Seq(Ops) /\ Len(X \o Y) = Len(X) + Len(Y)
           /\ \A k \in 1 .. Len(X) : (X \o Y)[k] = X[k]
           /\ \A k \in 1 .. Len(Y) : (X \o Y)[Len(X) + k] = Y[k]
<1>1. X \o Y \in Seq(Ops) /\ Len(X \o Y) = Len(X) + Len(Y) /\ \A k \in 1 .. Len(X) : (X \o Y)[k] = X[k]
  OBVIOUS
<1>2. ASSUME NEW k \in 1 .. Len(Y) PROVE (X \o Y)[Len(X) + k] = Y[k]
  <2>1. Len(X) + k \in Len(X) + 1 .. Len(X) + Len(Y) /\ (Len(X) + k) - Len(X) = k
    OBVIOUS
  <2> QED
    BY <2>1
<1> QED
  BY <1>1, <1>2

\* The SDMA stage: every engine is resumed, then every engine is tested.
LEMMA SDMAStage == StageSound(15, StageOps(15))
<1> DEFINE h == Op("hardware", {"NoMemory"})
           q == Op("require_loaded", {"sdma"})
           A == ForEachSDMA("sdma_gfx_resume_instance")
           B == ForEachSDMA("sdma_ring_test")
           S == <<h, q>> \o A \o B
           n == Len(SDMAInstances)
<1>1. StageOps(15) = S
  BY StageNumbers, StageLists
<1>2. h \in Ops /\ q \in Ops
  <2>1. {"NoMemory"} \in SUBSET Errors /\ {"sdma"} \in SUBSET Flags
    BY DEF Errors, Flags
  <2> QED
    BY <2>1, SomeOps
<1>3. h.fn = "hardware" /\ q.fn = "require_loaded"
  BY DEF Op
<1>4. n \in Nat /\ Engines = {SDMAInstances[k] : k \in 1 .. n}
  BY BringUpAssumption DEF Engines
<1>5. \A x \in Engines : x \in Args /\ x \notin Untracked
  BY NamesAssumption DEF Args
<1>6. \A fn \in SDMASteps : fn \in FunctionNames /\ fn \in {"sdma_gfx_resume_instance", "sdma_ring_test"}
  BY DEF SDMASteps, FunctionNames
<1>7. \A fn \in SDMASteps, x \in Engines : Op(fn, x) \in Ops /\ Op(fn, x).fn = fn /\ Op(fn, x).arg = x
  <2> SUFFICES ASSUME NEW fn \in SDMASteps, NEW x \in Engines
               PROVE  Op(fn, x) \in Ops /\ Op(fn, x).fn = fn /\ Op(fn, x).arg = x
    OBVIOUS
  <2>1. Op(fn, x) = [fn |-> fn, arg |-> x] /\ Op(fn, x).fn = fn /\ Op(fn, x).arg = x
        /\ Op(fn, x) \in [fn : FunctionNames, arg : Args]
    BY <1>5, <1>6 DEF Op
  <2> QED
    BY <1>6, <2>1 DEF Ops
<1>8. /\ A \in Seq(Ops) /\ Len(A) = n /\ \A k \in 1 .. n : A[k] = Op("sdma_gfx_resume_instance", SDMAInstances[k])
      /\ B \in Seq(Ops) /\ Len(B) = n /\ \A k \in 1 .. n : B[k] = Op("sdma_ring_test", SDMAInstances[k])
  <2>1. ASSUME NEW fn \in SDMASteps
        PROVE  /\ ForEachSDMA(fn) \in Seq(Ops) /\ Len(ForEachSDMA(fn)) = n
               /\ \A k \in 1 .. n : ForEachSDMA(fn)[k] = Op(fn, SDMAInstances[k])
    <3>1. \A k \in 1 .. n : Op(fn, SDMAInstances[k]) \in Ops
      BY <1>4, <1>7
    <3> QED
      BY <1>4, <3>1 DEF ForEachSDMA
  <2> QED
    BY <2>1 DEF SDMASteps
<1>9. PICK C \in Seq(Ops) : C = <<h, q>> /\ Len(C) = 2 /\ C[1] = h /\ C[2] = q
  BY <1>2, ShortLists
<1>10. S = C \o A \o B
  BY <1>9
<1> HIDE DEF h, q, A, B, S, n
<1>11. /\ C \o A \in Seq(Ops) /\ Len(C \o A) = 2 + n
       /\ \A k \in 1 .. 2 : (C \o A)[k] = C[k]
       /\ \A k \in 3 .. 2 + n : (C \o A)[k] = A[k - 2]
  BY <1>4, <1>8, <1>9
<1>12. /\ S \in Seq(Ops) /\ Len(S) = 2 + n + n
       /\ \A k \in 1 .. 2 + n : S[k] = (C \o A)[k]
       /\ \A k \in 1 .. n : S[2 + n + k] = B[k]
  <2> DEFINE D == C \o A
  <2>1. D \in Seq(Ops) /\ Len(D) = 2 + n /\ S = D \o B
    BY <1>10, <1>11
  <2> HIDE DEF D
  <2>2. /\ D \o B \in Seq(Ops) /\ Len(D \o B) = Len(D) + Len(B)
        /\ \A k \in 1 .. Len(D) : (D \o B)[k] = D[k]
        /\ \A k \in 1 .. Len(B) : (D \o B)[Len(D) + k] = B[k]
    BY <1>8, <2>1, Joined
  <2>3. /\ S \in Seq(Ops) /\ Len(S) = 2 + n + n
        /\ \A k \in 1 .. 2 + n : S[k] = D[k]
        /\ \A k \in 1 .. n : S[2 + n + k] = B[k]
    BY <1>8, <2>1, <2>2
  <2> QED
    BY <2>3 DEF D
<1>13. ASSUME NEW k \in 1 .. 2 + n + n
       PROVE  S[k].fn \in {"hardware", "require_loaded"} \cup SDMASteps
  <2>1. CASE k \in {1, 2}
    BY <1>3, <1>4, <1>9, <1>11, <1>12, <2>1, SMTT(30)
  <2>2. CASE k \in 3 .. 2 + n
    <3>1. k \in 1 .. 2 + n /\ k - 2 \in 1 .. n
      BY <1>4, <2>2
    <3>2. S[k] = Op("sdma_gfx_resume_instance", SDMAInstances[k - 2]) /\ SDMAInstances[k - 2] \in Engines
      BY <1>4, <1>8, <1>11, <1>12, <2>2, <3>1
    <3> QED
      BY <1>7, <3>2 DEF SDMASteps
  <2>3. CASE k \in 3 + n .. 2 + n + n
    <3>1. k - n - 2 \in 1 .. n /\ 2 + n + (k - n - 2) = k
      BY <1>4, <2>3
    <3>2. S[k] = Op("sdma_ring_test", SDMAInstances[k - n - 2]) /\ SDMAInstances[k - n - 2] \in Engines
      BY <1>4, <1>8, <1>12, <3>1
    <3> QED
      BY <1>7, <3>2 DEF SDMASteps
  <2> QED
    BY <1>4, <2>1, <2>2, <2>3
<1>14. DOMAIN S = 1 .. 2 + n + n
  BY <1>4, <1>12
<1>15. ASSUME NEW k \in 1 .. 2 + n + n
       PROVE  /\ S[k].fn \notin Climbers /\ S[k].fn \notin Enders /\ (\A f : ~Takes(S[k], f))
              /\ \A f \in NeedsOf(S[k]) : f = At(15 - 1)
  <2>1. S[k].fn \notin Climbers /\ S[k].fn \notin Enders
    BY <1>13 DEF Climbers, Enders, SDMASteps
  <2>2. \A f : ~Takes(S[k], f)
    BY <1>13 DEF Takes, SDMASteps
  <2>3. NeedsOf(S[k]) \in {{}, {At(15 - 1)}}
    BY <1>13, StageNumbers DEF NeedsOf, SDMASteps
  <2> QED
    BY <2>1, <2>2, <2>3
<1>16. ASSUME NEW f \in Promise(15) PROVE \E j \in 1 .. 2 + n + n : Gives(S[j], f)
  <2>1. PICK k \in 1 .. n : f = Acked(SDMAInstances[k])
    BY <1>4, Promises
  <2>2. S[2 + n + k] = Op("sdma_ring_test", SDMAInstances[k]) /\ SDMAInstances[k] \in Engines
        /\ 2 + n + k \in 1 .. 2 + n + n
    BY <1>4, <1>8, <1>12
  <2>3. S[2 + n + k].fn = "sdma_ring_test" /\ S[2 + n + k].arg = SDMAInstances[k]
    BY <1>7, <2>2 DEF SDMASteps
  <2>4. Gives(S[2 + n + k], f)
    BY <1>5, <2>1, <2>2, <2>3 DEF Gives
  <2> QED
    BY <2>2, <2>4
<1>17. StageSound(15, S)
  BY <1>12, <1>14, <1>15, <1>16 DEF StageSound
<1> QED
  BY <1>1, <1>17

\* Every stage brings about what it promises.
LEMMA AllStages == \A s \in 1 .. 15 : StageSound(s, StageOps(s))
<1>1. \A s \in 1 .. 15 : s \in {1, 2, 3, 4, 5, 6, 7, 8, 9, 10, 11, 12, 13, 14, 15}
  OBVIOUS
<1> QED
  BY <1>1, EarlyStages, PSPStages, RingStage, SMUStage, LookingStages, CPStage, MESStage, GFXStage, SDMAStage

\* A turn of the loop: a stage, its end, and the rest of the loop.
LEMMA ClimbKeeps == ASSUME BringUpInv, bringup_to PROVE BringUpInv'
<1>1. /\ call.prog # <<>> /\ Head(call.prog).fn = "bringup_to" /\ UNCHANGED <<driverVars, deviceVars>>
  BY DEF bringup_to, Running
<1> DEFINE hd == Head(call.prog)
           s == reached + 1
<1>2. hd \in Ops /\ hd.fn = "bringup_to" /\ hd.arg \in 0 .. 15 /\ Arg = hd.arg
  BY <1>1, RunningFacts, StageNumbers DEF Ops, Stages, Arg
<1>3. /\ ~blocked /\ PromisesKept /\ reached \in 0 .. 15
  BY <1>1, RunningFacts, StageNumbers DEF BringUpInv, DataSound, OpenSound, TypeOK, Stages
<1>4. reached >= 4 => Holds(Is("fwPri"))
  <2>1. reached >= 4 => 4 \in 1 .. reached /\ Is("fwPri") \in Promise(4)
    BY <1>3, Promises
  <2> QED
    BY <1>3, <2>1 DEF PromisesKept
<1>5. \A f : Gives(hd, f) <=> f = Is("fwPri") /\ hd.arg >= 4
  BY <1>2, StageNumbers DEF Gives, FlagOf
<1>6. CASE reached >= Arg /\ Continue
  <2>1. \A f : Gives(Head(call.prog), f) => Holds(f)
    BY <1>2, <1>3, <1>4, <1>5, <1>6
  <2> QED
    BY <1>1, <1>6, <2>1, ContinuesOn
<1>7. CASE ~(reached >= Arg) /\ Then(StageOps(reached + 1) \o <<Op("stage_done", ""), Head(call.prog)>>)
  <2> DEFINE S == StageOps(reached + 1)
             d == Op("stage_done", "")
             E == <<d, hd>>
             ops == S \o E
             n == Len(S)
  <2>1. s \in 1 .. 15 /\ reached = s - 1
    <3>1. Arg \in 0 .. 15 /\ ~(reached >= Arg) /\ reached \in 0 .. 15
      BY <1>2, <1>3, <1>7
    <3> QED
      BY <3>1
  <2>2. StageSound(s, S)
    BY <2>1, AllStages
  <2>3. d \in Ops /\ d.fn = "stage_done"
    <3>1. "stage_done" \in FunctionNames \ Chosen
      BY DEF FunctionNames, Chosen
    <3> QED
      BY <3>1, SomeOps DEF Op
  <2> HIDE DEF d, S
  <2>4. S \in Seq(Ops) /\ n \in Nat /\ DOMAIN S = 1 .. n
    BY <2>2 DEF StageSound
  <2>5. E \in Seq(Ops) /\ Len(E) = 2 /\ E[1] = d /\ E[2] = hd
    BY <1>2, <2>3, ShortLists
  <2> HIDE DEF E, hd
  <2>6. /\ ops \in Seq(Ops) /\ Len(ops) = n + 2 /\ \A k \in 1 .. n : ops[k] = S[k]
        /\ ops[n + 1] = d /\ ops[n + 2] = hd
    <3>1. /\ ops \in Seq(Ops) /\ Len(ops) = Len(S) + Len(E)
          /\ \A k \in 1 .. Len(S) : ops[k] = S[k]
          /\ \A k \in 1 .. Len(E) : ops[Len(S) + k] = E[k]
      BY <2>4, <2>5, Joined
    <3> HIDE DEF ops
    <3>2. 1 \in 1 .. Len(E) /\ 2 \in 1 .. Len(E)
      BY <2>5
    <3> QED
      BY <2>5, <3>1, <3>2
  <2>7. DOMAIN ops = 1 .. n + 2 /\ \A k \in 1 .. n + 2 : k \in 1 .. n \/ k = n + 1 \/ k = n + 2
    BY <2>4, <2>6
  <2>8. Then(ops)
    BY <1>7 DEF S, d, E, hd
  <2> HIDE DEF ops, n
  <2>9. \A k \in 1 .. n : /\ ops[k].fn \notin Climbers /\ (ops[k].fn \in Enders => k = n)
                          /\ \A f \in {Is("fwPri"), Is("incomplete"), At(s - 1)} : ~Takes(ops[k], f)
                          /\ \A f \in NeedsOf(ops[k]) : f = At(s - 1) \/ (f = Is("fwPri") /\ s > 4)
    <3>1. \A k \in DOMAIN S : /\ S[k].fn \notin Climbers /\ (S[k].fn \in Enders => k = Len(S))
                              /\ \A f \in {Is("fwPri"), Is("incomplete"), At(s - 1)} : ~Takes(S[k], f)
                              /\ \A f \in NeedsOf(S[k]) : f = At(s - 1) \/ (f = Is("fwPri") /\ s > PSPInit)
      BY <2>2 DEF StageSound
    <3>2. PSPInit = 4 /\ n = Len(S)
      BY StageNumbers DEF n
    <3> HIDE DEF s
    <3> QED
      BY <2>4, <2>6, <3>1, <3>2
  <2>10. \A f \in Promise(s) : \E j \in 1 .. n : Gives(ops[j], f) /\ \A i \in 1 .. n : i > j => ~Takes(ops[i], f)
    BY <2>2, <2>4, <2>6 DEF StageSound
  <2>11. /\ d.fn \notin Enders /\ d.fn \notin SDMASteps /\ hd.fn \notin Enders /\ hd.fn \notin SDMASteps
         /\ hd.fn \in Climbers /\ "stage_done" \in Climbers /\ hd.fn # "stage_done"
    BY <1>2, <2>3 DEF Enders, SDMASteps, Climbers
  <2>12. Fits(ops)
    <3>1. \A k \in 1 .. n + 2 : ops[k].fn = "stage_done" => k = n + 1
      BY <2>4, <2>6, <2>7, <2>9, <2>11
    <3>2. \A j, k \in 1 .. n + 2 : j < k /\ ops[k].fn = "stage_done" => ops[j].fn \notin Climbers
      BY <2>4, <2>7, <2>9, <3>1
    <3>3. \A k \in 1 .. n + 2 : ops[k].fn \in Enders => k < n + 2 /\ ops[k + 1].fn = "stage_done"
      BY <2>3, <2>4, <2>6, <2>7, <2>9, <2>11
    <3>4. \A k \in 1 .. n + 2 : ops[k].fn \in SDMASteps => \E m \in 1 .. n + 2 : m > k /\ ops[m].fn = "stage_done"
      <4>1. \A k \in 1 .. n + 2 : ops[k].fn \in SDMASteps => k \in 1 .. n
        BY <2>6, <2>7, <2>11
      <4>2. n + 1 \in 1 .. n + 2 /\ ops[n + 1].fn = "stage_done"
        BY <2>3, <2>4, <2>6
      <4> QED
        BY <2>4, <4>1, <4>2
    <3>5. reached < SDMAInit
      BY <2>1, StageNumbers
    <3> QED
      BY <2>6, <2>7, <2>11, <3>2, <3>3, <3>4, <3>5 DEF Fits, hd
  <2>13. ASSUME NEW f, NEW held \in BOOLEAN, (held /\ ~Takes(Head(call.prog), f)) \/ Gives(Head(call.prog), f)
         PROVE  Arrives(ops, f, held)
    <3>1. CASE Gives(hd, f)
      <4>1. n + 2 \in DOMAIN ops /\ Gives(ops[n + 2], f) /\ \A i \in DOMAIN ops : ~(i > n + 2)
        BY <2>4, <2>6, <2>7, <3>1
      <4> QED
        BY <4>1 DEF Arrives
    <3>2. CASE held /\ ~Takes(hd, f)
      <4>1. f \in {Is("fwPri"), Is("incomplete")}
        BY <1>2, <3>2 DEF Takes
      <4>2. ~Takes(d, f)
        BY <2>3, <4>1 DEF Takes, Is
      <4>3. \A i \in 1 .. n + 2 : ~Takes(ops[i], f)
        BY <2>6, <2>7, <2>9, <3>2, <4>1, <4>2
      <4> QED
        BY <2>7, <3>2, <4>3 DEF Arrives
    <3> QED
      BY <2>13, <3>1, <3>2 DEF hd
  <2>14. ASSUME NEW k \in 1 .. n + 2, NEW f \in Needs(ops[k], reached) PROVE Comes(ops, k, f, Holds(f))
    <3>1. CASE k \in 1 .. n
      <4>1. f \in NeedsOf(ops[k])
        BY <2>9, <2>11, <2>14, <3>1 DEF Needs
      <4>2. Holds(f)
        <5>1. CASE f = At(s - 1)
          BY <2>1, <5>1 DEF Holds, At
        <5>2. CASE f = Is("fwPri") /\ s > 4
          BY <1>4, <2>1, <5>2
        <5> QED
          BY <2>9, <3>1, <4>1, <5>1, <5>2
      <4>3. \A i \in 1 .. k - 1 : i \in 1 .. n
        BY <2>4, <3>1
      <4>4. Kept(ops, f, 1, k - 1)
        BY <2>9, <3>1, <4>1, <4>3 DEF Kept
      <4> QED
        BY <4>2, <4>4 DEF Comes
    <3>2. CASE k = n + 1
      <4>1. f \in Promise(s) /\ (n + 1) - 1 = n
        BY <2>3, <2>4, <2>6, <2>14, <3>2 DEF Needs
      <4>2. PICK j \in 1 .. n : Gives(ops[j], f) /\ \A i \in 1 .. n : i > j => ~Takes(ops[i], f)
        BY <2>10, <4>1
      <4>3. \A i \in j + 1 .. n : i \in 1 .. n /\ i > j
        BY <2>4
      <4>4. Kept(ops, f, j + 1, n)
        BY <4>2, <4>3 DEF Kept
      <4> QED
        BY <3>2, <4>1, <4>2, <4>4 DEF Comes
    <3>3. CASE k = n + 2
      <4>1. Needs(hd, reached) = {}
        BY <1>2 DEF Needs, NeedsOf
      <4> QED
        BY <2>6, <2>14, <3>3, <4>1
    <3> QED
      BY <2>7, <3>1, <3>2, <3>3
  <2>15. Head(call.prog).fn # "stage_done"
    BY <1>1
  <2> QED
    BY <1>1, <2>6, <2>7, <2>8, <2>12, <2>13, <2>14, <2>15, CallsOn
<1> QED
  BY <1>6, <1>7 DEF bringup_to

-----------------------------------------------------------------------------
\* What a stage promises stays true when nothing it rests on is taken back.
LEMMA PromiseFacts ==
    \A s : \A f \in Promise(s) : (\E x \in Acknowledged(s) : f = Acked(x)) \/ (\E flag \in StageFlags(s) : f = Is(flag))
BY DEF Promise

\* The flags that stages promise.
LEMMA FlagNames ==
    \A s : StageFlags(s) \subseteq {"fwPri", "sosAlive", "ring", "tmr", "online", "table", "ready"}
<1> SUFFICES ASSUME NEW s PROVE StageFlags(s) \subseteq {"fwPri", "sosAlive", "ring", "tmr", "online", "table", "ready"}
  OBVIOUS
<1>1. StageFlags(s) \in {{"fwPri"}, {"sosAlive"}, {"ring"}, {"tmr"}, {"online", "table"}, {"ready"}, {}}
  BY DEF StageFlags
<1> QED
  BY <1>1

\* Promises stay kept.
LEMMA PromisesStay ==
    ASSUME PromisesKept, reached' = reached,
           \A s \in 1 .. reached : \A x \in Acknowledged(s) : x \in acked => x \in acked',
           psp.fwPri => psp'.fwPri, psp.sosAlive => psp'.sosAlive, psp.ring => psp'.ring, psp.tmr => psp'.tmr,
           smu.online => smu'.online, smu.table # 0 => smu'.table # 0, cp.ready => cp'.ready
    PROVE  PromisesKept'
<1> SUFFICES ASSUME NEW s \in 1 .. reached, NEW f \in Promise(s) PROVE Holds(f)'
  BY DEF PromisesKept
<1>1. Holds(f)
  BY DEF PromisesKept
<1>2. CASE \E x \in Acknowledged(s) : f = Acked(x)
  <2>1. PICK x \in Acknowledged(s) : f = Acked(x)
    BY <1>2
  <2>2. x \in acked
    BY <1>1, <2>1 DEF Holds, Acked, Is, At
  <2> QED
    BY <2>1, <2>2 DEF Holds, Acked
<1>3. CASE \E flag \in StageFlags(s) : f = Is(flag)
  <2>1. PICK flag \in {"fwPri", "sosAlive", "ring", "tmr", "online", "table", "ready"} : f = Is(flag)
    BY <1>3, FlagNames
  <2> QED
    BY <1>1, <2>1 DEF Holds, Is
<1> QED
  BY <1>2, <1>3, PromiseFacts

\* The open session while a function runs.
LEMMA OpenFacts ==
    ASSUME BringUpInv, call.prog # <<>>
    PROVE  /\ PromisesKept /\ LoadedSound /\ StagingSound /\ CommandsSound /\ TypeOK
           /\ psp.sosAlive => sos
           /\ psp.complete => "rlc" \in loaded /\ Holds(Is("rl")) /\ Holds(Is("asd"))
           /\ out["psp"] = 0 /\ ~refused
BY RunningFacts DEF BringUpInv, DataSound, OpenSound

\* The need of the head that the chain be incomplete.
LEMMA IncompleteHere ==
    ASSUME BringUpInv, call.prog # <<>>, Is("incomplete") \in NeedsOf(Head(call.prog))
    PROVE  ~psp.complete
<1>1. Head(call.prog).fn # "stage_done"
  BY DEF NeedsOf
<1>2. Holds(Is("incomplete"))
  BY <1>1, HeadServed DEF Needs
<1> QED
  BY <1>2 DEF Holds, Is, At, Acked

\* The need of the head for the stage it is called in.
LEMMA AtHere ==
    ASSUME BringUpInv, call.prog # <<>>, NEW s, At(s) \in NeedsOf(Head(call.prog))
    PROVE  reached = s
<1>1. Head(call.prog).fn # "stage_done"
  BY DEF NeedsOf
<1>2. Holds(At(s))
  BY <1>1, HeadServed DEF Needs
<1> QED
  BY <1>2 DEF Holds, Is, At

PSPTypes ==
    [fwPri : BOOLEAN, sosAlive : BOOLEAN, ring : BOOLEAN, tmr : BOOLEAN, complete : BOOLEAN,
     pkg : Packages \cup {NoPackage}, asd : 0 .. FwBufSlots]
SMUTypes == [pending : BOOLEAN, online : BOOLEAN, table : 0 .. FwBufSlots, setup : BOOLEAN]
CPTypes == [prepared : BOOLEAN, started : BOOLEAN, mqd : BOOLEAN, ready : BOOLEAN]
MESTypes == [active : BOOLEAN, pending : SUBSET Pipes]

\* The type invariant, variable by variable.
LEMMA TypesStay ==
    ASSUME TypeOK, blocked' \in BOOLEAN, call' \in CallTypes, reached' = reached \/ reached' \in Stages,
           psp' = psp \/ psp' \in PSPTypes, bump' = bump \/ bump' \in 0 .. FwBufSlots,
           loaded' \subseteq loaded \/ loaded' \subseteq CPFiles \cup {"imu", "rlc", "sdma", "mes"},
           cp' = cp \/ cp' \in CPTypes, mes' = mes \/ mes' \in MESTypes, smu' = smu \/ smu' \in SMUTypes,
           wptr' = wptr \/ wptr' \in [Engines -> Nat], out' = out \/ out' \in [Units -> Nat]
    PROVE  TypeOK'
<1>1. call'.busy \in BOOLEAN /\ call'.submitted \in BOOLEAN
  BY DEF CallTypes
<1>2. psp' \in PSPTypes /\ smu' \in SMUTypes
  BY DEF TypeOK, PSPTypes, SMUTypes
<1>3. cp' \in CPTypes /\ mes' \in MESTypes
  BY DEF TypeOK, CPTypes, MESTypes
<1>4. reached' \in Stages /\ bump' \in 0 .. FwBufSlots /\ loaded' \subseteq CPFiles \cup {"imu", "rlc", "sdma", "mes"}
  BY DEF TypeOK
<1>5. wptr' \in [Engines -> Nat] /\ out' \in [Units -> Nat]
  BY DEF TypeOK
<1> QED
  BY <1>1, <1>2, <1>3, <1>4, <1>5 DEF TypeOK, PSPTypes, SMUTypes, CPTypes, MESTypes

\* The firmware buffer is set up empty.
LEMMA PSPInitKeeps == ASSUME BringUpInv, psp_init PROVE BringUpInv'
<1>1. /\ call.prog # <<>> /\ Head(call.prog).fn = "psp_init"
      /\ UNCHANGED <<reached, loaded, cp, mes, smu, wptr, deviceVars>>
  BY DEF psp_init, Running
<1>2. \A f : Gives(Head(call.prog), f) <=> f = Is("fwPri")
  BY <1>1 DEF Gives, FlagOf
<1>3. CASE psp.fwPri /\ Continue /\ UNCHANGED <<psp, bump>>
  <2>1. UNCHANGED <<driverVars, deviceVars>>
    BY <1>1, <1>3 DEF driverVars
  <2> QED
    BY <1>1, <1>2, <1>3, <2>1, ContinuesOn DEF Holds
<1>4. CASE Fail("NotReady") /\ UNCHANGED <<psp, bump>>
  <2>1. UNCHANGED <<driverVars, deviceVars>>
    BY <1>1, <1>4 DEF driverVars
  <2> QED
    BY <1>1, <1>4, <2>1, FailsOn
<1>5. CASE ~psp.fwPri /\ Continue /\ bump' = 0 /\ psp' = [psp EXCEPT !.fwPri = TRUE, !.sosAlive = FALSE]
  <2>1. /\ UNCHANGED <<reached, loaded, cp, mes, smu, wptr>> /\ UNCHANGED <<sos, acked, refused, out, maps>>
    BY <1>1 DEF deviceVars
  <2>2. /\ PromisesKept /\ LoadedSound /\ StagingSound /\ CommandsSound /\ TypeOK
        /\ psp.complete => "rlc" \in loaded /\ Holds(Is("rl")) /\ Holds(Is("asd"))
        /\ out["psp"] = 0 /\ ~refused
    BY <1>1, OpenFacts
  <2>3. /\ psp'.fwPri /\ ~psp'.sosAlive /\ psp'.ring = psp.ring /\ psp'.tmr = psp.tmr
        /\ psp'.complete = psp.complete /\ psp'.pkg = psp.pkg /\ psp'.asd = psp.asd /\ ~psp.sosAlive
        /\ psp.asd = 0 /\ smu.table = 0
    BY <1>5, <2>2 DEF StagingSound, TypeOK
  <2>4. \A f : Holds(f) => Holds(f)'
    BY <2>1, <2>3 DEF Holds
  <2>5. \A f : Gives(Head(call.prog), f) => Holds(f)'
    BY <1>2, <2>3 DEF Holds
  <2>6. /\ ProgramSound' /\ CallSound' /\ EffectsSound'
        /\ ~blocked' /\ blocked' \in BOOLEAN /\ call' \in CallTypes
    BY <1>1, <1>5, <2>1, <2>4, <2>5, ContinueStays
  <2>7. TypeOK'
    <3>1. psp' \in PSPTypes
      BY <1>5, <2>2 DEF TypeOK, PSPTypes
    <3>2. bump' \in 0 .. FwBufSlots
      BY <1>5, BringUpAssumption
    <3> QED
      BY <2>1, <2>2, <2>6, <3>1, <3>2, TypesStay
  <2>8. OpenSound'
    <3>1. PromisesKept'
      BY <2>1, <2>2, <2>3, PromisesStay
    <3>2. LoadedSound'
      BY <2>1, <2>2 DEF LoadedSound
    <3>3. psp'.complete => "rlc" \in loaded' /\ Holds(Is("rl"))' /\ Holds(Is("asd"))'
      BY <2>1, <2>2, <2>3, <2>4
    <3> QED
      BY <2>1, <2>2, <2>3, <3>1, <3>2, <3>3 DEF OpenSound
  <2>9. StagingSound' /\ CommandsSound'
    BY <1>5, <2>1, <2>2, <2>3, <2>6 DEF StagingSound, StagingIntact, CommandsSound
  <2> QED
    BY <2>6, <2>7, <2>8, <2>9 DEF BringUpInv, DataSound
<1> QED
  BY <1>3, <1>4, <1>5 DEF psp_init

\* A function that goes on and only adds to what the driver has set up and the firmware acknowledged.
LEMMA GainsOn ==
    ASSUME BringUpInv, call.prog # <<>>, Head(call.prog).fn # "stage_done", Continue \/ MovesOn(<<>>),
           UNCHANGED <<reached, wptr, bump, loaded, mes, sos, refused, out, maps>>,
           psp' \in PSPTypes, smu' \in SMUTypes, cp' \in CPTypes,
           UNCHANGED <<psp.fwPri, psp.sosAlive, psp.complete, psp.pkg, psp.asd>>,
           psp.ring => psp'.ring, psp.tmr => psp'.tmr,
           UNCHANGED <<smu.pending, smu.table, smu.setup>>, smu.online => smu'.online,
           UNCHANGED <<cp.mqd, cp.ready>>, cp'.prepared => cp.prepared \/ CPFiles \subseteq loaded,
           acked \subseteq acked', \A f : Gives(Head(call.prog), f) => Holds(f)'
    PROVE  BringUpInv'
<1>1. /\ PromisesKept /\ LoadedSound /\ StagingSound /\ CommandsSound /\ TypeOK
      /\ psp.sosAlive => sos
      /\ psp.complete => "rlc" \in loaded /\ Holds(Is("rl")) /\ Holds(Is("asd"))
      /\ out["psp"] = 0 /\ ~refused
  BY OpenFacts
<1>2. \A f : Holds(f) => Holds(f)'
  BY DEF Holds
<1>3. /\ ProgramSound' /\ CallSound' /\ EffectsSound'
      /\ ~blocked' /\ blocked' \in BOOLEAN /\ call' \in CallTypes
  BY <1>2, ContinueStays
<1>4. TypeOK'
  BY <1>1, <1>3, TypesStay
<1>5. OpenSound'
  <2>1. PromisesKept'
    BY <1>1, PromisesStay
  <2>2. LoadedSound'
    <3>1. CPFiles \subseteq loaded => \A f \in CPFiles : PayloadsOf(f) \subseteq acked
      BY <1>1 DEF LoadedSound
    <3> QED
      BY <1>1, <3>1 DEF LoadedSound
  <2>3. psp'.complete => "rlc" \in loaded' /\ Holds(Is("rl"))' /\ Holds(Is("asd"))'
    BY <1>1, <1>2
  <2> QED
    BY <1>1, <2>1, <2>2, <2>3 DEF OpenSound
<1>6. StagingSound' /\ CommandsSound'
  BY <1>1, <1>3 DEF StagingSound, StagingIntact, CommandsSound
<1> QED
  BY <1>3, <1>4, <1>5, <1>6 DEF BringUpInv, DataSound

\* The records of the driver keep their types when a field changes.
LEMMA RecordsTyped ==
    ASSUME BringUpInv
    PROVE  /\ psp \in PSPTypes /\ smu \in SMUTypes /\ cp \in CPTypes /\ mes \in MESTypes
           /\ \A b \in BOOLEAN : /\ [psp EXCEPT !.ring = b] \in PSPTypes /\ [psp EXCEPT !.tmr = b] \in PSPTypes
                                 /\ [psp EXCEPT !.complete = b] \in PSPTypes /\ [psp EXCEPT !.sosAlive = b] \in PSPTypes
                                 /\ [smu EXCEPT !.online = b] \in SMUTypes /\ [smu EXCEPT !.pending = b] \in SMUTypes
                                 /\ [smu EXCEPT !.setup = b] \in SMUTypes
                                 /\ [cp EXCEPT !.prepared = b] \in CPTypes /\ [cp EXCEPT !.started = b] \in CPTypes
                                 /\ [cp EXCEPT !.mqd = b] \in CPTypes /\ [cp EXCEPT !.ready = b] \in CPTypes
                                 /\ [mes EXCEPT !.active = b] \in MESTypes
           /\ \A n \in 0 .. FwBufSlots : [psp EXCEPT !.asd = n] \in PSPTypes /\ [smu EXCEPT !.table = n] \in SMUTypes
<1>1. psp \in PSPTypes /\ smu \in SMUTypes /\ cp \in CPTypes /\ mes \in MESTypes
  BY DEF BringUpInv, TypeOK, PSPTypes, SMUTypes, CPTypes, MESTypes
<1>2. \A b \in BOOLEAN : /\ [psp EXCEPT !.ring = b] \in PSPTypes /\ [psp EXCEPT !.tmr = b] \in PSPTypes
                         /\ [psp EXCEPT !.complete = b] \in PSPTypes /\ [psp EXCEPT !.sosAlive = b] \in PSPTypes
  BY <1>1 DEF PSPTypes
<1>3. \A b \in BOOLEAN : /\ [smu EXCEPT !.online = b] \in SMUTypes /\ [smu EXCEPT !.pending = b] \in SMUTypes
                         /\ [smu EXCEPT !.setup = b] \in SMUTypes
  BY <1>1 DEF SMUTypes
<1>4. \A b \in BOOLEAN : /\ [cp EXCEPT !.prepared = b] \in CPTypes /\ [cp EXCEPT !.started = b] \in CPTypes
                         /\ [cp EXCEPT !.mqd = b] \in CPTypes /\ [cp EXCEPT !.ready = b] \in CPTypes
  BY <1>1 DEF CPTypes
<1>5. \A b \in BOOLEAN : [mes EXCEPT !.active = b] \in MESTypes
  BY <1>1 DEF MESTypes
<1>6. \A n \in 0 .. FwBufSlots : [psp EXCEPT !.asd = n] \in PSPTypes /\ [smu EXCEPT !.table = n] \in SMUTypes
  BY <1>1 DEF PSPTypes, SMUTypes
<1> QED
  BY <1>1, <1>2, <1>3, <1>4, <1>5, <1>6

\* The ring is created once the secure OS is there.
LEMMA RingCreateKeeps == ASSUME BringUpInv, psp_ring_create PROVE BringUpInv'
<1>1. /\ call.prog # <<>> /\ Head(call.prog).fn = "psp_ring_create"
      /\ UNCHANGED <<reached, bump, loaded, cp, mes, smu, wptr, deviceVars>>
  BY DEF psp_ring_create, Running
<1>2. \A f : Gives(Head(call.prog), f) <=> f = Is("ring")
  BY <1>1 DEF Gives, FlagOf
<1>3. CASE psp.ring /\ Continue /\ UNCHANGED psp
  <2>1. UNCHANGED <<driverVars, deviceVars>>
    BY <1>1, <1>3 DEF driverVars
  <2> QED
    BY <1>1, <1>2, <1>3, <2>1, ContinuesOn DEF Holds
<1>4. CASE UNCHANGED psp /\ \E e \in {"NotReady", "Timeout", "IOError"} : Fail(e)
  <2>1. UNCHANGED <<driverVars, deviceVars>>
    BY <1>1, <1>4 DEF driverVars
  <2> QED
    BY <1>1, <1>4, <2>1, FailsOn
<1>5. CASE Continue /\ psp' = [psp EXCEPT !.ring = TRUE]
  <2>1. UNCHANGED <<reached, wptr, bump, loaded, mes, sos, refused, out, maps, acked, smu, cp>>
    BY <1>1 DEF deviceVars
  <2>2. psp' \in PSPTypes /\ smu' \in SMUTypes /\ cp' \in CPTypes /\ psp \in PSPTypes
    BY <1>5, <2>1, RecordsTyped
  <2>3. psp'.ring /\ UNCHANGED <<psp.fwPri, psp.sosAlive, psp.complete, psp.pkg, psp.asd, psp.tmr>>
    BY <1>5, <2>2 DEF PSPTypes
  <2>4. \A f : Gives(Head(call.prog), f) => Holds(f)'
    BY <1>2, <2>3 DEF Holds
  <2> QED
    BY <1>1, <1>5, <2>1, <2>2, <2>3, <2>4, GainsOn
<1> QED
  BY <1>3, <1>4, <1>5 DEF psp_ring_create

\* The trusted memory region is set up.
LEMMA TMRIsSetUpKeeps == ASSUME BringUpInv, tmr_is_set_up PROVE BringUpInv'
<1>1. /\ call.prog # <<>> /\ Head(call.prog).fn = "tmr_is_set_up" /\ Continue
      /\ psp' = [psp EXCEPT !.tmr = TRUE]
      /\ UNCHANGED <<reached, wptr, bump, loaded, mes, sos, refused, out, maps, acked, smu, cp>>
  BY DEF tmr_is_set_up, Running, deviceVars
<1>2. \A f : Gives(Head(call.prog), f) <=> f = Is("tmr")
  BY <1>1 DEF Gives, FlagOf
<1>3. psp' \in PSPTypes /\ smu' \in SMUTypes /\ cp' \in CPTypes /\ psp \in PSPTypes
  BY <1>1, RecordsTyped
<1>4. psp'.tmr /\ UNCHANGED <<psp.fwPri, psp.sosAlive, psp.complete, psp.pkg, psp.asd, psp.ring>>
  BY <1>1, <1>3 DEF PSPTypes
<1>5. \A f : Gives(Head(call.prog), f) => Holds(f)'
  BY <1>2, <1>4 DEF Holds
<1> QED
  BY <1>1, <1>3, <1>4, <1>5, GainsOn

\* The trusted memory region, with a table of contents or without.
LEMMA SetupTMRKeeps == ASSUME BringUpInv, psp_setup_tmr PROVE BringUpInv'
<1>1. /\ call.prog # <<>> /\ Head(call.prog).fn = "psp_setup_tmr"
      /\ UNCHANGED <<reached, bump, loaded, cp, mes, smu, wptr, deviceVars>>
  BY DEF psp_setup_tmr, Running
<1>2. \A f : Gives(Head(call.prog), f) <=> f = Is("tmr")
  BY <1>1 DEF Gives, FlagOf
<1>3. CASE psp.tmr /\ Continue /\ UNCHANGED psp
  <2>1. UNCHANGED <<driverVars, deviceVars>>
    BY <1>1, <1>3 DEF driverVars
  <2> QED
    BY <1>1, <1>2, <1>3, <2>1, ContinuesOn DEF Holds
<1>4. CASE UNCHANGED psp /\ Fail("NotReady")
  <2>1. UNCHANGED <<driverVars, deviceVars>>
    BY <1>1, <1>4 DEF driverVars
  <2> QED
    BY <1>1, <1>4, <2>1, FailsOn
<1>5. CASE UNCHANGED psp /\ Then(<<Op("psp_ring_cmd_submit", "TOC"), Op("tmr_is_set_up", "")>>)
  <2> DEFINE a == Op("psp_ring_cmd_submit", "TOC")
             b == Op("tmr_is_set_up", "")
             ops == <<a, b>>
  <2>1. UNCHANGED <<driverVars, deviceVars>>
    BY <1>1, <1>5 DEF driverVars
  <2>2. a \in Ops /\ b \in Ops
    <3>1. "TOC" \in Words /\ "tmr_is_set_up" \in FunctionNames \ Chosen
      BY DEF Words, PSPCommands, FunctionNames, Chosen
    <3> QED
      BY <3>1, SomeOps
  <2>3. a.fn = "psp_ring_cmd_submit" /\ b.fn = "tmr_is_set_up"
    BY DEF Op
  <2>4. Then(ops)
    BY <1>5
  <2> HIDE DEF a, b
  <2>5. ops \in Seq(Ops) /\ DOMAIN ops = {1, 2} /\ ops[1] = a /\ ops[2] = b
    BY <2>2, ShortLists
  <2> HIDE DEF ops
  <2>6. (\A f : ~Takes(a, f) /\ ~Takes(b, f)) /\ Gives(b, Is("tmr"))
    BY <2>3 DEF Takes, Gives, FlagOf
  <2>7. /\ Needs(a, reached) = {} /\ Needs(b, reached) = {}
        /\ a.fn \notin Climbers \cup Enders \cup SDMASteps /\ b.fn \notin Climbers \cup Enders \cup SDMASteps
        /\ a.fn # "stage_done" /\ b.fn # "stage_done"
    BY <2>3 DEF Needs, NeedsOf, Climbers, Enders, SDMASteps
  <2>8. Fits(ops)
    BY <2>5, <2>7 DEF Fits
  <2>9. ASSUME NEW f, NEW held \in BOOLEAN, (held /\ ~Takes(Head(call.prog), f)) \/ Gives(Head(call.prog), f)
        PROVE  Arrives(ops, f, held)
    <3>1. CASE Gives(Head(call.prog), f)
      BY <1>2, <2>5, <2>6, <3>1 DEF Arrives
    <3>2. CASE held
      BY <2>5, <2>6, <3>2 DEF Arrives
    <3> QED
      BY <2>9, <3>1, <3>2
  <2>10. \A k \in DOMAIN ops : \A f \in Needs(ops[k], reached) : Comes(ops, k, f, Holds(f))
    BY <2>5, <2>7
  <2> QED
    BY <1>1, <2>1, <2>4, <2>5, <2>8, <2>9, <2>10, CallsOn
<1>6. CASE Continue /\ psp' = [psp EXCEPT !.tmr = TRUE]
  <2>1. UNCHANGED <<reached, wptr, bump, loaded, mes, sos, refused, out, maps, acked, smu, cp>>
    BY <1>1 DEF deviceVars
  <2>2. psp' \in PSPTypes /\ smu' \in SMUTypes /\ cp' \in CPTypes /\ psp \in PSPTypes
    BY <1>6, <2>1, RecordsTyped
  <2>3. psp'.tmr /\ UNCHANGED <<psp.fwPri, psp.sosAlive, psp.complete, psp.pkg, psp.asd, psp.ring>>
    BY <1>6, <2>2 DEF PSPTypes
  <2>4. \A f : Gives(Head(call.prog), f) => Holds(f)'
    BY <1>2, <2>3 DEF Holds
  <2> QED
    BY <1>1, <1>6, <2>1, <2>2, <2>3, <2>4, GainsOn
<1> QED
  BY <1>3, <1>4, <1>5, <1>6 DEF psp_setup_tmr

\* The SMU has answered the messages of its setup.
LEMMA OnlineKeeps == ASSUME BringUpInv, smu_is_online PROVE BringUpInv'
<1>1. /\ call.prog # <<>> /\ Head(call.prog).fn = "smu_is_online" /\ Continue
      /\ smu' = [smu EXCEPT !.online = TRUE]
      /\ UNCHANGED <<reached, wptr, bump, loaded, mes, sos, refused, out, maps, acked, psp, cp>>
  BY DEF smu_is_online, Running, deviceVars
<1>2. \A f : Gives(Head(call.prog), f) <=> f = Is("online")
  BY <1>1 DEF Gives, FlagOf
<1>3. psp' \in PSPTypes /\ smu' \in SMUTypes /\ cp' \in CPTypes /\ smu \in SMUTypes
  BY <1>1, RecordsTyped
<1>4. smu'.online /\ UNCHANGED <<smu.pending, smu.table, smu.setup>>
  BY <1>1, <1>3 DEF SMUTypes
<1>5. \A f : Gives(Head(call.prog), f) => Holds(f)'
  BY <1>2, <1>4 DEF Holds
<1> QED
  BY <1>1, <1>3, <1>4, <1>5, GainsOn

\* The CP engines start; no promise depends on it.
LEMMA StartEnginesKeeps == ASSUME BringUpInv, cp_start_engines PROVE BringUpInv'
<1>1. /\ call.prog # <<>> /\ Head(call.prog).fn = "cp_start_engines"
      /\ UNCHANGED <<reached, psp, bump, loaded, mes, smu, wptr, deviceVars>>
  BY DEF cp_start_engines, Running
<1>2. \A f : ~Gives(Head(call.prog), f)
  BY <1>1 DEF Gives, FlagOf
<1>3. CASE UNCHANGED cp /\ (Continue \/ \E e \in {"NotReady", "Timeout"} : Fail(e))
  <2>1. UNCHANGED <<driverVars, deviceVars>>
    BY <1>1, <1>3 DEF driverVars
  <2> QED
    BY <1>1, <1>2, <1>3, <2>1, ContinuesOn, FailsOn
<1>4. CASE Continue /\ cp' = [cp EXCEPT !.started = TRUE]
  <2>1. UNCHANGED <<reached, wptr, bump, loaded, mes, sos, refused, out, maps, acked, smu, psp>>
    BY <1>1 DEF deviceVars
  <2>2. psp' \in PSPTypes /\ smu' \in SMUTypes /\ cp' \in CPTypes /\ cp \in CPTypes
    BY <1>4, <2>1, RecordsTyped
  <2>3. UNCHANGED <<cp.prepared, cp.mqd, cp.ready>>
    BY <1>4, <2>2 DEF CPTypes
  <2> QED
    BY <1>1, <1>2, <1>4, <2>1, <2>2, <2>3, GainsOn
<1> QED
  BY <1>3, <1>4 DEF cp_start_engines

\* The CP files are all there, and each of them was acknowledged.
LEMMA PrepareFirmwareKeeps == ASSUME BringUpInv, cp_prepare_firmware PROVE BringUpInv'
<1>1. /\ call.prog # <<>> /\ Head(call.prog).fn = "cp_prepare_firmware"
      /\ UNCHANGED <<reached, psp, bump, loaded, mes, smu, wptr, deviceVars>>
  BY DEF cp_prepare_firmware, Running
<1>2. \A f : Gives(Head(call.prog), f) => f[1] = "acked" /\ f[2] \in CPPayloads
  BY <1>1 DEF Gives, FlagOf
<1>3. cp.prepared \/ CPFiles \subseteq loaded => \A f : Gives(Head(call.prog), f) => Holds(f)
  <2>1. LoadedSound
    BY <1>1, OpenFacts
  <2>2. cp.prepared \/ CPFiles \subseteq loaded => CPPayloads \subseteq acked
    BY <2>1 DEF LoadedSound, CPPayloads
  <2> QED
    BY <1>2, <2>2 DEF Holds
<1>4. CASE UNCHANGED cp /\ ((cp.prepared /\ Continue) \/ \E e \in {"NoMemory", "Timeout", "NotReady"} : Fail(e))
  <2>1. UNCHANGED <<driverVars, deviceVars>>
    BY <1>1, <1>4 DEF driverVars
  <2> QED
    BY <1>1, <1>3, <1>4, <2>1, ContinuesOn, FailsOn
<1>5. CASE CPFiles \subseteq loaded /\ Continue /\ cp' = [cp EXCEPT !.prepared = TRUE]
  <2>1. UNCHANGED <<reached, wptr, bump, loaded, mes, sos, refused, out, maps, acked, smu, psp>>
    BY <1>1 DEF deviceVars
  <2>2. psp' \in PSPTypes /\ smu' \in SMUTypes /\ cp' \in CPTypes /\ cp \in CPTypes
    BY <1>5, <2>1, RecordsTyped
  <2>3. UNCHANGED <<cp.started, cp.mqd, cp.ready>>
    BY <1>5, <2>2 DEF CPTypes
  <2>4. \A f : Gives(Head(call.prog), f) => Holds(f)'
    BY <1>2, <1>3, <1>5, <2>1 DEF Holds
  <2> QED
    BY <1>1, <1>5, <2>1, <2>2, <2>3, <2>4, GainsOn
<1> QED
  BY <1>4, <1>5 DEF cp_prepare_firmware

\* The head of the program is done.
LEMMA MovesByTail ==
    ASSUME BringUpInv, call.prog # <<>>, NEW b \in BOOLEAN,
           call' = [call EXCEPT !.prog = Tail(@), !.submitted = b], UNCHANGED blocked
    PROVE  MovesOn(<<>>)
<1>1. call \in CallTypes /\ call.prog \in Seq(Ops)
  BY RunningFacts
<1> DEFINE q == Tail(call.prog)
<1>2. q \in Seq(Ops) /\ <<>> \o q = q
  BY <1>1
<1>3. call' = [call EXCEPT !.prog = q, !.submitted = b]
  OBVIOUS
<1> HIDE DEF q
<1>4. call' \in CallTypes /\ call'.prog = q /\ call'.busy = call.busy /\ call'.wptr = call.wptr
  BY <1>1, <1>2, <1>3 DEF CallTypes
<1> QED
  BY <1>2, <1>4 DEF MovesOn, q

\* A command on the PSP ring: answered, or the session is blocked.
LEMMA RingCommandKeeps == ASSUME BringUpInv, psp_ring_cmd_submit PROVE BringUpInv'
<1>1. /\ call.prog # <<>> /\ Head(call.prog).fn = "psp_ring_cmd_submit"
      /\ UNCHANGED <<reached, psp, bump, loaded, cp, mes, smu, wptr, sos, maps>>
  BY DEF psp_ring_cmd_submit, Running, driverVars
<1>2. \A f : Gives(Head(call.prog), f) <=> GivesCommand(Arg, f)
  BY <1>1 DEF Gives, FlagOf, Arg
<1>3. /\ PromisesKept /\ LoadedSound /\ StagingSound /\ CommandsSound /\ TypeOK
      /\ out["psp"] = 0 /\ ~refused
  BY <1>1, OpenFacts
<1>4. CASE UNCHANGED <<acked, refused, out>> /\ \E e \in {"NotReady", "InternalError"} : Fail(e)
  <2>1. UNCHANGED <<driverVars, deviceVars>>
    BY <1>1, <1>4 DEF driverVars, deviceVars
  <2> QED
    BY <1>1, <1>4, <2>1, FailsOn
<1>5. CASE /\ Ack(Arg) /\ UNCHANGED <<blocked, refused, out>>
           /\ call' = [call EXCEPT !.prog = Tail(@), !.submitted = TRUE]
  <2>1. MovesOn(<<>>)
    BY <1>1, <1>5, MovesByTail
  <2>2. psp' \in PSPTypes /\ smu' \in SMUTypes /\ cp' \in CPTypes
    BY <1>1, RecordsTyped
  <2>3. acked' = acked \cup ({Arg} \ Untracked)
    BY <1>5 DEF Ack
  <2>4. "REG_LIST" \notin Untracked /\ "ASD" \notin Untracked
    BY DEF Untracked, Optional
  <2>5. \A f : Gives(Head(call.prog), f) => Holds(f)'
    BY <1>2, <2>3, <2>4 DEF GivesCommand, Holds, Acked
  <2> QED
    BY <1>1, <1>5, <2>1, <2>2, <2>3, <2>5, GainsOn
<1>6. CASE /\ \E e : FailAfter(e, TRUE)
           /\ out' = out \/ out' = [out EXCEPT !["psp"] = @ + 1]
  <2>1. /\ ProgramSound' /\ CallSound' /\ EffectsSound' /\ blocked' \in BOOLEAN /\ blocked'
        /\ call' \in CallTypes
    BY <1>1, <1>6, FailStays DEF ProgramSound
  <2>2. out' \in [Units -> Nat] /\ out'["psp"] <= 1 /\ \A u \in Units \ {"psp"} : out'[u] = out[u]
    BY <1>3, <1>6 DEF TypeOK, Units, CommandsSound
  <2>3. TypeOK'
    BY <1>1, <1>3, <2>1, <2>2, TypesStay
  <2>4. CommandsSound'
    BY <1>1, <1>3, <2>1, <2>2 DEF CommandsSound, Units, Pipes
  <2>5. OpenSound' /\ StagingSound'
    BY <1>1, <1>3, <2>1 DEF OpenSound, StagingSound, StagingIntact
  <2> QED
    BY <2>1, <2>3, <2>4, <2>5 DEF BringUpInv, DataSound
<1> QED
  BY <1>4, <1>5, <1>6 DEF psp_ring_cmd_submit

\* A parsed trusted application is staged above everything staged so far; the old one is forgotten.
LEMMA ParseTAKeeps == ASSUME BringUpInv, psp_parse_ta_microcode PROVE BringUpInv'
<1>1. /\ call.prog # <<>> /\ Head(call.prog).fn = "psp_parse_ta_microcode"
      /\ UNCHANGED <<reached, loaded, cp, mes, smu, wptr, sos, acked, refused, out, maps>>
  BY DEF psp_parse_ta_microcode, Running, deviceVars
<1>2. /\ \A f : ~Gives(Head(call.prog), f)
      /\ Takes(Head(call.prog), Is("asd"))
      /\ NeedsOf(Head(call.prog)) = {Is("fwPri"), Is("incomplete")}
  BY <1>1 DEF Gives, FlagOf, Takes, NeedsOf
<1>3. /\ PromisesKept /\ LoadedSound /\ StagingSound /\ CommandsSound /\ TypeOK
      /\ psp.sosAlive => sos
      /\ out["psp"] = 0 /\ ~refused
  BY <1>1, OpenFacts
<1>4. ~psp.complete
  BY <1>1, <1>2, IncompleteHere
<1>5. psp.fwPri
  <2>1. Holds(Is("fwPri"))
    BY <1>1, <1>2, HeadServed DEF Needs
  <2> QED
    BY <2>1 DEF Holds, Is, At, Acked
<1>6. bump \in Nat /\ FwBufSlots \in Nat /\ bump <= FwBufSlots /\ psp.asd \in Nat /\ smu.table \in Nat
  BY <1>3, BringUpAssumption DEF TypeOK
<1>7. \/ psp' = [psp EXCEPT !.asd = 0] /\ bump' = bump
      \/ psp' = [psp EXCEPT !.asd = bump + 1] /\ bump' = bump + 1 /\ HasRoom
  BY DEF psp_parse_ta_microcode, Stage
<1>8. psp' \in PSPTypes /\ psp \in PSPTypes /\ bump' \in 0 .. FwBufSlots
  <2>1. bump' \in 0 .. FwBufSlots /\ (bump' = bump + 1 => bump + 1 \in 0 .. FwBufSlots) /\ 0 \in 0 .. FwBufSlots
    BY <1>6, <1>7 DEF HasRoom
  <2> QED
    BY <1>7, <2>1, RecordsTyped
<1>9. UNCHANGED <<psp.fwPri, psp.sosAlive, psp.ring, psp.tmr, psp.complete, psp.pkg>>
  BY <1>7, <1>8 DEF PSPTypes
<1>10. (psp'.asd = 0 /\ bump' = bump) \/ (psp'.asd = bump + 1 /\ bump' = bump + 1)
  BY <1>7, <1>8 DEF PSPTypes
<1>11. \A f : Holds(f) /\ ~Takes(Head(call.prog), f) => Holds(f)'
  BY <1>1, <1>2, <1>9 DEF Holds
<1>12. StagingSound' /\ CommandsSound' /\ (~blocked' => OpenSound')
  <2>1. StagingSound'
    BY <1>1, <1>3, <1>5, <1>6, <1>9, <1>10 DEF StagingSound, StagingIntact
  <2>2. CommandsSound'
    BY <1>1, <1>3 DEF CommandsSound
  <2>3. PromisesKept' /\ LoadedSound'
    BY <1>1, <1>3, <1>9, PromisesStay DEF LoadedSound
  <2> QED
    BY <1>1, <1>3, <1>4, <1>9, <2>1, <2>2, <2>3 DEF OpenSound
<1>13. OpenSound'
  BY <1>12 DEF OpenSound
<1>14. /\ ProgramSound' /\ CallSound' /\ EffectsSound' /\ blocked' \in BOOLEAN /\ call' \in CallTypes
  <2>1. CASE Continue
    BY <1>1, <1>2, <1>11, <2>1, ContinueStays
  <2>2. CASE \E e : Fail(e)
    <3>1. call.submitted \in BOOLEAN
      BY <1>1, RunningFacts DEF CallTypes
    <3> QED
      BY <1>1, <2>2, <3>1, FailStays DEF Fail, ProgramSound
  <2> QED
    BY <2>1, <2>2 DEF psp_parse_ta_microcode
<1>15. TypeOK'
  BY <1>1, <1>3, <1>8, <1>14, TypesStay
<1> QED
  BY <1>12, <1>13, <1>14, <1>15 DEF BringUpInv, DataSound

\* A parsed package replaces the one before it, with its register list.
LEMMA ParseSOSKeeps == ASSUME BringUpInv, psp_parse_sos_microcode PROVE BringUpInv'
<1>1. /\ call.prog # <<>> /\ Head(call.prog).fn = "psp_parse_sos_microcode"
      /\ UNCHANGED <<reached, bump, loaded, cp, mes, smu, wptr, deviceVars>>
  BY DEF psp_parse_sos_microcode, Running
<1>2. (\A f : ~Gives(Head(call.prog), f)) /\ Takes(Head(call.prog), Is("rl"))
  BY <1>1 DEF Gives, FlagOf, Takes
<1>3. CASE Fail("BadArgument") /\ UNCHANGED psp
  <2>1. UNCHANGED <<driverVars, deviceVars>>
    BY <1>1, <1>3 DEF driverVars
  <2> QED
    BY <1>1, <1>3, <2>1, FailsOn
<1>4. CASE Continue /\ \E p \in Packages : psp' = [psp EXCEPT !.pkg = p, !.complete = FALSE]
  <2>1. UNCHANGED <<sos, acked, refused, out, maps>>
    BY <1>1 DEF deviceVars
  <2>2. /\ PromisesKept /\ LoadedSound /\ StagingSound /\ CommandsSound /\ TypeOK
        /\ psp.sosAlive => sos
        /\ out["psp"] = 0 /\ ~refused
    BY <1>1, OpenFacts
  <2>3. PICK p \in Packages : psp' = [psp EXCEPT !.pkg = p, !.complete = FALSE]
    BY <1>4
  <2>4. psp \in PSPTypes /\ psp' \in PSPTypes
    <3>1. psp \in PSPTypes
      BY RecordsTyped
    <3> QED
      BY <2>3, <3>1 DEF PSPTypes
  <2>5. UNCHANGED <<psp.fwPri, psp.sosAlive, psp.ring, psp.tmr, psp.asd>> /\ ~psp'.complete
    BY <2>3, <2>4 DEF PSPTypes
  <2>6. \A f : Holds(f) /\ ~Takes(Head(call.prog), f) => Holds(f)'
    BY <1>1, <1>2, <2>1, <2>5 DEF Holds
  <2>7. /\ ProgramSound' /\ CallSound' /\ EffectsSound'
        /\ ~blocked' /\ blocked' \in BOOLEAN /\ call' \in CallTypes
    BY <1>1, <1>2, <1>4, <2>6, ContinueStays
  <2>8. TypeOK'
    BY <1>1, <2>1, <2>2, <2>4, <2>7, TypesStay
  <2>9. PromisesKept' /\ LoadedSound'
    BY <1>1, <2>1, <2>2, <2>5, PromisesStay DEF LoadedSound
  <2>10. OpenSound' /\ StagingSound' /\ CommandsSound'
    BY <1>1, <2>1, <2>2, <2>5, <2>7, <2>9 DEF OpenSound, StagingSound, StagingIntact, CommandsSound
  <2> QED
    BY <2>7, <2>8, <2>10 DEF BringUpInv, DataSound
<1> QED
  BY <1>3, <1>4 DEF psp_parse_sos_microcode

\* The functions that move the ladder: no end of a stage is left behind them.
LEMMA ClimbGoes ==
    ASSUME BringUpInv, call.prog # <<>>, Continue, reached' \in Nat, UNCHANGED wptr,
           Head(call.prog).fn \in Climbers, reached' >= reached,
           reached < SDMAInit \/ reached' = reached,
           Head(call.prog).fn = "stage_done" => reached' = reached + 1,
           smu'.setup => reached' >= SMUInit, cp'.ready => reached' >= GFXInit,
           \A f : (Holds(f) /\ ~Takes(Head(call.prog), f)) \/ Gives(Head(call.prog), f) => Holds(f)'
    PROVE  ProgramSound' /\ CallSound' /\ EffectsSound'
<1>0. /\ ~blocked /\ call # Idle /\ call.busy /\ call.prog \in Seq(Ops) /\ call \in CallTypes
      /\ Head(call.prog) = call.prog[1] /\ reached \in 0 .. 15 /\ SDMAInit = 15
  BY RunningFacts, StageNumbers DEF BringUpInv, TypeOK, Stages
<1>1. PICK p \in Seq(Ops) : p = call.prog
  BY <1>0
<1>2. NeedsMet(p) /\ OneStage(p) /\ StageEnds(p)
  BY <1>1 DEF BringUpInv, ProgramSound
<1>3. <<>> \in Seq(Ops) /\ DOMAIN <<>> = {} /\ Len(<<>>) = 0
  OBVIOUS
<1>4. MovesOn(<<>>)
  BY <1>0, <1>3, ThenMovesOn DEF Continue
<1> DEFINE q == <<>> \o Tail(p)
<1>5. call'.prog = q /\ call' \in CallTypes /\ call'.busy = call.busy /\ call'.wptr = call.wptr /\ ~blocked'
  BY <1>0, <1>1, <1>4 DEF MovesOn
<1>6. /\ \A k \in 2 .. Len(p) : p[k].fn # "stage_done"
      /\ \A k \in DOMAIN q : q[k].fn # "stage_done"
  BY <1>0, <1>1, <1>2, <1>3, EndsAfter
<1>7. OneStage(q) /\ StageEnds(q)
  BY <1>1, <1>2, <1>3, ShapeStays
<1>8. \A f : (Holds(f) /\ ~Takes(p[1], f)) \/ Gives(p[1], f) => Arrives(<<>>, f, Holds(f)')
  BY <1>0, <1>1, <1>3 DEF Arrives
<1>9. NeedsMet(call.prog)'
  BY <1>1, <1>2, <1>3, <1>5, <1>6, <1>8, NeedsStayMet
<1> HIDE DEF q
<1>10. ProgramSound'
  BY <1>5, <1>6, <1>7, <1>9 DEF ProgramSound, OneStage, StageEnds, StageRises
<1>11. CallSound'
  BY <1>0, <1>5 DEF BringUpInv, CallSound
<1>12. QuietBefore'
  <2>1. \/ Quiet \/ reached = SDMAInit
        \/ reached = SDMAInit - 1 /\ \E k \in 1 .. Len(p) : p[k].fn = "stage_done"
    BY <1>0, <1>1 DEF BringUpInv, EffectsSound, QuietBefore
  <2>3. \A k \in 1 .. Len(p) : k = 1 \/ k \in 2 .. Len(p)
    OBVIOUS
  <2>2. Quiet => Quiet'
    BY DEF Quiet
  <2> QED
    BY <1>0, <1>1, <1>6, <2>1, <2>2, <2>3 DEF QuietBefore
<1> QED
  BY <1>10, <1>11, <1>12 DEF EffectsSound

\* The boot loader has taken the whole package; the ladder moves up to the stage it stands for.
LEMMA LoadPackageKeeps == ASSUME BringUpInv, psp_load_sos_package PROVE BringUpInv'
<1>1. /\ call.prog # <<>> /\ Head(call.prog).fn = "psp_load_sos_package"
      /\ UNCHANGED <<bump, loaded, cp, mes, smu, wptr, acked, refused, out, maps>>
  BY DEF psp_load_sos_package, Running
<1>2. CASE UNCHANGED <<psp, sos, reached>> /\ \E e \in {"BadArgument", "NoSpace", "Timeout", "NotAttached"} : Fail(e)
  <2>1. UNCHANGED <<driverVars, deviceVars>>
    BY <1>1, <1>2 DEF driverVars, deviceVars
  <2> QED
    BY <1>1, <1>2, <2>1, FailsOn
<1>3. CASE /\ Continue /\ sos' = TRUE /\ psp' = [psp EXCEPT !.sosAlive = TRUE]
           /\ reached' = IF reached < PSPLoadSOS THEN PSPLoadSOS ELSE reached
  <2>1. /\ PromisesKept /\ LoadedSound /\ StagingSound /\ CommandsSound /\ TypeOK
        /\ psp.complete => "rlc" \in loaded /\ Holds(Is("rl")) /\ Holds(Is("asd"))
        /\ out["psp"] = 0 /\ ~refused
    BY <1>1, OpenFacts
  <2>2. psp' \in PSPTypes /\ psp \in PSPTypes
    BY <1>3, RecordsTyped
  <2>3. psp'.sosAlive /\ UNCHANGED <<psp.fwPri, psp.ring, psp.tmr, psp.complete, psp.pkg, psp.asd>>
    BY <1>3, <2>2 DEF PSPTypes
  <2>4. psp.fwPri
    <3>1. Is("fwPri") \in Needs(Head(call.prog), reached)
      BY <1>1 DEF Needs, NeedsOf
    <3>2. Holds(Is("fwPri"))
      BY <1>1, <3>1, HeadServed
    <3> QED
      BY <3>2 DEF Holds, Is, At, Acked
  <2>5. /\ \A f : ~Gives(Head(call.prog), f)
        /\ \A f : Takes(Head(call.prog), f) <=> f[1] = "at"
        /\ Head(call.prog).fn \in Climbers
    BY <1>1 DEF Gives, FlagOf, Takes, Climbers
  <2>6. \A f : Holds(f) /\ f[1] # "at" => Holds(f)'
    BY <1>1, <2>3 DEF Holds
  <2>7. reached \in 0 .. 15 /\ reached' \in 0 .. 15 /\ reached' >= reached
        /\ (reached < 15 \/ reached' = reached)
        /\ (reached' = reached \/ reached' = 5) /\ reached' >= 5
    BY <1>3, <2>1, StageNumbers DEF TypeOK, Stages
  <2>8. (smu.setup => reached >= 9) /\ (cp.ready => reached >= 14)
    BY <1>1, StageNumbers DEF BringUpInv, EffectsSound, AtStageDone
  <2>9. ProgramSound' /\ CallSound' /\ EffectsSound'
    <3>1. reached' \in Nat /\ (smu'.setup => reached' >= SMUInit) /\ (cp'.ready => reached' >= GFXInit)
      BY <1>1, <2>7, <2>8, StageNumbers
    <3> QED
      BY <1>1, <1>3, <2>5, <2>6, <2>7, <3>1, StageNumbers, ClimbGoes
  <2>10. ~blocked /\ ~blocked' /\ blocked' \in BOOLEAN /\ call' \in CallTypes
    BY <1>1, <1>3, <2>1, <2>9, RunningFacts DEF Continue, Then, ProgramSound, TypeOK
  <2>11. TypeOK'
    <3>1. reached' \in Stages
      BY <2>7, StageNumbers DEF Stages
    <3> QED
      BY <1>1, <2>1, <2>2, <2>10, <3>1, TypesStay
  <2>12. PromisesKept'
    <3> SUFFICES ASSUME NEW s \in 1 .. reached', NEW f \in Promise(s) PROVE Holds(f)'
      BY DEF PromisesKept
    <3>1. CASE s \in 1 .. reached
      <4>1. Holds(f)
        BY <2>1, <3>1 DEF PromisesKept
      <4>2. (\E x \in Acknowledged(s) : f = Acked(x)) \/ (\E flag \in StageFlags(s) : f = Is(flag))
        BY PromiseFacts
      <4>3. f[1] # "at"
        BY <4>2 DEF Acked, Is
      <4> QED
        BY <2>6, <4>1, <4>3
    <3>2. CASE s \notin 1 .. reached
      <4>1. s \in {1, 2, 3, 4, 5}
        BY <2>7, <3>2
      <4>2. f \in {Is("fwPri"), Is("sosAlive")}
        BY <4>1, Promises
      <4> QED
        BY <2>3, <2>4, <4>2 DEF Holds
    <3> QED
      BY <3>1, <3>2
  <2>13. (Holds(Is("rl"))' /\ Holds(Is("asd"))') \/ ~psp'.complete
    BY <2>1, <2>3, <2>6 DEF Is
  <2>14. OpenSound' /\ StagingSound' /\ CommandsSound'
    BY <1>1, <1>3, <2>1, <2>3, <2>4, <2>10, <2>12, <2>13 DEF OpenSound, LoadedSound, StagingSound, StagingIntact, CommandsSound
  <2> QED
    BY <2>9, <2>11, <2>14 DEF BringUpInv, DataSound
<1> QED
  BY <1>2, <1>3 DEF psp_load_sos_package

\* A stage is done: what it promises was brought about by its functions.
LEMMA StageDoneKeeps == ASSUME BringUpInv, stage_done PROVE BringUpInv'
<1>1. /\ call.prog # <<>> /\ Head(call.prog).fn = "stage_done" /\ Continue /\ reached' = reached + 1
      /\ UNCHANGED <<psp, bump, loaded, cp, mes, smu, wptr, sos, acked, refused, out, maps>>
  BY DEF stage_done, Running, deviceVars
<1>2. /\ PromisesKept /\ LoadedSound /\ StagingSound /\ CommandsSound /\ TypeOK
      /\ psp.sosAlive => sos
      /\ psp.complete => "rlc" \in loaded /\ Holds(Is("rl")) /\ Holds(Is("asd"))
      /\ out["psp"] = 0 /\ ~refused
  BY <1>1, OpenFacts
<1>3. reached \in 0 .. 14
  <2>1. reached < SDMAInit
    BY <1>1, RunningFacts DEF BringUpInv, ProgramSound, StageRises
  <2> QED
    BY <1>2, <2>1, StageNumbers DEF TypeOK, Stages
<1>4. \A f \in Promise(reached + 1) : Holds(f)
  BY <1>1, HeadServed DEF Needs
<1>5. /\ \A f : ~Gives(Head(call.prog), f)
      /\ \A f : Takes(Head(call.prog), f) <=> f[1] = "at"
      /\ Head(call.prog).fn \in Climbers
  BY <1>1 DEF Gives, FlagOf, Takes, Climbers
<1>6. \A f : Holds(f) /\ f[1] # "at" => Holds(f)'
  BY <1>1 DEF Holds
<1>7. (smu.setup => reached >= 8) /\ (cp.ready => reached >= 13)
  BY <1>1, <1>3, StageNumbers DEF BringUpInv, EffectsSound, AtStageDone
<1>8. ProgramSound' /\ CallSound' /\ EffectsSound'
  <2>1. /\ reached' \in Nat /\ reached' >= reached /\ reached < SDMAInit
        /\ (smu'.setup => reached' >= SMUInit) /\ (cp'.ready => reached' >= GFXInit)
    BY <1>1, <1>3, <1>7, StageNumbers
  <2> QED
    BY <1>1, <1>5, <1>6, <2>1, ClimbGoes
<1>9. ~blocked' /\ blocked' \in BOOLEAN /\ call' \in CallTypes
  BY <1>1, <1>2, <1>8, RunningFacts DEF Continue, Then, ProgramSound, TypeOK
<1>10. TypeOK'
  <2>1. reached' \in Stages
    BY <1>1, <1>3, StageNumbers DEF Stages
  <2> QED
    BY <1>1, <1>2, <1>9, <2>1, TypesStay
<1>11. PromisesKept'
  <2> SUFFICES ASSUME NEW s \in 1 .. reached', NEW f \in Promise(s) PROVE Holds(f)'
    BY DEF PromisesKept
  <2>1. s \in 1 .. reached \/ s = reached + 1
    BY <1>1, <1>3
  <2>2. Holds(f)
    BY <1>2, <1>4, <2>1 DEF PromisesKept
  <2>3. (\E x \in Acknowledged(s) : f = Acked(x)) \/ (\E flag \in StageFlags(s) : f = Is(flag))
    BY PromiseFacts
  <2>4. f[1] # "at"
    BY <2>3 DEF Acked, Is
  <2> QED
    BY <1>6, <2>2, <2>4
<1>12. (Holds(Is("rl"))' /\ Holds(Is("asd"))') \/ ~psp'.complete
  BY <1>1, <1>2, <1>6 DEF Is
<1>13. OpenSound' /\ StagingSound' /\ CommandsSound'
  BY <1>1, <1>2, <1>9, <1>11, <1>12 DEF OpenSound, LoadedSound, StagingSound, StagingIntact, CommandsSound
<1> QED
  BY <1>8, <1>10, <1>13 DEF BringUpInv, DataSound

\* A function that must come last in its stage is followed by the end of the stage.
LEMMA EnderGoes ==
    ASSUME BringUpInv, call.prog # <<>>, Head(call.prog).fn \in Enders, MovesOn(<<>>)
    PROVE  call'.prog # <<>> /\ Head(call'.prog).fn = "stage_done"
<1>1. call.prog \in Seq(Ops) /\ Head(call.prog) = call.prog[1] /\ 1 \in DOMAIN call.prog
  BY RunningFacts
<1>2. PICK p \in Seq(Ops) : p = call.prog
  BY <1>1
<1>3. <<>> \in Seq(Ops) /\ Len(<<>>) = 0
  OBVIOUS
<1> DEFINE q == <<>> \o Tail(p)
<1>4. call'.prog = q
  BY <1>2 DEF MovesOn
<1>5. 2 \in DOMAIN p /\ p[2].fn = "stage_done"
  <2>1. 1 + 1 \in DOMAIN p /\ p[1 + 1].fn = "stage_done"
    BY <1>1, <1>2 DEF BringUpInv, ProgramSound, StageEnds
  <2> QED
    BY <2>1
<1>6. /\ q \in Seq(Ops) /\ DOMAIN p = 1 .. Len(p) /\ Len(p) \in Nat
      /\ DOMAIN q = 1 .. 0 + Len(p) - 1
      /\ \A k \in 2 .. Len(p) : q[0 + k - 1] = p[k]
  BY <1>2, <1>3, Replaced
<1> HIDE DEF q
<1>7. 2 \in 2 .. Len(p) /\ 0 + 2 - 1 = 1 /\ 1 \in 1 .. 0 + Len(p) - 1
  BY <1>5, <1>6
<1>8. q[1] = p[2] /\ 1 \in DOMAIN q
  BY <1>6, <1>7
<1>9. q # <<>> /\ Head(q) = q[1]
  BY <1>6, <1>8
<1> QED
  BY <1>4, <1>5, <1>8, <1>9

\* A message is handed over only when nothing of an earlier one is left in the mailbox.
LEMMA SendMessageKeeps == ASSUME BringUpInv, smu_send_msg PROVE BringUpInv'
<1>1. /\ call.prog # <<>> /\ Head(call.prog).fn = "smu_send_msg"
      /\ UNCHANGED <<reached, psp, bump, loaded, cp, mes, wptr, sos, acked, refused, maps>>
  BY DEF smu_send_msg, Running
<1>2. (\A f : ~Gives(Head(call.prog), f)) /\ At(8) \in NeedsOf(Head(call.prog))
  <2>1. At(SMUInit - 1) \in NeedsOf(Head(call.prog))
    BY <1>1 DEF NeedsOf
  <2>2. SMUInit - 1 = 8
    BY StageNumbers
  <2> QED
    BY <1>1, <2>1, <2>2 DEF Gives, FlagOf
<1>3. /\ PromisesKept /\ LoadedSound /\ StagingSound /\ CommandsSound /\ TypeOK
      /\ psp.sosAlive => sos
      /\ psp.complete => "rlc" \in loaded /\ Holds(Is("rl")) /\ Holds(Is("asd"))
      /\ out["psp"] = 0 /\ ~refused
  BY <1>1, OpenFacts
<1>4. ~smu.setup
  <2>1. reached = 8
    BY <1>1, <1>2, AtHere
  <2> QED
    BY <1>1, <2>1, StageNumbers DEF BringUpInv, EffectsSound, AtStageDone
<1>5. Continue \/ \E e : Fail(e)
  BY DEF smu_send_msg, MessageFails
<1>6. \/ UNCHANGED <<smu, out>>
      \/ MailboxFree /\ smu' = [smu EXCEPT !.pending = FALSE] /\ UNCHANGED out
      \/ MailboxFree /\ smu' = [smu EXCEPT !.pending = TRUE] /\ out' = [out EXCEPT !["smu"] = @ + 1]
  BY DEF smu_send_msg
<1>7. smu \in SMUTypes /\ smu' \in SMUTypes
  BY <1>6, RecordsTyped
<1>8. UNCHANGED <<smu.online, smu.table, smu.setup>>
  BY <1>6, <1>7 DEF SMUTypes
<1>9. \A f : Holds(f) => Holds(f)'
  BY <1>1, <1>8 DEF Holds
<1>10. /\ ProgramSound' /\ CallSound' /\ EffectsSound' /\ blocked' \in BOOLEAN /\ call' \in CallTypes
  <2>1. CASE Continue
    BY <1>1, <1>2, <1>8, <1>9, <2>1, ContinueStays
  <2>2. CASE \E e : Fail(e)
    <3>1. call.submitted \in BOOLEAN
      BY <1>1, RunningFacts DEF CallTypes
    <3> QED
      BY <1>1, <1>8, <2>2, <3>1, FailStays DEF Fail, ProgramSound
  <2> QED
    BY <1>5, <2>1, <2>2
<1>11. out["smu"] \in Nat /\ (MailboxFree => out["smu"] = 0)
  BY <1>3 DEF TypeOK, Units, CommandsSound, MailboxFree
<1>12. /\ out' \in [Units -> Nat] /\ \A u \in Units \ {"smu"} : out'[u] = out[u]
       /\ out'["smu"] <= 1 /\ (~smu'.pending => out'["smu"] = 0)
  <2>1. CASE UNCHANGED <<smu, out>>
    BY <1>3, <2>1 DEF TypeOK, Units, CommandsSound
  <2>2. CASE MailboxFree /\ smu' = [smu EXCEPT !.pending = FALSE] /\ UNCHANGED out
    BY <1>3, <1>11, <2>2 DEF TypeOK, Units, CommandsSound
  <2>3. CASE MailboxFree /\ smu' = [smu EXCEPT !.pending = TRUE] /\ out' = [out EXCEPT !["smu"] = @ + 1]
    <3>1. smu'.pending
      BY <1>7, <2>3 DEF SMUTypes
    <3> QED
      BY <1>3, <1>11, <2>3, <3>1 DEF TypeOK, Units
  <2> QED
    BY <1>6, <2>1, <2>2, <2>3
<1>13. TypeOK'
  BY <1>1, <1>3, <1>7, <1>10, <1>12, TypesStay
<1>14. PromisesKept' /\ LoadedSound'
  BY <1>1, <1>3, <1>8, PromisesStay DEF LoadedSound
<1>15. OpenSound'
  <2>1. out'["psp"] = 0
    BY <1>3, <1>12 DEF Units
  <2> QED
    BY <1>1, <1>3, <1>9, <1>14, <2>1 DEF OpenSound
<1>16. StagingSound' /\ CommandsSound'
  <2>1. \A u \in Pipes : u \in Units \ {"smu"}
    BY DEF Pipes, Units
  <2>2. "psp" \in Units \ {"smu"}
    BY DEF Units
  <2> QED
    BY <1>1, <1>3, <1>4, <1>8, <1>12, <2>1, <2>2 DEF StagingSound, StagingIntact, CommandsSound
<1> QED
  BY <1>10, <1>13, <1>15, <1>16 DEF BringUpInv, DataSound

\* The metrics table is staged above everything staged so far.
LEMMA ReserveKeeps == ASSUME BringUpInv, smu_metrics_reserve PROVE BringUpInv'
<1>1. /\ call.prog # <<>> /\ Head(call.prog).fn = "smu_metrics_reserve"
      /\ UNCHANGED <<reached, psp, loaded, cp, mes, wptr, deviceVars>>
  BY DEF smu_metrics_reserve, Running
<1>2. /\ \A f : Gives(Head(call.prog), f) <=> f = Is("table")
      /\ Is("fwPri") \in Needs(Head(call.prog), reached)
  BY <1>1 DEF Gives, FlagOf, Needs, NeedsOf
<1>3. CASE Fail("NoSpace") /\ UNCHANGED <<bump, smu>>
  <2>1. UNCHANGED <<driverVars, deviceVars>>
    BY <1>1, <1>3 DEF driverVars
  <2> QED
    BY <1>1, <1>3, <2>1, FailsOn
<1>4. CASE HasRoom /\ Continue /\ Stage /\ smu' = [smu EXCEPT !.table = bump + 1]
  <2>1. UNCHANGED <<sos, acked, refused, out, maps>>
    BY <1>1 DEF deviceVars
  <2>2. /\ PromisesKept /\ LoadedSound /\ StagingSound /\ CommandsSound /\ TypeOK
        /\ psp.sosAlive => sos
        /\ psp.complete => "rlc" \in loaded /\ Holds(Is("rl")) /\ Holds(Is("asd"))
        /\ out["psp"] = 0 /\ ~refused
    BY <1>1, OpenFacts
  <2>3. psp.fwPri
    <3>1. Holds(Is("fwPri"))
      BY <1>1, <1>2, HeadServed
    <3> QED
      BY <3>1 DEF Holds, Is, At, Acked
  <2>4. bump \in Nat /\ FwBufSlots \in Nat /\ bump < FwBufSlots /\ bump' = bump + 1 /\ psp.asd \in Nat
    BY <1>4, <2>2, BringUpAssumption DEF TypeOK, HasRoom, Stage
  <2>5. smu \in SMUTypes /\ smu' \in SMUTypes /\ bump' \in 0 .. FwBufSlots
    <3>1. bump + 1 \in 0 .. FwBufSlots
      BY <2>4
    <3> QED
      BY <1>4, <2>4, <3>1, RecordsTyped
  <2>6. smu'.table = bump + 1 /\ UNCHANGED <<smu.pending, smu.online, smu.setup>>
    BY <1>4, <2>5 DEF SMUTypes
  <2>7. \A f : Holds(f) => Holds(f)'
    BY <1>1, <2>1, <2>4, <2>6 DEF Holds
  <2>8. \A f : Gives(Head(call.prog), f) => Holds(f)'
    BY <1>2, <2>4, <2>6 DEF Holds
  <2>9. /\ ProgramSound' /\ CallSound' /\ EffectsSound'
        /\ ~blocked' /\ blocked' \in BOOLEAN /\ call' \in CallTypes
    BY <1>1, <1>4, <2>6, <2>7, <2>8, ContinueStays
  <2>10. TypeOK'
    BY <1>1, <2>1, <2>2, <2>5, <2>9, TypesStay
  <2>11. PromisesKept' /\ LoadedSound'
    <3>1. smu'.table # 0
      BY <2>4, <2>6
    <3> QED
      BY <1>1, <2>1, <2>2, <2>6, <3>1, PromisesStay DEF LoadedSound
  <2>12. OpenSound' /\ CommandsSound'
    BY <1>1, <2>1, <2>2, <2>6, <2>7, <2>9, <2>11 DEF OpenSound, CommandsSound
  <2>13. StagingSound'
    BY <1>1, <2>2, <2>3, <2>4, <2>6 DEF StagingSound, StagingIntact
  <2> QED
    BY <2>9, <2>10, <2>12, <2>13 DEF BringUpInv, DataSound
<1> QED
  BY <1>3, <1>4 DEF smu_metrics_reserve

\* The metrics path opens only with a quiet mailbox, and only at the end of its stage.
LEMMA SetupCompleteKeeps == ASSUME BringUpInv, smu_setup_complete PROVE BringUpInv'
<1>1. /\ call.prog # <<>> /\ Head(call.prog).fn = "smu_setup_complete" /\ Continue
      /\ smu' = [smu EXCEPT !.setup = ~smu.pending]
      /\ UNCHANGED <<reached, psp, bump, loaded, cp, mes, wptr, sos, acked, refused, out, maps>>
  BY DEF smu_setup_complete, Running, deviceVars
<1>2. /\ \A f : ~Gives(Head(call.prog), f)
      /\ At(8) \in NeedsOf(Head(call.prog)) /\ Head(call.prog).fn \in Enders
  <2>1. At(SMUInit - 1) \in NeedsOf(Head(call.prog))
    BY <1>1 DEF NeedsOf
  <2>2. SMUInit - 1 = 8
    BY StageNumbers
  <2> QED
    BY <1>1, <2>1, <2>2 DEF Gives, FlagOf, Enders
<1>3. reached = 8
  BY <1>1, <1>2, AtHere
<1>4. /\ PromisesKept /\ LoadedSound /\ StagingSound /\ CommandsSound /\ TypeOK
      /\ psp.sosAlive => sos
      /\ psp.complete => "rlc" \in loaded /\ Holds(Is("rl")) /\ Holds(Is("asd"))
      /\ out["psp"] = 0 /\ ~refused
  BY <1>1, OpenFacts
<1>5. smu \in SMUTypes /\ smu' \in SMUTypes
  <2>1. (~smu.pending) \in BOOLEAN
    OBVIOUS
  <2> QED
    BY <1>1, <2>1, RecordsTyped
<1>6. smu'.setup = ~smu.pending /\ UNCHANGED <<smu.pending, smu.online, smu.table>>
  BY <1>1, <1>5 DEF SMUTypes
<1>7. \A f : Holds(f) => Holds(f)'
  BY <1>1, <1>6 DEF Holds
<1>8. /\ ProgramSound' /\ CallSound' /\ MovesOn(<<>>)
      /\ (\E k \in DOMAIN call.prog : call.prog[k].fn = "stage_done") =>
             \E k \in DOMAIN call'.prog : call'.prog[k].fn = "stage_done"
  BY <1>1, <1>2, <1>7, ContinueGoes
<1>9. call'.prog # <<>> /\ Head(call'.prog).fn = "stage_done"
  BY <1>1, <1>2, <1>8, EnderGoes
<1>10. ~blocked /\ ~blocked' /\ blocked' \in BOOLEAN /\ call' \in CallTypes
  BY <1>1, <1>4, <1>8, RunningFacts DEF MovesOn, TypeOK
<1>11. EffectsSound'
  <2>1. Quiet' \/ reached' = SDMAInit
    BY <1>1, <1>3, <1>10, StageNumbers DEF BringUpInv, EffectsSound, QuietBefore, Quiet
  <2>2. ~cp.ready
    BY <1>1, <1>3, StageNumbers DEF BringUpInv, EffectsSound, AtStageDone
  <2> QED
    BY <1>1, <1>3, <1>9, <2>1, <2>2, StageNumbers DEF EffectsSound, QuietBefore, AtStageDone
<1>12. TypeOK'
  BY <1>1, <1>4, <1>5, <1>10, TypesStay
<1>13. PromisesKept' /\ LoadedSound'
  BY <1>1, <1>4, <1>6, PromisesStay DEF LoadedSound
<1>14. OpenSound' /\ StagingSound' /\ CommandsSound'
  <2>1. OpenSound' /\ StagingSound'
    BY <1>1, <1>4, <1>6, <1>7, <1>13 DEF OpenSound, StagingSound, StagingIntact
  <2>2. CommandsSound'
    BY <1>1, <1>4, <1>6, <1>10 DEF CommandsSound
  <2> QED
    BY <2>1, <2>2
<1> QED
  BY <1>8, <1>11, <1>12, <1>14 DEF BringUpInv, DataSound

\* A MES pipe gets a command only when its latch is clear, and then nothing is unanswered on it.
LEMMA MESCommandKeeps == ASSUME BringUpInv, mes_submit_pkt PROVE BringUpInv'
<1> DEFINE pipe == PipeOf(Arg)
<1>1. /\ call.prog # <<>> /\ Head(call.prog).fn = "mes_submit_pkt"
      /\ UNCHANGED <<reached, psp, bump, loaded, cp, smu, wptr, sos, refused>>
  BY DEF mes_submit_pkt, Running
<1>2. /\ \A f : Gives(Head(call.prog), f) => Arg \notin Untracked /\ f = Acked(Arg)
      /\ Takes(Head(call.prog), Is("unmapped"))
  BY <1>1 DEF Gives, FlagOf, Takes, Arg
<1>3. /\ PromisesKept /\ LoadedSound /\ StagingSound /\ CommandsSound /\ TypeOK
      /\ psp.sosAlive => sos
      /\ psp.complete => "rlc" \in loaded /\ Holds(Is("rl")) /\ Holds(Is("asd"))
      /\ out["psp"] = 0 /\ ~refused
  BY <1>1, OpenFacts
<1>4. Arg = "MAP_GFX" => maps = 0 /\ cp.mqd
  <2>1. Arg = "MAP_GFX" => Is("mqd") \in Needs(Head(call.prog), reached) /\ Is("unmapped") \in Needs(Head(call.prog), reached)
    BY <1>1 DEF Needs, NeedsOf, Arg
  <2>2. Arg = "MAP_GFX" => Holds(Is("mqd")) /\ Holds(Is("unmapped"))
    BY <1>1, <2>1, HeadServed
  <2> QED
    BY <2>2 DEF Holds, Is, At, Acked
<1>5. pipe \in Pipes
  BY DEF PipeOf, Pipes
<1> HIDE DEF pipe
<1>6. (Continue /\ acked' = acked \cup ({Arg} \ Untracked)) \/ (UNCHANGED acked /\ \E e : Fail(e))
  BY DEF mes_submit_pkt, Ack
<1>7. UNCHANGED maps \/ maps' = IF Arg = "MAP_GFX" THEN maps + 1 ELSE maps
  BY DEF mes_submit_pkt
<1>8. \/ UNCHANGED <<mes, out>>
      \/ mes' = [mes EXCEPT !.pending = @ \cup {pipe}] /\ UNCHANGED out
      \/ /\ mes' = [mes EXCEPT !.pending = @ \cup {pipe}] /\ pipe \notin mes.pending
         /\ out' = [out EXCEPT ![pipe] = @ + 1]
  BY DEF mes_submit_pkt, pipe
<1>9. mes \in MESTypes /\ mes' \in MESTypes /\ mes.pending \subseteq mes'.pending
      /\ (mes' = mes \/ pipe \in mes'.pending)
  <2>1. mes \in MESTypes
    BY RecordsTyped
  <2>2. mes.pending \cup {pipe} \in SUBSET Pipes
    BY <1>5, <2>1 DEF MESTypes
  <2> QED
    BY <1>8, <2>1, <2>2 DEF MESTypes
<1>10. /\ out' \in [Units -> Nat] /\ \A u \in Units \ {pipe} : out'[u] = out[u]
       /\ out'[pipe] <= 1 /\ (pipe \notin mes'.pending => out'[pipe] = 0)
  <2>1. pipe \in Units /\ out \in [Units -> Nat] /\ out[pipe] <= 1 /\ (pipe \notin mes.pending => out[pipe] = 0)
    BY <1>3, <1>5 DEF TypeOK, CommandsSound, Units
  <2>2. CASE out' = out
    BY <1>9, <2>1, <2>2
  <2>3. CASE pipe \notin mes.pending /\ pipe \in mes'.pending /\ out' = [out EXCEPT ![pipe] = @ + 1]
    BY <2>1, <2>3
  <2>4. mes' # mes => pipe \in mes'.pending
    BY <1>9
  <2>5. CASE mes' = [mes EXCEPT !.pending = @ \cup {pipe}]
    <3>1. pipe \in mes'.pending
      BY <1>9, <2>5 DEF MESTypes
    <3> QED
      BY <1>8, <2>2, <2>3, <3>1
  <2> QED
    BY <1>8, <2>2, <2>5
<1>11. maps \in Nat /\ maps' \in Nat /\ maps' <= 1 /\ (maps' > 0 => cp'.mqd)
  BY <1>1, <1>3, <1>4, <1>7 DEF CommandsSound
<1>12. \A f : Holds(f) /\ ~Takes(Head(call.prog), f) => Holds(f)'
  <2>1. acked \subseteq acked'
    BY <1>6
  <2> QED
    BY <1>1, <1>2, <2>1 DEF Holds
<1>13. /\ ProgramSound' /\ CallSound' /\ EffectsSound' /\ blocked' \in BOOLEAN /\ call' \in CallTypes
  <2>1. CASE Continue /\ acked' = acked \cup ({Arg} \ Untracked)
    <3>1. \A f : Gives(Head(call.prog), f) => Holds(f)'
      BY <1>2, <2>1 DEF Holds, Acked
    <3> QED
      BY <1>1, <1>12, <2>1, <3>1, ContinueStays
  <2>2. CASE \E e : Fail(e)
    <3>1. call.submitted \in BOOLEAN
      BY <1>1, RunningFacts DEF CallTypes
    <3> QED
      BY <1>1, <2>2, <3>1, FailStays DEF Fail, ProgramSound
  <2> QED
    BY <1>6, <2>1, <2>2
<1>14. TypeOK'
  BY <1>1, <1>3, <1>9, <1>10, <1>13, TypesStay
<1>15. OpenSound'
  <2>1. acked \subseteq acked'
    BY <1>6
  <2>2. PromisesKept' /\ LoadedSound'
    BY <1>1, <1>3, <2>1, PromisesStay DEF LoadedSound
  <2>3. psp'.complete => Holds(Is("rl"))' /\ Holds(Is("asd"))'
    BY <1>1, <1>3, <2>1 DEF Holds, Is, At, Acked
  <2>4. out'["psp"] = 0
    BY <1>3, <1>5, <1>10 DEF Units, Pipes
  <2> QED
    BY <1>1, <1>3, <2>2, <2>3, <2>4 DEF OpenSound
<1>16. StagingSound' /\ CommandsSound'
  <2>1. \A u \in Units : out'[u] <= 1
    BY <1>3, <1>10 DEF CommandsSound
  <2>2. out'["psp"] = out["psp"] /\ out'["smu"] = out["smu"]
    BY <1>5, <1>10 DEF Units, Pipes
  <2>3. \A u \in Pipes \ mes'.pending : out'[u] = 0
    <3> SUFFICES ASSUME NEW u \in Pipes \ mes'.pending PROVE out'[u] = 0
      OBVIOUS
    <3>1. u \in Pipes \ mes.pending /\ u \in Units
      BY <1>9 DEF Units
    <3> QED
      BY <1>3, <1>10, <3>1 DEF CommandsSound
  <2>4. CommandsSound'
    BY <1>1, <1>3, <1>11, <2>1, <2>2, <2>3 DEF CommandsSound
  <2>5. StagingSound'
    BY <1>1, <1>3 DEF StagingSound, StagingIntact
  <2> QED
    BY <2>4, <2>5
<1> QED
  BY <1>13, <1>14, <1>15, <1>16 DEF BringUpInv, DataSound

\* Restarting the pipes forgets what they acknowledged, and nothing reached or promised rests on it.
LEMMA MESEnableKeeps == ASSUME BringUpInv, mes_enable PROVE BringUpInv'
<1>1. /\ call.prog # <<>> /\ Head(call.prog).fn = "mes_enable"
      /\ UNCHANGED <<reached, psp, bump, loaded, cp, smu, wptr, sos, refused, out, maps>>
  BY DEF mes_enable, Running
<1>2. /\ \A f : Gives(Head(call.prog), f) => f[1] = "acked" /\ f[2] \in MESPayloads
      /\ \A f : f[1] = "acked" /\ f[2] \in Volatile => Takes(Head(call.prog), f)
  BY <1>1 DEF Gives, FlagOf, Takes
<1>3. /\ PromisesKept /\ LoadedSound /\ StagingSound /\ CommandsSound /\ TypeOK
      /\ psp.sosAlive => sos
      /\ psp.complete => "rlc" \in loaded /\ Holds(Is("rl")) /\ Holds(Is("asd"))
      /\ out["psp"] = 0 /\ ~refused
  BY <1>1, OpenFacts
<1>4. reached = 12
  <2>1. At(MESInit - 1) \in NeedsOf(Head(call.prog))
    BY <1>1 DEF NeedsOf
  <2>2. MESInit - 1 = 12
    BY StageNumbers
  <2> QED
    BY <1>1, <2>1, <2>2, AtHere
<1>5. CASE UNCHANGED <<mes, acked>> /\ \E e \in {"NotReady", "NoMemory"} : Fail(e)
  <2>1. UNCHANGED <<driverVars, deviceVars>>
    BY <1>1, <1>5 DEF driverVars, deviceVars
  <2> QED
    BY <1>1, <1>5, <2>1, FailsOn
<1>6. CASE /\ "mes" \in loaded /\ mes' = [mes EXCEPT !.active = TRUE] /\ acked' = acked \ Volatile
           /\ Continue \/ Fail("NotReady")
  <2>1. mes \in MESTypes /\ mes' \in MESTypes
    BY <1>6, RecordsTyped
  <2>2. mes'.pending = mes.pending
    BY <1>6, <2>1 DEF MESTypes
  <2>3. {"IMU_D", "SDMA", "RLC_G", "AUTOLOAD_RLC", "REG_LIST", "ASD"} \cap Volatile = {}
    BY DEF Volatile, KIQCommands, SchedCommands
  <2>4. MESPayloads \cap Volatile = {} /\ \A f \in CPFiles : PayloadsOf(f) \cap Volatile = {}
    BY NamesAssumption, BringUpAssumption DEF Volatile
  <2>5. \A f : Holds(f) /\ ~Takes(Head(call.prog), f) => Holds(f)'
    BY <1>1, <1>2, <1>6, <2>3 DEF Holds
  <2>6. \A f : Gives(Head(call.prog), f) => Holds(f)'
    BY <1>2, <1>3, <1>6, <2>4 DEF Holds, LoadedSound
  <2>7. /\ ProgramSound' /\ CallSound' /\ EffectsSound' /\ blocked' \in BOOLEAN /\ call' \in CallTypes
    <3>1. CASE Continue
      BY <1>1, <2>5, <2>6, <3>1, ContinueStays
    <3>2. CASE Fail("NotReady")
      <4>1. call.submitted \in BOOLEAN
        BY <1>1, RunningFacts DEF CallTypes
      <4> QED
        BY <1>1, <3>2, <4>1, FailStays DEF Fail, ProgramSound
    <3> QED
      BY <1>6, <3>1, <3>2
  <2>8. TypeOK'
    BY <1>1, <1>3, <2>1, <2>7, TypesStay
  <2>9. \A s \in 1 .. reached : \A x \in Acknowledged(s) : x \notin Volatile
    <3> SUFFICES ASSUME NEW s \in 1 .. 12, NEW x \in Acknowledged(s) PROVE x \notin Volatile
      BY <1>4
    <3>1. s \in {1, 2, 3, 4, 5, 6, 7, 9, 10, 11} \/ s = 8 \/ s = 12
      OBVIOUS
    <3>2. CASE s \in {1, 2, 3, 4, 5, 6, 7, 9, 10, 11}
      <4>1. Acknowledged(s) = {}
        BY <3>2, StageNumbers DEF Acknowledged
      <4> QED
        BY <4>1
    <3>3. CASE s = 8
      <4>1. Acknowledged(8) = {"IMU_D", "SDMA", "RLC_G", "AUTOLOAD_RLC"}
        BY StageNumbers DEF Acknowledged
      <4> QED
        BY <2>3, <3>3, <4>1
    <3>4. CASE s = 12
      <4>1. Acknowledged(12) = CPPayloads
        BY StageNumbers DEF Acknowledged, CPPayloads
      <4> QED
        BY <2>4, <3>4, <4>1 DEF CPPayloads
    <3> QED
      BY <3>1, <3>2, <3>3, <3>4
  <2>10. PromisesKept'
    <3>1. \A s \in 1 .. reached : \A x \in Acknowledged(s) : x \in acked => x \in acked'
      BY <1>6, <2>9
    <3> QED
      BY <1>1, <1>3, <3>1, PromisesStay
  <2>11. LoadedSound'
    BY <1>1, <1>3, <1>6, <2>3, <2>4 DEF LoadedSound
  <2>12. psp'.complete => Holds(Is("rl"))' /\ Holds(Is("asd"))'
    BY <1>1, <1>3, <1>6, <2>3 DEF Holds, Is, At, Acked
  <2>13. OpenSound' /\ StagingSound' /\ CommandsSound'
    <3>1. CommandsSound'
      BY <1>1, <1>3, <2>2 DEF CommandsSound, OpenSound
    <3>2. OpenSound' /\ StagingSound'
      BY <1>1, <1>3, <2>10, <2>11, <2>12 DEF OpenSound, StagingSound, StagingIntact
    <3> QED
      BY <3>1, <3>2
  <2> QED
    BY <2>7, <2>8, <2>13 DEF BringUpInv, DataSound
<1>7. UNCHANGED <<mes, acked>> \/ acked' = acked \ Volatile
  BY DEF mes_enable, Volatile
<1> QED
  BY <1>5, <1>6 DEF mes_enable, Volatile

\* The ring is ready only once its mapping was acknowledged, at the end of its stage.
LEMMA ReadyKeeps == ASSUME BringUpInv, cp_is_ready PROVE BringUpInv'
<1>1. /\ call.prog # <<>> /\ Head(call.prog).fn = "cp_is_ready" /\ Continue
      /\ cp' = [cp EXCEPT !.ready = TRUE]
      /\ UNCHANGED <<reached, psp, bump, loaded, mes, smu, wptr, sos, acked, refused, out, maps>>
  BY DEF cp_is_ready, Running, deviceVars
<1>2. /\ \A f : Gives(Head(call.prog), f) <=> f = Is("ready")
      /\ At(13) \in NeedsOf(Head(call.prog)) /\ Head(call.prog).fn \in Enders
  <2>1. At(GFXInit - 1) \in NeedsOf(Head(call.prog))
    BY <1>1 DEF NeedsOf
  <2>2. GFXInit - 1 = 13
    BY StageNumbers
  <2> QED
    BY <1>1, <2>1, <2>2 DEF Gives, FlagOf, Enders
<1>3. reached = 13
  BY <1>1, <1>2, AtHere
<1>4. /\ PromisesKept /\ LoadedSound /\ StagingSound /\ CommandsSound /\ TypeOK
      /\ psp.sosAlive => sos
      /\ psp.complete => "rlc" \in loaded /\ Holds(Is("rl")) /\ Holds(Is("asd"))
      /\ out["psp"] = 0 /\ ~refused
  BY <1>1, OpenFacts
<1>5. cp \in CPTypes /\ cp' \in CPTypes
  BY <1>1, RecordsTyped
<1>6. cp'.ready /\ UNCHANGED <<cp.prepared, cp.started, cp.mqd>>
  BY <1>1, <1>5 DEF CPTypes
<1>7. (\A f : Holds(f) => Holds(f)') /\ \A f : Gives(Head(call.prog), f) => Holds(f)'
  BY <1>1, <1>2, <1>6 DEF Holds
<1>8. /\ ProgramSound' /\ CallSound' /\ MovesOn(<<>>)
      /\ (\E k \in DOMAIN call.prog : call.prog[k].fn = "stage_done") =>
             \E k \in DOMAIN call'.prog : call'.prog[k].fn = "stage_done"
  BY <1>1, <1>7, ContinueGoes
<1>9. call'.prog # <<>> /\ Head(call'.prog).fn = "stage_done"
  BY <1>1, <1>2, <1>8, EnderGoes
<1>10. ~blocked /\ ~blocked' /\ blocked' \in BOOLEAN /\ call' \in CallTypes
  BY <1>1, <1>4, <1>8, RunningFacts DEF MovesOn, TypeOK
<1>11. EffectsSound'
  <2>1. Quiet' \/ reached' = SDMAInit
    BY <1>1, <1>3, <1>10, StageNumbers DEF BringUpInv, EffectsSound, QuietBefore, Quiet
  <2>2. smu'.setup => reached' >= SMUInit
    BY <1>1, <1>3, StageNumbers
  <2> QED
    BY <1>1, <1>3, <1>9, <2>1, <2>2, StageNumbers DEF EffectsSound, QuietBefore, AtStageDone
<1>12. TypeOK'
  BY <1>1, <1>4, <1>5, <1>10, TypesStay
<1>13. PromisesKept' /\ LoadedSound'
  BY <1>1, <1>4, <1>6, PromisesStay DEF LoadedSound
<1>14. OpenSound' /\ StagingSound' /\ CommandsSound'
  <2>1. OpenSound' /\ StagingSound'
    BY <1>1, <1>4, <1>6, <1>7, <1>13 DEF OpenSound, StagingSound, StagingIntact
  <2>2. CommandsSound'
    BY <1>1, <1>4, <1>6, <1>10 DEF CommandsSound
  <2> QED
    BY <2>1, <2>2
<1> QED
  BY <1>8, <1>11, <1>12, <1>14 DEF BringUpInv, DataSound

\* The queue descriptor is given away before the mapping is sent; none was sent while it was ours.
LEMMA MapQueueKeeps == ASSUME BringUpInv, cp_map_gfx_queue PROVE BringUpInv'
<1>1. /\ call.prog # <<>> /\ Head(call.prog).fn = "cp_map_gfx_queue"
      /\ UNCHANGED <<reached, psp, bump, loaded, mes, smu, wptr, sos, acked, refused, out, maps>>
  BY DEF cp_map_gfx_queue, Running, deviceVars
<1>2. /\ \A f : Gives(Head(call.prog), f) <=> f \in {Is("ready"), Acked("MAP_GFX")}
      /\ At(13) \in NeedsOf(Head(call.prog)) /\ Head(call.prog).fn \in Enders
      /\ \A f : Takes(Head(call.prog), f) <=> f = Is("unmapped")
  <2>1. At(GFXInit - 1) \in NeedsOf(Head(call.prog))
    BY <1>1 DEF NeedsOf
  <2>2. GFXInit - 1 = 13
    BY StageNumbers
  <2> QED
    BY <1>1, <2>1, <2>2 DEF Gives, Takes, FlagOf, Enders
<1>3. reached = 13
  BY <1>1, <1>2, AtHere
<1>4. /\ PromisesKept /\ LoadedSound /\ StagingSound /\ CommandsSound /\ TypeOK
      /\ psp.sosAlive => sos
      /\ psp.complete => "rlc" \in loaded /\ Holds(Is("rl")) /\ Holds(Is("asd"))
      /\ out["psp"] = 0 /\ ~refused
  BY <1>1, OpenFacts
<1>5. CASE UNCHANGED cp /\ \E e : Fail(e)
  <2>1. UNCHANGED <<driverVars, deviceVars>>
    BY <1>1, <1>5 DEF driverVars, deviceVars
  <2> QED
    BY <1>1, <1>5, <2>1, FailsOn
<1>6. CASE /\ ~cp.mqd /\ cp' = [cp EXCEPT !.mqd = TRUE]
           /\ Fail("IOError") \/ Then(<<Submit("MAP_GFX"), Op("cp_is_ready", "")>>)
  <2>1. cp \in CPTypes /\ cp' \in CPTypes
    BY <1>6, RecordsTyped
  <2>2. cp'.mqd /\ maps = 0 /\ cp'.ready = cp.ready
    <3>2. ~cp.mqd
      BY <1>6
    <3>3. maps \in Nat /\ (maps > 0 => cp.mqd)
      BY <1>4 DEF CommandsSound
    <3>1. maps = 0
      BY <3>2, <3>3
    <3> QED
      BY <1>6, <2>1, <3>1 DEF CPTypes
  <2>3. \A f : Holds(f) => Holds(f)'
    BY <1>1, <2>2 DEF Holds
  <2>4. Holds(Is("mqd"))' /\ Holds(Is("unmapped"))' /\ Holds(At(13))'
    BY <1>1, <1>3, <2>2 DEF Holds, At, Is
  <2>5. ASSUME Then(<<Submit("MAP_GFX"), Op("cp_is_ready", "")>>)
        PROVE  ProgramSound' /\ CallSound' /\ EffectsSound' /\ blocked' \in BOOLEAN /\ call' \in CallTypes
    <3> DEFINE a == Submit("MAP_GFX")
               b == Op("cp_is_ready", "")
               ops == <<a, b>>
    <3>1. a \in Ops /\ b \in Ops
      <4>1. "MAP_GFX" \in Words /\ "cp_is_ready" \in FunctionNames \ Chosen
        BY DEF Words, Volatile, KIQCommands, FunctionNames, Chosen
      <4> QED
        BY <4>1, SomeOps DEF Submit
    <3>2. a.fn = "mes_submit_pkt" /\ a.arg = "MAP_GFX" /\ b.fn = "cp_is_ready"
      BY DEF Submit, Op
    <3>3. Then(ops)
      BY <2>5
    <3> HIDE DEF a, b
    <3>4. ops \in Seq(Ops) /\ DOMAIN ops = {1, 2} /\ ops[1] = a /\ ops[2] = b /\ Len(ops) = 2
      BY <3>1, ShortLists
    <3> HIDE DEF ops
    <3>5. MovesOn(ops)
      BY <1>1, <3>3, <3>4, RunningFacts, ThenMovesOn
    <3>6. Fits(ops)
      BY <1>2, <3>2, <3>4 DEF Fits, Climbers, Enders, SDMASteps
    <3>7. /\ \A f : Takes(a, f) <=> f = Is("unmapped")
          /\ \A f : ~Takes(b, f)
          /\ Gives(a, Acked("MAP_GFX")) /\ Gives(b, Is("ready"))
      BY <3>2 DEF Takes, Gives, FlagOf, Untracked, Optional
    <3>8. ASSUME NEW f, (Holds(f) /\ ~Takes(Head(call.prog), f)) \/ Gives(Head(call.prog), f)
          PROVE  Arrives(ops, f, Holds(f)')
      <4>1. CASE Holds(f) /\ ~Takes(Head(call.prog), f)
        BY <1>2, <2>3, <3>4, <3>7, <4>1 DEF Arrives
      <4>2. CASE f = Is("ready")
        BY <3>4, <3>7, <4>2 DEF Arrives
      <4>3. CASE f = Acked("MAP_GFX")
        BY <3>4, <3>7, <4>3 DEF Arrives
      <4> QED
        BY <1>2, <3>8, <4>1, <4>2, <4>3
    <3>9. ASSUME NEW k \in DOMAIN ops, NEW f \in Needs(ops[k], reached) PROVE Comes(ops, k, f, Holds(f)')
      <4>1. CASE k = 1
        <5>1. f \in {Is("mqd"), Is("unmapped")}
          BY <3>2, <3>4, <3>9, <4>1 DEF Needs, NeedsOf
        <5> QED
          BY <2>4, <4>1, <5>1 DEF Comes, Kept
      <4>2. CASE k = 2
        <5>1. f \in {At(GFXInit - 1)}
          BY <3>2, <3>4, <3>9, <4>2 DEF Needs, NeedsOf
        <5>2. f = At(13)
          BY <5>1, StageNumbers
        <5>3. At(13) # Is("unmapped")
          BY DEF At, Is
        <5>4. \A i \in 1 .. 2 - 1 : ~Takes(ops[i], f)
          BY <3>4, <3>7, <5>2, <5>3
        <5> QED
          BY <2>4, <4>2, <5>2, <5>4 DEF Comes, Kept
      <4> QED
        BY <3>4, <4>1, <4>2
    <3>10. cp'.ready => cp.ready
      BY <2>2
    <3>11. ProgramSound' /\ CallSound' /\ EffectsSound'
      BY <1>1, <3>4, <3>5, <3>6, <3>8, <3>9, <3>10, ProgramStays
    <3>12. blocked' \in BOOLEAN /\ call' \in CallTypes
      BY <1>1, <1>4, <3>5, RunningFacts DEF MovesOn, TypeOK
    <3> QED
      BY <3>11, <3>12
  <2>6. ASSUME Fail("IOError")
        PROVE  ProgramSound' /\ CallSound' /\ EffectsSound' /\ blocked' \in BOOLEAN /\ call' \in CallTypes
    <3>1. call.submitted \in BOOLEAN /\ (cp'.ready => cp.ready)
      BY <1>1, <2>2, RunningFacts DEF CallTypes
    <3> QED
      BY <1>1, <2>6, <3>1, FailStays DEF Fail, ProgramSound
  <2>7. ProgramSound' /\ CallSound' /\ EffectsSound' /\ blocked' \in BOOLEAN /\ call' \in CallTypes
    BY <1>6, <2>5, <2>6
  <2>8. TypeOK'
    BY <1>1, <1>4, <2>1, <2>7, TypesStay
  <2>9. PromisesKept' /\ LoadedSound'
    <3>1. cp.ready => cp'.ready
      BY <2>2
    <3>2. PromisesKept'
      BY <1>1, <1>4, <3>1, PromisesStay
    <3>3. cp'.prepared = cp.prepared
      BY <1>6, <2>1 DEF CPTypes
    <3>4. LoadedSound'
      BY <1>1, <1>4, <3>3 DEF LoadedSound
    <3> QED
      BY <3>2, <3>4
  <2>10. OpenSound' /\ StagingSound'
    BY <1>1, <1>4, <2>2, <2>3, <2>9 DEF OpenSound, StagingSound, StagingIntact
  <2>11. CommandsSound'
    BY <1>1, <1>4, <2>2 DEF CommandsSound, OpenSound
  <2> QED
    BY <2>7, <2>8, <2>10, <2>11 DEF BringUpInv, DataSound
<1> QED
  BY <1>5, <1>6 DEF cp_map_gfx_queue, FirmwareOwnsMQD

\* The SDMA functions run before the end of the last stage.
LEMMA SDMAHere ==
    ASSUME BringUpInv, call.prog # <<>>, Head(call.prog).fn \in SDMASteps
    PROVE  /\ reached = 14 /\ Arg \in Engines
           /\ \E k \in DOMAIN call.prog : call.prog[k].fn = "stage_done"
<1>1. call.prog \in Seq(Ops) /\ Head(call.prog) = call.prog[1] /\ 1 \in DOMAIN call.prog /\ call.prog[1] \in Ops
  BY RunningFacts
<1>2. reached = 14
  <2>1. At(SDMAInit - 1) \in NeedsOf(Head(call.prog))
    BY DEF NeedsOf, SDMASteps
  <2>2. SDMAInit - 1 = 14
    BY StageNumbers
  <2> QED
    BY <2>1, <2>2, AtHere
<1>3. Arg \in Engines
  BY <1>1 DEF Ops, Arg
<1>4. \E k \in DOMAIN call.prog : call.prog[k].fn = "stage_done"
  BY <1>1 DEF BringUpInv, ProgramSound, StageEnds
<1> QED
  BY <1>2, <1>3, <1>4

\* What an SDMA function leaves when it goes on.
LEMMA SDMAGoes ==
    ASSUME BringUpInv, call.prog # <<>>, Head(call.prog).fn \in SDMASteps, Continue,
           UNCHANGED <<reached, psp, bump, loaded, cp, mes, smu, sos, refused, out, maps>>,
           wptr' \in [Engines -> Nat], acked \subseteq acked',
           \A f : Gives(Head(call.prog), f) => Holds(f)'
    PROVE  BringUpInv'
<1>1. /\ PromisesKept /\ LoadedSound /\ StagingSound /\ CommandsSound /\ TypeOK
      /\ psp.sosAlive => sos
      /\ psp.complete => "rlc" \in loaded /\ Holds(Is("rl")) /\ Holds(Is("asd"))
      /\ out["psp"] = 0 /\ ~refused
  BY OpenFacts
<1>2. reached = 14 /\ \E k \in DOMAIN call.prog : call.prog[k].fn = "stage_done"
  BY SDMAHere
<1>3. \A f : Holds(f) => Holds(f)'
  BY DEF Holds
<1>4. Head(call.prog).fn # "stage_done"
  BY DEF SDMASteps
<1>5. /\ ProgramSound' /\ CallSound' /\ MovesOn(<<>>)
      /\ (\E k \in DOMAIN call.prog : call.prog[k].fn = "stage_done") =>
             \E k \in DOMAIN call'.prog : call'.prog[k].fn = "stage_done"
  BY <1>3, <1>4, ContinueGoes
<1>6. ~blocked /\ ~blocked' /\ blocked' \in BOOLEAN /\ call' \in CallTypes
  BY <1>1, <1>5, RunningFacts DEF MovesOn, TypeOK
<1>7. EffectsSound'
  <2>1. QuietBefore'
    BY <1>2, <1>5, StageNumbers DEF QuietBefore
  <2>2. (smu'.setup => reached' >= SMUInit) /\ (cp'.ready => reached' >= GFXInit)
    BY <1>2, StageNumbers
  <2> QED
    BY <2>1, <2>2 DEF EffectsSound
<1>8. TypeOK'
  BY <1>1, <1>6, TypesStay
<1>9. PromisesKept'
  BY <1>1, PromisesStay
<1>10. LoadedSound'
  BY <1>1 DEF LoadedSound
<1>11. psp'.complete => "rlc" \in loaded' /\ Holds(Is("rl"))' /\ Holds(Is("asd"))'
  BY <1>1, <1>3
<1>12. OpenSound'
  BY <1>1, <1>9, <1>10, <1>11 DEF OpenSound
<1>13. StagingSound'
  BY <1>1 DEF StagingSound, StagingIntact
<1>14. CommandsSound'
  BY <1>1, <1>6 DEF CommandsSound
<1> QED
  BY <1>5, <1>7, <1>8, <1>12, <1>13, <1>14 DEF BringUpInv, DataSound

\* An SDMA engine begins with an empty ring.
LEMMA ResumeKeeps == ASSUME BringUpInv, sdma_gfx_resume_instance PROVE BringUpInv'
<1>1. /\ call.prog # <<>> /\ Head(call.prog).fn = "sdma_gfx_resume_instance"
      /\ UNCHANGED <<reached, psp, bump, loaded, cp, mes, smu, sos, acked, refused, out, maps>>
  BY DEF sdma_gfx_resume_instance, Running, deviceVars
<1>2. Head(call.prog).fn \in SDMASteps /\ (\A f : ~Gives(Head(call.prog), f)) /\ Head(call.prog).fn # "stage_done"
  BY <1>1 DEF SDMASteps, Gives, FlagOf
<1>3. CASE wptr' = [wptr EXCEPT ![Arg] = 0] /\ Continue
  <2>1. wptr \in [Engines -> Nat]
    BY DEF BringUpInv, TypeOK
  <2>2. wptr' \in [Engines -> Nat]
    BY <1>3, <2>1
  <2> QED
    BY <1>1, <1>2, <1>3, <2>2, SDMAGoes
<1>4. CASE UNCHANGED wptr /\ Fail("NotReady")
  <2>1. UNCHANGED <<driverVars, deviceVars>>
    BY <1>1, <1>4 DEF driverVars, deviceVars
  <2> QED
    BY <1>1, <1>2, <1>4, <2>1, FailsOn
<1> QED
  BY <1>3, <1>4 DEF sdma_gfx_resume_instance

\* A failed test leaves its packet in the ring, and the session blocked.
LEMMA RingTestKeeps == ASSUME BringUpInv, sdma_ring_test PROVE BringUpInv'
<1>1. /\ call.prog # <<>> /\ Head(call.prog).fn = "sdma_ring_test"
      /\ UNCHANGED <<reached, psp, bump, loaded, cp, mes, smu, sos, refused, out, maps>>
  BY DEF sdma_ring_test, Running
<1>2. /\ Head(call.prog).fn \in SDMASteps /\ Head(call.prog).fn # "stage_done"
      /\ \A f : Gives(Head(call.prog), f) => f = Acked(Arg)
  BY <1>1 DEF SDMASteps, Gives, FlagOf, Arg
<1>3. Arg \in Engines /\ Arg \notin Untracked
  BY <1>1, <1>2, SDMAHere, NamesAssumption
<1>4. wptr \in [Engines -> Nat]
  BY DEF BringUpInv, TypeOK
<1>5. CASE UNCHANGED <<wptr, acked>> /\ Fail("IOError")
  <2>1. UNCHANGED <<driverVars, deviceVars>>
    BY <1>1, <1>5 DEF driverVars, deviceVars
  <2> QED
    BY <1>1, <1>2, <1>5, <2>1, FailsOn
<1>6. CASE wptr' = [wptr EXCEPT ![Arg] = @ + 4] /\ UNCHANGED acked /\ \E e \in {"Timeout", "IOError"} : Fail(e)
  <2>1. /\ PromisesKept /\ LoadedSound /\ StagingSound /\ CommandsSound /\ TypeOK
        /\ psp.sosAlive => sos
        /\ psp.complete => "rlc" \in loaded /\ Holds(Is("rl")) /\ Holds(Is("asd"))
        /\ out["psp"] = 0 /\ ~refused
    BY <1>1, OpenFacts
  <2>2. call.submitted \in BOOLEAN
    BY <1>1, RunningFacts DEF CallTypes
  <2>3. ProgramSound' /\ CallSound' /\ EffectsSound' /\ blocked' \in BOOLEAN /\ call' \in CallTypes
    BY <1>1, <1>2, <1>6, <2>2, FailStays DEF Fail, ProgramSound
  <2>4. wptr' \in [Engines -> Nat]
    BY <1>3, <1>4, <1>6
  <2>5. TypeOK'
    BY <1>1, <2>1, <2>3, <2>4, TypesStay
  <2>6. PromisesKept'
    BY <1>1, <1>6, <2>1, PromisesStay
  <2>7. LoadedSound'
    BY <1>1, <1>6, <2>1 DEF LoadedSound
  <2>8. Holds(Is("rl"))' = Holds(Is("rl")) /\ Holds(Is("asd"))' = Holds(Is("asd"))
    BY <1>1, <1>6 DEF Holds
  <2>9. OpenSound'
    BY <1>1, <1>6, <2>1, <2>6, <2>7, <2>8 DEF OpenSound
  <2>10. StagingSound' /\ CommandsSound'
    BY <1>1, <2>1 DEF StagingSound, StagingIntact, CommandsSound, OpenSound
  <2> QED
    BY <2>3, <2>5, <2>9, <2>10 DEF BringUpInv, DataSound
<1>7. CASE wptr' = [wptr EXCEPT ![Arg] = @ + 4] /\ Continue /\ Ack(Arg)
  <2>1. wptr' \in [Engines -> Nat]
    BY <1>3, <1>4, <1>7
  <2>2. acked \subseteq acked' /\ Arg \in acked'
    BY <1>3, <1>7 DEF Ack
  <2>3. \A f : Gives(Head(call.prog), f) => Holds(f)'
    BY <1>2, <2>2 DEF Holds, Acked
  <2> QED
    BY <1>1, <1>2, <1>7, <2>1, <2>2, <2>3, SDMAGoes
<1> QED
  BY <1>5, <1>6, <1>7 DEF sdma_ring_test

-----------------------------------------------------------------------------
\* The functions of a file upload change only the flags, the bump pointer and the chain's end.
FileStep ==
    /\ UNCHANGED <<reached, cp, mes, smu, wptr, sos, acked, refused, out, maps>>
    /\ bump' \in 0 .. FwBufSlots /\ bump <= bump'
    /\ loaded' \subseteq CPFiles \cup {"imu", "rlc", "sdma", "mes"}
    /\ psp' \in PSPTypes /\ UNCHANGED <<psp.fwPri, psp.sosAlive, psp.ring, psp.tmr, psp.pkg, psp.asd>>
    /\ LoadedSound' /\ (psp'.complete => "rlc" \in loaded' /\ Holds(Is("rl"))' /\ Holds(Is("asd"))')

\* A step of an upload keeps what does not concern uploads.
LEMMA FileStays ==
    ASSUME BringUpInv, call.prog # <<>>, FileStep,
           ProgramSound', CallSound', EffectsSound', blocked' \in BOOLEAN, call' \in CallTypes
    PROVE  BringUpInv'
<1>1. /\ PromisesKept /\ StagingSound /\ CommandsSound /\ TypeOK
      /\ psp.sosAlive => sos
      /\ out["psp"] = 0 /\ ~refused
  BY OpenFacts
<1>2. /\ UNCHANGED <<reached, cp, mes, smu, wptr, sos, acked, refused, out, maps>>
      /\ bump' \in 0 .. FwBufSlots /\ bump <= bump'
      /\ loaded' \subseteq CPFiles \cup {"imu", "rlc", "sdma", "mes"}
      /\ psp' \in PSPTypes /\ UNCHANGED <<psp.fwPri, psp.sosAlive, psp.ring, psp.tmr, psp.pkg, psp.asd>>
      /\ LoadedSound' /\ (psp'.complete => "rlc" \in loaded' /\ Holds(Is("rl"))' /\ Holds(Is("asd"))')
  BY DEF FileStep
<1>3. TypeOK'
  BY <1>1, <1>2, TypesStay
<1>4. PromisesKept'
  BY <1>1, <1>2, PromisesStay
<1>5. OpenSound'
  BY <1>1, <1>2, <1>4 DEF OpenSound
<1>6. StagingSound'
  <2>1. psp.asd \in Nat /\ smu.table \in Nat /\ bump \in Nat /\ bump' \in Nat
    BY <1>1, <1>2, BringUpAssumption DEF TypeOK
  <2> QED
    BY <1>1, <1>2, <2>1 DEF StagingSound, StagingIntact
<1>7. CommandsSound'
  BY <1>1, <1>2 DEF CommandsSound, OpenSound
<1> QED
  BY <1>3, <1>5, <1>6, <1>7 DEF BringUpInv, DataSound

\* A step of an upload that goes on with ops, or with nothing, or fails.
LEMMA FileThen ==
    ASSUME BringUpInv, call.prog # <<>>, FileStep, Head(call.prog).fn # "stage_done",
           NEW ops \in Seq(Ops), Then(ops), Fits(ops),
           \A f : (Holds(f) /\ ~Takes(Head(call.prog), f)) \/ Gives(Head(call.prog), f) => Arrives(ops, f, Holds(f)'),
           \A k \in DOMAIN ops : \A f \in Needs(ops[k], reached) : Comes(ops, k, f, Holds(f)')
    PROVE  BringUpInv'
<1>1. UNCHANGED <<reached, wptr, smu, cp>>
  BY DEF FileStep
<1>2. MovesOn(ops)
  BY RunningFacts, ThenMovesOn
<1>3. ProgramSound' /\ CallSound' /\ EffectsSound'
  BY <1>1, <1>2, ProgramStays
<1>4. blocked' \in BOOLEAN /\ call' \in CallTypes
  BY <1>2, RunningFacts DEF MovesOn, BringUpInv, TypeOK
<1> QED
  BY <1>3, <1>4, FileStays

\* A step of an upload that goes on with nothing.
LEMMA FileContinues ==
    ASSUME BringUpInv, call.prog # <<>>, FileStep, Head(call.prog).fn # "stage_done", Continue,
           \A f : (Holds(f) /\ ~Takes(Head(call.prog), f)) \/ Gives(Head(call.prog), f) => Holds(f)'
    PROVE  BringUpInv'
<1>1. UNCHANGED <<reached, wptr, smu, cp>>
  BY DEF FileStep
<1>2. ProgramSound' /\ CallSound' /\ EffectsSound' /\ blocked' \in BOOLEAN /\ call' \in CallTypes
  BY <1>1, ContinueStays
<1> QED
  BY <1>2, FileStays

\* A step of an upload that fails.
LEMMA FileFails ==
    ASSUME BringUpInv, call.prog # <<>>, FileStep, Head(call.prog).fn # "stage_done", NEW e, Fail(e)
    PROVE  BringUpInv'
<1>1. UNCHANGED <<reached, wptr, smu, cp>> /\ call.submitted \in BOOLEAN
  BY RunningFacts DEF FileStep, CallTypes
<1>2. ProgramSound' /\ CallSound' /\ EffectsSound' /\ blocked' \in BOOLEAN /\ call' \in CallTypes
  BY <1>1, FailStays DEF Fail, ProgramSound
<1> QED
  BY <1>2, FileStays

\* Steps that change the flags only.
LEMMA FlagsStep ==
    ASSUME BringUpInv, call.prog # <<>>,
           UNCHANGED <<reached, psp, bump, cp, mes, smu, wptr, sos, acked, refused, out, maps>>,
           loaded' \subseteq CPFiles \cup {"imu", "rlc", "sdma", "mes"}, LoadedSound',
           psp.complete => "rlc" \in loaded'
    PROVE  FileStep /\ \A f : Holds(f)' <=> Holds(f)
<1>1. \A f : Holds(f)' <=> Holds(f)
  BY DEF Holds
<1>2. psp.complete => Holds(Is("rl")) /\ Holds(Is("asd"))
  BY OpenFacts
<1>3. psp' \in PSPTypes
  BY RecordsTyped
<1>4. bump' \in 0 .. FwBufSlots /\ bump <= bump'
  <2>1. bump \in 0 .. FwBufSlots
    BY DEF BringUpInv, TypeOK
  <2> QED
    BY <2>1, BringUpAssumption
<1> QED
  BY <1>1, <1>2, <1>3, <1>4 DEF FileStep

\* The names of a file's images.
LEMMA ImageNames ==
    \A f \in Files : \A k \in DOMAIN Payloads[f] :
        Payloads[f][k] \in Args /\ Payloads[f][k] \notin Volatile /\ Payloads[f][k] \in PayloadsOf(f)
<1> SUFFICES ASSUME NEW f \in Files, NEW k \in DOMAIN Payloads[f]
             PROVE  Payloads[f][k] \in Args /\ Payloads[f][k] \notin Volatile /\ Payloads[f][k] \in PayloadsOf(f)
  OBVIOUS
<1>1. Payloads[f][k] \in PayloadsOf(f)
  BY DEF PayloadsOf
<1>2. Payloads[f][k] \in PayloadNames
  BY <1>1 DEF PayloadNames
<1>3. Payloads[f][k] \notin Volatile
  BY <1>1, NamesAssumption DEF Volatile
<1> QED
  BY <1>1, <1>2, <1>3 DEF Args

\* A file is opened: what an earlier upload of it achieved is forgotten.
LEMMA OpenFileKeeps == ASSUME BringUpInv, open_file PROVE BringUpInv'
<1>1. /\ call.prog # <<>> /\ Head(call.prog).fn = "open_file"
      /\ UNCHANGED <<reached, psp, bump, cp, mes, smu, wptr, sos, acked, refused, out, maps>>
  BY DEF open_file, Running, deviceVars
<1>2. /\ \A f : ~Gives(Head(call.prog), f)
      /\ \A f : Takes(Head(call.prog), f) <=> f = Is("incomplete")
      /\ Is("incomplete") \in NeedsOf(Head(call.prog))
  BY <1>1 DEF Gives, FlagOf, Takes, NeedsOf
<1>3. Arg \in Files
  BY <1>1, RunningFacts DEF Ops, Arg
<1>4. ~psp.complete
  BY <1>1, <1>2, IncompleteHere
<1>5. LoadedSound /\ loaded \subseteq CPFiles \cup {"imu", "rlc", "sdma", "mes"}
  BY <1>1, OpenFacts DEF TypeOK
<1>6. CASE UNCHANGED loaded /\ \E e : Fail(e)
  <2>1. UNCHANGED <<driverVars, deviceVars>>
    BY <1>1, <1>6 DEF driverVars, deviceVars
  <2> QED
    BY <1>1, <1>6, <2>1, FailsOn
<1>7. CASE loaded' \subseteq loaded /\ (Then(<<Op("payload_loop", <<Arg, 1>>)>>) \/ \E e : Fail(e))
  <2>1. FileStep /\ \A f : Holds(f)' <=> Holds(f)
    <3>1. LoadedSound'
      BY <1>1, <1>5, <1>7 DEF LoadedSound
    <3> QED
      BY <1>1, <1>4, <1>5, <1>7, <3>1, FlagsStep
  <2>2. CASE \E e : Fail(e)
    BY <1>1, <2>1, <2>2, FileFails
  <2>3. CASE Then(<<Op("payload_loop", <<Arg, 1>>)>>)
    <3> DEFINE a == Op("payload_loop", <<Arg, 1>>)
               ops == <<a>>
    <3>1. a \in Ops /\ a.fn = "payload_loop" /\ a.arg = <<Arg, 1>>
      <4>1. <<Arg, 1>> \in Args /\ <<Arg, 1>> \in Files \X (Nat \ {0}) /\ "payload_loop" \in FunctionNames
        BY <1>3 DEF Args, FunctionNames
      <4>2. a = [fn |-> "payload_loop", arg |-> <<Arg, 1>>]
        BY DEF Op
      <4> QED
        BY <4>1, <4>2 DEF Ops, SDMASteps
    <3>2. Then(ops)
      BY <2>3
    <3> HIDE DEF a
    <3>3. ops \in Seq(Ops) /\ DOMAIN ops = {1} /\ ops[1] = a
      BY <3>1, ShortLists
    <3> HIDE DEF ops
    <3>4. /\ a.fn \notin Climbers /\ a.fn \notin Enders /\ a.fn \notin SDMASteps /\ a.fn # "stage_done"
          /\ \A f : Takes(a, f) <=> f = Is("incomplete")
      BY <3>1 DEF Climbers, Enders, SDMASteps, Takes
    <3>5. Fits(ops)
      BY <3>3, <3>4 DEF Fits
    <3>6. ASSUME NEW f, (Holds(f) /\ ~Takes(Head(call.prog), f)) \/ Gives(Head(call.prog), f)
          PROVE  Arrives(ops, f, Holds(f)')
      BY <1>2, <2>1, <3>3, <3>4, <3>6 DEF Arrives
    <3>7. ASSUME NEW k \in DOMAIN ops, NEW f \in Needs(ops[k], reached) PROVE Comes(ops, k, f, Holds(f)')
      <4>1. k = 1 /\ f \in NeedsOf(a)
        BY <3>3, <3>4, <3>7 DEF Needs
      <4>2. 1 .. a.arg[2] - 1 = {}
        BY <3>1
      <4>3. f = Is("incomplete")
        BY <3>1, <4>1, <4>2 DEF NeedsOf
      <4>4. Holds(f)'
        BY <1>1, <1>4, <4>3 DEF Holds
      <4> QED
        BY <4>1, <4>4 DEF Comes, Kept
    <3> QED
      BY <1>1, <2>1, <3>2, <3>3, <3>5, <3>6, <3>7, FileThen
  <2> QED
    BY <1>7, <2>2, <2>3
<1> QED
  <2>1. \/ UNCHANGED loaded /\ \E e : Fail(e)
        \/ loaded' \subseteq loaded /\ (Then(<<Op("payload_loop", <<Arg, 1>>)>>) \/ \E e : Fail(e))
    BY DEF open_file
  <2> QED
    BY <1>6, <1>7, <2>1

\* A turn of the loop stages an image and hands it over; what was acknowledged before stays so.
LEMMA PayloadLoopKeeps == ASSUME BringUpInv, payload_loop PROVE BringUpInv'
<1> DEFINE f == Arg[1]
           k == Arg[2]
<1>1. /\ call.prog # <<>> /\ Head(call.prog).fn = "payload_loop"
      /\ UNCHANGED <<reached, psp, loaded, cp, mes, smu, wptr, sos, acked, refused, out, maps>>
  BY DEF payload_loop, Running, deviceVars
<1>2. /\ \A g : ~Gives(Head(call.prog), g)
      /\ \A g : Takes(Head(call.prog), g) <=> g = Is("incomplete")
  BY <1>1 DEF Gives, FlagOf, Takes
<1>3. f \in Files /\ k \in Nat \ {0} /\ Payloads[f] \in Seq(STRING)
  <2>1. Arg \in Files \X (Nat \ {0})
    BY <1>1, RunningFacts DEF Ops, Arg
  <2> QED
    BY <2>1, BringUpAssumption
<1>4. NeedsOf(Head(call.prog)) =
          {Acked(Payloads[f][j]) : j \in {i \in 1 .. k - 1 : Payloads[f][i] \notin Untracked}}
          \cup {Is("incomplete") : j \in {i \in DOMAIN Payloads[f] : i >= k /\ Payloads[f][i] = "RLC_G"}}
  BY <1>1 DEF NeedsOf, Arg
<1>5. \A g \in NeedsOf(Head(call.prog)) : Holds(g)
  BY <1>1, HeadServed DEF Needs
<1>6. \A j \in 1 .. k - 1 : Payloads[f][j] \notin Untracked => Payloads[f][j] \in acked
  <2> SUFFICES ASSUME NEW j \in 1 .. k - 1, Payloads[f][j] \notin Untracked PROVE Payloads[f][j] \in acked
    OBVIOUS
  <2>1. Acked(Payloads[f][j]) \in NeedsOf(Head(call.prog))
    BY <1>4
  <2>2. Holds(Acked(Payloads[f][j]))
    BY <1>5, <2>1
  <2> QED
    BY <2>2 DEF Holds, Acked, Is, At
<1>7. \A j \in DOMAIN Payloads[f] : j >= k /\ Payloads[f][j] = "RLC_G" => ~psp.complete
  <2> SUFFICES ASSUME NEW j \in DOMAIN Payloads[f], j >= k, Payloads[f][j] = "RLC_G" PROVE ~psp.complete
    OBVIOUS
  <2>1. Is("incomplete") \in NeedsOf(Head(call.prog))
    BY <1>4
  <2> QED
    BY <1>1, <2>1, IncompleteHere
<1>8. CASE bump' = bump /\ \E e : Fail(e)
  <2>1. UNCHANGED <<driverVars, deviceVars>>
    BY <1>1, <1>8 DEF driverVars, deviceVars
  <2> QED
    BY <1>1, <1>8, <2>1, FailsOn
<1>9. CASE k > Len(Payloads[f]) /\ bump' = bump /\ Then(<<Op("file_loaded", f)>>)
  <2> DEFINE a == Op("file_loaded", f)
  <2>1. UNCHANGED <<driverVars, deviceVars>>
    BY <1>1, <1>9 DEF driverVars, deviceVars
  <2>2. a \in Ops /\ a.fn = "file_loaded" /\ a.arg = f
    <3>1. f \in Args /\ "file_loaded" \in FunctionNames
      BY <1>3 DEF Args, FunctionNames
    <3>2. a = [fn |-> "file_loaded", arg |-> f]
      BY DEF Op
    <3> HIDE DEF f
    <3> QED
      BY <1>3, <3>1, <3>2 DEF Ops, SDMASteps
  <2>3. Then(<<a>>)
    BY <1>9
  <2>4. \A x \in PayloadsOf(f) \ Untracked : x \in acked
    <3> SUFFICES ASSUME NEW x \in PayloadsOf(f), x \notin Untracked PROVE x \in acked
      OBVIOUS
    <3>1. PICK j \in DOMAIN Payloads[f] : x = Payloads[f][j]
      BY DEF PayloadsOf
    <3>2. j \in 1 .. k - 1
      BY <1>3, <1>9
    <3> QED
      BY <1>6, <3>1, <3>2
  <2> HIDE DEF a, f, k
  <2>5. \A g \in NeedsOf(a) : Holds(g)
    <3>1. NeedsOf(a) = {Acked(x) : x \in PayloadsOf(f) \ Untracked}
      BY <2>2 DEF NeedsOf
    <3> QED
      BY <2>4, <3>1 DEF Holds, Acked
  <2>6. a.fn \notin Climbers /\ a.fn \notin SDMASteps /\ a.fn \notin Enders /\ \A g : ~Takes(a, g)
    BY <2>2 DEF Climbers, SDMASteps, Enders, Takes
  <2> QED
    BY <1>1, <1>2, <2>1, <2>2, <2>3, <2>5, <2>6, CallsOne
<1>10. CASE /\ k <= Len(Payloads[f]) /\ HasRoom /\ Stage
            /\ Then(<<Op("psp_load_ip_fw", Payloads[f][k]), Op("payload_acked", Payloads[f][k]),
                      Op("payload_loop", <<f, k + 1>>)>>)
  <2> DEFINE x == Payloads[f][k]
             a == Op("psp_load_ip_fw", x)
             b == Op("payload_acked", x)
             c == Op("payload_loop", <<f, k + 1>>)
             ops == <<a, b, c>>
  <2>1. k \in DOMAIN Payloads[f] /\ k \in 1 .. Len(Payloads[f])
    BY <1>3, <1>10
  <2>2. x \in Args /\ x \notin Volatile
    BY <1>3, <2>1, ImageNames
  <2>3. <<f, k + 1>> \in Args /\ <<f, k + 1>> \in Files \X (Nat \ {0})
    <3>1. k + 1 \in Nat \ {0}
      BY <1>3
    <3> QED
      BY <1>3, <3>1 DEF Args
  <2>4. Then(ops)
    BY <1>10
  <2> HIDE DEF x
  <2>5. /\ a = [fn |-> "psp_load_ip_fw", arg |-> x] /\ b = [fn |-> "payload_acked", arg |-> x]
        /\ c = [fn |-> "payload_loop", arg |-> <<f, k + 1>>]
    BY DEF Op
  <2> HIDE DEF a, b, c, f, k
  <2>6. a \in Ops /\ b \in Ops /\ c \in Ops
    <3>1. {"psp_load_ip_fw", "payload_acked", "payload_loop"} \subseteq FunctionNames
      BY DEF FunctionNames
    <3>2. a \in Ops
      BY <2>2, <2>5, <3>1 DEF Ops, SDMASteps
    <3>3. b \in Ops
      BY <2>2, <2>5, <3>1 DEF Ops, SDMASteps
    <3>4. c \in Ops
      BY <2>3, <2>5, <3>1 DEF Ops, SDMASteps
    <3> QED
      BY <3>2, <3>3, <3>4
  <2>7. ops \in Seq(Ops) /\ DOMAIN ops = {1, 2, 3} /\ ops[1] = a /\ ops[2] = b /\ ops[3] = c
    BY <2>6
  <2> HIDE DEF ops
  <2>8. /\ a.fn = "psp_load_ip_fw" /\ b.fn = "payload_acked" /\ c.fn = "payload_loop"
        /\ a.arg = x /\ b.arg = x /\ c.arg = <<f, k + 1>>
    BY <2>5
  <2>9. /\ a.fn \notin Climbers /\ a.fn \notin Enders /\ a.fn \notin SDMASteps
        /\ b.fn \notin Climbers /\ b.fn \notin Enders /\ b.fn \notin SDMASteps
        /\ c.fn \notin Climbers /\ c.fn \notin Enders /\ c.fn \notin SDMASteps
        /\ a.fn # "stage_done" /\ b.fn # "stage_done" /\ c.fn # "stage_done"
    BY <2>8 DEF Climbers, Enders, SDMASteps
  <2>10. Fits(ops)
    BY <2>7, <2>9 DEF Fits
  <2>11. /\ \A g : ~Takes(a, g)
         /\ \A g : Takes(b, g) <=> x = "RLC_G" /\ g = Is("incomplete")
         /\ \A g : Takes(c, g) <=> g = Is("incomplete")
         /\ x \notin Untracked => Gives(a, Acked(x))
    BY <2>8 DEF Takes, Gives, GivesCommand
  <2>12. FileStep /\ \A g : Holds(g)' <=> Holds(g)
    <3>1. \A g : Holds(g)' <=> Holds(g)
      BY <1>1 DEF Holds
    <3>2. psp.complete => "rlc" \in loaded /\ Holds(Is("rl")) /\ Holds(Is("asd"))
      BY <1>1, OpenFacts
    <3>3. psp' \in PSPTypes
      BY <1>1, RecordsTyped
    <3>4. bump' \in 0 .. FwBufSlots /\ bump <= bump'
      <4>1. bump \in 0 .. FwBufSlots
        BY DEF BringUpInv, TypeOK
      <4> QED
        BY <1>10, <4>1, BringUpAssumption DEF HasRoom, Stage
    <3>5. LoadedSound' /\ loaded' \subseteq CPFiles \cup {"imu", "rlc", "sdma", "mes"}
      BY <1>1, OpenFacts DEF LoadedSound, TypeOK
    <3> QED
      BY <1>1, <3>1, <3>2, <3>3, <3>4, <3>5 DEF FileStep
  <2>13. ASSUME NEW g, (Holds(g) /\ ~Takes(Head(call.prog), g)) \/ Gives(Head(call.prog), g)
         PROVE  Arrives(ops, g, Holds(g)')
    <3>1. Holds(g)' /\ ~Takes(a, g) /\ ~Takes(b, g) /\ ~Takes(c, g)
      BY <1>2, <2>11, <2>12, <2>13
    <3> QED
      BY <2>7, <3>1 DEF Arrives
  <2>14. ASSUME NEW i \in DOMAIN ops, NEW g \in Needs(ops[i], reached) PROVE Comes(ops, i, g, Holds(g)')
    <3>1. CASE i = 1
      <4>1. g \in NeedsOf(a)
        BY <2>7, <2>9, <2>14, <3>1 DEF Needs
      <4>2. NeedsOf(a) = {}
        BY <2>8 DEF NeedsOf
      <4> QED
        BY <4>1, <4>2
    <3>2. CASE i = 2
      <4>1. g \in NeedsOf(b)
        BY <2>7, <2>9, <2>14, <3>2 DEF Needs
      <4>2. NeedsOf(b) = {Acked(y) : y \in {x} \ Untracked} \cup {Is("incomplete") : y \in {x} \cap {"RLC_G"}}
        BY <2>8 DEF NeedsOf
      <4>3. CASE g = Acked(x) /\ x \notin Untracked
        <5>1. 1 \in 1 .. 2 - 1 /\ Gives(ops[1], g) /\ Kept(ops, g, 1 + 1, 2 - 1)
          BY <2>7, <2>11, <4>3 DEF Kept
        <5> QED
          BY <3>2, <5>1 DEF Comes
      <4>4. CASE g = Is("incomplete") /\ x = "RLC_G"
        <5>1. ~psp.complete
          <6>1. k >= k
            BY <1>3
          <6> QED
            BY <1>7, <2>1, <4>4, <6>1 DEF x
        <5>2. Holds(g)'
          BY <1>1, <4>4, <5>1 DEF Holds
        <5>3. Kept(ops, g, 1, 2 - 1)
          BY <2>7, <2>11 DEF Kept
        <5> QED
          BY <3>2, <5>2, <5>3 DEF Comes
      <4> QED
        BY <4>1, <4>2, <4>3, <4>4
    <3>3. CASE i = 3
      <4>1. g \in NeedsOf(c)
        BY <2>7, <2>9, <2>14, <3>3 DEF Needs
      <4>2. NeedsOf(c) =
                {Acked(Payloads[f][j]) : j \in {n \in 1 .. (k + 1) - 1 : Payloads[f][n] \notin Untracked}}
                \cup {Is("incomplete") : j \in {n \in DOMAIN Payloads[f] : n >= k + 1 /\ Payloads[f][n] = "RLC_G"}}
        BY <2>8 DEF NeedsOf
      <4>3. CASE \E j \in 1 .. (k + 1) - 1 : Payloads[f][j] \notin Untracked /\ g = Acked(Payloads[f][j])
        <5>1. PICK j \in 1 .. k : Payloads[f][j] \notin Untracked /\ g = Acked(Payloads[f][j])
          BY <1>3, <4>3
        <5>2. g # Is("incomplete")
          BY <5>1 DEF Acked, Is
        <5>3. CASE j = k
          <6>1. Gives(a, g)
            BY <2>11, <5>1, <5>3 DEF x
          <6>2. 1 \in 1 .. 3 - 1 /\ Gives(ops[1], g) /\ Kept(ops, g, 1 + 1, 3 - 1)
            <7>1. \A n \in 1 + 1 .. 3 - 1 : n = 2
              OBVIOUS
            <7>2. 1 \in 1 .. 3 - 1
              OBVIOUS
            <7> QED
              BY <2>7, <2>11, <5>2, <6>1, <7>1, <7>2 DEF Kept
          <6> QED
            BY <3>3, <6>2 DEF Comes
        <5>4. CASE j # k
          <6>1. j \in 1 .. k - 1
            BY <1>3, <5>4
          <6>2. Holds(g)
            BY <1>6, <5>1, <6>1 DEF Holds, Acked
          <6>3. Kept(ops, g, 1, 3 - 1)
            <7>1. \A n \in 1 .. 3 - 1 : n = 1 \/ n = 2
              OBVIOUS
            <7> QED
              BY <2>7, <2>11, <5>2, <7>1 DEF Kept
          <6> QED
            BY <2>12, <3>3, <6>2, <6>3 DEF Comes
        <5> QED
          BY <5>3, <5>4
      <4>4. CASE g = Is("incomplete") /\ \E n \in DOMAIN Payloads[f] : n >= k + 1 /\ Payloads[f][n] = "RLC_G"
        <5>1. PICK n \in DOMAIN Payloads[f] : n >= k + 1 /\ Payloads[f][n] = "RLC_G"
          BY <4>4
        <5>2. n \in 1 .. Len(Payloads[f]) /\ Len(Payloads[f]) \in Nat
          BY <1>3
        <5>3. n >= k /\ k < Len(Payloads[f])
          BY <1>3, <5>1, <5>2
        <5>4. x # "RLC_G"
          BY <1>3, <2>1, <5>3, LastAssumption DEF x
        <5>5. ~psp.complete
          BY <1>7, <5>1, <5>3
        <5>6. Holds(g)'
          BY <1>1, <4>4, <5>5 DEF Holds
        <5>7. Kept(ops, g, 1, 3 - 1)
          <6>1. \A m \in 1 .. 3 - 1 : m = 1 \/ m = 2
            OBVIOUS
          <6> QED
            BY <2>7, <2>11, <5>4, <6>1 DEF Kept
        <5> QED
          BY <3>3, <5>6, <5>7 DEF Comes
      <4> QED
        BY <4>1, <4>2, <4>3, <4>4
    <3> QED
      BY <2>7, <3>1, <3>2, <3>3
  <2>15. Head(call.prog).fn # "stage_done"
    BY <1>1
  <2> QED
    BY <1>1, <2>4, <2>7, <2>10, <2>12, <2>13, <2>14, <2>15, FileThen
<1> QED
  BY <1>8, <1>9, <1>10 DEF payload_loop

\* An acknowledged image sets its flag; the last one goes on to the autoload.
LEMMA PayloadAckedKeeps == ASSUME BringUpInv, payload_acked PROVE BringUpInv'
<1>1. /\ call.prog # <<>> /\ Head(call.prog).fn = "payload_acked"
      /\ UNCHANGED <<reached, psp, bump, cp, mes, smu, wptr, sos, acked, refused, out, maps>>
      /\ loaded' = IF Arg = "IMU_D" THEN loaded \cup {"imu"} ELSE loaded
  BY DEF payload_acked, Running, deviceVars
<1>2. /\ \A g : ~Gives(Head(call.prog), g)
      /\ \A g : Takes(Head(call.prog), g) <=> Arg = "RLC_G" /\ g = Is("incomplete")
      /\ NeedsOf(Head(call.prog)) =
             {Acked(y) : y \in {Arg} \ Untracked} \cup {Is("incomplete") : y \in {Arg} \cap {"RLC_G"}}
  BY <1>1 DEF Gives, FlagOf, Takes, NeedsOf, Arg
<1>3. Arg \notin Untracked => Arg \in acked
  <2>1. Arg \notin Untracked => Acked(Arg) \in Needs(Head(call.prog), reached)
    BY <1>1, <1>2 DEF Needs
  <2>2. Arg \notin Untracked => Holds(Acked(Arg))
    BY <1>1, <2>1, HeadServed
  <2> QED
    BY <2>2 DEF Holds, Acked, Is, At
<1>4. LoadedSound /\ loaded \subseteq CPFiles \cup {"imu", "rlc", "sdma", "mes"}
      /\ (psp.complete => "rlc" \in loaded)
  BY <1>1, OpenFacts DEF TypeOK
<1>5. FileStep /\ \A g : Holds(g)' <=> Holds(g)
  <2>1. LoadedSound'
    <3>1. "IMU_D" \notin Untracked
      BY DEF Untracked, Optional
    <3>2. "imu" \notin CPFiles
      BY NamesAssumption
    <3> QED
      BY <1>1, <1>3, <1>4, <3>1, <3>2 DEF LoadedSound
  <2>2. loaded' \subseteq CPFiles \cup {"imu", "rlc", "sdma", "mes"}
    BY <1>1, <1>4
  <2>3. psp.complete => "rlc" \in loaded'
    BY <1>1, <1>4
  <2> QED
    BY <1>1, <2>1, <2>2, <2>3, FlagsStep
<1>6. CASE Arg # "RLC_G" /\ Continue
  BY <1>1, <1>2, <1>5, <1>6, FileContinues
<1>7. CASE /\ Arg = "RLC_G"
           /\ Then(<<Op("psp_ring_cmd_submit", "AUTOLOAD_RLC"), Op("rlc_autoload_started", ""),
                     Op("psp_asd_initialize", ""), Op("psp_rl_load", ""), Op("firmware_load_complete", "")>>)
  <2> DEFINE a == Op("psp_ring_cmd_submit", "AUTOLOAD_RLC")
             b == Op("rlc_autoload_started", "")
             c == Op("psp_asd_initialize", "")
             d == Op("psp_rl_load", "")
             e == Op("firmware_load_complete", "")
             ops == <<a, b, c, d, e>>
  <2>1. a \in Ops /\ b \in Ops /\ c \in Ops /\ d \in Ops /\ e \in Ops
    <3>1. "AUTOLOAD_RLC" \in Words
      BY DEF Words, PSPCommands
    <3>2. /\ "rlc_autoload_started" \in FunctionNames \ Chosen /\ "psp_asd_initialize" \in FunctionNames \ Chosen
          /\ "psp_rl_load" \in FunctionNames \ Chosen /\ "firmware_load_complete" \in FunctionNames \ Chosen
      BY DEF FunctionNames, Chosen
    <3> QED
      BY <3>1, <3>2, SomeOps
  <2>2. /\ a.fn = "psp_ring_cmd_submit" /\ a.arg = "AUTOLOAD_RLC" /\ b.fn = "rlc_autoload_started"
        /\ c.fn = "psp_asd_initialize" /\ d.fn = "psp_rl_load" /\ e.fn = "firmware_load_complete"
    BY DEF Op
  <2>3. Then(ops)
    BY <1>7
  <2> HIDE DEF a, b, c, d, e
  <2>4. /\ ops \in Seq(Ops) /\ DOMAIN ops = 1 .. 5
        /\ ops[1] = a /\ ops[2] = b /\ ops[3] = c /\ ops[4] = d /\ ops[5] = e
    BY <2>1
  <2> HIDE DEF ops
  <2>5. \A i \in 1 .. 5 : i = 1 \/ i = 2 \/ i = 3 \/ i = 4 \/ i = 5
    OBVIOUS
  <2>6. /\ \A g : ~Takes(a, g) /\ ~Takes(b, g) /\ ~Takes(c, g) /\ ~Takes(d, g)
        /\ \A g : Takes(e, g) <=> g = Is("incomplete")
    BY <2>2 DEF Takes
  <2>7. Gives(a, Acked("AUTOLOAD_RLC")) /\ Gives(c, Is("asd")) /\ Gives(d, Is("rl"))
    <3>1. "AUTOLOAD_RLC" \notin Untracked
      BY DEF Untracked, Optional
    <3>2. FlagOf(c.fn) = "asd" /\ FlagOf(d.fn) = "rl"
      BY <2>2 DEF FlagOf
    <3> QED
      BY <2>2, <3>1, <3>2 DEF Gives, GivesCommand
  <2>8. /\ NeedsOf(a) = {} /\ NeedsOf(b) = {Is("incomplete")} /\ NeedsOf(c) = {} /\ NeedsOf(d) = {}
        /\ NeedsOf(e) = {Acked("RLC_G"), Acked("AUTOLOAD_RLC"), Is("rl"), Is("asd")}
    BY <2>2 DEF NeedsOf
  <2>9. \A i \in 1 .. 5 : /\ ops[i].fn \notin Climbers /\ ops[i].fn \notin Enders /\ ops[i].fn \notin SDMASteps
                          /\ ops[i].fn # "stage_done"
    BY <2>2, <2>4, <2>5 DEF Climbers, Enders, SDMASteps
  <2>10. Fits(ops)
    BY <2>4, <2>9 DEF Fits
  <2>11. ~psp.complete /\ "RLC_G" \in acked
    <3>1. Is("incomplete") \in NeedsOf(Head(call.prog))
      BY <1>2, <1>7
    <3>2. "RLC_G" \notin Untracked
      BY DEF Untracked, Optional
    <3> QED
      BY <1>1, <1>3, <1>7, <3>1, <3>2, IncompleteHere
  <2>12. ASSUME NEW g, (Holds(g) /\ ~Takes(Head(call.prog), g)) \/ Gives(Head(call.prog), g)
         PROVE  Arrives(ops, g, Holds(g)')
    <3>1. Holds(g)' /\ g # Is("incomplete")
      BY <1>2, <1>5, <1>7, <2>12
    <3>2. \A i \in 1 .. 5 : ~Takes(ops[i], g)
      BY <2>4, <2>5, <2>6, <3>1
    <3> QED
      BY <2>4, <3>1, <3>2 DEF Arrives
  <2>13. \A i \in 1 .. 4 : \A g : ~Takes(ops[i], g)
    <3>1. \A i \in 1 .. 4 : i = 1 \/ i = 2 \/ i = 3 \/ i = 4
      OBVIOUS
    <3> QED
      BY <2>4, <2>6, <3>1
  <2>14. \A g : \A n \in 1 .. 5 : \A j \in 0 .. 4 : Kept(ops, g, j + 1, n - 1)
    <3> SUFFICES ASSUME NEW g, NEW n \in 1 .. 5, NEW j \in 0 .. 4, NEW i \in j + 1 .. n - 1
                 PROVE  ~Takes(ops[i], g)
      BY DEF Kept
    <3>1. i \in 1 .. 4
      OBVIOUS
    <3> QED
      BY <2>13, <3>1
  <2>15. ASSUME NEW i \in DOMAIN ops, NEW g \in Needs(ops[i], reached) PROVE Comes(ops, i, g, Holds(g)')
    <3>0. i \in 1 .. 5 /\ g \in NeedsOf(ops[i])
      BY <2>4, <2>9, <2>15 DEF Needs
    <3>1. ASSUME Holds(g)' PROVE Comes(ops, i, g, Holds(g)')
      <4>1. 0 \in 0 .. 4 /\ 0 + 1 = 1
        OBVIOUS
      <4>2. Kept(ops, g, 1, i - 1)
        BY <2>14, <3>0, <4>1
      <4> QED
        BY <3>1, <4>2 DEF Comes
    <3>2. ASSUME i = 5, NEW j \in 1 .. 4, Gives(ops[j], g) PROVE Comes(ops, i, g, Holds(g)')
      <4>1. j \in 0 .. 4 /\ j \in 1 .. 5 - 1
        OBVIOUS
      <4>2. Kept(ops, g, j + 1, i - 1)
        BY <2>14, <3>0, <4>1
      <4> QED
        BY <3>2, <4>1, <4>2 DEF Comes
    <3>3. CASE i = 2
      <4>1. g = Is("incomplete")
        BY <2>4, <2>8, <3>0, <3>3
      <4>2. Holds(g)'
        BY <1>1, <2>11, <4>1 DEF Holds
      <4> QED
        BY <3>1, <4>2
    <3>4. CASE i = 5
      <4>1. g \in {Acked("RLC_G"), Acked("AUTOLOAD_RLC"), Is("rl"), Is("asd")}
        BY <2>4, <2>8, <3>0, <3>4
      <4>2. CASE g = Acked("RLC_G")
        <5>1. Holds(g)'
          BY <1>1, <2>11, <4>2 DEF Holds, Acked
        <5> QED
          BY <3>1, <5>1
      <4>3. CASE g = Acked("AUTOLOAD_RLC")
        <5>1. 1 \in 1 .. 4
          OBVIOUS
        <5> QED
          BY <2>4, <2>7, <3>2, <3>4, <4>3, <5>1
      <4>4. CASE g = Is("rl")
        <5>1. 4 \in 1 .. 4
          OBVIOUS
        <5> QED
          BY <2>4, <2>7, <3>2, <3>4, <4>4, <5>1
      <4>5. CASE g = Is("asd")
        <5>1. 3 \in 1 .. 4
          OBVIOUS
        <5> QED
          BY <2>4, <2>7, <3>2, <3>4, <4>5, <5>1
      <4> QED
        BY <4>1, <4>2, <4>3, <4>4, <4>5
    <3>5. CASE i = 1 \/ i = 3 \/ i = 4
      BY <2>4, <2>8, <3>0, <3>5
    <3> QED
      BY <2>5, <3>0, <3>3, <3>4, <3>5
  <2>16. Head(call.prog).fn # "stage_done"
    BY <1>1
  <2> QED
    BY <1>1, <1>5, <2>3, <2>4, <2>10, <2>12, <2>15, <2>16, FileThen
<1> QED
  BY <1>6, <1>7 DEF payload_acked

\* A new autoload: what an earlier one loaded is forgotten.
LEMMA AutoloadKeeps == ASSUME BringUpInv, rlc_autoload_started PROVE BringUpInv'
<1>1. /\ call.prog # <<>> /\ Head(call.prog).fn = "rlc_autoload_started" /\ Continue
      /\ UNCHANGED <<reached, psp, bump, cp, mes, smu, wptr, sos, acked, refused, out, maps>>
      /\ loaded' = loaded \ {"rlc"}
  BY DEF rlc_autoload_started, Running, deviceVars
<1>2. (\A g : ~Gives(Head(call.prog), g)) /\ Is("incomplete") \in NeedsOf(Head(call.prog))
  BY <1>1 DEF Gives, FlagOf, NeedsOf
<1>3. ~psp.complete
  BY <1>1, <1>2, IncompleteHere
<1>4. LoadedSound /\ loaded \subseteq CPFiles \cup {"imu", "rlc", "sdma", "mes"}
  BY <1>1, OpenFacts DEF TypeOK
<1>5. FileStep /\ \A g : Holds(g)' <=> Holds(g)
  <2>1. LoadedSound'
    BY <1>1, <1>4 DEF LoadedSound
  <2> QED
    BY <1>1, <1>3, <1>4, <2>1, FlagsStep
<1> QED
  BY <1>1, <1>2, <1>5, FileContinues

\* The chain ends: everything it stands for was acknowledged on the way.
LEMMA LoadCompleteKeeps == ASSUME BringUpInv, firmware_load_complete PROVE BringUpInv'
<1>1. /\ call.prog # <<>> /\ Head(call.prog).fn = "firmware_load_complete" /\ Continue
      /\ UNCHANGED <<reached, bump, cp, mes, smu, wptr, sos, acked, refused, out, maps>>
      /\ loaded' = loaded \cup {"rlc"} /\ psp' = [psp EXCEPT !.complete = TRUE]
  BY DEF firmware_load_complete, Running, deviceVars
<1>2. /\ \A g : ~Gives(Head(call.prog), g)
      /\ \A g : Takes(Head(call.prog), g) <=> g = Is("incomplete")
      /\ Needs(Head(call.prog), reached) = {Acked("RLC_G"), Acked("AUTOLOAD_RLC"), Is("rl"), Is("asd")}
  BY <1>1 DEF Gives, FlagOf, Takes, Needs, NeedsOf
<1>3. "RLC_G" \in acked /\ "AUTOLOAD_RLC" \in acked /\ Holds(Is("rl")) /\ Holds(Is("asd"))
  <2>1. Holds(Acked("RLC_G")) /\ Holds(Acked("AUTOLOAD_RLC")) /\ Holds(Is("rl")) /\ Holds(Is("asd"))
    BY <1>1, <1>2, HeadServed
  <2> QED
    BY <2>1 DEF Holds, Acked, Is, At
<1>4. LoadedSound /\ TypeOK
  BY <1>1, OpenFacts
<1>5. psp \in PSPTypes /\ psp' \in PSPTypes
  BY <1>1, RecordsTyped
<1>6. psp'.complete /\ UNCHANGED <<psp.fwPri, psp.sosAlive, psp.ring, psp.tmr, psp.pkg, psp.asd>>
  BY <1>1, <1>5 DEF PSPTypes
<1>7. \A g : Holds(g) /\ g # Is("incomplete") => Holds(g)'
  BY <1>1, <1>6 DEF Holds
<1>8. Holds(Is("rl"))' /\ Holds(Is("asd"))'
  BY <1>3, <1>7 DEF Is
<1>9. LoadedSound'
  <2>1. "rlc" \notin CPFiles
    BY NamesAssumption
  <2> QED
    BY <1>1, <1>3, <1>4, <2>1 DEF LoadedSound
<1>10. FileStep
  <2>1. bump' \in 0 .. FwBufSlots /\ bump <= bump'
    <3>1. bump \in 0 .. FwBufSlots
      BY <1>4 DEF TypeOK
    <3> QED
      BY <1>1, <3>1, BringUpAssumption
  <2>2. loaded' \subseteq CPFiles \cup {"imu", "rlc", "sdma", "mes"} /\ "rlc" \in loaded'
    BY <1>1, <1>4 DEF TypeOK
  <2> QED
    BY <1>1, <1>5, <1>6, <1>8, <1>9, <2>1, <2>2 DEF FileStep
<1> QED
  BY <1>1, <1>2, <1>7, <1>10, FileContinues

\* The flags of a file are set once every image in it was acknowledged.
LEMMA FileLoadedKeeps == ASSUME BringUpInv, file_loaded PROVE BringUpInv'
<1>1. /\ call.prog # <<>> /\ Head(call.prog).fn = "file_loaded"
      /\ UNCHANGED <<reached, psp, bump, cp, mes, smu, wptr, sos, acked, refused, out, maps>>
  BY DEF file_loaded, Running, deviceVars
<1>2. /\ \A g : ~Gives(Head(call.prog), g)
      /\ Needs(Head(call.prog), reached) = {Acked(x) : x \in PayloadsOf(Arg) \ Untracked}
  BY <1>1 DEF Gives, FlagOf, Needs, NeedsOf, Arg
<1>3. \A x \in PayloadsOf(Arg) : x \notin Untracked => x \in acked
  <2> SUFFICES ASSUME NEW x \in PayloadsOf(Arg), x \notin Untracked PROVE x \in acked
    OBVIOUS
  <2>1. Holds(Acked(x))
    BY <1>1, <1>2, HeadServed
  <2> QED
    BY <2>1 DEF Holds, Acked, Is, At
<1>4. LoadedSound /\ loaded \subseteq CPFiles \cup {"imu", "rlc", "sdma", "mes"}
      /\ (psp.complete => "rlc" \in loaded)
  BY <1>1, OpenFacts DEF TypeOK
<1>5. CASE Fail("NotReady") /\ UNCHANGED loaded
  <2>1. UNCHANGED <<driverVars, deviceVars>>
    BY <1>1, <1>5 DEF driverVars, deviceVars
  <2> QED
    BY <1>1, <1>5, <2>1, FailsOn
<1>6. CASE /\ Arg \in MESFiles => MESComplete(Arg)
           /\ Continue
           /\ loaded' = loaded \cup (IF Arg \in MESFiles THEN {"mes"} ELSE {})
                        \cup (IF Arg \in CPFiles THEN {Arg} ELSE {})
                        \cup (IF "SDMA" \in PayloadsOf(Arg) THEN {"sdma"} ELSE {})
  <2>1. LoadedSound'
    <3>1. /\ \A x \in loaded' : x \in loaded \/ (x = "mes" /\ Arg \in MESFiles) \/ (x = Arg /\ Arg \in CPFiles)
                                \/ (x = "sdma" /\ "SDMA" \in PayloadsOf(Arg))
      BY <1>6
    <3>2. \A x \in CPFiles : x \notin {"imu", "rlc", "sdma", "mes"}
      BY NamesAssumption
    <3>3. "sdma" \in loaded' => "SDMA" \in acked'
      <4>1. "SDMA" \notin Untracked
        BY DEF Untracked, Optional
      <4> QED
        BY <1>1, <1>3, <1>4, <3>1, <3>2, <4>1 DEF LoadedSound
    <3>4. "mes" \in loaded' => MESPayloads \subseteq acked'
      <4>1. Arg \in MESFiles => MESPayloads \subseteq PayloadsOf(Arg)
        BY <1>6 DEF MESComplete
      <4>2. \A x \in MESPayloads : x \notin Untracked
        BY NamesAssumption
      <4> QED
        BY <1>1, <1>3, <1>4, <3>1, <3>2, <4>1, <4>2 DEF LoadedSound
    <3>5. ASSUME NEW f \in CPFiles, f \in loaded' \/ cp'.prepared PROVE PayloadsOf(f) \subseteq acked'
      <4>1. CASE f \in loaded \/ cp.prepared
        BY <1>1, <1>4, <4>1 DEF LoadedSound
      <4>2. CASE f = Arg
        <5>1. \A x \in PayloadsOf(Arg) : x \notin Untracked
          BY <4>2, NamesAssumption
        <5> QED
          BY <1>1, <1>3, <4>2, <5>1
      <4> QED
        BY <1>1, <3>1, <3>2, <3>5, <4>1, <4>2
    <3>6. ("imu" \in loaded' => "IMU_D" \in acked') /\ ("rlc" \in loaded' => {"RLC_G", "AUTOLOAD_RLC"} \subseteq acked')
      BY <1>1, <1>4, <3>1, <3>2 DEF LoadedSound
    <3> QED
      BY <3>3, <3>4, <3>5, <3>6 DEF LoadedSound
  <2>2. loaded' \subseteq CPFiles \cup {"imu", "rlc", "sdma", "mes"}
    BY <1>4, <1>6
  <2>3. FileStep /\ \A g : Holds(g)' <=> Holds(g)
    <3>1. psp.complete => "rlc" \in loaded'
      BY <1>4, <1>6
    <3> QED
      BY <1>1, <2>1, <2>2, <3>1, FlagsStep
  <2> QED
    BY <1>1, <1>2, <1>6, <2>3, FileContinues
<1> QED
  BY <1>5, <1>6 DEF file_loaded

-----------------------------------------------------------------------------
\* Between calls.
LEMMA IdleSound ==
    ASSUME call' = Idle
    PROVE  ProgramSound' /\ call' \in CallTypes
           /\ (call'.prog # <<>> => call'.busy)
           /\ (call'.prog # <<>> /\ reached' < SDMAInit => \A i \in Engines : call'.wptr[i] = 0)
<1>1. call'.prog = <<>> /\ Idle \in CallTypes
  <2>1. NoWork \in [Engines -> Nat] /\ <<>> \in Seq(Ops)
    BY DEF NoWork
  <2> QED
    BY <2>1 DEF Idle, CallTypes
<1> QED
  BY <1>1 DEF ProgramSound, NeedsMet, OneStage, StageRises, StageEnds

\* A driver that holds nothing.
Released ==
    /\ reached = 0 /\ psp = NoPSP /\ bump = 0 /\ loaded = {} /\ cp = NoCP
    /\ mes = NoMES /\ smu = NoSMU /\ wptr = NoWork
    /\ sos \in BOOLEAN /\ acked = {} /\ refused = FALSE /\ maps = 0
    /\ out = [u \in Units |-> 0]

\* It is sound, whatever the secure OS is doing.
LEMMA ReleasedSound ==
    ASSUME Released, blocked \in BOOLEAN, call = Idle
    PROVE  TypeOK /\ EffectsSound /\ DataSound
<1>1. FwBufSlots \in Nat /\ 0 \in 0 .. FwBufSlots /\ 0 \in Nat
  BY BringUpAssumption
<1>2. /\ psp = [fwPri |-> FALSE, sosAlive |-> FALSE, ring |-> FALSE, tmr |-> FALSE,
                complete |-> FALSE, pkg |-> NoPackage, asd |-> 0]
      /\ cp = [prepared |-> FALSE, started |-> FALSE, mqd |-> FALSE, ready |-> FALSE]
      /\ mes = [active |-> FALSE, pending |-> {}]
      /\ smu = [pending |-> FALSE, online |-> FALSE, table |-> 0, setup |-> FALSE]
  BY DEF Released, NoPSP, NoCP, NoMES, NoSMU
<1>3. reached = 0 /\ bump = 0 /\ loaded = {} /\ acked = {} /\ refused = FALSE /\ maps = 0
  BY DEF Released
<1>4. wptr \in [Engines -> Nat] /\ (\A i \in Engines : wptr[i] = 0)
      /\ out \in [Units -> Nat] /\ (\A u \in Units : out[u] = 0)
  BY DEF Released, NoWork
<1>5. call.busy = FALSE /\ call.submitted = FALSE
  BY DEF Idle
<1>6. psp \in PSPTypes /\ cp \in CPTypes /\ mes \in MESTypes /\ smu \in SMUTypes
  BY <1>1, <1>2 DEF PSPTypes, CPTypes, MESTypes, SMUTypes
<1>7. TypeOK
  <2>1. 0 \in Stages
    BY StageNumbers DEF Stages
  <2> QED
    BY <1>1, <1>3, <1>4, <1>5, <1>6, <2>1 DEF TypeOK, PSPTypes, CPTypes, MESTypes, SMUTypes
<1>8. EffectsSound
  BY <1>2, <1>4 DEF EffectsSound, QuietBefore, Quiet
<1>9. OpenSound
  <2>1. PromisesKept
    BY <1>3 DEF PromisesKept
  <2>2. LoadedSound
    BY <1>2, <1>3 DEF LoadedSound
  <2>3. "psp" \in Units
    BY DEF Units
  <2> QED
    BY <1>2, <1>3, <1>4, <2>1, <2>2, <2>3 DEF OpenSound
<1>10. StagingSound
  BY <1>2, <1>3 DEF StagingSound, StagingIntact
<1>11. CommandsSound
  <2>1. /\ \A u \in Units : out[u] <= 1
        /\ out["psp"] = 0 /\ out["smu"] = 0
        /\ \A u \in Pipes : out[u] = 0
    BY <1>4 DEF Units, Pipes
  <2> QED
    BY <1>2, <1>3, <2>1 DEF CommandsSound
<1> QED
  BY <1>7, <1>8, <1>9, <1>10, <1>11 DEF DataSound

\* The initial states.
LEMMA BringUpInit == Init => BringUpInv
<1> SUFFICES ASSUME Init PROVE BringUpInv
  OBVIOUS
<1>1. Released /\ blocked \in BOOLEAN /\ call = Idle
  BY DEF Init, Released
<1>2. TypeOK /\ EffectsSound /\ DataSound
  BY <1>1, ReleasedSound
<1>3. call.prog = <<>> /\ call \in CallTypes
  <2>1. NoWork \in [Engines -> Nat] /\ <<>> \in Seq(Ops)
    BY DEF NoWork
  <2> QED
    BY <1>1, <2>1 DEF Idle, CallTypes
<1>4. ProgramSound
  BY <1>3 DEF ProgramSound, NeedsMet, OneStage, StageRises, StageEnds
<1>5. CallSound
  BY <1>1, <1>3 DEF CallSound
<1> QED
  BY <1>2, <1>4, <1>5 DEF BringUpInv

\* A new call: nothing of it needs more than it brings about, and it begins with quiet rings.
LEMMA BeginKeeps ==
    ASSUME BringUpInv, call = Idle, ~blocked, UNCHANGED blocked, NEW ops \in Seq(Ops), Begin(ops),
           UNCHANGED <<reached, bump, loaded, cp, mes, smu, wptr, sos, acked, refused, out, maps>>,
           psp' = psp \/ psp' = [psp EXCEPT !.complete = FALSE],
           \A k \in DOMAIN ops : ops[k].fn \notin Enders /\ ops[k].fn \notin SDMASteps /\ ops[k].fn # "stage_done",
           \A k \in DOMAIN ops : \A f \in Needs(ops[k], reached) : Comes(ops, k, f, Holds(f)')
    PROVE  BringUpInv'
<1>1. PromisesKept /\ LoadedSound /\ StagingSound /\ CommandsSound /\ TypeOK
      /\ (psp.sosAlive => sos)
      /\ (psp.complete => "rlc" \in loaded /\ Holds(Is("rl")) /\ Holds(Is("asd")))
      /\ out["psp"] = 0 /\ ~refused
  BY DEF BringUpInv, DataSound, OpenSound
<1>2. call'.prog = ops /\ call'.busy /\ call'.wptr = wptr /\ ~blocked'
      /\ call' = [prog |-> ops, busy |-> TRUE, submitted |-> FALSE, wptr |-> wptr]
  BY DEF Begin
<1>3. wptr \in [Engines -> Nat]
  BY <1>1 DEF TypeOK
<1>4. call' \in CallTypes
  BY <1>2, <1>3 DEF CallTypes
<1>5. reached < SDMAInit => \A i \in Engines : wptr[i] = 0
  <2>1. call.prog = <<>>
    BY DEF Idle
  <2>2. QuietBefore
    BY DEF BringUpInv, EffectsSound
  <2>3. DOMAIN call.prog = {} /\ reached \in 0 .. 15
    BY <1>1, <2>1, StageNumbers DEF TypeOK, Stages
  <2> QED
    BY <2>2, <2>3, StageNumbers DEF QuietBefore, Quiet
<1>6. ProgramSound'
  BY <1>2, <1>4 DEF ProgramSound, NeedsMet, OneStage, StageRises, StageEnds
<1>7. CallSound'
  BY <1>2, <1>5 DEF CallSound
<1>8. psp \in PSPTypes /\ psp' \in PSPTypes
  BY RecordsTyped
<1>9. /\ UNCHANGED <<psp.fwPri, psp.sosAlive, psp.ring, psp.tmr, psp.pkg, psp.asd>>
      /\ psp'.complete => psp.complete
  BY <1>8 DEF PSPTypes
<1>10. EffectsSound'
  <2>1. call.prog = <<>> /\ reached \in 0 .. 15
    BY <1>1, StageNumbers DEF Idle, TypeOK, Stages
  <2>2. QuietBefore'
    BY <1>5, <2>1, StageNumbers DEF QuietBefore, Quiet
  <2>3. smu'.setup => reached' >= SMUInit
    BY <2>1 DEF BringUpInv, EffectsSound, AtStageDone
  <2>4. cp'.ready => reached' >= GFXInit
    BY <2>1 DEF BringUpInv, EffectsSound, AtStageDone
  <2> QED
    BY <2>2, <2>3, <2>4 DEF EffectsSound
<1>11. TypeOK'
  <2>1. blocked' \in BOOLEAN
    BY <1>1 DEF TypeOK
  <2> QED
    BY <1>1, <1>4, <1>8, <2>1, TypesStay
<1>12. OpenSound'
  <2>1. PromisesKept'
    BY <1>1, <1>9, PromisesStay
  <2>2. LoadedSound'
    BY <1>1 DEF LoadedSound
  <2>3. psp'.complete => Holds(Is("rl"))' /\ Holds(Is("asd"))'
    BY <1>1, <1>9 DEF Holds, Is, At, Acked
  <2> QED
    BY <1>1, <1>9, <2>1, <2>2, <2>3 DEF OpenSound
<1>13. StagingSound'
  BY <1>1, <1>9 DEF StagingSound, StagingIntact
<1>14. CommandsSound'
  BY <1>1 DEF CommandsSound
<1> QED
  BY <1>6, <1>7, <1>10, <1>11, <1>12, <1>13, <1>14 DEF BringUpInv, DataSound

\* A call that climbs the ladder.
LEMMA InitDeviceKeeps == ASSUME BringUpInv, NEW target \in Targets, InitDevice(target) PROVE BringUpInv'
<1> DEFINE a == Op("bringup_to", target)
<1>1. /\ call = Idle /\ ~blocked /\ Begin(<<a>>) /\ UNCHANGED blocked
      /\ UNCHANGED <<reached, psp, bump, loaded, cp, mes, smu, wptr, sos, acked, refused, out, maps>>
  BY DEF InitDevice, driverVars, deviceVars
<1>2. a \in Ops /\ a.fn = "bringup_to"
  <2>1. target \in Stages /\ target \in Args /\ "bringup_to" \in FunctionNames
    BY BringUpAssumption, StageNumbers DEF Stages, Args, FunctionNames
  <2>2. a = [fn |-> "bringup_to", arg |-> target]
    BY DEF Op
  <2> QED
    BY <2>1, <2>2 DEF Ops, SDMASteps
<1> HIDE DEF a
<1>3. <<a>> \in Seq(Ops) /\ DOMAIN <<a>> = {1} /\ <<a>>[1] = a
  BY <1>2, ShortLists
<1>4. NeedsOf(a) = {} /\ a.fn \notin Enders /\ a.fn \notin SDMASteps /\ a.fn # "stage_done"
  BY <1>2 DEF NeedsOf, Enders, SDMASteps
<1>5. \A k \in DOMAIN <<a>> : \A f \in Needs(<<a>>[k], reached) : Comes(<<a>>, k, f, Holds(f)')
  BY <1>3, <1>4 DEF Needs
<1> QED
  BY <1>1, <1>3, <1>4, <1>5, BeginKeeps

\* A firmware call first makes the chain incomplete.
LEMMA LoadKeeps ==
    ASSUME BringUpInv, NEW ops \in Seq(Ops), LoadFirmware(ops),
           \A k \in DOMAIN ops : ops[k].fn \notin Enders /\ ops[k].fn \notin SDMASteps /\ ops[k].fn # "stage_done",
           \A k \in DOMAIN ops : \A f \in Needs(ops[k], reached) :
               \A held \in BOOLEAN : (f = Is("incomplete") => held) => Comes(ops, k, f, held)
    PROVE  BringUpInv'
<1>1. /\ call = Idle /\ ~blocked /\ Begin(ops) /\ UNCHANGED blocked
      /\ psp' = [psp EXCEPT !.complete = FALSE]
      /\ UNCHANGED <<reached, bump, loaded, cp, mes, smu, wptr, sos, acked, refused, out, maps>>
  BY DEF LoadFirmware, deviceVars
<1>2. Holds(Is("incomplete"))'
  <2>1. psp \in PSPTypes
    BY RecordsTyped
  <2>2. psp'.complete = FALSE
    BY <1>1, <2>1 DEF PSPTypes
  <2> QED
    BY <2>2 DEF Holds
<1>3. ASSUME NEW k \in DOMAIN ops, NEW f \in Needs(ops[k], reached) PROVE Comes(ops, k, f, Holds(f)')
  <2>1. CASE Holds(f)'
    <3>1. Comes(ops, k, f, TRUE)
      OBVIOUS
    <3> QED
      BY <2>1, <3>1 DEF Comes
  <2>2. CASE ~Holds(f)'
    <3>1. f # Is("incomplete")
      BY <1>2, <2>2
    <3>2. Comes(ops, k, f, FALSE)
      BY <3>1
    <3> QED
      BY <3>2 DEF Comes
  <2> QED
    BY <2>1, <2>2
<1> QED
  BY <1>1, <1>3, BeginKeeps

\* A firmware call of one function.
LEMMA LoadOneKeeps ==
    ASSUME BringUpInv, NEW a \in Ops, LoadFirmware(<<a>>), NeedsOf(a) \subseteq {Is("incomplete")},
           a.fn \notin Enders, a.fn \notin SDMASteps, a.fn # "stage_done"
    PROVE  BringUpInv'
<1>1. <<a>> \in Seq(Ops) /\ DOMAIN <<a>> = {1} /\ <<a>>[1] = a
  BY ShortLists
<1>2. \A k \in DOMAIN <<a>> : \A f \in Needs(<<a>>[k], reached) :
          \A held \in BOOLEAN : (f = Is("incomplete") => held) => Comes(<<a>>, k, f, held)
  BY <1>1 DEF Needs, Comes, Kept
<1> QED
  BY <1>1, <1>2, LoadKeeps

\* A package for the boot loader.
LEMMA LoadSOSKeeps == ASSUME BringUpInv, LoadSOS PROVE BringUpInv'
<1> DEFINE a == Op("bringup_to", PSPInit)
           b == Op("psp_parse_sos_microcode", "")
           c == Op("psp_load_sos_package", "")
           ops == <<a, b, c>>
<1>1. a \in Ops /\ b \in Ops /\ c \in Ops
  <2>1. PSPInit \in Stages /\ PSPInit \in Args /\ "bringup_to" \in FunctionNames
    BY StageNumbers DEF Stages, Args, FunctionNames
  <2>2. a = [fn |-> "bringup_to", arg |-> PSPInit]
    BY DEF Op
  <2>3. a \in Ops
    BY <2>1, <2>2 DEF Ops, SDMASteps
  <2>4. "psp_parse_sos_microcode" \in FunctionNames \ Chosen /\ "psp_load_sos_package" \in FunctionNames \ Chosen
    BY DEF FunctionNames, Chosen
  <2> QED
    BY <2>3, <2>4, SomeOps
<1>2. /\ a.fn = "bringup_to" /\ a.arg = PSPInit /\ b.fn = "psp_parse_sos_microcode"
      /\ c.fn = "psp_load_sos_package"
  BY DEF Op
<1>3. LoadFirmware(ops)
  BY DEF LoadSOS
<1> HIDE DEF a, b, c
<1>4. ops \in Seq(Ops) /\ DOMAIN ops = {1, 2, 3} /\ ops[1] = a /\ ops[2] = b /\ ops[3] = c
  BY <1>1
<1> HIDE DEF ops
<1>5. /\ NeedsOf(a) = {} /\ NeedsOf(b) = {} /\ NeedsOf(c) = {Is("fwPri")}
      /\ Gives(a, Is("fwPri")) /\ ~Takes(b, Is("fwPri"))
  <2>1. NeedsOf(a) = {} /\ NeedsOf(b) = {} /\ NeedsOf(c) = {Is("fwPri")}
    BY <1>2 DEF NeedsOf
  <2>2. Gives(a, Is("fwPri"))
    BY <1>2, StageNumbers DEF Gives
  <2>3. ~Takes(b, Is("fwPri"))
    BY <1>2 DEF Takes, Is
  <2> QED
    BY <2>1, <2>2, <2>3
<1>6. \A k \in DOMAIN ops : ops[k].fn \notin Enders /\ ops[k].fn \notin SDMASteps /\ ops[k].fn # "stage_done"
  BY <1>2, <1>4 DEF Enders, SDMASteps
<1>7. ASSUME NEW k \in DOMAIN ops, NEW f \in Needs(ops[k], reached), NEW held \in BOOLEAN
      PROVE  Comes(ops, k, f, held)
  <2>1. k = 3 /\ f = Is("fwPri")
    BY <1>4, <1>5, <1>6, <1>7 DEF Needs
  <2>2. 1 \in 1 .. 3 - 1 /\ Gives(ops[1], f) /\ Kept(ops, f, 1 + 1, 3 - 1)
    <3>1. \A n \in 1 + 1 .. 3 - 1 : n = 2
      OBVIOUS
    <3>2. 1 \in 1 .. 3 - 1
      OBVIOUS
    <3> QED
      BY <1>4, <1>5, <2>1, <3>1, <3>2 DEF Kept
  <2> QED
    BY <2>1, <2>2 DEF Comes
<1> QED
  BY <1>3, <1>4, <1>6, <1>7, LoadKeeps

\* A package of trusted applications.
LEMMA LoadTAKeeps == ASSUME BringUpInv, LoadTA PROVE BringUpInv'
<1> DEFINE a == Op("bringup_to", PSPInit)
           b == Op("psp_parse_ta_microcode", "")
           ops == <<a, b>>
<1>1. a \in Ops /\ b \in Ops
  <2>1. PSPInit \in Stages /\ PSPInit \in Args /\ "bringup_to" \in FunctionNames
    BY StageNumbers DEF Stages, Args, FunctionNames
  <2>2. a = [fn |-> "bringup_to", arg |-> PSPInit]
    BY DEF Op
  <2>3. a \in Ops
    BY <2>1, <2>2 DEF Ops, SDMASteps
  <2>4. "psp_parse_ta_microcode" \in FunctionNames \ Chosen
    BY DEF FunctionNames, Chosen
  <2> QED
    BY <2>3, <2>4, SomeOps
<1>2. a.fn = "bringup_to" /\ a.arg = PSPInit /\ b.fn = "psp_parse_ta_microcode"
  BY DEF Op
<1>3. LoadFirmware(ops)
  BY DEF LoadTA
<1> HIDE DEF a, b
<1>4. ops \in Seq(Ops) /\ DOMAIN ops = {1, 2} /\ ops[1] = a /\ ops[2] = b
  BY <1>1, ShortLists
<1> HIDE DEF ops
<1>5. /\ NeedsOf(a) = {} /\ NeedsOf(b) = {Is("fwPri"), Is("incomplete")}
      /\ Gives(a, Is("fwPri")) /\ ~Takes(a, Is("incomplete"))
  <2>1. NeedsOf(a) = {} /\ NeedsOf(b) = {Is("fwPri"), Is("incomplete")}
    BY <1>2 DEF NeedsOf
  <2>2. Gives(a, Is("fwPri"))
    BY <1>2, StageNumbers DEF Gives
  <2>3. ~Takes(a, Is("incomplete"))
    BY <1>2 DEF Takes, Is
  <2> QED
    BY <2>1, <2>2, <2>3
<1>6. \A k \in DOMAIN ops : ops[k].fn \notin Enders /\ ops[k].fn \notin SDMASteps /\ ops[k].fn # "stage_done"
  BY <1>2, <1>4 DEF Enders, SDMASteps
<1>7. ASSUME NEW k \in DOMAIN ops, NEW f \in Needs(ops[k], reached), NEW held \in BOOLEAN,
             f = Is("incomplete") => held
      PROVE  Comes(ops, k, f, held)
  <2>1. k = 2 /\ f \in {Is("fwPri"), Is("incomplete")}
    BY <1>4, <1>5, <1>6, <1>7 DEF Needs
  <2>2. CASE f = Is("fwPri")
    <3>1. 1 \in 1 .. 2 - 1 /\ Gives(ops[1], f) /\ Kept(ops, f, 1 + 1, 2 - 1)
      BY <1>4, <1>5, <2>2 DEF Kept
    <3> QED
      BY <2>1, <3>1 DEF Comes
  <2>3. CASE f = Is("incomplete")
    <3>1. Kept(ops, f, 1, 2 - 1)
      BY <1>4, <1>5, <2>3 DEF Kept
    <3> QED
      BY <1>7, <2>1, <2>3, <3>1 DEF Comes
  <2> QED
    BY <2>1, <2>2, <2>3
<1> QED
  BY <1>3, <1>4, <1>6, <1>7, LoadKeeps

\* A table of contents, a component, or a firmware file.
LEMMA LoadOthersKeep ==
    ASSUME BringUpInv, LoadTOC \/ LoadComponent \/ \E f \in Files : LoadFile(f)
    PROVE  BringUpInv'
<1>1. ASSUME NEW fn \in {"psp_load_toc", "psp_bootloader_load_component"}, LoadFirmware(<<Op(fn, "")>>)
      PROVE  BringUpInv'
  <2> DEFINE a == Op(fn, "")
  <2>1. a \in Ops
    <3>1. fn \in FunctionNames \ Chosen
      BY DEF FunctionNames, Chosen
    <3> QED
      BY <3>1, SomeOps
  <2>2. a.fn = fn /\ LoadFirmware(<<a>>)
    BY <1>1 DEF Op
  <2> HIDE DEF a
  <2>3. NeedsOf(a) = {} /\ a.fn \notin Enders /\ a.fn \notin SDMASteps /\ a.fn # "stage_done"
    BY <2>2 DEF NeedsOf, Enders, SDMASteps
  <2> QED
    BY <2>1, <2>2, <2>3, LoadOneKeeps
<1>2. ASSUME NEW f \in Files, LoadFile(f) PROVE BringUpInv'
  <2> DEFINE a == Op("open_file", f)
  <2>1. a \in Ops /\ a.fn = "open_file" /\ LoadFirmware(<<a>>)
    <3>1. f \in Args /\ "open_file" \in FunctionNames
      BY DEF Args, FunctionNames
    <3>2. a = [fn |-> "open_file", arg |-> f]
      BY DEF Op
    <3> QED
      BY <1>2, <3>1, <3>2 DEF Ops, SDMASteps, LoadFile
  <2> HIDE DEF a
  <2>2. NeedsOf(a) = {Is("incomplete")} /\ a.fn \notin Enders /\ a.fn \notin SDMASteps /\ a.fn # "stage_done"
    BY <2>1 DEF NeedsOf, Enders, SDMASteps
  <2> QED
    BY <2>1, <2>2, LoadOneKeeps
<1> QED
  BY <1>1, <1>2 DEF LoadTOC, LoadComponent

\* A reset that succeeds leaves nothing; one that fails leaves the session blocked.
LEMMA ShutdownKeeps == ASSUME BringUpInv, ShutdownGPU PROVE BringUpInv'
<1>1. call = Idle /\ call' = Idle
  BY DEF ShutdownGPU
<1>2. ProgramSound' /\ CallSound'
  <2>1. ProgramSound' /\ (call'.prog # <<>> => call'.busy)
        /\ (call'.prog # <<>> /\ reached' < SDMAInit => \A i \in Engines : call'.wptr[i] = 0)
    BY <1>1, IdleSound
  <2> QED
    BY <1>1, <2>1 DEF CallSound, Idle
<1>3. CASE blocked' = FALSE /\ FunctionReset /\ bringup_release_resources
  <2>1. Released' /\ blocked' \in BOOLEAN
    BY <1>3 DEF Released, FunctionReset, bringup_release_resources
  <2>2. (Released /\ blocked \in BOOLEAN /\ call = Idle => TypeOK /\ EffectsSound /\ DataSound)'
    BY ReleasedSound, PTL
  <2> QED
    BY <1>1, <1>2, <2>1, <2>2 DEF BringUpInv, Idle
<1>4. CASE /\ blocked' = TRUE /\ smu' = [smu EXCEPT !.setup = FALSE]
           /\ UNCHANGED <<reached, psp, bump, loaded, cp, mes, wptr>>
           /\ UNCHANGED deviceVars \/ FunctionReset
  <2>1. StagingSound /\ CommandsSound /\ TypeOK
    BY DEF BringUpInv, DataSound
  <2>2. smu \in SMUTypes /\ smu' \in SMUTypes
    BY <1>4, RecordsTyped
  <2>3. ~smu'.setup /\ UNCHANGED <<smu.pending, smu.online, smu.table>>
    BY <1>4, <2>2 DEF SMUTypes
  <2>4. \/ out' = out /\ maps' = maps
        \/ maps' = 0 /\ out' = [u \in Units |-> 0]
    BY <1>4 DEF FunctionReset, deviceVars
  <2>5. /\ out' \in [Units -> Nat] /\ \A u \in Units : out'[u] = out[u] \/ out'[u] = 0
        /\ maps' \in Nat /\ maps' <= maps
    <3>1. out \in [Units -> Nat] /\ maps \in Nat
      BY <2>1 DEF TypeOK, CommandsSound
    <3> QED
      BY <2>4, <3>1
  <2>6. TypeOK'
    <3>1. blocked' \in BOOLEAN /\ call' \in CallTypes
      BY <1>1, <1>4, IdleSound
    <3>2. UNCHANGED <<reached, psp, bump, loaded, cp, mes, wptr>>
      BY <1>4
    <3> QED
      BY <2>1, <2>2, <2>5, <3>1, <3>2, TypesStay
  <2>7. OpenSound'
    BY <1>4 DEF OpenSound
  <2>8. EffectsSound'
    <3>1. call.prog = <<>> /\ call'.prog = <<>> /\ UNCHANGED <<reached, cp>>
      BY <1>1, <1>4 DEF Idle
    <3> QED
      BY <1>4, <2>3, <3>1 DEF BringUpInv, EffectsSound, AtStageDone
  <2>9. StagingSound'
    BY <1>4, <2>1, <2>3 DEF StagingSound, StagingIntact
  <2>10. CommandsSound'
    <3>1. \A u \in Units : out[u] <= 1 /\ out[u] \in Nat
      BY <2>1 DEF CommandsSound, TypeOK
    <3>2. \A u \in Units : out'[u] <= 1
      BY <2>5, <3>1
    <3>3. "psp" \in Units /\ "smu" \in Units /\ \A u \in Pipes : u \in Units
      BY DEF Units
    <3>4. (~smu'.pending => out'["smu"] = 0) /\ (\A u \in Pipes \ mes'.pending : out'[u] = 0)
      BY <1>4, <2>1, <2>3, <2>5, <3>3 DEF CommandsSound
    <3>5. maps' \in Nat /\ maps' <= 1 /\ (maps' > 0 => cp'.mqd)
      BY <1>4, <2>1, <2>5 DEF CommandsSound
    <3> QED
      BY <1>4, <2>3, <3>2, <3>4, <3>5 DEF CommandsSound
  <2> QED
    BY <1>2, <2>6, <2>7, <2>8, <2>9, <2>10 DEF BringUpInv, DataSound
<1> QED
  BY <1>3, <1>4 DEF ShutdownGPU

\* A late answer, or nothing at all.
LEMMA AnswersKeep ==
    ASSUME BringUpInv, UNCHANGED <<blocked, call, driverVars, sos, acked, refused, maps>>,
           out' = out \/ \E u \in Units : out[u] > 0 /\ out' = [out EXCEPT ![u] = @ - 1]
    PROVE  BringUpInv'
<1>1. UNCHANGED <<blocked, call, reached, psp, bump, loaded, cp, mes, smu, wptr, sos, acked, refused, maps>>
  BY DEF driverVars
<1>2. \A f : Holds(f)' <=> Holds(f)
  BY <1>1 DEF Holds
<1>3. out' \in [Units -> Nat] /\ \A u \in Units : out'[u] <= out[u] /\ out[u] \in Nat /\ out'[u] \in Nat
  <2>1. out \in [Units -> Nat]
    BY DEF BringUpInv, TypeOK
  <2>2. CASE out' = out
    BY <2>1, <2>2
  <2>3. CASE \E u \in Units : out[u] > 0 /\ out' = [out EXCEPT ![u] = @ - 1]
    <3>1. PICK u \in Units : out[u] > 0 /\ out' = [out EXCEPT ![u] = @ - 1]
      BY <2>3
    <3>2. out[u] - 1 \in Nat
      BY <2>1, <3>1
    <3> QED
      BY <2>1, <3>1, <3>2
  <2> QED
    BY <2>2, <2>3
<1>4. TypeOK'
  BY <1>1, <1>3 DEF BringUpInv, TypeOK
<1>5. CallSound'
  BY <1>1 DEF BringUpInv, CallSound
<1>6. ProgramSound'
  <2>1. NeedsMet(call.prog)'
    BY <1>1, <1>2 DEF BringUpInv, ProgramSound, NeedsMet, Comes
  <2> QED
    BY <1>1, <2>1 DEF BringUpInv, ProgramSound, StageRises
<1>7. EffectsSound'
  BY <1>1 DEF BringUpInv, EffectsSound, QuietBefore, Quiet, AtStageDone
<1>8. OpenSound'
  <2>1. PromisesKept' <=> PromisesKept
    BY <1>1, <1>2 DEF PromisesKept
  <2>2. LoadedSound' <=> LoadedSound
    BY <1>1 DEF LoadedSound
  <2>3. out["psp"] = 0 => out'["psp"] = 0
    BY <1>3 DEF Units
  <2> QED
    BY <1>1, <1>2, <2>1, <2>2, <2>3 DEF BringUpInv, DataSound, OpenSound
<1>9. StagingSound'
  BY <1>1 DEF BringUpInv, DataSound, StagingSound, StagingIntact
<1>10. CommandsSound'
  <2>1. CommandsSound
    BY DEF BringUpInv, DataSound
  <2>2. \A u \in Units : out'[u] <= 1
    BY <1>3, <2>1 DEF CommandsSound
  <2>3. out'["psp"] > 0 => out["psp"] > 0
    BY <1>3 DEF Units
  <2>4. out["smu"] = 0 => out'["smu"] = 0
    BY <1>3 DEF Units
  <2>5. \A u \in Pipes : out[u] = 0 => out'[u] = 0
    BY <1>3 DEF Units
  <2> QED
    BY <1>1, <2>1, <2>2, <2>3, <2>4, <2>5 DEF CommandsSound
<1> QED
  BY <1>4, <1>5, <1>6, <1>7, <1>8, <1>9, <1>10 DEF BringUpInv, DataSound

\* The functions of the PSP.
LEMMA PSPStepKeeps ==
    ASSUME BringUpInv,
           \/ psp_init \/ psp_load_sos \/ psp_ring_create \/ psp_ring_cmd_submit
           \/ psp_setup_tmr \/ tmr_is_set_up \/ psp_load_ip_fw \/ psp_asd_initialize
           \/ psp_rl_load \/ psp_parse_ta_microcode \/ psp_parse_sos_microcode
           \/ psp_load_sos_package \/ psp_bootloader_load_component \/ psp_load_toc
    PROVE  BringUpInv'
BY PSPInitKeeps, LoadSOSStageKeeps, RingCreateKeeps, RingCommandKeeps, SetupTMRKeeps, TMRIsSetUpKeeps,
   LoadIPFirmwareKeeps, ASDKeeps, RegisterListKeeps, ParseTAKeeps, ParseSOSKeeps, LoadPackageKeeps,
   BootloaderKeeps, LoadTOCKeeps

\* The functions of the SMU, the scheduler, the graphics queue and SDMA.
LEMMA EngineStepKeeps ==
    ASSUME BringUpInv,
           \/ smu_send_msg \/ smu_is_online \/ smu_setup_begin \/ smu_metrics_reserve
           \/ smu_setup_complete
           \/ mes_submit_pkt \/ mes_enable \/ mes_scheduler_resources_1
           \/ cp_prepare_firmware \/ cp_start_engines \/ cp_map_gfx_queue \/ cp_is_ready
           \/ cp_init_full \/ sdma_gfx_resume_instance \/ sdma_ring_test
    PROVE  BringUpInv'
BY SendMessageKeeps, OnlineKeeps, SetupBeginKeeps, ReserveKeeps, SetupCompleteKeeps, MESCommandKeeps,
   MESEnableKeeps, Resources1Keeps, PrepareFirmwareKeeps, StartEnginesKeeps, MapQueueKeeps, ReadyKeeps,
   CPInitFullKeeps, ResumeKeeps, RingTestKeeps

\* The functions of the ladder and of file uploads.
LEMMA LoadStepKeeps ==
    ASSUME BringUpInv,
           \/ Hardware \/ Succeed
           \/ require_loaded \/ psp_fw_load_check \/ bringup_to \/ stage_done
           \/ open_file \/ payload_loop \/ payload_acked \/ rlc_autoload_started
           \/ firmware_load_complete \/ file_loaded
    PROVE  BringUpInv'
BY HardwareKeeps, SucceedKeeps, RequireLoadedKeeps, LoadCheckKeeps, ClimbKeeps, StageDoneKeeps,
   OpenFileKeeps, PayloadLoopKeeps, PayloadAckedKeeps, AutoloadKeeps, LoadCompleteKeeps, FileLoadedKeeps

\* Whatever clients call, and however their calls, the firmware and resets end, BringUpInv holds.
THEOREM BringUpSafe == Spec => []BringUpInv
<1>1. Init => BringUpInv
  BY BringUpInit
<1>2. ASSUME BringUpInv, [Next]_vars PROVE BringUpInv'
  <2>1. CASE Step
    BY <1>2, <2>1, PSPStepKeeps, EngineStepKeeps, LoadStepKeeps DEF Step
  <2>2. CASE \E target \in Targets : InitDevice(target)
    BY <1>2, <2>2, InitDeviceKeeps
  <2>3. CASE LoadSOS
    BY <1>2, <2>3, LoadSOSKeeps
  <2>4. CASE LoadTA
    BY <1>2, <2>4, LoadTAKeeps
  <2>5. CASE LoadTOC \/ LoadComponent \/ \E f \in Files : LoadFile(f)
    BY <1>2, <2>5, LoadOthersKeep
  <2>6. CASE ShutdownGPU
    BY <1>2, <2>6, ShutdownKeeps
  <2>7. CASE \E u \in Units : LateAnswer(u)
    <3>1. /\ UNCHANGED <<blocked, call, driverVars, sos, acked, refused, maps>>
          /\ \E u \in Units : out[u] > 0 /\ out' = [out EXCEPT ![u] = @ - 1]
      BY <2>7 DEF LateAnswer
    <3> QED
      BY <1>2, <3>1, AnswersKeep
  <2>8. CASE UNCHANGED vars
    <3>1. UNCHANGED <<blocked, call, driverVars, sos, acked, refused, maps>> /\ out' = out
      BY <2>8 DEF vars, deviceVars
    <3> QED
      BY <1>2, <3>1, AnswersKeep
  <2> QED
    BY <1>2, <2>1, <2>2, <2>3, <2>4, <2>5, <2>6, <2>7, <2>8 DEF Next
<1> QED
  BY <1>1, <1>2, PTL DEF Spec

\* What the stages promise, stage by stage.
LEMMA OpenLadder ==
    ASSUME BringUpInv, ~blocked
    PROVE  /\ reached >= PSPLoadSOS => psp.sosAlive /\ sos
           /\ reached >= PSPRingCreate => psp.ring
           /\ reached >= TMRSetup => psp.tmr
           /\ reached >= SMUInit => smu.online /\ smu.table # 0
           /\ reached >= GFXInit => cp.ready
           /\ \A stage \in 1 .. reached : Acknowledged(stage) \subseteq acked
<1>1. PromisesKept /\ (psp.sosAlive => sos) /\ reached \in 0 .. 15
  BY StageNumbers DEF BringUpInv, DataSound, OpenSound, TypeOK, Stages
<1>2. ASSUME NEW s \in 1 .. 15, s <= reached PROVE \A f \in Promise(s) : Holds(f)
  BY <1>1, <1>2 DEF PromisesKept
<1>3. /\ Holds(Is("sosAlive")) => psp.sosAlive
      /\ Holds(Is("ring")) => psp.ring
      /\ Holds(Is("tmr")) => psp.tmr
      /\ Holds(Is("online")) => smu.online
      /\ Holds(Is("table")) => smu.table # 0
      /\ Holds(Is("ready")) => cp.ready
      /\ \A x : Holds(Acked(x)) => x \in acked
  BY DEF Holds, Is, Acked
<1>4. ASSUME NEW stage \in 1 .. reached PROVE Acknowledged(stage) \subseteq acked
  <2>1. \A x \in Acknowledged(stage) : Acked(x) \in Promise(stage)
    BY DEF Promise
  <2>2. \A f \in Promise(stage) : Holds(f)
    BY <1>1 DEF PromisesKept
  <2> QED
    BY <1>3, <2>1, <2>2
<1>5. reached >= 5 => psp.sosAlive
  BY <1>1, <1>2, <1>3, Promises
<1>6. reached >= 6 => psp.ring
  BY <1>1, <1>2, <1>3, Promises
<1>7. reached >= 7 => psp.tmr
  BY <1>1, <1>2, <1>3, Promises
<1>8. reached >= 9 => smu.online /\ smu.table # 0
  BY <1>1, <1>2, <1>3, Promises
<1>9. reached >= 14 => cp.ready
  BY <1>1, <1>2, <1>3, Promises
<1> QED
  BY <1>1, <1>4, <1>5, <1>6, <1>7, <1>8, <1>9, StageNumbers

\* What bring-up reports of a session is true of it: the stages up to `reached' are backed by what
\* the firmware acknowledged since the last reset, firmwareLoadComplete speaks of the images
\* retained now, and a session that takes calls has no unfinished PSP or SDMA work behind it
\* (run_stage, bringup_to, LoadFirmware and the tests of "submitted" at their ends).
THEOREM LadderTrue == Spec => []LadderHonest
<1>1. BringUpInv => LadderHonest
  <2> SUFFICES ASSUME BringUpInv PROVE LadderHonest
    OBVIOUS
  <2>1. TypeOK
    BY DEF BringUpInv
  <2>2. LadderBacked
    BY OpenLadder DEF LadderBacked
  <2>3. CompleteIsCurrent
    <3>1. ~blocked /\ psp.complete => LoadedSound /\ "rlc" \in loaded /\ Holds(Is("rl")) /\ Holds(Is("asd"))
      BY DEF BringUpInv, DataSound, OpenSound
    <3>2. /\ Holds(Is("rl")) => (psp.pkg.rl => "REG_LIST" \in acked)
          /\ Holds(Is("asd")) => (psp.asd # 0 => "ASD" \in acked)
      BY DEF Holds, Is
    <3> QED
      BY <3>1, <3>2 DEF CompleteIsCurrent, LoadedSound
  <2>4. CleanWhenOpen
    <3> SUFFICES ASSUME call = Idle, ~blocked
                 PROVE  out["psp"] = 0 /\ ~refused /\ (reached < SDMAInit => \A i \in Engines : wptr[i] = 0)
      BY DEF CleanWhenOpen
    <3>1. out["psp"] = 0 /\ ~refused /\ QuietBefore
      BY DEF BringUpInv, DataSound, OpenSound, EffectsSound
    <3>2. DOMAIN call.prog = {}
      BY DEF Idle
    <3>3. Quiet \/ reached = SDMAInit
      BY <3>1, <3>2 DEF QuietBefore
    <3> QED
      BY <3>1, <3>3, StageNumbers DEF Quiet
  <2> QED
    BY <2>1, <2>2, <2>3, <2>4 DEF LadderHonest
<1> QED
  BY <1>1, BringUpSafe, PTL

\* No unit is handed a command while an earlier one is unanswered, and the KIQ is asked at most
\* once per reset to map the GFX queue (psp_ring_cmd_submit, smu_send_msg, mes_submit_pkt,
\* cp_map_gfx_queue).
THEOREM CommandsInOrder == Spec => []CommandsOrdered
<1>1. BringUpInv => CommandsOrdered
  BY DEF BringUpInv, DataSound, CommandsSound, CommandsOrdered, CommandsSerialized, GFXMapOnce
<1> QED
  BY <1>1, BringUpSafe, PTL

\* The trusted application and the SMU table stay below the bump pointer of fw_buf and apart, so
\* nothing is staged over them (psp_parse_ta_microcode, smu_metrics_reserve).
THEOREM StagingKept == Spec => []StagingIntact
<1>1. BringUpInv => StagingIntact
  BY DEF BringUpInv, DataSound, StagingSound
<1> QED
  BY <1>1, BringUpSafe, PTL

=============================================================================
