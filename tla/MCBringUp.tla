----------------------------- MODULE MCBringUp -----------------------------
(* Firmware files and SOS packages for BringUp. *)
EXTENDS BringUp

const_Payloads ==
    [f \in Files |->
        CASE f = "imu.bin" -> <<"IMU_D">>
          [] f = "sdma.bin" -> <<"SDMA">>
          [] f = "mec.bin" -> <<"RS64_MEC">>
          [] f = "mes.bin" -> <<"CP_MES", "CP_MES_KIQ">>
          [] f = "legacy_mes.bin" -> <<"CP_MES">>
          [] f = "rlc.bin" -> <<"RLC_G">>]
const_Packages == {[toc |-> b, rl |-> b] : b \in BOOLEAN}
const_SDMAInstances == <<"sdma0", "sdma1">>
=============================================================================
