SPECIFICATION Spec
CONSTANTS
    Files = {"imu.bin", "sdma.bin", "mec.bin", "mes.bin", "legacy_mes.bin", "rlc.bin"}
    CPFiles = {"mec.bin"}
    MESFiles = {"mes.bin", "legacy_mes.bin"}
    MESPayloads = {"CP_MES", "CP_MES_KIQ"}
    FwBufSlots = 8
    Targets = {7, 15}
    Payloads <- const_Payloads
    Packages <- const_Packages
    SDMAInstances <- const_SDMAInstances
INVARIANTS
    LadderHonest
    CommandsOrdered
    StagingIntact
