--------------------------- MODULE FirmwareFiles ---------------------------
(***************************************************************************)
(* amdgpu_ucode_extract (dext/amdgpu/amdgpu_ucode_extract.cpp): which      *)
(* parts of a firmware file LoadFirmware hands to the PSP, and in which    *)
(* order.  A file has a header of one format in several versions, each a   *)
(* prefix of the next, whose fields give an offset and a size for every    *)
(* part.  What LoadFirmware then does with the payloads is BringUp's.      *)
(*                                                                         *)
(* Fields have FieldValues values where the code's have 2^32; a header of  *)
(* version minor m takes m + 1 bytes.                                      *)
(***************************************************************************)
EXTENDS Naturals, Sequences, FiniteSets

CONSTANTS FieldValues,   \* values of an offset or size field
          MaxPayloads    \* kMaxUcodePayloadsPerFile

\* The table has room for every part of the richest format, an RLC file of minor version 4.
ASSUME FirmwareAssumption ==
    FieldValues \in Nat \ {0} /\ MaxPayloads \in Nat /\ MaxPayloads >= 11

VARIABLES fwFile,     \* the file: its format, size, version and fields
          fwRequest,  \* the host's fwType: a whole file or one part
          payloads    \* what was extracted, or <<"pending">>

firmwareVars == <<fwFile, fwRequest, payloads>>

-----------------------------------------------------------------------------
(* Formats                                                                 *)

TapDelays == <<"GLOBAL_TAP_DELAYS", "SE0_TAP_DELAYS", "SE1_TAP_DELAYS", "SE2_TAP_DELAYS", "SE3_TAP_DELAYS">>
RestoreLists == <<"RLC_RESTORE_LIST_SRM_CNTL", "RLC_RESTORE_LIST_GPM_MEM", "RLC_RESTORE_LIST_SRM_MEM">>

\* Parts of a file in the order they are extracted.  Those of an RLC file depend on the minor version
\* and on the header that version needs being in the file; RLC_G starts the autoload, so it is last.
RLCParts(f) ==
    LET since(present, minor, names) == IF present /\ f.bytes >= minor + 1 THEN names ELSE <<>>
    IN  since(f.minor = 4, 4, TapDelays) \o since(f.minor >= 1, 1, RestoreLists)
        \o since(f.minor >= 2, 2, <<"RLC_IRAM", "RLC_DRAM_BOOT">>)
        \o since(f.minor = 3, 3, <<"RLC_P", "RLC_V">>) \o <<"RLC_G">>

Parts(f) ==
    CASE f.format = "SDMA" -> <<"SDMA_UCODE_TH0">>
      [] f.format = "RLC" -> RLCParts(f)
      [] f.format = "IMU" -> <<"IMU_I", "IMU_D">>
      [] f.format = "MES_UNI" -> <<"CP_MES", "CP_MES_DATA", "CP_MES_KIQ", "MES_KIQ_STACK">>
      [] f.format = "CP_PFP" -> <<"RS64_PFP", "RS64_PFP_P0">>
      [] f.format = "CP_ME" -> <<"RS64_ME", "RS64_ME_P0">>
      [] f.format = "CP_MEC" -> <<"RS64_MEC", "RS64_MEC_P0", "RS64_MEC_P1">>
      [] f.format = "SMU" -> <<"SMU">>

Formats == {"SDMA", "RLC", "IMU", "MES_UNI", "CP_PFP", "CP_ME", "CP_MEC", "SMU"}

\* The field a part's offset and size come from: the two MES pipes load the same bytes, and every
\* stack of a CP file is the file's one data section.
Field(part) ==
    CASE part = "CP_MES_KIQ" -> "CP_MES"
      [] part = "MES_KIQ_STACK" -> "CP_MES_DATA"
      [] part \in {"RS64_PFP_P0", "RS64_ME_P0", "RS64_MEC_P0", "RS64_MEC_P1"} -> "data"
      [] OTHER -> part

PartsOf(f) == {Parts(f)[i] : i \in DOMAIN Parts(f)}
FieldsOf(f) == {Field(p) : p \in PartsOf(f)}

\* Files: a range for every field of the format.  The common header of SMU has no version to check.
FieldRanges == [at : 0 .. FieldValues - 1, size : 0 .. FieldValues - 1]
IsFile(f) ==
    /\ f.format \in Formats /\ f.bytes \in Nat /\ f.minor \in Nat /\ f.majorOK \in BOOLEAN
    /\ f.field \in [FieldsOf(f) -> FieldRanges]
    /\ f.format = "SMU" => f.majorOK

\* A file, or one part of it where the code has a filter for the part; SMU stands for the parts with
\* a common header alone.
RequestsOf(f) ==
    CASE f.format = "RLC" -> {"file"}
      [] f.format = "SMU" -> {"SMU"}
      [] OTHER -> ({"file"} \cup PartsOf(f)) \ {"CP_MES_KIQ", "MES_KIQ_STACK"}

\* The range a part occupies.  IMU_D has no offset of its own: it follows IMU_I.
Located(f, part) ==
    IF part = "IMU_D"
    THEN [at |-> f.field["IMU_I"].at + f.field["IMU_I"].size, size |-> f.field["IMU_D"].size]
    ELSE f.field[Field(part)]

-----------------------------------------------------------------------------
(* Extraction                                                              *)

\* Mutant: the sum of offset and size wraps at the width of the fields.
WithinWrapped(r, bytes) ==
    r.size # 0 /\ r.at < bytes /\ (r.at + r.size) % FieldValues <= bytes

\* within: the range is not empty and lies in the file; the sum is taken in 64 bits.
Within(r, bytes) == r.size # 0 /\ r.at < bytes /\ r.at + r.size <= bytes

\* The parts of ps that are in S, in their order, as long as there is room for them.
Kept(ps, S) ==
    LET out[i \in 0 .. Len(ps)] ==
          IF i = 0 THEN <<>>
          ELSE IF Len(out[i - 1]) < MaxPayloads /\ ps[i] \in S THEN Append(out[i - 1], ps[i])
          ELSE out[i - 1]
    IN  out[Len(ps)]

\* push, for each part in turn: a part outside the file is skipped, and so is one without room.
Pushed(f, ps) == Kept(ps, {p \in PartsOf(f) : Within(Located(f, p), f.bytes)})

\* extract_sdma, extract_rlc, extract_imu, extract_cp_rs64, extract_mes and extract_common_header:
\* the fixed header is in the file and of the format's major version.
ExtractFile(f) == IF f.bytes >= 1 /\ f.majorOK THEN Pushed(f, Parts(f)) ELSE <<>>

\* amdgpu_ucode_extract: a request for one part of a file with several filters what the file yields.
Extract(f, wanted) ==
    IF f.bytes = 0 THEN <<>>
    ELSE IF wanted = "file" THEN ExtractFile(f)
    ELSE Kept(ExtractFile(f), {wanted})

FirmwareInit == IsFile(fwFile) /\ fwRequest \in RequestsOf(fwFile) /\ payloads = <<"pending">>

ExtractPayloads ==
    /\ payloads = <<"pending">>
    /\ payloads' = Extract(fwFile, fwRequest)
    /\ UNCHANGED <<fwFile, fwRequest>>

FirmwareNext == ExtractPayloads

FirmwareSpec == FirmwareInit /\ [][FirmwareNext]_firmwareVars

-----------------------------------------------------------------------------
(* Properties                                                              *)

\* The bytes handed to the PSP are bytes of the file, each part once; a part that the file has and
\* that was asked for is not lost, the last one least of all: RLC_G, after which the PSP accepts no
\* other part of the RLC, comes last and is never pushed out by the parts before it.
PayloadsExact ==
    payloads # <<"pending">> =>
        LET got  == {payloads[i] : i \in DOMAIN payloads}
            span(p) == {Located(fwFile, p).at + k - 1 : k \in 1 .. Located(fwFile, p).size}
            want == {p \in PartsOf(fwFile) : span(p) # {} /\ span(p) \subseteq 0 .. fwFile.bytes - 1}
        IN  /\ Len(payloads) = Cardinality(got)
            /\ \A i \in DOMAIN payloads : payloads[i] = "RLC_G" => i = Len(payloads)
            /\ got = IF fwFile.bytes = 0 \/ ~fwFile.majorOK THEN {}
                     ELSE IF fwRequest = "file" THEN want ELSE want \cap {fwRequest}
=============================================================================
