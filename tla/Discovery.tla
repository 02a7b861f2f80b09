----------------------------- MODULE Discovery -----------------------------
(***************************************************************************)
(* IP discovery (dext/amdgpu/amdgpu_discovery.cpp): finding the discovery  *)
(* binary on the device or taking a client's copy (LoadDiscoveryBin), and  *)
(* walking it: binary header, IPDS table, dies, variable-length IP records *)
(* and the GC_INFO table.  Every length is a field of the binary itself.   *)
(*                                                                         *)
(* A field is chosen when it is first read and stays as it is.  Structures *)
(* have the sizes below, in bytes; the checks keep the code's order.       *)
(***************************************************************************)
EXTENDS Naturals, FiniteSets

CONSTANTS MaxBinary,   \* bytes of the largest binary tried
          MaxDies,     \* 16 in the code
          MaxRecords   \* bound on IP records of a die and on bases of a record

ASSUME DiscoveryAssumption == {MaxBinary, MaxDies, MaxRecords} \subseteq Nat \ {0}

HeaderBytes == 2      \* DiscoveryBinaryHeader
TableBytes == 1       \* DiscoveryIPDSHeader; also the fixed part of GC_INFO
DieBytes == 1         \* DiscoveryDieHeader
RecordBytes == 1      \* DiscoveryIPv4 without its bases

VARIABLES walk,      \* where discovery is
          given,      \* bytes the caller has
          declared,  \* binary_size of the header
          ipds,     \* first byte and end of the IPDS table
          counted,   \* position -> count byte of the die or record there, or Unread
          touched,   \* bytes read
          ipTable    \* dev.ip: "old", or "new"

discoveryVars == <<walk, given, declared, ipds, counted, touched, ipTable>>

NotRead == MaxRecords + 1
Positions == 0 .. MaxBinary
Bytes(from, n) == {from + k - 1 : k \in 1 .. n}
WalkStart == [at |-> "ifwi", pos |-> 0, ips |-> 0, dies |-> 0, wide |-> FALSE]

DiscoveryInit ==
    /\ walk \in {WalkStart, [WalkStart EXCEPT !.at = "header"]}      \* discover_ips_on_die, LoadDiscoveryBin
    /\ given \in 1 .. MaxBinary
    /\ declared = 0 /\ ipds = [from |-> 0, to |-> 0]
    /\ counted = [p \in Positions |-> NotRead]
    /\ touched = {} /\ ipTable = "old"

Fails == walk' = [walk EXCEPT !.at = "failed"]
Unparsed == UNCHANGED <<given, declared, ipds, counted, touched, ipTable>>
Parsing == UNCHANGED <<given, declared, ipds, ipTable>>

-----------------------------------------------------------------------------
(* discover_ips_on_die                                                     *)

\* The wait for IFWI ends with the device ready, gone, or not known to be ready: the last goes on.
WaitIFWI ==
    /\ walk.at = "ifwi"
    /\ Fails \/ walk' = [walk EXCEPT !.at = "memsize"]
    /\ Unparsed

\* RCC_CONFIG_MEMSIZE all ones, or a binary in system memory, or no VRAM: not found on the device.
ReadMemSize ==
    /\ walk.at = "memsize"
    /\ Fails \/ walk' = [walk EXCEPT !.at = "signature"]
    /\ Unparsed

\* The whole region at the top of VRAM is copied, and its signature looked at.
ReadTMR ==
    /\ walk.at = "signature"
    /\ given' = MaxBinary
    /\ Fails \/ walk' = [walk EXCEPT !.at = "header"]
    /\ UNCHANGED <<declared, ipds, counted, touched, ipTable>>

-----------------------------------------------------------------------------
(* discovery_parse                                                         *)

\* Binary header: signature, version, declared size within what there is, checksum over it.
ParseHeader ==
    /\ walk.at = "header"
    /\ IF given < HeaderBytes THEN Fails /\ UNCHANGED <<declared, touched>>
       ELSE \/ /\ touched' = touched \cup Bytes(0, HeaderBytes) /\ Fails /\ UNCHANGED declared
            \/ \E d \in HeaderBytes .. given :
                  /\ declared' = d
                  /\ touched' = touched \cup Bytes(0, d)
                  /\ Fails \/ walk' = [walk EXCEPT !.at = "table"]
    /\ UNCHANGED <<given, ipds, counted, ipTable>>

\* IPDS header in the binary, its size in the binary, its checksum.
ParseTable ==
    /\ walk.at = "table"
    /\ \E from \in Positions, n \in 0 .. MaxBinary, dies \in 0 .. MaxDies + 1, wide \in BOOLEAN :
        IF from < HeaderBytes \/ from + TableBytes > declared
        THEN Fails /\ UNCHANGED <<touched, ipds>>
        ELSE IF n < TableBytes \/ from + n > declared \/ dies = 0 \/ dies > MaxDies
        THEN Fails /\ touched' = touched \cup Bytes(from, TableBytes) /\ UNCHANGED ipds
        ELSE /\ touched' = touched \cup Bytes(from, n)
             /\ ipds' = [from |-> from, to |-> from + n]
             /\ Fails \/ walk' = [walk EXCEPT !.at = "die", !.dies = dies, !.wide = wide]
    /\ UNCHANGED <<given, declared, counted, ipTable>>

\* A count byte: the same value whenever it is read.
Counts(p, n) == IF counted[p] = NotRead THEN n \in 0 .. MaxRecords ELSE n = counted[p]

\* The next die of the table, wherever the table says it is.
ParseDie ==
    /\ walk.at = "die" /\ walk.dies > 0
    /\ \E p \in Positions :
        IF p < ipds.from + TableBytes \/ p + DieBytes > ipds.to
        THEN Fails /\ UNCHANGED <<counted, touched>>
        ELSE /\ touched' = touched \cup Bytes(p, DieBytes)
             /\ \/ Fails /\ UNCHANGED counted                  \* another die's identifier
                \/ \E n \in 0 .. MaxRecords :
                      /\ Counts(p, n) /\ counted' = [counted EXCEPT ![p] = n]
                      /\ walk' = [walk EXCEPT !.at = "record", !.pos = p + DieBytes, !.ips = n]
    /\ Parsing

\* Mutant: only the fixed part of a record is checked against the end of the table.
RecordFitsFixed(bytes) == walk.pos + RecordBytes <= ipds.to

\* The record with all its bases ends in the table.
RecordFits(bytes) == walk.pos + bytes <= ipds.to

\* One IP record: its fixed part, then as many bases as it says, of 4 or 8 bytes.
ParseRecord ==
    /\ walk.at = "record" /\ walk.ips > 0
    /\ IF walk.pos + RecordBytes > ipds.to THEN Fails /\ UNCHANGED <<counted, touched>>
       ELSE \E n \in 0 .. MaxRecords :
              LET bytes == RecordBytes + n * (IF walk.wide THEN 2 ELSE 1)
              IN  /\ Counts(walk.pos, n) /\ counted' = [counted EXCEPT ![walk.pos] = n]
                  /\ IF RecordFits(bytes)
                     THEN /\ touched' = touched \cup Bytes(walk.pos, bytes)
                          /\ walk' = [walk EXCEPT !.pos = walk.pos + bytes, !.ips = walk.ips - 1]
                     ELSE touched' = touched \cup Bytes(walk.pos, RecordBytes) /\ Fails
    /\ Parsing

DieDone ==
    /\ walk.at = "record" /\ walk.ips = 0
    /\ walk' = [walk EXCEPT !.at = "die", !.dies = walk.dies - 1]
    /\ Parsing /\ UNCHANGED <<counted, touched>>

\* parse_gc_info: absent, or a table of its own in the binary; then dev.ip is replaced as a whole.
ParseGCInfo ==
    /\ walk.at = "die" /\ walk.dies = 0
    /\ \E from \in Positions, n \in 0 .. MaxBinary :
        LET accepted == from >= HeaderBytes /\ from <= declared /\ declared - from >= TableBytes
            inside   == n >= TableBytes /\ n <= declared - from
        IN  \/ /\ from = 0
               /\ ipTable' = "new" /\ walk' = [walk EXCEPT !.at = "done"] /\ UNCHANGED touched
            \/ from # 0 /\ ~accepted /\ Fails /\ UNCHANGED <<touched, ipTable>>
            \/ /\ accepted /\ ~inside
               /\ touched' = touched \cup Bytes(from, TableBytes) /\ Fails /\ UNCHANGED ipTable
            \/ /\ accepted /\ inside
               /\ touched' = touched \cup Bytes(from, n)
               /\ \/ ipTable' = "new" /\ walk' = [walk EXCEPT !.at = "done"]
                  \/ Fails /\ UNCHANGED ipTable
    /\ UNCHANGED <<given, declared, ipds, counted>>

DiscoveryNext ==
    \/ WaitIFWI \/ ReadMemSize \/ ReadTMR
    \/ ParseHeader \/ ParseTable \/ ParseDie \/ ParseRecord \/ DieDone \/ ParseGCInfo

DiscoverySpec == DiscoveryInit /\ [][DiscoveryNext]_discoveryVars

-----------------------------------------------------------------------------
(* Properties                                                              *)

\* Whatever the lengths in a binary say, the walk reads only bytes the caller has, and only bytes
\* its header declares once that has been accepted, with no record across the end of its table; and
\* dev.ip keeps the bases it had unless the whole binary has been accepted: a failure half way leaves
\* no register base from a binary that was refused (amdgpu_discovery.h:135).
DiscoveryInBounds ==
    /\ touched \subseteq 0 .. given - 1
    /\ walk.at \in {"die", "record", "done"} => touched \subseteq 0 .. declared - 1
    /\ walk.at = "record" => walk.pos \in ipds.from .. ipds.to
    /\ ipTable = "new" <=> walk.at = "done"
=============================================================================
