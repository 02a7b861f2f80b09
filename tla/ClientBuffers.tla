--------------------------- MODULE ClientBuffers ---------------------------
(***************************************************************************)
(* Per-client buffer tables and buffers shared between clients             *)
(* (dext/MacAMDGPU.cpp: mac_amdgpu_bo_*, selectors BOAlloc, BOExport,      *)
(* BOImport, BOFree and RegisterSqSlot; dext/amdgpu/amdgpu_shared_buffers.h)*)
(* and what client Stop and ShutdownGPU do to them.                        *)
(*                                                                         *)
(* Calls run one at a time on the driver queue.  A VRAM range is an        *)
(* element of Blocks: that live ranges are disjoint is VRAMAllocator's     *)
(* result.  Who may attach, and when a session blocks, is DriverSession's  *)
(* subject; here every open client may attach and a session may block at   *)
(* any time.  Buffers carved from a client's own DMA buffer appear in      *)
(* CommandStreams.                                                         *)
(***************************************************************************)
EXTENDS Integers, FiniteSets

CONSTANTS
    Clients, NoClient,   \* user-client objects; the null owner
    MaxPages, PerPage,   \* kMaxBOPages, kBOEntriesPerPage
    MaxGeneration,       \* UINT32_MAX of boGenCounter
    Blocks, NoBlock,     \* ranges of a VRAM pool
    Tokens, NoToken,     \* share tokens; 0:0
    Capacity,            \* SharedBuffers::capacity
    MaxReferences        \* UINT32_MAX of Entry::references

ASSUME NullAssumption ==
    NoClient \notin Clients /\ NoBlock \notin Blocks /\ NoToken \notin Tokens
ASSUME SizeAssumption ==
    /\ MaxPages \in Nat \ {0} /\ PerPage \in Nat \ {0} /\ Capacity \in Nat
    /\ MaxGeneration \in Nat /\ MaxReferences \in Nat \ {0}
ASSUME ClientsAssumption == IsFiniteSet(Clients)

VARIABLES
    life, attached,    \* user-client life; claimed
    pciOpen, blocked,  \* pciOpen, shutdownBlocked
    gen,               \* boGenCounter
    pages,             \* boPages that are not null
    bo,                \* entries; Free when not in_use
    shared,            \* sharedBuffers.entries
    pool,              \* live ranges of vram_alloc and device_vram_alloc
    sq                 \* sqSlot

vars == <<life, attached, pciOpen, blocked, gen, pages, bo, shared, pool, sq>>
sessionVars == <<life, attached, pciOpen, blocked>>
tableVars == <<gen, pages, bo>>

Pages == 0 .. MaxPages - 1
Slots == 0 .. MaxPages * PerPage - 1
Ids == 1 .. Capacity
PageOf(s) == s \div PerPage
InPage(p) == {s \in Slots : PageOf(s) = p}
VRAMDomains == {"VRAM", "Device"}
\* A GTT buffer whose page-table entries could not all be written or cleared
\* is "partial".
Domains == VRAMDomains \cup {"GTT", "partial"}

Free == [domain |-> "free", gen |-> 0, block |-> NoBlock, id |-> 0]
Unshared == [token |-> NoToken, block |-> NoBlock, refs |-> 0]
NoSlot == [owner |-> NoClient, handle |-> <<0, 0>>]
Empty == [s \in Slots |-> Free]
NoPool == [d \in VRAMDomains |-> {}]

Init ==
    /\ life = [c \in Clients |-> "absent"]
    /\ attached = {} /\ pciOpen = FALSE /\ blocked = FALSE
    /\ gen = [c \in Clients |-> 0]
    /\ pages = [c \in Clients |-> {}]
    /\ bo = [c \in Clients |-> Empty]
    /\ shared = [i \in Ids |-> Unshared]
    /\ pool = NoPool /\ sq = NoSlot

-----------------------------------------------------------------------------
(***************************************************************************)
(* The table of one client.                                                *)
(***************************************************************************)
InUse(c) == {s \in Slots : bo[c][s] # Free}
Quarantined == {c \in Clients : life[c] = "quarantined"}

\* bo_lookup: the slot a handle <<generation, index>> names, if any.
Resolves(c, h) == /\ h[2] \in Slots /\ PageOf(h[2]) \in pages[c]
                  /\ bo[c][h[2]] # Free /\ bo[c][h[2]].gen = h[1]

\* Mutant: the generation wraps around instead of running out.
FreeSlotsWrap(c) ==
    LET open == {s \in Slots \ InUse(c) : PageOf(s) \in pages[c]}
        missing == {p * PerPage : p \in Pages \ pages[c]}
        found == IF open # {} THEN open ELSE missing
    IN {s \in found : \A t \in found : s <= t}

\* bo_find_free_slot: at most one slot, of an existing page if there is one.
FreeSlots(c) ==
    LET open == {s \in Slots \ InUse(c) : PageOf(s) \in pages[c]}
        missing == {p * PerPage : p \in Pages \ pages[c]}
        found == IF open # {} THEN open ELSE missing
    IN IF gen[c] = MaxGeneration THEN {}
       ELSE {s \in found : \A t \in found : s <= t}

\* ++boGenCounter, 32 bits.
NextGen(c) == IF gen[c] = MaxGeneration THEN 0 ELSE gen[c] + 1

\* bo_trim_page: the page of s goes when no entry of it is in use.
Trim(c, s, table) ==
    pages' = [pages EXCEPT ![c] =
                IF \A t \in InPage(PageOf(s)) : table[t] = Free
                  THEN @ \ {PageOf(s)} ELSE @]

\* Fill slot s of client c.
Store(c, s, entry) ==
    /\ bo' = [bo EXCEPT ![c][s] = entry]
    /\ gen' = [gen EXCEPT ![c] = NextGen(c)]
    /\ pages' = [pages EXCEPT ![c] = @ \cup {PageOf(s)}]

(***************************************************************************)
(* SharedBuffers, and the VRAM ranges the slots in D give back.            *)
(***************************************************************************)
Naming(D, i) == {p \in D : bo[p[1]][p[2]].id = i}
Left(D, i) == shared[i].refs - Cardinality(Naming(D, i))

\* Ranges of domain d that no slot outside D needs.
Returned(D, d) ==
    {bo[p[1]][p[2]].block :
        p \in {q \in D : LET e == bo[q[1]][q[2]] IN
                         e.domain = d /\ (e.id = 0 \/ Left(D, e.id) = 0)}}

Release(D) ==
    shared' = [i \in Ids |-> IF Naming(D, i) = {} THEN shared[i]
                             ELSE IF Left(D, i) = 0 THEN Unshared
                             ELSE [shared[i] EXCEPT !.refs = Left(D, i)]]

\* bo_release_all of every client in C.
SlotsOf(C) == {p \in C \X Slots : p[2] \in InUse(p[1])}
Emptied(C) ==
    /\ bo' = [c \in Clients |-> IF c \in C THEN Empty ELSE bo[c]]
    /\ pages' = [c \in Clients |-> IF c \in C THEN {} ELSE pages[c]]
ReleaseAll(C) ==
    /\ Release(SlotsOf(C))
    /\ pool' = [d \in VRAMDomains |-> pool[d] \ Returned(SlotsOf(C), d)]
    /\ Emptied(C)

-----------------------------------------------------------------------------
(***************************************************************************)
(* Calls of an admitted client.                                            *)
(***************************************************************************)
Admitted(c) ==
    /\ life[c] = "open" /\ ~blocked
    /\ attached' = attached \cup {c} /\ pciOpen' = TRUE
    /\ UNCHANGED life

OpenClient(c) ==
    /\ life[c] = "absent"
    /\ life' = [life EXCEPT ![c] = "open"]
    /\ gen' = [gen EXCEPT ![c] = 0]
    /\ UNCHANGED <<attached, pciOpen, blocked, pages, bo, shared, pool, sq>>

\* BOAlloc in either VRAM pool.
BOAllocVRAM(c, d, b) ==
    /\ Admitted(c)
    /\ b \in Blocks \ pool[d]
    /\ \E s \in FreeSlots(c) :
          Store(c, s, [domain |-> d, gen |-> NextGen(c), block |-> b, id |-> 0])
    /\ pool' = [pool EXCEPT ![d] = @ \cup {b}]
    /\ UNCHANGED <<blocked, shared, sq>>

\* BOAlloc of host memory.  A binding that failed half way keeps its slot and
\* blocks the session.
BOAllocGTT(c, ok) ==
    /\ Admitted(c)
    /\ \E s \in FreeSlots(c) :
          Store(c, s, [domain |-> IF ok THEN "GTT" ELSE "partial",
                       gen |-> NextGen(c), block |-> NoBlock, id |-> 0])
    /\ blocked' = ~ok
    /\ UNCHANGED <<shared, pool, sq>>

\* bo_alloc_fail: no memory, GART not ready; only the generation is spent.
BOAllocFails(c) ==
    /\ Admitted(c)
    /\ \E s \in FreeSlots(c) : Trim(c, s, bo[c])
    /\ gen' = [gen EXCEPT ![c] = NextGen(c)]
    /\ UNCHANGED <<blocked, bo, shared, pool, sq>>

\* BOExport of a buffer not shared before: the first unused entry is filled.
\* A second export only reports the token.
BOExport(c, s, i, t) ==
    /\ Admitted(c)
    /\ s \in InUse(c) /\ bo[c][s].domain = "Device" /\ bo[c][s].id = 0
    /\ t \notin {shared[j].token : j \in Ids}
    /\ shared[i].refs = 0 /\ \A j \in Ids : j < i => shared[j].refs # 0
    /\ shared' = [shared EXCEPT ![i] =
                    [token |-> t, block |-> bo[c][s].block, refs |-> 1]]
    /\ bo' = [bo EXCEPT ![c][s].id = i]
    /\ UNCHANGED <<blocked, gen, pages, pool, sq>>

\* BOImport: find, a free slot, retain.
BOImport(c, i) ==
    /\ Admitted(c)
    /\ shared[i].refs \in 1 .. MaxReferences - 1
    /\ shared' = [shared EXCEPT ![i].refs = @ + 1]
    /\ \E s \in FreeSlots(c) :
          Store(c, s, [domain |-> "Device", gen |-> NextGen(c),
                       block |-> shared[i].block, id |-> i])
    /\ UNCHANGED <<blocked, pool, sq>>

\* The profiling slot goes with the buffer it names.
ForgetSlot(c, s) ==
    sq' = IF sq = [owner |-> c, handle |-> <<bo[c][s].gen, s>>] THEN NoSlot ELSE sq

\* BOFree.  ok: gart_unbind succeeded.
BOFree(c, s, ok) ==
    LET table == [bo[c] EXCEPT ![s] = Free] IN
    /\ Admitted(c)
    /\ s \in InUse(c)
    /\ bo[c][s].domain \in VRAMDomains => ok
    /\ blocked' = ~ok
    /\ IF ok
         THEN /\ Release({<<c, s>>})
              /\ pool' = [d \in VRAMDomains |-> pool[d] \ Returned({<<c, s>>}, d)]
              /\ ForgetSlot(c, s)
              /\ bo' = [bo EXCEPT ![c] = table]
              /\ Trim(c, s, table)
         ELSE /\ bo' = [bo EXCEPT ![c][s].domain = "partial"]
              /\ UNCHANGED <<shared, pool, sq, pages>>
    /\ UNCHANGED gen

\* RegisterSqSlot: one writer per driver.
RegisterSqSlot(c, s) ==
    /\ life[c] = "open" /\ ~blocked
    /\ s \in InUse(c) /\ bo[c][s].domain = "GTT"
    /\ sq.owner \in {NoClient, c}
    /\ sq' = [owner |-> c, handle |-> <<bo[c][s].gen, s>>]
    /\ UNCHANGED <<sessionVars, tableVars, shared, pool>>

-----------------------------------------------------------------------------
(***************************************************************************)
(* The end of a client or of the session.                                  *)
(***************************************************************************)
\* Work of unknown outcome blocks the session (BOCopy, dispatches, ...).
Block ==
    /\ pciOpen /\ ~blocked /\ blocked' = TRUE
    /\ UNCHANGED <<life, attached, pciOpen, tableVars, shared, pool, sq>>

\* Mutant: a reset forgets the quarantined clients' references.
ShutdownGPUForgets(c) ==
    /\ life[c] = "open" /\ attached \subseteq {c}
    /\ attached' = {} /\ pciOpen' = FALSE /\ blocked' = FALSE
    /\ life' = [d \in Clients |-> IF d \in Quarantined THEN "absent" ELSE life[d]]
    /\ sq' = IF sq.owner = c THEN NoSlot ELSE sq
    /\ Release(SlotsOf({c}))
    /\ Emptied(Quarantined \cup {c})
    /\ pool' = NoPool
    /\ UNCHANGED gen

\* ShutdownGPU through phase 6, by the only participant or an observer when
\* there is none: quarantine and caller are released, then the bring-up
\* state, with both allocators in it, is built anew.
ShutdownGPU(c) ==
    /\ life[c] = "open" /\ attached \subseteq {c}
    /\ attached' = {} /\ pciOpen' = FALSE /\ blocked' = FALSE
    /\ life' = [d \in Clients |-> IF d \in Quarantined THEN "absent" ELSE life[d]]
    /\ sq' = IF sq.owner = c THEN NoSlot ELSE sq
    /\ Release(SlotsOf(Quarantined \cup {c}))
    /\ Emptied(Quarantined \cup {c})
    /\ pool' = NoPool
    /\ UNCHANGED gen

\* A reset that failed: the caller stays attached, PCI may be closed.
ShutdownFails(c, open) ==
    /\ life[c] = "open" /\ attached \subseteq {c}
    /\ pciOpen => open
    /\ attached' = {c} /\ pciOpen' = open /\ blocked' = TRUE
    /\ UNCHANGED <<life, tableVars, shared, pool, sq>>

\* What every FinishStop does.
Leave(c) ==
    /\ life[c] = "open"
    /\ attached' = attached \ {c}
    /\ sq' = IF sq.owner = c THEN NoSlot ELSE sq
    /\ UNCHANGED gen

\* The last participant: reset and Close.
FinishStopLast(c, ok) ==
    /\ Leave(c)
    /\ attached = {c} /\ pciOpen
    /\ pciOpen' = FALSE /\ blocked' = ~ok
    /\ IF ok
         THEN /\ life' = [d \in Clients |-> IF d \in Quarantined \cup {c}
                                              THEN "absent" ELSE life[d]]
              /\ Release(SlotsOf(Quarantined \cup {c}))
              /\ Emptied(Quarantined \cup {c})
              /\ pool' = NoPool
         ELSE /\ life' = [life EXCEPT ![c] = "quarantined"]
              /\ UNCHANGED <<pages, bo, shared, pool>>

\* Others remain and the work of c is uncertain.
FinishStopQuarantines(c) ==
    /\ Leave(c)
    /\ c \in attached /\ attached # {c} /\ pciOpen
    /\ blocked' = TRUE
    /\ life' = [life EXCEPT ![c] = "quarantined"]
    /\ UNCHANGED <<pciOpen, pages, bo, shared, pool>>

\* Others remain and nothing is pending: retire_client_storage unbinds the GTT
\* buffers; VRAM follows only when every unbind succeeded.
FinishStopRetires(c, unbound) ==
    LET gtt == {s \in InUse(c) : bo[c][s].domain \in {"GTT", "partial"}} IN
    /\ Leave(c)
    /\ c \in attached /\ attached # {c} /\ pciOpen /\ ~blocked
    /\ unbound \subseteq gtt
    /\ UNCHANGED pciOpen
    /\ blocked' = (unbound # gtt)
    /\ life' = [life EXCEPT ![c] = IF unbound = gtt THEN "absent" ELSE "quarantined"]
    /\ IF unbound = gtt
         THEN ReleaseAll({c})
         ELSE /\ \E f \in gtt \ unbound :
                   bo' = [bo EXCEPT ![c] = [s \in Slots |->
                            IF s \in unbound THEN Free
                            ELSE IF s = f THEN [bo[c][s] EXCEPT !.domain = "partial"]
                            ELSE bo[c][s]]]
              /\ UNCHANGED <<pages, shared, pool>>

\* An observer, or PCI is closed.
FinishStopDetached(c) ==
    /\ Leave(c)
    /\ ~(c \in attached /\ pciOpen)
    /\ life' = [life EXCEPT ![c] = "absent"]
    /\ ReleaseAll({c})
    /\ UNCHANGED <<pciOpen, blocked>>

Next ==
    \/ \E c \in Clients :
        \/ OpenClient(c)
        \/ \E d \in VRAMDomains, b \in Blocks : BOAllocVRAM(c, d, b)
        \/ \E ok \in BOOLEAN : BOAllocGTT(c, ok)
        \/ BOAllocFails(c)
        \/ \E s \in Slots, i \in Ids, t \in Tokens : BOExport(c, s, i, t)
        \/ \E i \in Ids : BOImport(c, i)
        \/ \E s \in Slots, ok \in BOOLEAN : BOFree(c, s, ok)
        \/ \E s \in Slots : RegisterSqSlot(c, s)
        \/ ShutdownGPU(c)
        \/ \E open \in BOOLEAN : ShutdownFails(c, open)
        \/ \E ok \in BOOLEAN : FinishStopLast(c, ok)
        \/ FinishStopQuarantines(c)
        \/ \E unbound \in SUBSET Slots : FinishStopRetires(c, unbound)
        \/ FinishStopDetached(c)
    \/ Block

Spec == Init /\ [][Next]_vars

-----------------------------------------------------------------------------
Entries == [domain : Domains, gen : 0 .. MaxGeneration,
            block : Blocks \cup {NoBlock}, id : 0 .. Capacity]

\* Every variable keeps its type.
TypeOK ==
    /\ life \in [Clients -> {"absent", "open", "quarantined"}]
    /\ attached \in SUBSET Clients
    /\ pciOpen \in BOOLEAN /\ blocked \in BOOLEAN
    /\ gen \in [Clients -> 0 .. MaxGeneration]
    /\ pages \in [Clients -> SUBSET Pages]
    /\ bo \in [Clients -> [Slots -> Entries \cup {Free}]]
    /\ shared \in [Ids -> [token : Tokens \cup {NoToken},
                           block : Blocks \cup {NoBlock},
                           refs : 0 .. MaxReferences]]
    /\ pool \in [VRAMDomains -> SUBSET Blocks]
    /\ sq \in [owner : Clients \cup {NoClient},
               handle : (0 .. MaxGeneration) \X Slots]

Owned == SlotsOf(Clients)

\* "One reference per owning BO slot, including slots retained in
\* quarantine": the count of a shared buffer is the number of slots naming it.
ReferencesExact ==
    \A i \in Ids : shared[i].refs = Cardinality(Naming(Owned, i))

\* A slot names a live range, two slots name the same range only as the same
\* shared buffer, and a live range is named by some slot: neither use after
\* free, nor double allocation, nor a leak, across clients, quarantine and
\* resets.
RangesOwned ==
    /\ \A p, q \in Owned :
         LET e == bo[p[1]][p[2]]  f == bo[q[1]][q[2]] IN
         e.domain \in VRAMDomains =>
           /\ e.block \in pool[e.domain]
           /\ p # q /\ f.domain = e.domain /\ f.block = e.block
                => e.id # 0 /\ f.id = e.id
    /\ \A d \in VRAMDomains : \A b \in pool[d] :
         \E p \in Owned : bo[p[1]][p[2]].domain = d /\ bo[p[1]][p[2]].block = b

\* A token leads an importer to the memory that was exported under it.
TokensUnique ==
    /\ \A i, j \in Ids : i # j /\ shared[i].refs > 0 => shared[i].token # shared[j].token
    /\ \A p \in Owned : LET e == bo[p[1]][p[2]] IN
         e.id # 0 => e.domain = "Device" /\ e.block = shared[e.id].block

\* No entry in use lies in a page that was freed, and a client that can still
\* call keeps no empty page.
PagesExact ==
    \A c \in Clients :
      /\ \A s \in InUse(c) : PageOf(s) \in pages[c]
      /\ life[c] = "open" =>
           \A p \in pages[c] : \E s \in InPage(p) : bo[c][s] # Free

\* Nobody but an attached or a quarantined client owns storage, so that the
\* reset of ShutdownGPU or of the last close frees all there is.
OwnersKnown ==
    \A c \in Clients : InUse(c) # {} => c \in attached \/ life[c] = "quarantined"

\* The tables of clients and of shared buffers, and the storage behind them,
\* always agree.
TablesExact == TokensUnique /\ PagesExact /\ OwnersKnown

\* ReadSqSlot never follows a stale pointer: while it would read, the slot
\* names a bound buffer of a client that is still there.
SlotBacked ==
    sq.owner # NoClient /\ ~blocked =>
        /\ life[sq.owner] = "open" /\ Resolves(sq.owner, sq.handle)
        /\ bo[sq.owner][sq.handle[2]].domain = "GTT"

\* References, ranges, tables and the SQ slot describe the same storage, across clients, shared
\* buffers, quarantine and resets (BOAlloc, BOFree, import, FinishStop, ShutdownGPU).
StorageExact == TypeOK /\ ReferencesExact /\ RangesOwned /\ TablesExact /\ SlotBacked

\* "stale handles from a closed BO can't reach a fresh allocation in the same
\* slot": a filled slot gets a generation above all the client had before.
HandlesFresh ==
    [][\A c \in Clients :
         /\ gen'[c] < gen[c] => life[c] = "absent"
         /\ \A s \in Slots :
              /\ bo'[c][s] # Free
              /\ bo[c][s] = Free \/ bo'[c][s].gen # bo[c][s].gen
              => bo'[c][s].gen > gen[c]]_vars
=============================================================================
