---------------------------- MODULE GARTMapping ----------------------------
(***************************************************************************)
(* Binding host memory into the GART (dext/amdgpu/amdgpu_gart.cpp) for     *)
(* GTT buffers (BOAlloc, BOFree and client Stop in dext/MacAMDGPU.cpp) and *)
(* for the host-memory test (amdgpu_memory_test.cpp), which must pass      *)
(* before GTT buffers are handed out.                                      *)
(*                                                                         *)
(* Calls run one at a time on the driver queue, but the memory hubs of the *)
(* GPU translate addresses all the time.  A call is therefore a sequence   *)
(* of steps at the points where the device sees a change: each page-table  *)
(* entry, each hub's invalidation, the end of the DMA mapping.  A hub may  *)
(* walk the page table and cache an entry between any two of them.  An     *)
(* entry is written in one step; before a binding is ready and after its   *)
(* jobs retired no job uses the address.                                   *)
(*                                                                         *)
(* gart_bind_existing and gmc_bind_existing have no callers.               *)
(***************************************************************************)
EXTENDS GARTAperture

CONSTANTS
    Buffers,       \* bus ranges IODMACommand can map; reused when unmapped
    Objects,       \* binding slots of GTT buffers
    Test,          \* the binding of the host-memory test
    Hubs,          \* number of hubs: MMHUB then GFXHUB
    None           \* an invalid page-table entry; no buffer

ASSUME MappingAssumption ==
    None \notin Buffers /\ Test \notin Objects /\ Hubs \in Nat \ {0}

Bindings == Objects \cup {Test}
Pages == 0 .. Size - 1

VARIABLES
    binding,     \* GARTBinding of each slot
    pte,         \* page-table entries in VRAM
    tlb,         \* entries each hub has cached
    mapped,      \* bus ranges the DART maps for the device
    op,          \* the call in progress
    verified,    \* gart.reads_supported
    window,      \* gart.hostWindowConfigured
    blocked      \* shutdownBlocked

gartVars == <<binding, pte, tlb, mapped, op, verified, window, blocked>>
vars == <<apertureVars, gartVars>>

NoBinding == [id |-> 0, offset |-> 0, size |-> 0, mc |-> 0, buffer |-> None,
              ready |-> FALSE]
NoEntry == [buffer |-> None, page |-> 0]
Idle == [step |-> "idle", b |-> Test, at |-> 0]

Init ==
    /\ ApertureInit
    /\ binding = [b \in Bindings |-> NoBinding]
    /\ pte = [p \in Pages |-> NoEntry]
    /\ tlb = [h \in 1 .. Hubs |-> [p \in Pages |-> NoEntry]]
    /\ mapped = {} /\ op = Idle
    /\ verified = FALSE /\ window = FALSE /\ blocked = FALSE

\* The reservation a binding was given: numGPUPages is not zero.
HasPages(b) == binding[b].size # 0
Reservation(b) == [offset |-> binding[b].offset, size |-> binding[b].size,
                   id |-> binding[b].id]

At(step, b, at) == op' = [step |-> step, b |-> b, at |-> at]

\* A call fails after it changed the device: everything is kept for a reset.
Fail == op' = Idle /\ blocked' = TRUE

-----------------------------------------------------------------------------
(***************************************************************************)
(* gart_bind_sysmem.                                                       *)
(***************************************************************************)
\* BOAlloc needs verified transfers; a test starts by withdrawing them.
MayBind(b) ==
    /\ op = Idle /\ ~blocked /\ binding[b] = NoBinding
    /\ b \in Objects => verified
Withdraw(b) == verified' = (verified /\ b # Test)

\* The buffer is mapped for DMA, the range reserved and the binding filled in
\* before the first entry is written.
BeginBind(b, n, al, m) ==
    /\ MayBind(b) /\ m \notin mapped
    /\ Reserve(n, al)
    /\ mapped' = mapped \cup {m}
    /\ binding' = [binding EXCEPT ![b] = [id |-> lastID + 1, offset |-> Settled(n, al),
                       size |-> n, mc |-> base + Settled(n, al), buffer |-> m,
                       ready |-> FALSE]]
    /\ Withdraw(b) /\ At("write", b, 0)
    /\ UNCHANGED <<pte, tlb, window, blocked>>

\* The bus range cannot be used and CompleteDMA failed too: the binding keeps
\* the buffer although it has no pages.  (When it succeeds BOAlloc has no
\* effect; the test is BindRefused.)
BindUnusable(b, m) ==
    /\ MayBind(b) /\ m \notin mapped
    /\ mapped' = mapped \cup {m}
    /\ binding' = [binding EXCEPT ![b].buffer = m]
    /\ Withdraw(b) /\ Fail
    /\ UNCHANGED <<apertureVars, pte, tlb, window>>

\* The test cannot bind: its context stays active and the session blocks.
BindRefused ==
    /\ MayBind(Test) /\ Withdraw(Test) /\ Fail
    /\ UNCHANGED <<apertureVars, binding, pte, tlb, mapped, window>>

\* One entry of gart_bind_range.  A failed readback may have written it.
WriteEntry(ok, written) ==
    LET b == op.b IN
    /\ op.step = "write" /\ (ok => written)
    /\ pte' = IF written
                THEN [pte EXCEPT ![binding[b].offset + op.at] =
                                   [buffer |-> binding[b].buffer, page |-> op.at]]
                ELSE pte
    /\ IF ok THEN /\ IF op.at + 1 < binding[b].size THEN At("write", b, op.at + 1)
                                                   ELSE At("publish", b, 1)
                  /\ UNCHANGED blocked
             ELSE Fail
    /\ UNCHANGED <<apertureVars, binding, tlb, mapped, verified, window>>

-----------------------------------------------------------------------------
(***************************************************************************)
(* gart_unbind.                                                            *)
(***************************************************************************)
\* BOFree, or client Stop: the jobs that used the buffer have retired.
BeginUnbind(b) ==
    /\ op = Idle /\ ~blocked /\ HasPages(b) /\ b \in Objects
    /\ binding' = [binding EXCEPT ![b].ready = FALSE]
    /\ At("clear", b, 0)
    /\ UNCHANGED <<apertureVars, pte, tlb, mapped, verified, window, blocked>>

\* vram_clear_verified: a failure may have cleared any part from the front.
ClearEntries(ok, upto) ==
    LET b == op.b  last == IF ok THEN binding[b].size ELSE upto IN
    /\ op.step = "clear" /\ upto \in 0 .. binding[b].size
    /\ pte' = [p \in Pages |-> IF p \in binding[b].offset .. binding[b].offset + last - 1
                                 THEN NoEntry ELSE pte[p]]
    /\ IF ok THEN At("retract", b, 1) /\ UNCHANGED blocked ELSE Fail
    /\ UNCHANGED <<apertureVars, binding, tlb, mapped, verified, window>>

\* Mutant: does not wait for the invalidation of the last hub.
InvalidateFirst(ok, flushed) ==
    LET b == op.b  h == op.at IN
    /\ op.step \in {"publish", "retract"} /\ (ok => flushed)
    /\ tlb' = IF flushed THEN [tlb EXCEPT ![h] = [p \in Pages |-> NoEntry]] ELSE tlb
    /\ IF ~ok THEN Fail /\ UNCHANGED binding
       ELSE /\ UNCHANGED blocked
            /\ IF op.step = "publish"
                 THEN /\ binding' = [binding EXCEPT ![b].ready = TRUE]
                      /\ IF b = Test THEN At("transfer", b, 0) ELSE op' = Idle
                 ELSE At("complete", b, 0) /\ UNCHANGED binding
    /\ UNCHANGED <<apertureVars, pte, mapped, verified, window>>

\* gart_invalidate of one hub, for a new binding and for one that goes away.
\* A timeout may or may not have dropped the cached entries.
Invalidate(ok, flushed) ==
    LET b == op.b  h == op.at IN
    /\ op.step \in {"publish", "retract"} /\ (ok => flushed)
    /\ tlb' = IF flushed THEN [tlb EXCEPT ![h] = [p \in Pages |-> NoEntry]] ELSE tlb
    /\ IF ~ok THEN Fail /\ UNCHANGED binding
       ELSE /\ UNCHANGED blocked
            /\ IF h < Hubs THEN At(op.step, b, h + 1) /\ UNCHANGED binding
               ELSE IF op.step = "publish"
                 THEN /\ binding' = [binding EXCEPT ![b].ready = TRUE]
                      /\ IF b = Test THEN At("transfer", b, 0) ELSE op' = Idle
                 ELSE At("complete", b, 0) /\ UNCHANGED binding
    /\ UNCHANGED <<apertureVars, pte, mapped, verified, window>>

\* The two copies of memory_transfer_test, and what else may fail in it.
Transfer(ok) ==
    /\ op.step = "transfer"
    /\ IF ok THEN /\ binding' = [binding EXCEPT ![Test].ready = FALSE]
                  /\ At("clear", Test, 0) /\ UNCHANGED blocked
             ELSE Fail /\ UNCHANGED binding
    /\ UNCHANGED <<apertureVars, pte, tlb, mapped, verified, window>>

\* CompleteDMA succeeded: the storage and the reservation are given back.
Complete ==
    LET b == op.b IN
    /\ op.step = "complete"
    /\ mapped' = mapped \ {binding[b].buffer}
    /\ Release(Reservation(b))
    /\ binding' = [binding EXCEPT ![b] = NoBinding]
    /\ verified' = (verified \/ b = Test)
    /\ op' = Idle
    /\ UNCHANGED <<pte, tlb, window, blocked>>

\* CompleteDMA failed: the range stays reserved, the buffer mapped.
CompleteFails ==
    /\ op.step = "complete" /\ Fail
    /\ UNCHANGED <<apertureVars, binding, pte, tlb, mapped, verified, window>>

-----------------------------------------------------------------------------

\* HostWindow: gart_configure_host_window, once per session.  When a hub does
\* not take the new registers the session blocks.
HostWindow(b, ok) ==
    /\ op = Idle /\ ~blocked /\ ~window
    /\ MoveBase(b)
    /\ window' = TRUE /\ verified' = FALSE
    /\ blocked' = ~ok
    /\ UNCHANGED <<binding, pte, tlb, mapped, op>>

\* A hub walks the page table.
Walk(h, p) ==
    /\ pte[p] # NoEntry
    /\ tlb' = [tlb EXCEPT ![h][p] = pte[p]]
    /\ UNCHANGED <<apertureVars, binding, pte, mapped, op, verified, window, blocked>>

\* Any other failure of the session blocks it.
Block ==
    /\ op = Idle /\ ~blocked
    /\ blocked' = TRUE
    /\ UNCHANGED <<apertureVars, binding, pte, tlb, mapped, op, verified, window>>

\* A verified reset isolates the device; gart_release_after_reset releases all
\* storage, and the next bring-up clears the page table and both hubs.
Reset ==
    /\ op = Idle
    /\ Discard
    /\ binding' = [b \in Bindings |-> NoBinding]
    /\ pte' = [p \in Pages |-> NoEntry]
    /\ tlb' = [h \in 1 .. Hubs |-> [p \in Pages |-> NoEntry]]
    /\ mapped' = {}
    /\ verified' = FALSE /\ window' = FALSE /\ blocked' = FALSE
    /\ UNCHANGED op

Next ==
    \/ \E b \in Bindings, n \in Requests, al \in Alignments, m \in Buffers :
          BeginBind(b, n, al, m)
    \/ \E b \in Bindings, m \in Buffers : BindUnusable(b, m)
    \/ BindRefused
    \/ \E ok, done \in BOOLEAN : WriteEntry(ok, done) \/ Invalidate(ok, done)
    \/ \E b \in Objects : BeginUnbind(b)
    \/ \E ok \in BOOLEAN, upto \in 0 .. Size : ClearEntries(ok, upto)
    \/ \E ok \in BOOLEAN : Transfer(ok)
    \/ Complete \/ CompleteFails
    \/ \E b \in Bases, ok \in BOOLEAN : HostWindow(b, ok)
    \/ \E h \in 1 .. Hubs, p \in Pages : Walk(h, p)
    \/ Block
    \/ Reset

Spec == Init /\ [][Next]_vars

-----------------------------------------------------------------------------
Entries == [buffer : Buffers, page : Nat] \cup {NoEntry}

BindingRecords == [id : 0 .. MaxID, offset : 0 .. Size, size : 0 .. Size, mc : Nat,
                   buffer : Buffers \cup {None}, ready : BOOLEAN]
Calls == [step : {"idle", "write", "publish", "clear", "retract", "transfer", "complete"},
          b : Bindings, at : Nat]

TypeOK ==
    /\ ApertureTypeOK
    /\ binding \in [Bindings -> BindingRecords]
    /\ pte \in [Pages -> Entries] /\ tlb \in [1 .. Hubs -> [Pages -> Entries]]
    /\ mapped \subseteq Buffers
    /\ op \in Calls
    /\ verified \in BOOLEAN /\ window \in BOOLEAN /\ blocked \in BOOLEAN

\* An entry at page p that the device may use leads to memory of the binding
\* that holds the reservation of p.
Backed(p, entry) ==
    entry # NoEntry =>
      /\ entry.buffer \in mapped
      /\ \E b \in Bindings :
           /\ HasPages(b) /\ Reservation(b) \in records
           /\ binding[b].buffer = entry.buffer
           /\ p = binding[b].offset + entry.page /\ entry.page < binding[b].size

\* Whatever a hub has cached or may still walk to is memory mapped for DMA and
\* owned by the binding that reserved the page: teardown invalidates the entry
\* and both hubs before it unmaps anything, at every failure.
TranslationsBacked ==
    \A p \in Pages :
      /\ Backed(p, pte[p])
      /\ \A h \in 1 .. Hubs : Backed(p, tlb[h][p])

\* "Successful teardown reclaims the range regardless of allocation order" and
\* failures keep it: reservations are exactly those of the bindings.
ReservationsOwned == records = {Reservation(b) : b \in {c \in Bindings : HasPages(c)}}

\* The address handed to clients for a ready binding leads to its buffer, page
\* by page, on every hub: "live mappings never move".
AddressesTranslate ==
    \A b \in Bindings : binding[b].ready =>
      \A i \in 0 .. binding[b].size - 1 :
        LET p == binding[b].mc + i - base
            entry == [buffer |-> binding[b].buffer, page |-> i] IN
        /\ p \in Pages /\ pte[p] = entry
        /\ \A h \in 1 .. Hubs : tlb[h][p] \in {NoEntry, entry}

\* Reservations, page-table entries, both hubs' caches and the bindings agree at every step of a
\* bind, an unbind and their failures.
MappingsExact ==
    TypeOK /\ TranslationsBacked /\ AddressesTranslate /\ ReservationsDisjoint /\ ReservationsOwned

=============================================================================
