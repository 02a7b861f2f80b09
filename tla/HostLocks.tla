----------------------------- MODULE HostLocks -----------------------------
(***************************************************************************)
(* hsa_amd_memory_lock and _unlock (hsa/src/host_services.cpp).  mlock     *)
(* does not nest, so the runtime counts how many locked ranges cover each  *)
(* page; a lock that fails half way must undo only the pages it locked     *)
(* itself.  Both calls run under runtimeMutex.                             *)
(***************************************************************************)
EXTENDS Naturals, Sequences, FiniteSets

CONSTANTS HostPages,   \* page numbers
          MaxRanges    \* bound on ranges locked at one time

ASSUME LocksAssumption == HostPages \subseteq Nat /\ IsFiniteSet(HostPages) /\ MaxRanges \in Nat

VARIABLES lockedPages,   \* page -> number of ranges, the map's absent entries as 0
          lockedRanges,  \* first page -> sequence of last pages, latest last
          wired          \* pages the operating system keeps locked

lockVars == <<lockedPages, lockedRanges, wired>>

LocksInit ==
    /\ lockedPages = [p \in HostPages |-> 0]
    /\ lockedRanges = [p \in HostPages |-> <<>>]
    /\ wired = {}

PageRanges == {r \in HostPages \X HostPages : r[1] <= r[2]}
PagesOf(r) == {p \in HostPages : r[1] <= p /\ p <= r[2]}
RangesHeld == {x \in HostPages \X (1 .. MaxRanges) : x[2] <= Len(lockedRanges[x[1]])}

\* lockHost when every mlock succeeds: the edited copies of both maps replace them.
LockHost(r) ==
    /\ Cardinality(RangesHeld) < MaxRanges
    /\ lockedPages' = [p \in HostPages |-> lockedPages[p] + (IF p \in PagesOf(r) THEN 1 ELSE 0)]
    /\ lockedRanges' = [lockedRanges EXCEPT ![r[1]] = Append(@, r[2])]
    /\ wired' = wired \union PagesOf(r)

\* Mutant: the undo forgets that another range may hold the page.
LockHostFailsUndoAll(r, stuck) ==
    /\ stuck \in PagesOf(r) /\ lockedPages[stuck] = 0
    /\ wired' = wired \ {p \in PagesOf(r) : p < stuck}
    /\ UNCHANGED <<lockedPages, lockedRanges>>

\* lockHost when mlock refuses a page: pages below it that this call locked are unlocked again.
LockHostFails(r, stuck) ==
    /\ stuck \in PagesOf(r) /\ lockedPages[stuck] = 0
    /\ LET own == {p \in PagesOf(r) : p < stuck /\ lockedPages[p] = 0}
       IN  wired' = (wired \union own) \ own
    /\ UNCHANGED <<lockedPages, lockedRanges>>

\* hsa_amd_memory_unlock: the latest range of that address; a page goes with its last range.
Unlock(b) ==
    /\ lockedRanges[b] # <<>>
    /\ LET covered == PagesOf(<<b, lockedRanges[b][Len(lockedRanges[b])]>>)
       IN  /\ lockedPages' = [p \in HostPages |-> lockedPages[p] - (IF p \in covered THEN 1 ELSE 0)]
           /\ wired' = wired \ {p \in covered : lockedPages[p] = 1}
    /\ lockedRanges' = [lockedRanges EXCEPT ![b] = SubSeq(@, 1, Len(@) - 1)]

\* clearHostLocks at the end of a session.
ClearHostLocks ==
    /\ wired # {}
    /\ wired' = wired \ {p \in HostPages : lockedPages[p] > 0}
    /\ lockedPages' = [p \in HostPages |-> 0]
    /\ lockedRanges' = [p \in HostPages |-> <<>>]

LocksNext ==
    \/ \E r \in PageRanges : LockHost(r) \/ \E stuck \in HostPages : LockHostFails(r, stuck)
    \/ \E b \in HostPages : Unlock(b)
    \/ ClearHostLocks

LocksSpec == LocksInit /\ [][LocksNext]_lockVars

\* A page is wired in the operating system exactly while some locked range covers it: no overlap,
\* partial failure, unlock order or session end leaves a page wired for nobody, or unwires one that
\* another range still needs.
WiredExactly ==
    \A p \in HostPages :
        LET covering == {x \in RangesHeld : p \in PagesOf(<<x[1], lockedRanges[x[1]][x[2]]>>)}
        IN  /\ lockedPages[p] = Cardinality(covering)
            /\ p \in wired <=> covering # {}

====
