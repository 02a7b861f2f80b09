------------------------ MODULE CommandStreamsProofs -----------------------
(***************************************************************************)
(* FenceInv is an inductive invariant of CommandStreams, for tables,       *)
(* handle fields and fence counters of any size.  The argument:            *)
(*   1. Fence values are never reused between two resets: what a stream,   *)
(*      an indirect buffer or a write-back word holds is at most the       *)
(*      engine's counter (FencesBounded).                                  *)
(*   2. While a submission is pending, the value it expects is the last    *)
(*      one issued and lies above everything latched (ExpectedFresh).      *)
(*   3. Work an engine may execute is that submission's, and its fence     *)
(*      word does not hold the value yet (WorkIsPending); so a poll cannot *)
(*      latch the value before the engine writes it.                       *)
(***************************************************************************)
EXTENDS CommandStreams, TLAPS

StreamStates == [used : BOOLEAN, gen : 0 .. Radix - 1, engine : Engines, written : BOOLEAN,
                 fence : 0 .. MaxFence]
Submissions == [pending : BOOLEAN, engine : Engines, issued : 0 .. MaxFence - 1,
                completed : 0 .. MaxFence - 1, expected : 0 .. MaxFence,
                lastCP : 0 .. MaxFence, completedCP : 0 .. MaxFence]
WorkStates == [engine : Engines \cup {"none"}, fence : 0 .. MaxFence, slot : 0 .. Streams]

\* Fences live in one of two number spaces: the SDMA engines share the submission's counter, the
\* graphics queue has the driver's.
FencesBounded ==
    /\ sub.completed <= sub.issued
    /\ sub.completedCP <= cpFence /\ sub.lastCP <= cpFence /\ wb["GFX"] <= cpFence
    /\ \A i \in CSSlots : cs[i].used => cs[i].fence <= IF cs[i].engine = "GFX" THEN cpFence ELSE sub.issued

\* A pending submission expects a value above all those latched, or, when its fence was not
\* emitted, none at all.
ExpectedFresh ==
    sub.pending =>
        IF sub.engine = "GFX"
        THEN sub.expected <= cpFence /\ (sub.expected # 0 => sub.completedCP < sub.expected)
        ELSE sub.expected = sub.issued /\ sub.completed < sub.expected

\* Work that an engine may execute belongs to the pending submission, is known to the stream or to
\* the record of the last indirect buffer, and has not written its fence.
WorkIsPending ==
    hw # NoWork =>
        /\ sub.pending /\ hw.engine = sub.engine /\ hw.fence = sub.expected /\ hw.fence # 0
        /\ wb[sub.engine] # hw.fence
        /\ hw.slot # Legacy => cs[hw.slot].used /\ cs[hw.slot].fence = hw.fence /\ cs[hw.slot].engine = hw.engine
        /\ hw.slot = Legacy => hw.engine = "GFX" /\ sub.lastCP = hw.fence

FenceInv == TypeOK /\ FencesBounded /\ ExpectedFresh /\ WorkIsPending

\* TypeOK with the record types named.
LEMMA TypesNamed ==
    TypeOK <=> /\ cs \in [CSSlots -> StreamStates]
               /\ csGen \in 0 .. Radix - 1 /\ boGen \in 0 .. MaxBOGen
               /\ bo \in [BOSlots -> 0 .. MaxBOGen]
               /\ sub \in Submissions /\ cpFence \in 0 .. MaxFence
               /\ wb \in [Engines -> 0 .. MaxFence] /\ hw \in WorkStates
BY DEF TypeOK, StreamStates, Submissions, WorkStates

\* The records of an empty table and of an idle device.
LEMMA RestStates ==
    /\ NoStream \in StreamStates /\ NoStream.used = FALSE /\ NoStream.fence = 0
    /\ NoSubmission \in Submissions /\ NoSubmission.pending = FALSE /\ NoSubmission.issued = 0
    /\ NoSubmission.completed = 0 /\ NoSubmission.lastCP = 0 /\ NoSubmission.completedCP = 0
    /\ NoWork \in WorkStates
<1>1. /\ 0 \in 0 .. Radix - 1 /\ 0 \in 0 .. MaxFence - 1 /\ 0 \in 0 .. MaxFence
      /\ Legacy \in 0 .. Streams /\ "SDMA0" \in Engines
  BY StreamAssumption DEF Legacy, Engines
<1> QED BY <1>1 DEF NoStream, NoSubmission, NoWork, StreamStates, Submissions, WorkStates

\* Initially no stream exists and no engine works.
LEMMA FenceInitInv == Init => FenceInv
<1> SUFFICES ASSUME Init PROVE FenceInv
  OBVIOUS
<1>1. /\ 0 \in 0 .. Radix - 1 /\ 0 \in 0 .. MaxBOGen /\ 0 \in 0 .. MaxFence
  BY StreamAssumption
<1>2. TypeOK
  BY <1>1, RestStates, TypesNamed DEF Init
<1>3. FencesBounded /\ ExpectedFresh
  BY RestStates DEF Init, FencesBounded, ExpectedFresh, Engines
<1>4. WorkIsPending
  BY DEF Init, WorkIsPending
<1> QED BY <1>2, <1>3, <1>4 DEF FenceInv

\* While a call is admitted no engine works.
LEMMA IdleMeansNoWork == ASSUME FenceInv, Idle PROVE hw = NoWork
BY DEF FenceInv, WorkIsPending, Idle

\* Calls that change the tables only: an admitted call finds the device idle, and a slot keeps its
\* fence or loses its stream.
LEMMA TableStepInv ==
    ASSUME FenceInv, Idle, cs' \in [CSSlots -> StreamStates], csGen' \in 0 .. Radix - 1,
           boGen' \in 0 .. MaxBOGen, bo' \in [BOSlots -> 0 .. MaxBOGen],
           UNCHANGED <<sub, cpFence, wb, hw>>,
           \A i \in CSSlots : \/ cs'[i].used = FALSE \/ cs'[i].fence = 0
                              \/ cs'[i].used = cs[i].used /\ cs'[i].fence = cs[i].fence /\ cs'[i].engine = cs[i].engine
    PROVE  FenceInv'
<1>1. hw = NoWork
  BY IdleMeansNoWork
<1>2. TypeOK'
  BY TypesNamed DEF FenceInv, TypeOK, StreamStates
<1>3. FencesBounded'
  BY <1>2, StreamAssumption DEF FenceInv, FencesBounded, TypeOK
<1>4. ExpectedFresh' /\ WorkIsPending'
  BY <1>1 DEF FenceInv, ExpectedFresh, WorkIsPending, Idle
<1> QED BY <1>2, <1>3, <1>4 DEF FenceInv

\* CSCreate, CSWriteDwords, CSDestroy, BOAlloc and BOFree change the tables only.
LEMMA TablesInv ==
    ASSUME FenceInv,
           \/ \E e \in Engines : CSCreate(e)
           \/ \E h \in Handles : CSWriteDwords(h) \/ CSDestroy(h)
           \/ BOAlloc
           \/ \E i \in BOSlots : BOFree(i)
    PROVE  FenceInv'
<1>1. /\ cs \in [CSSlots -> StreamStates] /\ csGen \in 0 .. Radix - 1 /\ boGen \in 0 .. MaxBOGen
      /\ bo \in [BOSlots -> 0 .. MaxBOGen]
  BY TypesNamed DEF FenceInv
<1>2. ASSUME NEW e \in Engines, CSCreate(e) PROVE FenceInv'
  <2> DEFINE g == IF (csGen + 1) % Radix = 0 THEN 1 ELSE (csGen + 1) % Radix
             new == [NoStream EXCEPT !.used = TRUE, !.gen = g, !.engine = e]
  <2>1. g \in 0 .. Radix - 1
    BY <1>1, StreamAssumption
  <2>2. PICK i \in CSSlots : cs' = [cs EXCEPT ![i] = new]
    BY <1>2 DEF CSCreate
  <2>3. csGen' = g /\ Idle /\ UNCHANGED <<bo, boGen, sub, cpFence, wb, hw>>
    BY <1>2 DEF CSCreate
  <2> HIDE DEF g
  <2>4. new \in StreamStates /\ new.fence = 0
    BY <2>1, RestStates DEF StreamStates
  <2> HIDE DEF new
  <2>5. /\ cs' \in [CSSlots -> StreamStates]
        /\ \A j \in CSSlots : cs'[j].fence = 0 \/ cs'[j] = cs[j]
    BY <1>1, <2>2, <2>4
  <2> QED BY <1>1, <2>1, <2>3, <2>5, TableStepInv
<1>3. ASSUME NEW h, CSWriteDwords(h) PROVE FenceInv'
  <2>1. PICK i \in CSSlots : cs' = [cs EXCEPT ![i].written = TRUE]
    BY <1>3 DEF CSWriteDwords, CSResolves, CSLookup
  <2>2. Idle /\ UNCHANGED <<csGen, bo, boGen, sub, cpFence, wb, hw>>
    BY <1>3 DEF CSWriteDwords
  <2>3. /\ cs' \in [CSSlots -> StreamStates]
        /\ \A j \in CSSlots : cs'[j].used = cs[j].used /\ cs'[j].fence = cs[j].fence /\ cs'[j].engine = cs[j].engine
    BY <1>1, <2>1 DEF StreamStates
  <2> QED BY <1>1, <2>2, <2>3, TableStepInv
<1>4. ASSUME NEW h, CSDestroy(h) PROVE FenceInv'
  <2>1. PICK i \in CSSlots : cs' = [cs EXCEPT ![i] = [NoStream EXCEPT !.gen = cs[i].gen]]
    BY <1>4 DEF CSDestroy, CSResolves, CSLookup
  <2>2. Idle /\ UNCHANGED <<csGen, bo, boGen, sub, cpFence, wb, hw>>
    BY <1>4 DEF CSDestroy
  <2> DEFINE new == [NoStream EXCEPT !.gen = cs[i].gen]
  <2>3. new \in StreamStates /\ new.fence = 0
    BY <1>1, RestStates DEF StreamStates
  <2>4. cs' = [cs EXCEPT ![i] = new]
    BY <2>1
  <2> HIDE DEF new
  <2>5. /\ cs' \in [CSSlots -> StreamStates]
        /\ \A j \in CSSlots : cs'[j].fence = 0 \/ cs'[j] = cs[j]
    BY <1>1, <2>3, <2>4
  <2> QED BY <1>1, <2>2, <2>5, TableStepInv
<1>5. CASE BOAlloc
  <2>1. bo' \in [BOSlots -> 0 .. MaxBOGen] /\ boGen' \in 0 .. MaxBOGen
    BY <1>1, <1>5, StreamAssumption DEF BOAlloc
  <2> QED BY <1>1, <1>5, <2>1, TableStepInv DEF BOAlloc
<1>6. ASSUME NEW i \in BOSlots, BOFree(i) PROVE FenceInv'
  <2>1. bo' \in [BOSlots -> 0 .. MaxBOGen]
    BY <1>1, <1>6, StreamAssumption DEF BOFree
  <2> QED BY <1>1, <1>6, <2>1, TableStepInv DEF BOFree
<1> QED BY <1>2, <1>3, <1>4, <1>5, <1>6

\* SubmitIB of an SDMA stream: the word is cleared before the next value of the counter is used.
LEMMA SubmitSDMAInv ==
    ASSUME FenceInv, NEW h, NEW kicked \in BOOLEAN, NEW runs \in BOOLEAN, SubmitSDMA(h, kicked, runs)
    PROVE  FenceInv'
<1> DEFINE i == CSLookup(h)
           e == cs[i].engine
           f == sub.issued + 1
<1>1. /\ cs \in [CSSlots -> StreamStates] /\ csGen \in 0 .. Radix - 1 /\ boGen \in 0 .. MaxBOGen
      /\ bo \in [BOSlots -> 0 .. MaxBOGen] /\ sub \in Submissions /\ cpFence \in 0 .. MaxFence
      /\ wb \in [Engines -> 0 .. MaxFence] /\ hw \in WorkStates
  BY TypesNamed DEF FenceInv
<1>2. i \in CSSlots /\ cs[i].used /\ e \in Engines \ {"GFX"} /\ sub.issued < MaxFence - 1 /\ Idle /\ hw = NoWork
  BY <1>1, IdleMeansNoWork DEF SubmitSDMA, CSResolves, CSLookup, StreamStates
<1>3. f \in 0 .. MaxFence - 1 /\ f \in 0 .. MaxFence /\ f # 0
  BY <1>1, <1>2, StreamAssumption DEF Submissions
<1>4. /\ wb' = [wb EXCEPT ![e] = 0] /\ cs' = [cs EXCEPT ![i].fence = f]
      /\ sub' = [sub EXCEPT !.pending = TRUE, !.engine = e, !.issued = f, !.expected = f]
      /\ hw' = IF runs THEN [engine |-> e, fence |-> f, slot |-> i] ELSE hw
      /\ UNCHANGED <<csGen, bo, boGen, cpFence>>
  BY DEF SubmitSDMA
<1>5. i \in 0 .. Streams /\ i # Legacy
  BY <1>2, StreamAssumption DEF CSSlots, Legacy
<1>6. f = sub.issued + 1
  OBVIOUS
<1> HIDE DEF i, f
<1>7. e = cs[i].engine
  OBVIOUS
<1> HIDE DEF e
<1>8. wb' \in [Engines -> 0 .. MaxFence] /\ wb'[e] = 0 /\ wb'["GFX"] = wb["GFX"]
  BY <1>1, <1>2, <1>4, StreamAssumption DEF Engines
<1>9. /\ cs' \in [CSSlots -> StreamStates] /\ cs'[i].fence = f
      /\ \A j \in CSSlots : cs'[j].used = cs[j].used /\ cs'[j].engine = cs[j].engine /\ (j # i => cs'[j].fence = cs[j].fence)
  BY <1>1, <1>2, <1>3, <1>4 DEF StreamStates
<1>10. /\ sub' \in Submissions /\ sub'.pending = TRUE /\ sub'.engine = e /\ sub'.issued = f /\ sub'.expected = f
       /\ sub'.completed = sub.completed /\ sub'.completedCP = sub.completedCP /\ sub'.lastCP = sub.lastCP
  <2>1. e \in Engines
    BY <1>2
  <2> QED BY <1>1, <1>3, <1>4, <2>1 DEF Submissions
<1>11. hw' \in WorkStates /\ (hw' # NoWork => hw' = [engine |-> e, fence |-> f, slot |-> i])
  BY <1>1, <1>2, <1>3, <1>4, <1>5 DEF WorkStates
<1>12. TypeOK'
  BY <1>1, <1>4, <1>8, <1>9, <1>10, <1>11 DEF TypeOK, StreamStates, Submissions, WorkStates
<1>13. FencesBounded'
  <2>1. \A j \in CSSlots : cs'[j].used => cs'[j].fence <= IF cs'[j].engine = "GFX" THEN cpFence' ELSE sub'.issued
    <3> SUFFICES ASSUME NEW j \in CSSlots, cs'[j].used
                 PROVE  cs'[j].fence <= IF cs'[j].engine = "GFX" THEN cpFence' ELSE sub'.issued
      OBVIOUS
    <3>1. CASE j = i
      BY <1>2, <1>3, <1>7, <1>9, <1>10, <3>1
    <3>2. CASE j # i
      BY <1>1, <1>3, <1>4, <1>6, <1>9, <1>10, <3>2 DEF FenceInv, FencesBounded, StreamStates, Submissions
    <3> QED BY <3>1, <3>2
  <2> QED BY <2>1, <1>1, <1>3, <1>4, <1>6, <1>8, <1>10 DEF FenceInv, FencesBounded, Submissions
<1>14. ExpectedFresh'
  BY <1>1, <1>2, <1>3, <1>6, <1>10 DEF FenceInv, FencesBounded, ExpectedFresh, Submissions
<1>15. WorkIsPending'
  BY <1>2, <1>3, <1>5, <1>7, <1>8, <1>9, <1>10, <1>11 DEF WorkIsPending
<1> QED BY <1>12, <1>13, <1>14, <1>15 DEF FenceInv

\* SubmitIB on the graphics queue, of a stream (slot i) or of an indirect buffer (Legacy): the fence
\* that is emitted is the next value of the driver's counter, above what the word can hold.
LEMMA SubmitCPInv ==
    ASSUME FenceInv, NEW i \in CSSlots \cup {Legacy}, NEW counted \in BOOLEAN, NEW emitted \in BOOLEAN,
           NEW runs \in BOOLEAN, BeginCP(emitted, counted), runs => emitted,
           i # Legacy => cs[i].used /\ cs[i].engine = "GFX",
           sub' = [sub EXCEPT !.pending = TRUE, !.engine = "GFX",
                              !.expected = IF emitted THEN cpFence + 1 ELSE 0,
                              !.lastCP = IF emitted /\ i = Legacy THEN cpFence + 1 ELSE sub.lastCP],
           cs' = IF emitted /\ i # Legacy THEN [cs EXCEPT ![i].fence = cpFence + 1] ELSE cs,
           hw' = IF runs THEN [engine |-> "GFX", fence |-> cpFence + 1, slot |-> i] ELSE hw,
           UNCHANGED <<csGen, bo, boGen, wb>>
    PROVE  FenceInv'
<1> DEFINE f == cpFence + 1
           x == IF emitted THEN f ELSE 0
           l == IF emitted /\ i = Legacy THEN f ELSE sub.lastCP
<1>1. /\ cs \in [CSSlots -> StreamStates] /\ csGen \in 0 .. Radix - 1 /\ boGen \in 0 .. MaxBOGen
      /\ bo \in [BOSlots -> 0 .. MaxBOGen] /\ sub \in Submissions /\ cpFence \in 0 .. MaxFence
      /\ wb \in [Engines -> 0 .. MaxFence] /\ hw \in WorkStates
  BY TypesNamed DEF FenceInv
<1>2. /\ Idle /\ hw = NoWork /\ cpFence < MaxFence
      /\ cpFence' = (IF counted THEN f ELSE cpFence) /\ (emitted => counted)
  BY IdleMeansNoWork DEF BeginCP
<1>3. f \in 0 .. MaxFence /\ f > cpFence /\ f # 0
  BY <1>1, <1>2, StreamAssumption
<1>4. cpFence' \in 0 .. MaxFence /\ cpFence <= cpFence' /\ (emitted => cpFence' = f)
  BY <1>1, <1>2, <1>3
<1>5. Legacy \notin CSSlots /\ i \in 0 .. Streams
  BY StreamAssumption DEF CSSlots, Legacy
<1>6. x \in 0 .. MaxFence /\ l \in 0 .. MaxFence /\ x <= cpFence' /\ l <= cpFence'
  <2>1. sub.lastCP \in 0 .. MaxFence /\ sub.lastCP <= cpFence
    BY <1>1 DEF FenceInv, FencesBounded, Submissions
  <2> HIDE DEF f
  <2>2. CASE emitted
    BY <1>1, <1>3, <1>4, <2>1, <2>2
  <2>3. CASE ~emitted
    BY <1>1, <1>4, <2>1, <2>3, StreamAssumption
  <2> QED BY <2>2, <2>3
<1>7. sub' = [sub EXCEPT !.pending = TRUE, !.engine = "GFX", !.expected = x, !.lastCP = l]
  OBVIOUS
<1>8. (emitted => x = f) /\ (~emitted => x = 0) /\ (emitted /\ i = Legacy => l = f)
  OBVIOUS
<1>9. /\ cs' = IF emitted /\ i # Legacy THEN [cs EXCEPT ![i].fence = f] ELSE cs
      /\ hw' = IF runs THEN [engine |-> "GFX", fence |-> f, slot |-> i] ELSE hw
  OBVIOUS
<1> HIDE DEF x, l, f
<1>10. /\ sub' \in Submissions /\ sub'.pending = TRUE /\ sub'.engine = "GFX" /\ sub'.expected = x /\ sub'.lastCP = l
       /\ sub'.issued = sub.issued /\ sub'.completed = sub.completed /\ sub'.completedCP = sub.completedCP
  <2>1. "GFX" \in Engines
    BY DEF Engines
  <2> QED BY <1>1, <1>6, <1>7, <2>1 DEF Submissions
<1>11. /\ cs' \in [CSSlots -> StreamStates]
       /\ \A j \in CSSlots : /\ cs'[j].used = cs[j].used /\ cs'[j].engine = cs[j].engine
                             /\ cs'[j].fence = cs[j].fence \/ (j = i /\ emitted /\ cs'[j].fence = f)
                             /\ j = i /\ emitted => cs'[j].fence = f
  <2>1. CASE emitted /\ i # Legacy
    BY <1>1, <1>3, <1>9, <2>1 DEF StreamStates
  <2>2. CASE ~(emitted /\ i # Legacy)
    BY <1>1, <1>5, <1>9, <2>2
  <2> QED BY <2>1, <2>2
<1>12. hw' \in WorkStates /\ (hw' # NoWork => runs /\ hw' = [engine |-> "GFX", fence |-> f, slot |-> i])
  BY <1>1, <1>2, <1>3, <1>5, <1>9 DEF WorkStates, Engines
<1>13. TypeOK'
  BY <1>1, <1>4, <1>10, <1>11, <1>12 DEF TypeOK, StreamStates, Submissions, WorkStates
<1>14. FencesBounded'
  <2>1. ASSUME NEW j \in CSSlots, cs'[j].used
        PROVE  cs'[j].fence <= IF cs'[j].engine = "GFX" THEN cpFence' ELSE sub'.issued
    <3>1. CASE cs'[j].fence = cs[j].fence
      <4>1. /\ cs[j].fence <= IF cs[j].engine = "GFX" THEN cpFence ELSE sub.issued
            /\ cs[j].fence \in 0 .. MaxFence
        BY <1>1, <1>11, <2>1 DEF FenceInv, FencesBounded, StreamStates
      <4> QED BY <1>1, <1>4, <1>10, <1>11, <3>1, <4>1
    <3>2. CASE j = i /\ emitted /\ cs'[j].fence = f
      BY <1>4, <1>5, <1>3, <1>11, <3>2
    <3> QED BY <1>11, <3>1, <3>2
  <2>2. /\ sub'.completed <= sub'.issued /\ sub'.completedCP <= cpFence' /\ sub'.lastCP <= cpFence'
        /\ wb'["GFX"] <= cpFence'
    <3>1. wb["GFX"] \in 0 .. MaxFence /\ sub.completedCP \in 0 .. MaxFence
      BY <1>1 DEF Engines, Submissions
    <3> QED BY <1>1, <1>4, <1>6, <1>10, <3>1 DEF FenceInv, FencesBounded
  <2> QED BY <2>1, <2>2 DEF FencesBounded
<1>15. ExpectedFresh'
  <2>1. sub.completedCP \in 0 .. MaxFence /\ sub.completedCP <= cpFence
    BY <1>1 DEF FenceInv, FencesBounded, Submissions
  <2>2. x # 0 => sub.completedCP < x
    BY <1>1, <1>3, <1>8, <2>1
  <2> QED BY <1>6, <1>10, <2>2 DEF ExpectedFresh
<1>16. WorkIsPending'
  <2>1. wb["GFX"] # f
    <3>1. wb["GFX"] \in 0 .. MaxFence /\ wb["GFX"] <= cpFence
      BY <1>1 DEF FenceInv, FencesBounded, Engines
    <3> QED BY <1>1, <1>3, <3>1
  <2> QED BY <1>3, <1>5, <1>8, <1>10, <1>11, <1>12, <2>1 DEF WorkIsPending
<1> QED BY <1>13, <1>14, <1>15, <1>16 DEF FenceInv

\* Both forms of SubmitIB on the graphics queue.
LEMMA SubmitGraphicsInv ==
    ASSUME FenceInv, NEW h, NEW counted \in BOOLEAN, NEW emitted \in BOOLEAN, NEW runs \in BOOLEAN,
           SubmitGFX(h, counted, emitted, runs) \/ SubmitLegacy(h, counted, emitted, runs)
    PROVE  FenceInv'
<1>1. Legacy \notin CSSlots /\ sub \in Submissions
  BY StreamAssumption, TypesNamed DEF CSSlots, Legacy, FenceInv
<1>2. CASE SubmitGFX(h, counted, emitted, runs)
  <2> DEFINE i == CSLookup(h)
  <2>1. i \in CSSlots /\ cs[i].used /\ cs[i].engine = "GFX" /\ i # Legacy
    BY <1>1, <1>2 DEF SubmitGFX, CSResolves, CSLookup
  <2>2. sub' = [sub EXCEPT !.pending = TRUE, !.engine = "GFX",
                           !.expected = IF emitted THEN cpFence + 1 ELSE 0,
                           !.lastCP = IF emitted /\ i = Legacy THEN cpFence + 1 ELSE sub.lastCP]
    <3>1. sub' = [sub EXCEPT !.pending = TRUE, !.engine = "GFX", !.expected = IF emitted THEN cpFence + 1 ELSE 0]
      BY <1>2 DEF SubmitGFX
    <3> QED BY <1>1, <2>1, <3>1 DEF Submissions
  <2>3. /\ BeginCP(emitted, counted) /\ (runs => emitted)
        /\ cs' = IF emitted /\ i # Legacy THEN [cs EXCEPT ![i].fence = cpFence + 1] ELSE cs
        /\ hw' = IF runs THEN [engine |-> "GFX", fence |-> cpFence + 1, slot |-> i] ELSE hw
        /\ UNCHANGED <<csGen, bo, boGen, wb>>
    BY <1>2, <2>1 DEF SubmitGFX
  <2> HIDE DEF i
  <2> QED BY <2>1, <2>2, <2>3, SubmitCPInv
<1>3. CASE SubmitLegacy(h, counted, emitted, runs)
  <2> DEFINE i == Legacy
  <2>1. i \in CSSlots \cup {Legacy} /\ i = Legacy
    OBVIOUS
  <2>2. sub' = [sub EXCEPT !.pending = TRUE, !.engine = "GFX",
                           !.expected = IF emitted THEN cpFence + 1 ELSE 0,
                           !.lastCP = IF emitted /\ i = Legacy THEN cpFence + 1 ELSE sub.lastCP]
    BY <1>3 DEF SubmitLegacy
  <2>3. /\ BeginCP(emitted, counted) /\ (runs => emitted)
        /\ cs' = IF emitted /\ i # Legacy THEN [cs EXCEPT ![i].fence = cpFence + 1] ELSE cs
        /\ hw' = IF runs THEN [engine |-> "GFX", fence |-> cpFence + 1, slot |-> i] ELSE hw
        /\ UNCHANGED <<csGen, bo, boGen, wb>>
    BY <1>3 DEF SubmitLegacy
  <2> HIDE DEF i
  <2> QED BY <2>1, <2>2, <2>3, SubmitCPInv
<1> QED BY <1>2, <1>3

\* poll() latches the expected value, which only finished work can have written.
LEMMA PollInv ==
    ASSUME FenceInv, Poll
    PROVE  /\ FenceInv' /\ sub.completed <= sub'.completed /\ sub.completedCP <= sub'.completedCP
<1>1. sub \in Submissions /\ cpFence \in 0 .. MaxFence
  BY TypesNamed DEF FenceInv
<1>2. sub.pending /\ sub.expected # 0 /\ wb[sub.engine] = sub.expected
  BY DEF Poll, Polled
<1>3. hw = NoWork
  BY <1>2 DEF FenceInv, WorkIsPending
<1>4. UNCHANGED <<cs, csGen, bo, boGen, cpFence, wb, hw>>
  BY DEF Poll
<1>5. CASE sub.engine = "GFX"
  <2>1. sub' = [sub EXCEPT !.pending = FALSE, !.completedCP = sub.expected]
    BY <1>2, <1>5 DEF Poll, Polled
  <2>2. /\ sub' \in Submissions /\ sub'.pending = FALSE /\ sub'.completedCP = sub.expected
        /\ sub'.issued = sub.issued /\ sub'.completed = sub.completed /\ sub'.lastCP = sub.lastCP
    BY <1>1, <2>1 DEF Submissions
  <2>3. sub.expected <= cpFence /\ sub.completedCP < sub.expected
    BY <1>2, <1>5 DEF FenceInv, ExpectedFresh
  <2>4. TypeOK'
    BY <1>4, <2>2, TypesNamed DEF FenceInv, TypeOK, Submissions
  <2>5. FencesBounded' /\ ExpectedFresh' /\ WorkIsPending'
    BY <1>3, <1>4, <2>2, <2>3 DEF FenceInv, FencesBounded, ExpectedFresh, WorkIsPending
  <2>6. sub.completed <= sub'.completed /\ sub.completedCP <= sub'.completedCP
    BY <1>1, <2>2, <2>3 DEF Submissions
  <2> QED BY <2>4, <2>5, <2>6 DEF FenceInv
<1>6. CASE sub.engine # "GFX"
  <2>1. sub' = [sub EXCEPT !.pending = FALSE, !.completed = sub.expected]
    BY <1>2, <1>6 DEF Poll, Polled
  <2>2. sub.expected = sub.issued /\ sub.completed < sub.expected
    BY <1>2, <1>6 DEF FenceInv, ExpectedFresh
  <2>3. sub.expected \in 0 .. MaxFence - 1
    BY <1>1, <2>2 DEF Submissions
  <2>4. /\ sub' \in Submissions /\ sub'.pending = FALSE /\ sub'.completed = sub.expected
        /\ sub'.issued = sub.issued /\ sub'.completedCP = sub.completedCP /\ sub'.lastCP = sub.lastCP
    BY <1>1, <2>1, <2>3 DEF Submissions
  <2>5. TypeOK'
    BY <1>4, <2>4, TypesNamed DEF FenceInv, TypeOK, Submissions
  <2>6. sub'.completed <= sub'.issued
    BY <2>2, <2>3, <2>4
  <2>7. FencesBounded' /\ ExpectedFresh' /\ WorkIsPending'
    BY <1>3, <1>4, <2>4, <2>6 DEF FenceInv, FencesBounded, ExpectedFresh, WorkIsPending
  <2>8. sub.completed <= sub'.completed /\ sub.completedCP <= sub'.completedCP
    BY <1>1, <2>2, <2>4 DEF Submissions
  <2> QED BY <2>5, <2>7, <2>8 DEF FenceInv
<1> QED BY <1>5, <1>6

\* Every step keeps the invariant.
LEMMA FenceNextInv == FenceInv /\ [Next]_vars => FenceInv'
<1> SUFFICES ASSUME FenceInv, [Next]_vars PROVE FenceInv'
  OBVIOUS
<1>1. /\ cs \in [CSSlots -> StreamStates] /\ csGen \in 0 .. Radix - 1 /\ boGen \in 0 .. MaxBOGen
      /\ bo \in [BOSlots -> 0 .. MaxBOGen] /\ sub \in Submissions /\ cpFence \in 0 .. MaxFence
      /\ wb \in [Engines -> 0 .. MaxFence] /\ hw \in WorkStates
  BY TypesNamed DEF FenceInv
<1>2. CASE EngineDone
  <2>1. hw # NoWork /\ hw' = NoWork /\ UNCHANGED <<cs, csGen, bo, boGen, sub, cpFence>>
        /\ wb' = [wb EXCEPT ![hw.engine] = hw.fence]
    BY <1>2 DEF EngineDone
  <2>2. sub.pending /\ hw.engine = sub.engine /\ hw.fence = sub.expected
    BY <2>1 DEF FenceInv, WorkIsPending
  <2>3. sub.engine \in Engines /\ hw.fence \in 0 .. MaxFence
    BY <1>1 DEF Submissions, WorkStates
  <2>4. wb' \in [Engines -> 0 .. MaxFence] /\ (wb'["GFX"] = wb["GFX"] \/ (sub.engine = "GFX" /\ wb'["GFX"] = sub.expected))
    BY <1>1, <2>1, <2>2, <2>3 DEF Engines
  <2>5. TypeOK'
    BY <1>1, <2>1, <2>4, RestStates DEF TypeOK, StreamStates, Submissions, WorkStates
  <2>6. wb'["GFX"] <= cpFence
    BY <2>2, <2>4 DEF FenceInv, FencesBounded, ExpectedFresh
  <2>7. FencesBounded' /\ ExpectedFresh' /\ WorkIsPending'
    BY <2>1, <2>6 DEF FenceInv, FencesBounded, ExpectedFresh, WorkIsPending
  <2> QED BY <2>5, <2>7 DEF FenceInv
<1>3. CASE CPSelfTest
  <2>1. /\ Idle /\ cpFence < MaxFence /\ cpFence' = cpFence + 1 /\ wb' = [wb EXCEPT !["GFX"] = cpFence + 1]
        /\ UNCHANGED <<cs, csGen, bo, boGen, sub, hw>>
    BY <1>3 DEF CPSelfTest
  <2>2. cpFence' \in 0 .. MaxFence /\ cpFence <= cpFence'
    BY <1>1, <2>1, StreamAssumption
  <2>3. wb' \in [Engines -> 0 .. MaxFence] /\ wb'["GFX"] = cpFence'
    BY <1>1, <2>1, <2>2 DEF Engines
  <2>4. TypeOK'
    BY <1>1, <2>1, <2>2, <2>3 DEF TypeOK, StreamStates, Submissions, WorkStates
  <2>5. \A i \in CSSlots : cs[i].used => cs[i].fence <= IF cs[i].engine = "GFX" THEN cpFence' ELSE sub.issued
    BY <1>1, <2>2 DEF FenceInv, FencesBounded, StreamStates
  <2>6. FencesBounded'
    BY <1>1, <2>1, <2>2, <2>3, <2>5 DEF FenceInv, FencesBounded, Submissions
  <2>7. ExpectedFresh' /\ WorkIsPending'
    BY <2>1, IdleMeansNoWork DEF ExpectedFresh, WorkIsPending, Idle
  <2> QED BY <2>4, <2>6, <2>7 DEF FenceInv
<1>4. CASE ShutdownGPU
  <2>1. /\ sub' = NoSubmission /\ hw' = NoWork /\ cpFence' = 0 /\ wb' = [e \in Engines |-> 0]
        /\ cs' = [i \in CSSlots |-> [NoStream EXCEPT !.gen = cs[i].gen]]
        /\ bo' = [i \in BOSlots |-> 0] /\ UNCHANGED <<csGen, boGen>>
    BY <1>4 DEF ShutdownGPU
  <2>2. \A i \in CSSlots : cs'[i] \in StreamStates /\ cs'[i].used = FALSE
    BY <1>1, <2>1, RestStates DEF StreamStates
  <2>3. cs' \in [CSSlots -> StreamStates] /\ bo' \in [BOSlots -> 0 .. MaxBOGen]
        /\ wb' \in [Engines -> 0 .. MaxFence] /\ wb'["GFX"] = 0 /\ cpFence' \in 0 .. MaxFence
    BY <2>1, <2>2, StreamAssumption DEF Engines
  <2>4. TypeOK'
    BY <1>1, <2>1, <2>3, RestStates DEF TypeOK, StreamStates, Submissions, WorkStates
  <2>5. FencesBounded' /\ ExpectedFresh' /\ WorkIsPending'
    BY <2>1, <2>2, <2>3, RestStates DEF FencesBounded, ExpectedFresh, WorkIsPending
  <2> QED BY <2>4, <2>5 DEF FenceInv
<1>5. CASE UNCHANGED vars
  BY <1>5 DEF vars, FenceInv, TypeOK, FencesBounded, ExpectedFresh, WorkIsPending
<1> QED
  BY <1>2, <1>3, <1>4, <1>5, TablesInv, SubmitSDMAInv, SubmitGraphicsInv, PollInv DEF Next

\* The invariant holds in every behaviour of the command streams.
THEOREM FencesSafe == Spec => []FenceInv
<1>1. Init => FenceInv
  BY FenceInitInv
<1>2. FenceInv /\ [Next]_vars => FenceInv'
  BY FenceNextInv
<1> QED
  BY <1>1, <1>2, PTL DEF Spec

\* WaitFence never reports work an engine may still execute, for streams and indirect buffers, with
\* failed kicks, fences that were not emitted and counters that restart (SubmitIB, WaitFence,
\* ClientSubmission); and such work holds every other call off.
THEOREM CompletionsHonest == Spec => []CompletionHonest
<1>1. ASSUME FenceInv PROVE CompletionHonest
  <2>1. TypeOK /\ HeldWhileRunning
    BY <1>1 DEF FenceInv, WorkIsPending, HeldWhileRunning
  <2>2. ASSUME hw # NoWork
        PROVE  /\ hw.slot \in CSSlots => cs[hw.slot].used /\ ~Signalled(hw.slot)
               /\ hw.slot = Legacy => sub.lastCP > sub.completedCP
    <3>1. /\ sub.pending /\ hw.engine = sub.engine /\ hw.fence = sub.expected /\ hw.fence # 0
          /\ hw.slot # Legacy => cs[hw.slot].used /\ cs[hw.slot].fence = hw.fence /\ cs[hw.slot].engine = hw.engine
          /\ hw.slot = Legacy => hw.engine = "GFX" /\ sub.lastCP = hw.fence
      BY <1>1, <2>2 DEF FenceInv, WorkIsPending
    <3>2. IF sub.engine = "GFX" THEN sub.completedCP < sub.expected ELSE sub.completed < sub.expected
      BY <1>1, <3>1 DEF FenceInv, ExpectedFresh
    <3>3. /\ sub.completedCP \in Nat /\ sub.completed \in Nat /\ sub.expected \in Nat
      BY <2>1 DEF TypeOK
    <3>4. Legacy \notin CSSlots
      BY StreamAssumption DEF CSSlots, Legacy
    <3> QED BY <3>1, <3>2, <3>3, <3>4 DEF Signalled
  <2> QED BY <2>1, <2>2 DEF CompletionHonest, SignalledIsDone
<1> QED
  BY <1>1, FencesSafe, PTL

\* A step other than a reset never lowers what has been latched, and never gives a stream in use
\* another engine.
LEMMA LatchesGrow ==
    ASSUME FenceInv, Next
    PROVE  \/ /\ sub.completed <= sub'.completed /\ sub.completedCP <= sub'.completedCP
              /\ \A i \in CSSlots : cs[i].used /\ cs'[i].used => cs'[i].engine = cs[i].engine
           \/ \A i \in CSSlots : cs'[i].used = FALSE
<1>1. cs \in [CSSlots -> StreamStates] /\ sub \in Submissions
  BY TypesNamed DEF FenceInv
<1>2. sub.completed <= sub.completed /\ sub.completedCP <= sub.completedCP
  BY <1>1 DEF Submissions
<1>3. ASSUME NEW e \in Engines, CSCreate(e)
      PROVE  UNCHANGED sub /\ \A i \in CSSlots : cs[i].used /\ cs'[i].used => cs'[i].engine = cs[i].engine
  BY <1>1, <1>3 DEF CSCreate
<1>4. ASSUME NEW h, CSWriteDwords(h)
      PROVE  UNCHANGED sub /\ \A i \in CSSlots : cs'[i].engine = cs[i].engine
  BY <1>1, <1>4 DEF CSWriteDwords, StreamStates
<1>5. ASSUME NEW h, CSDestroy(h)
      PROVE  UNCHANGED sub /\ \A i \in CSSlots : cs[i].used /\ cs'[i].used => cs'[i].engine = cs[i].engine
  <2>1. PICK i \in CSSlots : cs' = [cs EXCEPT ![i] = [NoStream EXCEPT !.gen = cs[i].gen]]
    BY <1>5 DEF CSDestroy, CSResolves, CSLookup
  <2>2. cs'[i].used = FALSE /\ \A j \in CSSlots : j # i => cs'[j] = cs[j]
    BY <1>1, <2>1, RestStates DEF StreamStates
  <2> QED BY <1>5, <2>2 DEF CSDestroy
<1>6. ASSUME NEW h, NEW kicked, NEW runs, SubmitSDMA(h, kicked, runs)
      PROVE  /\ sub'.completed = sub.completed /\ sub'.completedCP = sub.completedCP
             /\ \A i \in CSSlots : cs'[i].engine = cs[i].engine
  BY <1>1, <1>6 DEF SubmitSDMA, Submissions, StreamStates
<1>7. ASSUME NEW h, NEW counted, NEW emitted, NEW runs,
             SubmitGFX(h, counted, emitted, runs) \/ SubmitLegacy(h, counted, emitted, runs)
      PROVE  /\ sub'.completed = sub.completed /\ sub'.completedCP = sub.completedCP
             /\ \A i \in CSSlots : cs'[i].engine = cs[i].engine
  <2>1. CASE SubmitGFX(h, counted, emitted, runs)
    <3>1. sub'.completed = sub.completed /\ sub'.completedCP = sub.completedCP
      BY <1>1, <2>1 DEF SubmitGFX, Submissions
    <3>2. cs' = cs \/ cs' = [cs EXCEPT ![CSLookup(h)].fence = cpFence + 1]
      BY <2>1 DEF SubmitGFX
    <3> QED BY <1>1, <3>1, <3>2 DEF StreamStates
  <2>2. CASE SubmitLegacy(h, counted, emitted, runs)
    <3>1. sub'.completed = sub.completed /\ sub'.completedCP = sub.completedCP
      BY <1>1, <2>2 DEF SubmitLegacy, Submissions
    <3> QED BY <2>2, <3>1 DEF SubmitLegacy
  <2> QED BY <1>7, <2>1, <2>2
<1>8. CASE Poll
  BY <1>8, PollInv DEF Poll
<1>9. CASE ShutdownGPU
  BY <1>9, RestStates DEF ShutdownGPU, StreamStates
<1>10. CASE BOAlloc \/ (\E i \in BOSlots : BOFree(i)) \/ EngineDone \/ CPSelfTest
  BY <1>2, <1>10 DEF BOAlloc, BOFree, EngineDone, CPSelfTest
<1>11. CASE \E e \in Engines : CSCreate(e)
  BY <1>2, <1>3, <1>11
<1>12. CASE \E h \in Handles : CSWriteDwords(h) \/ CSDestroy(h)
  BY <1>2, <1>4, <1>5, <1>12
<1>13. CASE \E h \in Handles, kicked, runs \in BOOLEAN : SubmitSDMA(h, kicked, runs)
  BY <1>2, <1>6, <1>13
<1>14. CASE \E h \in Handles, counted, emitted, runs \in BOOLEAN :
               SubmitGFX(h, counted, emitted, runs) \/ SubmitLegacy(h, counted, emitted, runs)
  BY <1>2, <1>7, <1>14
<1> QED
  BY <1>8, <1>9, <1>10, <1>11, <1>12, <1>13, <1>14 DEF Next

\* A stream's completion, once WaitFence would report it, stays reported until the stream is
\* submitted again or destroyed, whatever is submitted on the same engine later.
THEOREM ResultsStay == Spec => ResultsLatched
<1>1. ASSUME FenceInv, [Next]_vars
      PROVE  [\A i \in CSSlots : Signalled(i) /\ cs[i].used /\ cs'[i].used /\ cs'[i].fence = cs[i].fence
                                   => Signalled(i)']_vars
  <2>1. CASE UNCHANGED vars
    BY <2>1
  <2>2. CASE Next
    <3> SUFFICES ASSUME NEW i \in CSSlots, Signalled(i), cs[i].used, cs'[i].used, cs'[i].fence = cs[i].fence
                 PROVE  Signalled(i)'
      OBVIOUS
    <3>1. /\ sub.completed <= sub'.completed /\ sub.completedCP <= sub'.completedCP
          /\ cs'[i].engine = cs[i].engine
      BY <1>1, <2>2, LatchesGrow
    <3>2. FenceInv'
      BY <1>1, FenceNextInv
    <3>3. /\ sub.completed \in Nat /\ sub.completedCP \in Nat /\ cs[i].fence \in Nat
          /\ sub'.completed \in Nat /\ sub'.completedCP \in Nat
      BY <1>1, <3>2 DEF FenceInv, TypeOK
    <3> QED BY <3>1, <3>3 DEF Signalled
  <2> QED BY <1>1, <2>1, <2>2
<1> QED
  BY <1>1, FencesSafe, PTL DEF Spec, ResultsLatched
=============================================================================
