---------------------------- MODULE Executables ----------------------------
(***************************************************************************)
(* Executables of the HSA runtime (hsa/src/executable.cpp): code objects   *)
(* are loaded into GPU storage, published with their symbols, dispatched,  *)
(* traversed by tools and destroyed, by several threads and across         *)
(* sessions (hsa_init .. hsa_shut_down).                                   *)
(*                                                                         *)
(* The lifecycle mutex is held through every operation but the loader's    *)
(* address queries, hsa_init and the tail of hsa_shut_down; the runtime    *)
(* mutex only for single steps.  The lifecycle mutex is recursive: the     *)
(* callback of a traversal runs under it and may make any other call.  An  *)
(* image has one kernel; handles are never reused.                         *)
(* The GPU's instruction cache is external: it keeps code it has run       *)
(* until it is invalidated.                                                *)
(***************************************************************************)
EXTENDS Naturals, Sequences, FiniteSets

CONSTANTS Threads,      \* threads of the application
          Execs,        \* executables it may create
          Images,       \* images it may load
          Agents,       \* GPUs
          Addresses,    \* where the driver may place an image, on each GPU
          KernelNames,  \* kernel names a code object may define
          MaxEpochs   \* bound on hsa_init calls

\* No thread is the mutex's "nobody", no executable has the null handle or is the table of them.
ASSUME ExecutablesAssumption == "none" \notin Threads /\ "none" \notin Execs /\ "table" \notin Execs

VARIABLES epoch,    \* sessions begun so far, and whether one is open
          lifecycle,  \* executableLifecycleMutex: its holder, or "none"
          exec,       \* executables and their frozen flag
          image,      \* what each image is
          loaded,     \* loadedImages and executableSymbols: the published images
          storage,    \* images whose buffer the driver holds for the process
          memory,     \* GPU address -> image last written there
          icache,     \* GPU address -> image whose code the GPU may have cached
          thread,     \* what each thread is doing, and the images it is releasing
          traversals  \* traversals the mutex's holder is in the callback of

execVars == <<epoch, lifecycle, exec, image, loaded, storage, memory, icache, thread, traversals>>

NoImage == "none"
AtRest == [at |-> "idle", img |-> NoImage, drops |-> {}]
NoCode == [exec |-> "none", agent |-> "none", address |-> 0, name |-> "none"]

ExecutablesInit ==
    /\ epoch = [count |-> 0, open |-> FALSE] /\ lifecycle = "none"
    /\ exec = [e \in Execs |-> "unused"]
    /\ image = [i \in Images |-> NoCode]
    /\ loaded = {} /\ storage = {}
    /\ memory = [l \in Agents \X Addresses |-> NoImage]
    /\ icache = [l \in Agents \X Addresses |-> NoImage]
    /\ thread = [t \in Threads |-> AtRest]
    /\ traversals = [of |-> <<>>, seen |-> {}, held |-> {}]

Place(i) == <<image[i].agent, image[i].address>>
ImagesOf(e) == {i \in loaded : image[i].exec = e}

\* What is being traversed, innermost first: executables, and "table" for all of them.  The images
\* they began with are `seen`; `held` are images whose executable a traversal keeps from going.
Elements(s) == {s[k] : k \in DOMAIN s}
Traversed == Elements(traversals.of)

\* A call takes the mutex when it is free, or again when a traversal of the same thread has it.
Enters(t) == thread[t].at = "idle" /\ lifecycle \in {"none", t} /\ epoch.open

\* The mutex after a call, given the traversals its holder is then in.
Unlocked(t, of) == IF of = <<>> THEN "none" ELSE t

\* The call ends: the images in d are released first, then the lifecycle mutex is given back.
Leaves(t, d, of) ==
    /\ lifecycle' = IF d = {} THEN Unlocked(t, of) ELSE t
    /\ thread' = [thread EXCEPT ![t] = [AtRest EXCEPT !.at = IF d = {} THEN "idle" ELSE "release", !.drops = d]]

-----------------------------------------------------------------------------
(* Sessions                                                                *)

RuntimeInit(t) ==
    /\ thread[t].at = "idle" /\ ~epoch.open /\ epoch.count < MaxEpochs
    /\ epoch' = [count |-> epoch.count + 1, open |-> TRUE]
    /\ UNCHANGED <<lifecycle, exec, image, loaded, storage, memory, icache, thread, traversals>>

\* The images d leave the tables: a traversal's reference keeps those of its executables.
Retained(d) == {i \in d : image[i].exec \in Traversed}
Keeps(d) == traversals' = [traversals EXCEPT !.held = @ \cup Retained(d)]

\* hsa_shut_down, last reference: every table is emptied under the mutexes; the executables that
\* were in them are destroyed when the call returns, after the mutex.  A callback that empties the table it is
\* called from leaves the traversal without defined behaviour.
RuntimeShutDown(t) ==
    /\ Enters(t) /\ "table" \notin Traversed
    /\ epoch' = [epoch EXCEPT !.open = FALSE]
    /\ exec' = [e \in Execs |-> IF exec[e] = "unused" THEN "unused" ELSE "gone"]
    /\ loaded' = {}
    /\ Keeps(loaded)
    /\ lifecycle' = Unlocked(t, traversals.of)
    /\ thread' = [thread EXCEPT ![t] = [AtRest EXCEPT !.at = "release", !.drops = loaded \ Retained(loaded)]]
    /\ UNCHANGED <<image, storage, memory, icache>>

-----------------------------------------------------------------------------
(* Executables                                                             *)

\* hsa_executable_create_alt and hsa_executable_freeze.  The callback of hsa_ven_amd_loader_-
\* iterate_executables may not create or destroy executables (hsa_ven_amd_loader.h).
CreateExecutable(t) ==
    /\ Enters(t) /\ "table" \notin Traversed
    /\ \E e \in Execs : exec[e] = "unused" /\ exec' = [exec EXCEPT ![e] = "open"]
    /\ UNCHANGED <<epoch, lifecycle, image, loaded, storage, memory, icache, thread, traversals>>

Freeze(t) ==
    /\ Enters(t)
    /\ \E e \in Execs : exec[e] = "open" /\ exec' = [exec EXCEPT ![e] = "frozen"]
    /\ UNCHANGED <<epoch, lifecycle, image, loaded, storage, memory, icache, thread, traversals>>

\* Mutant: a destroyed executable releases its images whoever still refers to it.
DestroyAtOnce(t) ==
    /\ Enters(t) /\ "table" \notin Traversed
    /\ \E e \in Execs :
        /\ exec[e] \in {"open", "frozen"}
        /\ exec' = [exec EXCEPT ![e] = "gone"]
        /\ loaded' = loaded \ ImagesOf(e)
        /\ Leaves(t, ImagesOf(e), traversals.of)
    /\ UNCHANGED <<epoch, image, storage, memory, icache, traversals>>

\* hsa_executable_destroy: handle, symbols and images leave the tables under the runtime mutex;
\* the last reference to each image frees its buffer afterwards, still inside the call, or when
\* the traversal that holds the executable ends.
Destroy(t) ==
    /\ Enters(t) /\ "table" \notin Traversed
    /\ \E e \in Execs :
        /\ exec[e] \in {"open", "frozen"}
        /\ exec' = [exec EXCEPT ![e] = "gone"]
        /\ loaded' = loaded \ ImagesOf(e)
        /\ Keeps(ImagesOf(e))
        /\ Leaves(t, ImagesOf(e) \ Retained(ImagesOf(e)), traversals.of)
    /\ UNCHANGED <<epoch, image, storage, memory, icache>>

\* ~LoadedImage, and the end of the call that dropped the images.
ReleaseImages(t) ==
    /\ thread[t].at = "release"
    /\ storage' = storage \ thread[t].drops
    /\ thread' = [thread EXCEPT ![t] = AtRest]
    /\ lifecycle' = IF lifecycle = t THEN Unlocked(t, traversals.of) ELSE lifecycle
    /\ UNCHANGED <<epoch, exec, image, loaded, memory, icache, traversals>>

-----------------------------------------------------------------------------
(* hsa_executable_load_agent_code_object                                   *)

\* The handles are looked up; the executable is not frozen; the code object parses, and no kernel
\* of the executable on this agent has its kernel's name.
LoadBegin(t) ==
    /\ Enters(t)
    /\ \E e \in Execs, g \in Agents, n \in KernelNames, i \in Images :
        /\ exec[e] = "open" /\ image[i] = NoCode
        /\ \A j \in ImagesOf(e) : ~(image[j].agent = g /\ image[j].name = n)
        /\ image' = [image EXCEPT ![i] = [exec |-> e, agent |-> g, address |-> 0, name |-> n]]
        /\ thread' = [thread EXCEPT ![t] = [AtRest EXCEPT !.at = "allocate", !.img = i]]
    /\ lifecycle' = t
    /\ UNCHANGED <<epoch, exec, loaded, storage, memory, icache, traversals>>

\* The buffer: any place of that GPU that the process does not hold, or none.
LoadAllocate(t) ==
    /\ thread[t].at = "allocate"
    /\ LET i == thread[t].img
       IN  \/ \E a \in Addresses :
                  /\ \A j \in storage : Place(j) # <<image[i].agent, a>>
                  /\ image' = [image EXCEPT ![i].address = a]
                  /\ storage' = storage \cup {i}
                  /\ thread' = [thread EXCEPT ![t].at = "upload"] /\ UNCHANGED lifecycle
           \/ Leaves(t, {}, traversals.of) /\ UNCHANGED <<image, storage>>
    /\ UNCHANGED <<epoch, exec, loaded, memory, icache, traversals>>

\* Mutant: the status of the write is not looked at.
LoadUploadUnchecked(t) ==
    /\ thread[t].at = "upload"
    /\ \/ memory' = [memory EXCEPT ![Place(thread[t].img)] = thread[t].img]
       \/ UNCHANGED memory
    /\ thread' = [thread EXCEPT ![t].at = "invalidate"]
    /\ UNCHANGED <<epoch, lifecycle, exec, image, loaded, storage, icache, traversals>>

\* The bytes are relocated and written.  A failure here or later drops the image.
LoadUpload(t) ==
    /\ thread[t].at = "upload"
    /\ LET i == thread[t].img
       IN  \/ /\ memory' = [memory EXCEPT ![Place(i)] = i]
              /\ thread' = [thread EXCEPT ![t].at = "invalidate"] /\ UNCHANGED lifecycle
           \/ Leaves(t, {i}, traversals.of) /\ UNCHANGED memory
    /\ UNCHANGED <<epoch, exec, image, loaded, storage, icache, traversals>>

\* invalidateCodeCaches of that GPU.
LoadInvalidate(t) ==
    /\ thread[t].at = "invalidate"
    /\ \/ /\ icache' = [l \in DOMAIN icache |-> IF l[1] = image[thread[t].img].agent THEN NoImage ELSE icache[l]]
          /\ thread' = [thread EXCEPT ![t].at = "publish"] /\ UNCHANGED lifecycle
       \/ Leaves(t, {thread[t].img}, traversals.of) /\ UNCHANGED icache
    /\ UNCHANGED <<epoch, exec, image, loaded, storage, memory, traversals>>

\* Mutant: images are only kept apart on their own GPU.
LoadPublishAnywhere(t) ==
    /\ thread[t].at = "publish"
    /\ loaded' = loaded \cup {thread[t].img} /\ Leaves(t, {}, traversals.of)
    /\ UNCHANGED <<epoch, exec, image, storage, memory, icache, traversals>>

\* Under the runtime mutex: an image whose addresses another loaded image has too, on any GPU,
\* is refused; otherwise image and symbol become visible together.
LoadPublish(t) ==
    /\ thread[t].at = "publish"
    /\ LET i == thread[t].img
           ambiguous == \E j \in loaded : image[j].address = image[i].address
       IN  /\ loaded' = IF ambiguous THEN loaded ELSE loaded \cup {i}
           /\ Leaves(t, IF ambiguous THEN {i} ELSE {}, traversals.of)
    /\ UNCHANGED <<epoch, exec, image, storage, memory, icache, traversals>>

-----------------------------------------------------------------------------
(* Dispatch and traversal                                                  *)

\* dispatchExecutable: the symbol of a frozen executable; the mutex is held until the driver has
\* run the kernel, or given up, and the arguments are freed.
DispatchBegin(t) ==
    /\ Enters(t)
    /\ \E i \in loaded :
        /\ exec[image[i].exec] = "frozen"
        /\ thread' = [thread EXCEPT ![t] = [AtRest EXCEPT !.at = "dispatch", !.img = i]]
    /\ lifecycle' = t
    /\ UNCHANGED <<epoch, exec, image, loaded, storage, memory, icache, traversals>>

\* What the GPU executes at a place: its cached code if it has any.
Fetched(l) == IF icache[l] = NoImage THEN memory[l] ELSE icache[l]

DispatchRun(t) ==
    /\ thread[t].at = "dispatch"
    /\ icache' = [icache EXCEPT ![Place(thread[t].img)] = Fetched(Place(thread[t].img))]
    /\ Leaves(t, {}, traversals.of)
    /\ UNCHANGED <<epoch, exec, image, loaded, storage, memory, traversals>>

\* iterate_executables and iterate_loaded_code_objects call back under the lifecycle mutex and hold
\* no other: the thread is free to call.  The second refers to its executable until it returns.
\* Re-entering a traversal of the same table or list adds nothing and is left out.
TraverseBegin(t) ==
    /\ Enters(t) /\ loaded # {}
    /\ \E x \in ({e \in Execs : ImagesOf(e) # {}} \cup {"table"}) \ Traversed :
        traversals' = [traversals EXCEPT !.of = <<x>> \o @, !.seen = @ \cup ImagesOf(x)]
    /\ lifecycle' = t
    /\ UNCHANGED <<epoch, exec, image, loaded, storage, memory, icache, thread>>

\* The innermost traversal ends; what only it still held is released.
TraverseEnd(t) ==
    /\ thread[t].at = "idle" /\ lifecycle = t /\ traversals.of # <<>>
    /\ LET left == Elements(Tail(traversals.of))
           drops == {i \in traversals.held : image[i].exec \notin left}
       IN  /\ traversals' = [of |-> Tail(traversals.of), held |-> traversals.held \ drops,
                             seen |-> {i \in traversals.seen : image[i].exec \in left}]
           /\ Leaves(t, drops, Tail(traversals.of))
    /\ UNCHANGED <<epoch, exec, image, loaded, storage, memory, icache>>

ExecutablesNext ==
    \E t \in Threads :
        \/ RuntimeInit(t) \/ RuntimeShutDown(t)
        \/ CreateExecutable(t) \/ Freeze(t) \/ Destroy(t) \/ ReleaseImages(t)
        \/ LoadBegin(t) \/ LoadAllocate(t) \/ LoadUpload(t) \/ LoadInvalidate(t) \/ LoadPublish(t)
        \/ DispatchBegin(t) \/ DispatchRun(t) \/ TraverseBegin(t) \/ TraverseEnd(t)

ExecutablesSpec == ExecutablesInit /\ [][ExecutablesNext]_execVars

-----------------------------------------------------------------------------
(* Properties                                                              *)

\* imageAt: the loaded images an address-only query of the loader may answer with.
ImageAt(a) == {i \in loaded : image[i].address = a}

\* The loader's queries take an address and nothing else, and may come at any moment: at most one
\* loaded image answers, its storage is still held, and it is an image of a live executable.  While
\* an executable's images are traversed those it began with keep their storage and their code,
\* whatever the callback loads, destroys or shuts down.
QueriesUnambiguous ==
    /\ \A a \in Addresses :
        /\ Cardinality(ImageAt(a)) <= 1
        /\ ImageAt(a) \subseteq storage
        /\ \A i \in ImageAt(a) : exec[image[i].exec] \in {"open", "frozen"}
    /\ \A i \in traversals.seen : i \in storage /\ memory[Place(i)] = i

\* iterate_loaded_code_objects goes through the images its executable has.  Violated: the callback
\* may load another one, which moves the list that the loop is reading.
TraversedListStands ==
    \A i \in loaded \cup traversals.held : image[i].exec \in Traversed => i \in traversals.seen

\* A kernel that is dispatched runs the code of its own image: an address whose former image has
\* been executed and destroyed is reused only with the GPU's code caches invalidated.
RunsOwnCode ==
    \A t \in Threads : thread[t].at = "dispatch" =>
        LET i == thread[t].img IN i \in storage /\ Fetched(Place(i)) = i

=============================================================================
