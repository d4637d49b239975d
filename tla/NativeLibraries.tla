--------------------------- MODULE NativeLibraries ---------------------------
(***************************************************************************)
(* Native library loading of JavaVMExt (java_vm_ext.cc, appended to       *)
(* large_object_space.cc): LoadNativeLibrary, the Libraries map guarded by *)
(* jni_libraries_lock_, the SharedLibrary JNI_OnLoad handshake            *)
(* (CheckOnLoadResult / SetResult on jni_on_load_lock_ and its condition  *)
(* variable) and Libraries::UnloadNativeLibraries.                         *)
(*                                                                         *)
(* Each thread runs a stack of LoadNativeLibrary frames: a library's      *)
(* JNI_OnLoad may itself load a library (System.loadLibrary), with the    *)
(* class loader of the enclosing load.  A SharedLibrary is an id of       *)
(* LibIds; a deleted one keeps its last contents, which is what a read    *)
(* through a dangling pointer may see.  A class loader stays reachable    *)
(* while a load that uses it is running; otherwise the GC may clear it,   *)
(* and the class-loader cleanup then unloads its libraries.  A wait on    *)
(* jni_on_load_cond_ is a step enabled once the awaited result is set     *)
(* (SetResult broadcasts).  dlopen, dlsym and the error messages are      *)
(* abstracted to their success or failure.                                 *)
(*                                                                         *)
(* A thread may also call a native method of a class of a live class      *)
(* loader: the first call links it with FindNativeMethod, which searches  *)
(* the libraries of the declaring class's loader under jni_libraries_lock_ *)
(* and returns a code pointer that is called after the lock is dropped.   *)
(* The running method keeps its class, and so its class loader, reachable. *)
(***************************************************************************)
EXTENDS Naturals, FiniteSets, Sequences, SequencesExt

CONSTANTS Threads,    \* application threads calling System.loadLibrary
          Paths,      \* library paths
          Loaders,    \* class loaders (the boot class loader is left out)
          LibIds,     \* addresses a new SharedLibrary may get
          MaxDepth,   \* nesting of loads made from JNI_OnLoad
          MaxCalls,   \* loads each thread makes, nested ones included
          None,       \* nullptr SharedLibrary*
          NoThread    \* jni_on_load_thread_id_ 0

ASSUME None \notin LibIds /\ NoThread \notin Threads

VARIABLES libraries,    \* Libraries::libraries_: path -> library or None
          lib,          \* contents of every SharedLibrary
          loaderAlive,  \* the class loader's weak global is not cleared
          stack,        \* each thread's LoadNativeLibrary frames
          calls,        \* loads each thread has started
          unloader,     \* UnloadNativeLibraries: "idle" or "unloading"
          unloadList,   \* its unload_libraries vector
          retval,       \* what each thread's last load returned
          native        \* each thread's native method call

vars == <<libraries, lib, loaderAlive, stack, calls, unloader, unloadList, retval, native>>

Results == {"pending", "failed", "okay"}              \* JNI_OnLoadState
LibStates == {"unused", "live", "deleted"}
Library == [state : LibStates, path : Paths, loader : Loaders,
            result : Results, onLoadThread : Threads \cup {NoThread}]
PCs == {"lookup", "check", "wait", "open", "create", "onload"}
Unused == [state |-> "unused", path |-> CHOOSE p \in Paths : TRUE,
           loader |-> CHOOSE l \in Loaders : TRUE, result |-> "pending",
           onLoadThread |-> NoThread]
Frame == [path : Paths, loader : Loaders, pc : PCs, lib : LibIds \cup {None}]
NativeCall == [pc : {"idle", "find", "run"}, loader : Loaders, lib : LibIds \cup {None}]
NoNativeCall == [pc |-> "idle", loader |-> CHOOSE l \in Loaders : TRUE, lib |-> None]

Init ==
    /\ libraries = [p \in Paths |-> None]
    /\ lib = [i \in LibIds |-> Unused]
    /\ loaderAlive = [l \in Loaders |-> TRUE]
    /\ stack = [t \in Threads |-> <<>>]
    /\ calls = [t \in Threads |-> 0]
    /\ unloader = "idle"
    /\ unloadList = {}
    /\ retval = [t \in Threads |-> FALSE]
    /\ native = [t \in Threads |-> NoNativeCall]

-----------------------------------------------------------------------------
Top(t) == Last(stack[t])
SetTop(t, f) == stack' = [stack EXCEPT ![t] = Front(@) \o <<f>>]
Goto(t, pc) == SetTop(t, [Top(t) EXCEPT !.pc = pc])
At(t, pc) == stack[t] # <<>> /\ Top(t).pc = pc

\* LoadNativeLibrary returns ok to its caller.
Return(t, ok) ==
    /\ stack' = [stack EXCEPT ![t] = Front(@)]
    /\ retval' = [retval EXCEPT ![t] = ok]

\* System.loadLibrary from Java, on a reachable class loader.
StartLoad(t, p, l) ==
    /\ stack[t] = <<>>
    /\ native[t].pc = "idle"
    /\ calls[t] < MaxCalls
    /\ loaderAlive[l]
    /\ stack' = [stack EXCEPT ![t] = <<[path |-> p, loader |-> l, pc |-> "lookup", lib |-> None]>>]
    /\ calls' = [calls EXCEPT ![t] = @ + 1]
    /\ UNCHANGED <<libraries, lib, loaderAlive, unloader, unloadList, retval, native>>

\* libraries_->Get(path) under jni_libraries_lock_; the lock is dropped
\* before the pointer is used.
Lookup(t) ==
    /\ At(t, "lookup")
    /\ LET l == libraries[Top(t).path]
       IN SetTop(t, [Top(t) EXCEPT !.lib = l,
                                   !.pc = IF l = None THEN "open" ELSE "check"])
    /\ UNCHANGED <<libraries, lib, loaderAlive, calls, unloader, unloadList, retval, native>>

\* library->GetClassLoaderAllocator() != class_loader_allocator: the library
\* belongs to another class loader and the load fails.
CheckClassLoader(t) ==
    /\ At(t, "check")
    /\ IF lib[Top(t).lib].loader # Top(t).loader
       THEN Return(t, FALSE)
       ELSE Goto(t, "wait") /\ UNCHANGED retval
    /\ UNCHANGED <<libraries, lib, loaderAlive, calls, unloader, unloadList, native>>

\* CheckOnLoadResult: a thread reloading the library from its own
\* JNI_OnLoad gets true at once ...
RecursiveLoad(t) ==
    /\ At(t, "wait")
    /\ lib[Top(t).lib].onLoadThread = t
    /\ Return(t, TRUE)
    /\ UNCHANGED <<libraries, lib, loaderAlive, calls, unloader, unloadList, native>>

\* ... any other waits on jni_on_load_cond_ while the result is kPending.
CheckOnLoadResult(t) ==
    /\ At(t, "wait")
    /\ lib[Top(t).lib].onLoadThread # t
    /\ lib[Top(t).lib].result # "pending"
    /\ Return(t, lib[Top(t).lib].result = "okay")
    /\ UNCHANGED <<libraries, lib, loaderAlive, calls, unloader, unloadList, native>>

\* android::OpenNativeLibrary (dlopen) fails or succeeds.
OpenNativeLibrary(t) ==
    /\ At(t, "open")
    /\ \/ Return(t, FALSE)
       \/ Goto(t, "create") /\ UNCHANGED retval
    /\ UNCHANGED <<libraries, lib, loaderAlive, calls, unloader, unloadList, native>>

\* Variant: jni_on_load_thread_id_ left out of the constructor's
\* initialiser list (an indeterminate thread id).
NewLibraryNoOwner(t) ==
    [state |-> "live", path |-> Top(t).path, loader |-> Top(t).loader,
     result |-> "pending", onLoadThread |-> None]

\* The SharedLibrary is constructed before jni_libraries_lock_ is taken
\* (jni_on_load_thread_id_ = self, kPending); under the lock the path is
\* looked up again.
NewLibrary(t) ==
    [state |-> "live", path |-> Top(t).path, loader |-> Top(t).loader,
     result |-> "pending", onLoadThread |-> t]
FreshId == CHOOSE i \in LibIds : lib[i].state = "unused"

\* ~SharedLibrary: deletes the class loader's weak global and closes the
\* library (android::CloseNativeLibrary); the memory keeps its contents.
DeleteLibrary(l) == [l EXCEPT !.state = "deleted"]

\* Variant: Put without looking the path up again under the lock.
PutLibraryUnchecked(t) ==
    /\ At(t, "create")
    /\ \E i \in LibIds : lib[i].state = "unused"
    /\ libraries' = [libraries EXCEPT ![Top(t).path] = FreshId]
    /\ lib' = [lib EXCEPT ![FreshId] = NewLibrary(t)]
    /\ SetTop(t, [Top(t) EXCEPT !.lib = FreshId, !.pc = "onload"])
    /\ UNCHANGED <<loaderAlive, calls, unloader, unloadList, retval, native>>

\* The thread that finds the path still absent puts its library and goes
\* on to JNI_OnLoad ...
PutLibrary(t) ==
    /\ At(t, "create")
    /\ \E i \in LibIds : lib[i].state = "unused"
    /\ libraries[Top(t).path] = None
    /\ libraries' = [libraries EXCEPT ![Top(t).path] = FreshId]
    /\ lib' = [lib EXCEPT ![FreshId] = NewLibrary(t)]
    /\ SetTop(t, [Top(t) EXCEPT !.lib = FreshId, !.pc = "onload"])
    /\ UNCHANGED <<loaderAlive, calls, unloader, unloadList, retval, native>>

\* ... one that lost the race deletes its own (the unique_ptr) and waits in
\* CheckOnLoadResult on the winner's.
LoseRace(t) ==
    /\ At(t, "create")
    /\ \E i \in LibIds : lib[i].state = "unused"
    /\ libraries[Top(t).path] # None
    /\ lib' = [lib EXCEPT ![FreshId] = DeleteLibrary(NewLibrary(t))]
    /\ SetTop(t, [Top(t) EXCEPT !.lib = libraries[Top(t).path], !.pc = "wait"])
    /\ UNCHANGED <<libraries, loaderAlive, calls, unloader, unloadList, retval, native>>

\* JNI_OnLoad loads another library with the overriding class loader.
LoadFromOnLoad(t, p) ==
    /\ At(t, "onload")
    /\ Len(stack[t]) < MaxDepth
    /\ calls[t] < MaxCalls
    /\ stack' = [stack EXCEPT ![t] = Append(@, [path |-> p, loader |-> Top(t).loader,
                                                 pc |-> "lookup", lib |-> None])]
    /\ calls' = [calls EXCEPT ![t] = @ + 1]
    /\ UNCHANGED <<libraries, lib, loaderAlive, unloader, unloadList, retval, native>>

\* Variant: the bool cast to JNI_OnLoadState (true -> kFailed,
\* false -> kPending).
SetResultCast(t, ok) ==
    lib' = [lib EXCEPT ![Top(t).lib].result = IF ok THEN "failed" ELSE "pending",
                       ![Top(t).lib].onLoadThread = NoThread]

\* No JNI_OnLoad, or it returns a good version (success), or JNI_ERR or a
\* bad version (failure); SetResult records it, clears
\* jni_on_load_thread_id_ and broadcasts.
SetResult(t, ok) ==
    lib' = [lib EXCEPT ![Top(t).lib].result = IF ok THEN "okay" ELSE "failed",
                       ![Top(t).lib].onLoadThread = NoThread]

FinishOnLoad(t, ok) ==
    /\ At(t, "onload")
    /\ SetResult(t, ok)
    /\ Return(t, ok)
    /\ UNCHANGED <<libraries, loaderAlive, calls, unloader, unloadList, native>>

-----------------------------------------------------------------------------
(* Native method calls *)

\* A native method of a class of the live class loader l is called for the
\* first time and has to be linked.
StartNativeCall(t, l) ==
    /\ stack[t] = <<>>
    /\ native[t].pc = "idle"
    /\ calls[t] < MaxCalls
    /\ loaderAlive[l]
    /\ native' = [native EXCEPT ![t] = [pc |-> "find", loader |-> l, lib |-> None]]
    /\ calls' = [calls EXCEPT ![t] = @ + 1]
    /\ UNCHANGED <<libraries, lib, loaderAlive, stack, unloader, unloadList, retval>>

\* Variant: every library searched, whatever its class loader.
SearchedAnyLoader(l) == {p \in Paths : libraries[p] # None}

\* The libraries FindNativeMethodInternal searches: those whose
\* GetClassLoaderAllocator is the declaring class loader's.
Searched(l) == {p \in Paths : libraries[p] # None /\ lib[libraries[p]].loader = l}

\* The method is linked to code in library i (None: code of an agent).
LinkTo(t, i) == native' = [native EXCEPT ![t].pc = "run", ![t].lib = i]

\* FindNativeMethod, under jni_libraries_lock_: the first searched library
\* whose FindSymbol (dlsym) finds the short or the long JNI name gives the
\* code, which is called once the lock is dropped.
FindNativeMethod(t) == \E p \in Searched(native[t].loader) : LinkTo(t, libraries[p])

\* FindCodeForNativeMethodInAgents: the TI agents' libraries, which are
\* never unloaded, searched by the same two names.
FindCodeForNativeMethodInAgents(t) == LinkTo(t, None)

\* FindCodeForNativeMethod: the JNI libraries first, then the agents; if
\* neither has the code, an UnsatisfiedLinkError is thrown.
FindCodeForNativeMethod(t) ==
    /\ native[t].pc = "find"
    /\ \/ FindNativeMethod(t)
       \/ FindCodeForNativeMethodInAgents(t)
       \/ native' = [native EXCEPT ![t] = NoNativeCall]
    /\ UNCHANGED <<libraries, lib, loaderAlive, stack, calls, unloader, unloadList, retval>>

\* The native code returns to its caller.
ReturnFromNative(t) ==
    /\ native[t].pc = "run"
    /\ native' = [native EXCEPT ![t] = NoNativeCall]
    /\ UNCHANGED <<libraries, lib, loaderAlive, stack, calls, unloader, unloadList, retval>>

-----------------------------------------------------------------------------
(* Class unloading *)

\* The GC clears the weak global of a class loader no running load uses.
\* A class loader is in use by a running load, or by a running native
\* method of one of its classes.
InUse(l) == \E t \in Threads :
                \/ \E k \in 1 .. Len(stack[t]) : stack[t][k].loader = l
                \/ native[t].pc # "idle" /\ native[t].loader = l

ClearClassLoader(l) ==
    /\ loaderAlive[l]
    /\ ~InUse(l)
    /\ loaderAlive' = [loaderAlive EXCEPT ![l] = FALSE]
    /\ UNCHANGED <<libraries, lib, stack, calls, unloader, unloadList, retval, native>>

\* UnloadNativeLibraries, under jni_libraries_lock_: erase the libraries
\* whose class loader is cleared ...
Unloadable == {p \in Paths : libraries[p] # None /\ ~loaderAlive[lib[libraries[p]].loader]}

CollectUnloadable ==
    /\ unloader = "idle"
    /\ Unloadable # {}
    /\ unloadList' = {libraries[p] : p \in Unloadable}
    /\ libraries' = [p \in Paths |-> IF p \in Unloadable THEN None ELSE libraries[p]]
    /\ unloader' = "unloading"
    /\ UNCHANGED <<lib, loaderAlive, stack, calls, retval, native>>

\* ... then, without the lock, run JNI_OnUnload and delete them.
DeleteUnloaded ==
    /\ unloader = "unloading"
    /\ lib' = [i \in LibIds |-> IF i \in unloadList THEN DeleteLibrary(lib[i])
                                                    ELSE lib[i]]
    /\ unloadList' = {}
    /\ unloader' = "idle"
    /\ UNCHANGED <<libraries, loaderAlive, stack, calls, retval, native>>

\* No load is running and none can start: every thread has made its loads,
\* or every class loader is gone.
Quiescent ==
    /\ \A t \in Threads : stack[t] = <<>> /\ native[t].pc = "idle"
    /\ \/ \A t \in Threads : calls[t] = MaxCalls
       \/ \A l \in Loaders : ~loaderAlive[l]
    /\ unloader = "idle"
    /\ UNCHANGED vars

-----------------------------------------------------------------------------
ThreadStep(t) ==
    \/ Lookup(t) \/ CheckClassLoader(t) \/ RecursiveLoad(t)
    \/ CheckOnLoadResult(t) \/ OpenNativeLibrary(t)
    \/ PutLibrary(t) \/ LoseRace(t)
    \/ \E ok \in BOOLEAN : FinishOnLoad(t, ok)
    \/ FindCodeForNativeMethod(t) \/ ReturnFromNative(t)

Next ==
    \/ \E t \in Threads :
          \/ \E p \in Paths, l \in Loaders : StartLoad(t, p, l)
          \/ \E l \in Loaders : StartNativeCall(t, l)
          \/ \E p \in Paths : LoadFromOnLoad(t, p)
          \/ ThreadStep(t)
    \/ \E l \in Loaders : ClearClassLoader(l)
    \/ CollectUnloadable \/ DeleteUnloaded
    \/ Quiescent

\* Threads are scheduled fairly; a library's JNI_OnLoad returns.  Loads
\* from Java and class-loader collection are the environment's choice.
Fairness ==
    /\ \A t \in Threads : WF_vars(ThreadStep(t))
    /\ WF_vars(CollectUnloadable \/ DeleteUnloaded)

Spec == Init /\ [][Next]_vars /\ Fairness
-----------------------------------------------------------------------------
(* Properties *)

NativeTypeOK ==
    /\ libraries \in [Paths -> LibIds \cup {None}]
    /\ lib \in [LibIds -> Library]
    /\ loaderAlive \in [Loaders -> BOOLEAN]
    /\ \A t \in Threads : stack[t] \in Seq(Frame) /\ Len(stack[t]) <= MaxDepth
    /\ calls \in [Threads -> 0 .. MaxCalls]
    /\ unloader \in {"idle", "unloading"}
    /\ unloadList \subseteq LibIds
    /\ retval \in [Threads -> BOOLEAN]
    /\ native \in [Threads -> NativeCall]

\* JNI_OnLoad of a path runs in at most one thread at a time, and it runs
\* for the SharedLibrary that libraries_ holds: the loser of the race
\* between the two lookups in LoadNativeLibrary never runs it.
OnLoadFrames(p) == {<<t, k>> \in Threads \X (1 .. MaxDepth) :
                        k <= Len(stack[t]) /\ stack[t][k].pc = "onload"
                        /\ stack[t][k].path = p}

SingleOnLoad ==
    \A p \in Paths :
        /\ Cardinality(OnLoadFrames(p)) <= 1
        /\ \A f \in OnLoadFrames(p) : stack[f[1]][f[2]].lib = libraries[p]

\* Every LoadNativeLibrary call returns: no thread waits for ever on
\* jni_on_load_cond_.
LoadsReturn == \A t \in Threads : stack[t] # <<>> ~> stack[t] = <<>>

\* A thread never reads a SharedLibrary that has been deleted: the pointer
\* libraries_->Get returned is used after jni_libraries_lock_ is dropped
\* (GetClassLoaderAllocator, CheckOnLoadResult).
NoDanglingLibrary ==
    \A t \in Threads : \A k \in 1 .. Len(stack[t]) :
        stack[t][k].pc \in {"check", "wait"} => lib[stack[t][k].lib].state = "live"

\* Native code a thread is running belongs to a library that has not been
\* unloaded: FindNativeMethod only links code of the declaring class's own
\* class loader, which the running method keeps reachable, so
\* UnloadNativeLibraries cannot delete (dlclose) that library under it.
\* Agent code is never unloaded.
NativeCodeLoaded ==
    \A t \in Threads : native[t].pc = "run" /\ native[t].lib # None =>
                         lib[native[t].lib].state = "live"

=============================================================================
