-------------------------- MODULE StreamManagement --------------------------
(***************************************************************************)
(* The manager's administration of event streams and listeners             *)
(* (pkg/fftm/stream_management.go): the stored definitions, the runtime    *)
(* streams, the name indexes in memory, and the requests that change them. *)
(* Listener requests are serialized by listenersAdminMux, held across      *)
(* their database work; stream requests are not, and hold mux only for     *)
(* single steps.  The store is LevelDB, which has no unique index on names *)
(* (Postgres has): the in-memory indexes are all there is.                 *)
(***************************************************************************)
EXTENDS Naturals, FiniteSets

CONSTANTS
    Streams, Listeners,     \* IDs; each is used for one creation
    Names,                  \* names of streams and of listeners
    Signature,              \* the name a listener gets by default
    Requests,               \* API requests, each made once
    Stores,                 \* what is stored when the manager starts for the first time
    MaxTrouble              \* failing writes and restarts

None == "none"

NoStream == [name |-> None, suspended |-> FALSE]
NoListener == [stream |-> None, name |-> None]

ASSUME ManagementAssumption ==
    /\ Signature \in Names /\ None \notin Names \cup Streams \cup Listeners \cup Requests
    /\ MaxTrouble \in Nat
    /\ \A x \in Stores:
         /\ x.streams \in [Streams -> [name: Names, suspended: BOOLEAN] \cup {NoStream}]
         /\ x.listeners \in [Listeners -> [stream: Streams, name: Names] \cup {NoListener}]
         /\ \A s, t \in Streams: x.streams[s].name = x.streams[t].name => s = t \/ x.streams[s].name = None
         /\ \A l, m \in Listeners: x.listeners[l].name = x.listeners[m].name => l = m \/ x.listeners[l].name = None
         /\ \A l \in Listeners: x.listeners[l].stream = None \/ x.streams[x.listeners[l].stream].name # None

VARIABLES
    streams,            \* the stored streams
    listeners,          \* the stored listeners
    rt,                 \* the runtime streams, with their listeners
    eventStreams,       \* the IDs of those in the map of the manager
    streamsByName,
    listenersByName,
    listenersAdminMux,  \* the request holding it, or None
    req,                \* where each request is
    up,                 \* whether the manager runs; FALSE once a start has failed
    trouble,            \* troubles still to come
    known, created,     \* history: the stream IDs that clients know, the IDs used
    astray              \* history: streams whose updates or deletes overlapped, failed or were cut off

storeVars == <<streams, listeners>>
memoryVars == <<rt, eventStreams, streamsByName, listenersByName>>
history == <<known, created, astray>>
vars == <<storeVars, memoryVars, listenersAdminMux, req, up, trouble, history>>

NoRuntime == [spec |-> NoStream, status |-> "none", listeners |-> [l \in Listeners |-> None]]
NewRequest == [kind |-> None, pc |-> "new", s |-> None, l |-> None, name |-> None, old |-> None,
               had |-> FALSE, spec |-> NoStream, held |-> FALSE, ok |-> FALSE]

-----------------------------------------------------------------------------
(* Start: restoreStreams.                                                  *)

StoredStreams == {s \in Streams: streams[s] # NoStream}
StoredListeners == {l \in Listeners: listeners[l] # NoListener}

\* The first stream whose name another has makes the start fail.
Restorable == \A s, t \in StoredStreams: streams[s].name = streams[t].name => s = t

Status(suspended) == IF suspended THEN "stopped" ELSE "started"

RestoredRuntime ==
    [s \in Streams |->
        IF s \notin StoredStreams THEN NoRuntime
        ELSE [spec |-> streams[s], status |-> Status(streams[s].suspended),
              listeners |-> [l \in Listeners |-> IF listeners[l].stream = s THEN listeners[l].name ELSE None]]]

\* The names; of listeners with the same name the first one has it.
RestoredStreamNames ==
    [n \in Names |-> IF \E s \in StoredStreams: streams[s].name = n
                     THEN CHOOSE s \in StoredStreams: streams[s].name = n ELSE None]
RestoredListenerNames ==
    [n \in Names |-> IF \E l \in Listeners: listeners[l].name = n
                     THEN CHOOSE l \in Listeners: listeners[l].name = n ELSE None]

\* The manager has started on a store with some streams and listeners.
Init ==
    /\ \E x \in Stores: streams = x.streams /\ listeners = x.listeners
    /\ rt = RestoredRuntime /\ eventStreams = StoredStreams
    /\ streamsByName = RestoredStreamNames /\ listenersByName = RestoredListenerNames
    /\ listenersAdminMux = None /\ req = [q \in Requests |-> NewRequest]
    /\ up = TRUE /\ trouble = MaxTrouble
    /\ known = StoredStreams /\ created = StoredStreams \cup StoredListeners /\ astray = {}

-----------------------------------------------------------------------------
(* Requests.                                                               *)

Active(q) == req[q].pc \notin {"new", "done"}
On(s) == {q \in Requests: Active(q) /\ req[q].s = s}
At(q, kind, pc) == up /\ req[q].kind = kind /\ req[q].pc = pc
Goto(q, pc) == req' = [req EXCEPT ![q].pc = pc]
Ended(kind, s, ok) ==
    IF kind = "deleteStream" /\ ok THEN [NewRequest EXCEPT !.kind = kind, !.pc = "done", !.s = s, !.ok = ok]
    ELSE [NewRequest EXCEPT !.pc = "done"]
Done(q, ok) == req' = [req EXCEPT ![q] = Ended(req[q].kind, req[q].s, ok)]
Start(q, r) == up /\ req[q].pc = "new" /\ req' = [req EXCEPT ![q] = r]
Refuse(q) == Start(q, [NewRequest EXCEPT !.pc = "done"])

\* A write may fail.
Outcomes == IF trouble > 0 THEN BOOLEAN ELSE {TRUE}
Count(ok) == trouble' = IF ok THEN trouble ELSE trouble - 1

\* releaseListenerName: the name is freed if the listener holds it.
ReleasedName(index, name, id) == [n \in Names |-> IF n = name /\ index[n] = id THEN None ELSE index[n]]

\* delete(m.streamsByName, name), whoever has it.
Without(index, name) == [n \in Names |-> IF n = name THEN None ELSE index[n]]

-----------------------------------------------------------------------------
(* CreateAndStoreNewStream.                                                *)

\* Mutant of ReserveNew: the name is checked and not reserved.
CheckNew(s, name) ==
    /\ streamsByName[name] = None
    /\ UNCHANGED streamsByName

\* reserveStreamName, for an ID that has no name yet.
ReserveNew(s, name) ==
    /\ streamsByName[name] = None
    /\ streamsByName' = [streamsByName EXCEPT ![name] = s]

CreateStream(q) ==
    \E s \in Streams \ created, name \in Names, suspended \in BOOLEAN:
        /\ ReserveNew(s, name)
        /\ Start(q, [NewRequest EXCEPT !.kind = "createStream", !.pc = "add", !.s = s, !.name = name,
                                       !.spec = [name |-> name, suspended |-> suspended]])
        /\ created' = created \cup {s}
        /\ UNCHANGED <<storeVars, rt, eventStreams, listenersByName, listenersAdminMux, up, trouble, known, astray>>

\* addRuntimeStream.
AddRuntimeStream(q) ==
    /\ At(q, "createStream", "add")
    /\ rt' = [rt EXCEPT ![req[q].s] = [NoRuntime EXCEPT !.spec = req[q].spec, !.status = "stopped"]]
    /\ eventStreams' = eventStreams \cup {req[q].s}
    /\ Goto(q, "write")
    /\ UNCHANGED <<storeVars, streamsByName, listenersByName, listenersAdminMux, up, trouble, history>>

\* WriteStream; when it fails the runtime stream is deleted and the name released.
WriteNewStream(q) ==
    LET s == req[q].s
    IN  /\ At(q, "createStream", "write")
        /\ \E ok \in Outcomes:
             /\ Count(ok)
             /\ IF ok
                THEN /\ streams' = [streams EXCEPT ![s] = req[q].spec]
                     /\ known' = known \cup {s}
                     /\ Goto(q, "start")
                     /\ UNCHANGED <<rt, eventStreams, streamsByName>>
                ELSE /\ eventStreams' = eventStreams \ {s}
                     /\ rt' = [rt EXCEPT ![s].status = "deleted"]
                     /\ streamsByName' = Without(streamsByName, req[q].name)
                     /\ Done(q, FALSE)
                     /\ UNCHANGED <<streams, known>>
        /\ UNCHANGED <<listeners, listenersByName, listenersAdminMux, up, created, astray>>

\* Start and Stop of the stream do nothing to one that was deleted meanwhile.
Ran(s, suspended) ==
    [rt EXCEPT ![s].status = IF @ = "deleted" THEN @ ELSE Status(suspended)]

StartNewStream(q) ==
    /\ At(q, "createStream", "start")
    /\ rt' = Ran(req[q].s, req[q].spec.suspended)
    /\ Done(q, TRUE)
    /\ UNCHANGED <<storeVars, eventStreams, streamsByName, listenersByName, listenersAdminMux, up, trouble, history>>

-----------------------------------------------------------------------------
(* UpdateStream: another name, or another suspended flag, or both.          *)

\* A request on a stream that is busy with another one.
Overlapping(s) ==
    IF \E q \in On(s): req[q].kind \in {"createStream", "updateStream", "deleteStream"} THEN {s} ELSE {}

UpdateStream(q) ==
    \E s \in known, name \in Names \cup {None}, suspended \in BOOLEAN:
        /\ IF s \in eventStreams
           THEN Start(q, [NewRequest EXCEPT !.kind = "updateStream", !.pc = "reserve", !.s = s, !.name = name,
                                            !.spec = [name |-> name, suspended |-> suspended]])
           ELSE Refuse(q)
        /\ astray' = astray \cup Overlapping(s)
        /\ UNCHANGED <<storeVars, memoryVars, listenersAdminMux, up, trouble, known, created>>

\* reserveStreamName, for a stream that may have another name.
ReserveStreamName(q) ==
    LET s == req[q].s
        name == req[q].name
    IN  /\ At(q, "updateStream", "reserve")
        /\ \/ name = None /\ Goto(q, "spec") /\ UNCHANGED streamsByName
           \/ /\ name # None /\ streamsByName[name] \in {None, s}
              /\ streamsByName' = [streamsByName EXCEPT ![name] = s]
              /\ req' = [req EXCEPT ![q].pc = "spec", ![q].had = streamsByName[name] # None,
                           ![q].old = IF s \in eventStreams THEN rt[s].spec.name ELSE None]
           \/ /\ name # None /\ streamsByName[name] \notin {None, s}
              /\ Done(q, FALSE) /\ UNCHANGED streamsByName
        /\ UNCHANGED <<storeVars, rt, eventStreams, listenersByName, listenersAdminMux, up, trouble, history>>

\* UpdateSpec: the new specification is the one of the runtime stream from here
\* on, before it is stored.  A started stream is stopped and started again.
UpdateSpec(q) ==
    LET s == req[q].s
    IN  /\ At(q, "updateStream", "spec")
        /\ rt' = [rt EXCEPT ![s].spec = [name |-> IF req[q].name = None THEN @.name ELSE req[q].name,
                                         suspended |-> req[q].spec.suspended]]
        /\ Goto(q, "read")
        /\ UNCHANGED <<storeVars, eventStreams, streamsByName, listenersByName, listenersAdminMux, up, trouble, history>>

\* spec := s.Spec(), which may be that of a later update by now.
ReadSpec(q) ==
    /\ At(q, "updateStream", "read")
    /\ req' = [req EXCEPT ![q].pc = "write", ![q].spec = rt[req[q].s].spec]
    /\ UNCHANGED <<storeVars, memoryVars, listenersAdminMux, up, trouble, history>>

\* WriteStream; when it fails, a name reserved by this request is released,
\* though the runtime stream has it.
WriteStream(q) ==
    LET s == req[q].s
    IN  /\ At(q, "updateStream", "write")
        /\ \E ok \in Outcomes:
             /\ Count(ok)
             /\ IF ok
                THEN /\ streams' = [streams EXCEPT ![s] = req[q].spec]
                     /\ Goto(q, "run")
                     /\ UNCHANGED <<streamsByName, astray>>
                ELSE /\ streamsByName' = IF req[q].had THEN streamsByName ELSE Without(streamsByName, req[q].name)
                     /\ astray' = astray \cup {s}
                     /\ Done(q, FALSE)
                     /\ UNCHANGED streams
        /\ UNCHANGED <<listeners, rt, eventStreams, listenersByName, listenersAdminMux, up, known, created>>

\* Stopped or started as the specification says; then the old name is released.
RunUpdated(q) ==
    /\ At(q, "updateStream", "run")
    /\ rt' = Ran(req[q].s, req[q].spec.suspended)
    /\ streamsByName' = IF req[q].name # None /\ req[q].old # req[q].name
                        THEN Without(streamsByName, req[q].old) ELSE streamsByName
    /\ Done(q, TRUE)
    /\ UNCHANGED <<storeVars, eventStreams, listenersByName, listenersAdminMux, up, trouble, history>>

-----------------------------------------------------------------------------
(* DeleteStream.                                                           *)

\* Mutant of Unmapped: the stream stays in the map while it is deleted.
StillMapped(s) == eventStreams

\* The stream leaves the map before its listeners and its record go.
Unmapped(s) == eventStreams \ {s}

DeleteStream(q) ==
    \E s \in known:
        /\ Start(q, [NewRequest EXCEPT !.kind = "deleteStream", !.pc = "listeners", !.s = s, !.held = s \in eventStreams])
        /\ eventStreams' = Unmapped(s)
        /\ streamsByName' = IF s \in eventStreams THEN Without(streamsByName, rt[s].spec.name) ELSE streamsByName
        /\ astray' = astray \cup Overlapping(s)
        /\ UNCHANGED <<storeVars, rt, listenersByName, listenersAdminMux, up, trouble, known, created>>

ListenersOf(s) == {l \in Listeners: listeners[l].stream = s}

\* deleteAllStreamListeners, under the mutex; a failure leaves some of them.
DeleteAllStreamListeners(q) ==
    LET s == req[q].s
    IN  /\ At(q, "deleteStream", "listeners") /\ listenersAdminMux = None
        /\ \E ok \in Outcomes, gone \in SUBSET ListenersOf(s):
             /\ ok => gone = ListenersOf(s)
             /\ Count(ok)
             /\ listeners' = [l \in Listeners |-> IF l \in gone THEN NoListener ELSE listeners[l]]
             /\ listenersByName' = [n \in Names |->
                  IF \E l \in gone: listeners[l].name = n /\ listenersByName[n] = l THEN None ELSE listenersByName[n]]
             /\ astray' = IF ok THEN astray ELSE astray \cup {s}
             /\ IF ok THEN Goto(q, "record") ELSE Done(q, FALSE)
        /\ UNCHANGED <<streams, rt, eventStreams, streamsByName, listenersAdminMux, up, known, created>>

DeleteStreamRecord(q) ==
    LET s == req[q].s
    IN  /\ At(q, "deleteStream", "record")
        /\ \E ok \in Outcomes:
             /\ Count(ok)
             /\ streams' = IF ok THEN [streams EXCEPT ![s] = NoStream] ELSE streams
             /\ astray' = IF ok THEN astray ELSE astray \cup {s}
             /\ IF ok THEN Goto(q, "runtime") ELSE Done(q, FALSE)
        /\ UNCHANGED <<listeners, memoryVars, listenersAdminMux, up, known, created>>

\* Mutant of DeleteRuntime: the stream is looked up again, and is not in the map.
DeleteMapped(q) ==
    /\ At(q, "deleteStream", "runtime")
    /\ rt' = IF req[q].s \in eventStreams THEN [rt EXCEPT ![req[q].s].status = "deleted"] ELSE rt
    /\ Done(q, TRUE)
    /\ UNCHANGED <<storeVars, eventStreams, streamsByName, listenersByName, listenersAdminMux, up, trouble, history>>

\* s.Delete, if the stream was in the map.
DeleteRuntime(q) ==
    /\ At(q, "deleteStream", "runtime")
    /\ rt' = IF req[q].held THEN [rt EXCEPT ![req[q].s].status = "deleted"] ELSE rt
    /\ Done(q, TRUE)
    /\ UNCHANGED <<storeVars, eventStreams, streamsByName, listenersByName, listenersAdminMux, up, trouble, history>>

-----------------------------------------------------------------------------
(* Listeners: create and update.                                            *)

\* Mutant of Lock: the mutex is let go before the database work.
LockBriefly(q) == listenersAdminMux = None /\ UNCHANGED listenersAdminMux

Lock(q) == listenersAdminMux = None /\ listenersAdminMux' = q

\* reserveListenerName, and how it ends: closeoutName.
Reservable(l, name) == listenersByName[name] \in {None, l}

\* Mutant of CloseoutFailed: the name goes on every failure.
CloseoutAlways(q) == ReleasedName(listenersByName, req[q].name, req[q].l)

CloseoutFailed(q) ==
    IF req[q].had THEN listenersByName ELSE ReleasedName(listenersByName, req[q].name, req[q].l)

CloseoutWritten(q) ==
    IF req[q].old \notin {None, req[q].name} THEN ReleasedName(listenersByName, req[q].old, req[q].l)
    ELSE listenersByName

\* createOrUpdateListener up to PrepareListenerUpdate: the stream has to be in the
\* map; the name is reserved; the update may be one that is not allowed.
ReserveListenerName(q, kind, s, l, name, old) ==
    LET allowed == s \in eventStreams /\ Reservable(l, name)
    IN  IF ~allowed
        THEN /\ Refuse(q)
             /\ UNCHANGED <<listenersByName, listenersAdminMux>>
        ELSE /\ Start(q, [NewRequest EXCEPT !.kind = kind, !.pc = "write", !.s = s, !.l = l, !.name = name, !.old = old,
                                            !.had = listenersByName[name] # None])
             /\ Lock(q)
             /\ listenersByName' = [listenersByName EXCEPT ![name] = l]

CreateListener(q) ==
    \E s \in known, l \in Listeners \ created, name \in Names:
        /\ listenersAdminMux = None
        /\ ReserveListenerName(q, "createListener", s, l, name, None)
        /\ created' = created \cup {l}
        /\ UNCHANGED <<storeVars, rt, eventStreams, streamsByName, up, trouble, known, astray>>

\* mergeListenerOptions: without a name in the request, the one of the runtime
\* listener; the signature if there is none.
MergedName(s, l, name) ==
    IF name # None THEN name ELSE IF rt[s].listeners[l] # None THEN rt[s].listeners[l] ELSE Signature

UpdateListener(q) ==
    \E l \in Listeners, name \in Names \cup {None}:
        LET s == listeners[l].stream
        IN  /\ listenersAdminMux = None
            /\ s # None
            /\ ReserveListenerName(q, "updateListener", s, l, MergedName(s, l, name), listeners[l].name)
            /\ UNCHANGED <<storeVars, rt, eventStreams, streamsByName, up, trouble, history>>

\* Mutant of WriteListener: the listener is applied before it is written.
ApplyThenWrite(q) ==
    /\ At(q, "createListener", "write") \/ At(q, "updateListener", "write")
    /\ rt' = [rt EXCEPT ![req[q].s].listeners[req[q].l] = req[q].name]
    /\ \E ok \in Outcomes:
         /\ Count(ok)
         /\ IF ok
            THEN /\ listeners' = [listeners EXCEPT ![req[q].l] = [stream |-> req[q].s, name |-> req[q].name]]
                 /\ Goto(q, "apply")
                 /\ UNCHANGED <<listenersByName, listenersAdminMux>>
            ELSE /\ listenersByName' = CloseoutFailed(q)
                 /\ listenersAdminMux' = None
                 /\ Done(q, FALSE)
                 /\ UNCHANGED listeners
    /\ UNCHANGED <<streams, eventStreams, streamsByName, up, history>>

\* WriteListener, unless PrepareListenerUpdate refuses (filters may not change).
WriteListener(q) ==
    /\ At(q, "createListener", "write") \/ At(q, "updateListener", "write")
    /\ \E refused \in BOOLEAN:
         /\ refused => req[q].kind = "updateListener"
         /\ \E ok \in Outcomes:
              /\ refused => ok
              /\ Count(ok)
              /\ IF ok /\ ~refused
                 THEN /\ listeners' = [listeners EXCEPT ![req[q].l] = [stream |-> req[q].s, name |-> req[q].name]]
                      /\ Goto(q, "apply")
                      /\ UNCHANGED <<listenersByName, listenersAdminMux>>
                 ELSE /\ listenersByName' = CloseoutFailed(q)
                      /\ listenersAdminMux' = None
                      /\ Done(q, FALSE)
                      /\ UNCHANGED listeners
    /\ UNCHANGED <<streams, rt, eventStreams, streamsByName, up, history>>

\* Apply, on the runtime stream found at first; a reset or a start may fail, after
\* the map of listeners has changed.  The old name of the listener is released.
ApplyListener(q) ==
    /\ At(q, "createListener", "apply") \/ At(q, "updateListener", "apply")
    /\ rt' = [rt EXCEPT ![req[q].s].listeners[req[q].l] = req[q].name]
    /\ listenersByName' = CloseoutWritten(q)
    /\ listenersAdminMux' = None
    /\ Done(q, TRUE)
    /\ UNCHANGED <<storeVars, eventStreams, streamsByName, up, trouble, history>>

-----------------------------------------------------------------------------
(* DeleteListener.                                                         *)

\* The runtime listener goes first; if stopping it fails, the record stays.
DeleteListener(q) ==
    \E l \in Listeners:
        LET s == listeners[l].stream
        IN  /\ s # None /\ listenersAdminMux = None
            /\ IF s \notin eventStreams
               THEN /\ Refuse(q)
                    /\ UNCHANGED <<rt, listenersAdminMux, trouble>>
               ELSE \E ok \in Outcomes:
                      /\ Count(ok)
                      /\ rt' = [rt EXCEPT ![s].listeners[l] = None]
                      /\ IF ok THEN /\ Lock(q)
                                 /\ Start(q, [NewRequest EXCEPT !.kind = "deleteListener", !.pc = "record", !.s = s, !.l = l])
                         ELSE UNCHANGED listenersAdminMux /\ Refuse(q)
            /\ UNCHANGED <<storeVars, eventStreams, streamsByName, listenersByName, up, history>>

\* Mutant of DeleteListenerRecord: the name is released before the record is gone.
ReleaseNameFirst(q) ==
    LET l == req[q].l
    IN  /\ At(q, "deleteListener", "record")
        /\ listenersByName' = ReleasedName(listenersByName, listeners[l].name, l)
        /\ \E ok \in Outcomes:
             /\ Count(ok)
             /\ listeners' = IF ok THEN [listeners EXCEPT ![l] = NoListener] ELSE listeners
             /\ Done(q, ok)
        /\ listenersAdminMux' = None
        /\ UNCHANGED <<streams, rt, eventStreams, streamsByName, up, history>>

\* The name is released once the record is gone.
DeleteListenerRecord(q) ==
    LET l == req[q].l
    IN  /\ At(q, "deleteListener", "record")
        /\ \E ok \in Outcomes:
             /\ Count(ok)
             /\ listeners' = IF ok THEN [listeners EXCEPT ![l] = NoListener] ELSE listeners
             /\ listenersByName' = IF ok THEN ReleasedName(listenersByName, listeners[l].name, l) ELSE listenersByName
             /\ Done(q, ok)
        /\ listenersAdminMux' = None
        /\ UNCHANGED <<streams, rt, eventStreams, streamsByName, up, history>>

-----------------------------------------------------------------------------

\* The process dies, and is started again.
Restart ==
    /\ up /\ trouble > 0
    /\ trouble' = trouble - 1
    /\ up' = Restorable
    /\ req' = [q \in Requests |-> IF Active(q) THEN [NewRequest EXCEPT !.pc = "done"] ELSE req[q]]
    /\ listenersAdminMux' = None
    /\ eventStreams' = StoredStreams
    /\ rt' = RestoredRuntime
    /\ streamsByName' = RestoredStreamNames /\ listenersByName' = RestoredListenerNames
    /\ astray' = astray \cup UNION {Overlapping(s): s \in Streams}
    /\ UNCHANGED <<storeVars, known, created>>

-----------------------------------------------------------------------------

StreamRequest(q) ==
    \/ CreateStream(q) \/ AddRuntimeStream(q) \/ WriteNewStream(q) \/ StartNewStream(q)
    \/ UpdateStream(q) \/ ReserveStreamName(q) \/ UpdateSpec(q) \/ ReadSpec(q) \/ WriteStream(q) \/ RunUpdated(q)
    \/ DeleteStream(q) \/ DeleteAllStreamListeners(q) \/ DeleteStreamRecord(q) \/ DeleteRuntime(q)

ListenerRequest(q) ==
    \/ CreateListener(q) \/ UpdateListener(q) \/ WriteListener(q) \/ ApplyListener(q)
    \/ DeleteListener(q) \/ DeleteListenerRecord(q)

Next == Restart \/ \E q \in Requests: StreamRequest(q) \/ ListenerRequest(q)

Spec == Init /\ [][Next]_vars

-----------------------------------------------------------------------------
(* Properties.                                                             *)

StreamSpec == [name: Names \cup {None}, suspended: BOOLEAN]
Runtime == [spec: StreamSpec, status: {"none", "stopped", "started", "deleted"}, listeners: [Listeners -> Names \cup {None}]]
Request ==
    [kind: {None, "createStream", "updateStream", "deleteStream", "createListener", "updateListener", "deleteListener"},
     pc: {"new", "add", "write", "start", "reserve", "spec", "read", "run", "listeners", "record", "runtime", "apply", "done"},
     s: Streams \cup {None}, l: Listeners \cup {None}, name: Names \cup {None}, old: Names \cup {None},
     had: BOOLEAN, spec: StreamSpec, held: BOOLEAN, ok: BOOLEAN]
ListenerKinds == {"createListener", "updateListener", "deleteListener"}

\* Type correctness; listenersAdminMux is held by the listener request between its
\* steps, and by nobody else.
ManagementTypeOK ==
    /\ streams \in [Streams -> StreamSpec]
    /\ listeners \in [Listeners -> [stream: Streams \cup {None}, name: Names \cup {None}]]
    /\ rt \in [Streams -> Runtime]
    /\ eventStreams \subseteq Streams
    /\ streamsByName \in [Names -> Streams \cup {None}]
    /\ listenersByName \in [Names -> Listeners \cup {None}]
    /\ req \in [Requests -> Request]
    /\ up \in BOOLEAN /\ trouble \in 0..MaxTrouble
    /\ known \subseteq Streams /\ created \subseteq Streams \cup Listeners /\ astray \subseteq Streams
    /\ listenersAdminMux \in Requests \cup {None}
    /\ \A q \in Requests: listenersAdminMux = q <=> Active(q) /\ req[q].kind \in ListenerKinds

\* reserveListenerName: no two stored listeners have the same name, whatever
\* requests race, fail or are cut off by a restart.
ListenerNamesUnique ==
    \A l, m \in StoredListeners: listeners[l].name = listeners[m].name => l = m

\* createOrUpdateListener and both deletes: between listener requests the index has
\* exactly the names that are stored.  None is free that is in use, and none stays
\* taken that nobody has.
ListenerIndexed ==
    up /\ listenersAdminMux = None =>
        \A n \in Names, l \in Listeners: listenersByName[n] = l <=> listeners[l].name = n

\* DeleteStream against createOrUpdateListener: no listener is stored for a stream
\* that is not.
NoOrphanListeners == \A l \in Listeners: listeners[l].stream \in StoredStreams \cup {None}

\* reserveStreamName: streams in the map have different names in the store, unless
\* an update or a delete failed or overlapped another request on its stream.  (Two
\* overlapping updates both release the old name, the second one from whoever has
\* taken it since: other streams than the one with the updates may then share it.)
StreamNamesUnique ==
    astray = {} => \A s, t \in StoredStreams \cap eventStreams: streams[s].name = streams[t].name => s = t

\* What runs is what is stored, once nobody is busy with the stream: its name, its
\* state, and its listeners with their names.  A listener whose delete failed, or
\* was cut off, is stored and does not run.
RuntimeMatchesStore ==
    \A s \in eventStreams \ astray: up /\ On(s) = {} =>
        /\ rt[s].spec = streams[s]
        /\ rt[s].status = Status(streams[s].suspended)
        /\ \A l \in Listeners:
             rt[s].listeners[l] \in {None, IF listeners[l].stream = s THEN listeners[l].name ELSE None}
        /\ trouble = MaxTrouble => \A l \in ListenersOf(s): rt[s].listeners[l] # None

\* DeleteStream, once it has succeeded: no record, no listeners, and nothing left
\* running, unless it overlapped an update or followed a failed delete.
DeletedIsGone ==
    \A q \in Requests:
        LET s == req[q].s
        IN  req[q].kind = "deleteStream" /\ req[q].pc = "done" /\ req[q].ok /\ s \notin astray =>
              streams[s] = NoStream /\ ListenersOf(s) = {} /\ rt[s].status \in {"deleted", "none"}

\* restoreStreams, for the manager to come up again (the comment at
\* eventstream.go:264 on who is responsible for unique names).
RestoreSucceeds == up
=============================================================================
