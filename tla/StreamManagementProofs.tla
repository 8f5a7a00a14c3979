----------------------- MODULE StreamManagementProofs -----------------------
(***************************************************************************)
(* Theorems about StreamManagement, for all sets of streams, listeners,    *)
(* names and requests, every initial store and any number of failing       *)
(* writes and restarts.                                                    *)
(***************************************************************************)
EXTENDS StreamManagement, TLAPS

(***************************************************************************)
(* The inductive invariants.                                               *)
(***************************************************************************)

\* What a request carries in each of its phases.
RequestOK(q) ==
    LET r == req[q]
    IN  /\ r.kind = None => r.pc \in {"new", "done"}
        /\ r.pc = "new" => r.kind = None
        /\ r.kind = "createStream" =>
             r.pc \in {"add", "write", "start"} /\ r.s \in Streams /\ r.name \in Names /\ r.spec.name = r.name
        /\ r.kind = "updateStream" => r.pc \in {"reserve", "spec", "read", "write", "run"} /\ r.s \in Streams
        /\ r.kind = "deleteStream" => r.pc \in {"listeners", "record", "runtime", "done"} /\ r.s \in Streams
        /\ r.kind \in {"createListener", "updateListener"} =>
             r.pc \in {"write", "apply"} /\ r.s \in Streams /\ r.l \in Listeners /\ r.name \in Names
        /\ r.kind = "deleteListener" => r.pc = "record" /\ r.s \in Streams /\ r.l \in Listeners
RequestsOK == \A q \in Requests: RequestOK(q)

\* What is stored is complete, and has an ID that was given out.
StoredOK ==
    /\ \A s \in Streams: streams[s] = NoStream \/ streams[s].name \in Names
    /\ \A l \in Listeners: listeners[l] = NoListener \/ (listeners[l].stream \in Streams /\ listeners[l].name \in Names)
    /\ StoredStreams \subseteq known /\ known \subseteq created /\ StoredListeners \subseteq created
    /\ known \cap eventStreams \subseteq StoredStreams

\* A stream request works on a stream that clients know, or on one it creates alone.
CreatesOK ==
    /\ \A q \in Requests: req[q].kind = "createStream" =>
         req[q].s \in created /\ (req[q].pc \in {"add", "write"} => req[q].s \notin known)
    /\ \A p, q \in Requests:
         req[p].kind = "createStream" /\ req[q].kind = "createStream" /\ req[p].s = req[q].s => p = q

\* What runs, or is being updated, has a name.
RuntimeNamed ==
    /\ \A s \in eventStreams: rt[s].spec.name \in Names
    /\ \A q \in Requests: req[q].kind = "updateStream" =>
         req[q].s \in known /\ rt[req[q].s].spec.name \in Names /\ (req[q].pc \in {"write", "run"} => req[q].spec.name \in Names)

\* The request that holds the mutex works on a stored stream.
HolderOK ==
    \A q \in Requests: listenersAdminMux = q => req[q].s \in StoredStreams /\ req[q].l \in created

\* A stream that is being deleted is not in the map; once its listeners were deleted
\* it has none, and nobody is about to add one.
DeletesOK ==
    \A q \in Requests: req[q].kind = "deleteStream" /\ req[q].pc # "done" =>
        /\ req[q].s \in known \ eventStreams
        /\ req[q].pc \in {"record", "runtime"} =>
             ListenersOf(req[q].s) = {} /\ \A p \in Requests: listenersAdminMux = p => req[p].s # req[q].s

\* A name is indexed for exactly the listener that has it in the store.
Indexed(n) == \A l \in Listeners: listenersByName[n] = l <=> listeners[l].name = n
Nobody(n) == \A l \in Listeners: listeners[l].name # n

AllIndexed == \A n \in Names: Indexed(n)

\* A listener request has reserved its name, and has not written the listener: the
\* index differs from the store in that name.
ReservedOK(r) ==
    /\ \A n \in Names \ {r.name}: Indexed(n)
    /\ listenersByName[r.name] = r.l
    /\ \A m \in Listeners: listeners[m].name = r.name => m = r.l
    /\ r.had <=> listeners[r.l].name = r.name
    /\ r.old = listeners[r.l].name

\* It has written the listener, and has not released the old name.
WrittenOK(r) ==
    /\ \A n \in Names: n = r.name \/ n # r.old => Indexed(n)
    /\ r.old \in Names \ {r.name} => Nobody(r.old) /\ listenersByName[r.old] = r.l
    /\ listeners[r.l].name = r.name

IndexOK ==
    /\ listenersAdminMux = None => AllIndexed
    /\ \A q \in Requests: listenersAdminMux = q =>
         /\ req[q].pc = "write" => ReservedOK(req[q])
         /\ req[q].pc = "apply" => WrittenOK(req[q])
         /\ req[q].pc = "record" => AllIndexed

Typed == ManagementTypeOK /\ RequestsOK
OrphanInv == StoredOK /\ CreatesOK /\ RuntimeNamed /\ HolderOK /\ DeletesOK /\ NoOrphanListeners
ListenerInv == ListenerNamesUnique /\ IndexOK

(***************************************************************************)
(* Type correctness                                                        *)
(***************************************************************************)

\* What a start makes of the store.
LEMMA RestoredType ==
    ASSUME ManagementTypeOK
    PROVE  /\ RestoredRuntime \in [Streams -> Runtime] /\ StoredStreams \subseteq Streams
           /\ RestoredStreamNames \in [Names -> Streams \cup {None}]
           /\ RestoredListenerNames \in [Names -> Listeners \cup {None}]
<1>1. StoredStreams \subseteq Streams BY DEF StoredStreams
<1>2. RestoredRuntime \in [Streams -> Runtime]
  <2> SUFFICES ASSUME NEW s \in Streams PROVE RestoredRuntime[s] \in Runtime BY DEF RestoredRuntime
  <2>1. NoRuntime \in Runtime BY DEF NoRuntime, Runtime, StreamSpec, NoStream
  <2>2. [l \in Listeners |-> IF listeners[l].stream = s THEN listeners[l].name ELSE None] \in [Listeners -> Names \cup {None}]
    BY DEF ManagementTypeOK
  <2>3. streams[s] \in StreamSpec BY DEF ManagementTypeOK
  <2> QED BY <2>1, <2>2, <2>3 DEF RestoredRuntime, Runtime, Status
<1>3. RestoredStreamNames \in [Names -> Streams \cup {None}]
  <2> SUFFICES ASSUME NEW n \in Names PROVE RestoredStreamNames[n] \in Streams \cup {None} BY DEF RestoredStreamNames
  <2> QED BY <1>1 DEF RestoredStreamNames
<1>4. RestoredListenerNames \in [Names -> Listeners \cup {None}]
  <2> SUFFICES ASSUME NEW n \in Names PROVE RestoredListenerNames[n] \in Listeners \cup {None} BY DEF RestoredListenerNames
  <2> QED BY DEF RestoredListenerNames
<1> QED BY <1>1, <1>2, <1>3, <1>4

\* The requests a request can become.
LEMMA RequestType ==
    /\ NewRequest \in Request /\ NoStream \in StreamSpec /\ NoRuntime \in Runtime
    /\ \A r \in Request: Ended(r.kind, r.s, TRUE) \in Request /\ Ended(r.kind, r.s, FALSE) \in Request
<1>1. NewRequest \in Request /\ NoStream \in StreamSpec BY DEF NewRequest, Request, NoStream, StreamSpec
<1>2. NoRuntime \in Runtime BY <1>1 DEF NoRuntime, Runtime
<1>3. ASSUME NEW r \in Request, NEW ok \in BOOLEAN PROVE Ended(r.kind, r.s, ok) \in Request
  <2>1. r.kind = "deleteStream" => [NewRequest EXCEPT !.kind = r.kind, !.pc = "done", !.s = r.s, !.ok = ok] \in Request
    BY <1>1 DEF Request
  <2>2. [NewRequest EXCEPT !.pc = "done"] \in Request BY <1>1 DEF Request
  <2> QED BY <2>1, <2>2 DEF Ended
<1> QED BY <1>1, <1>2, <1>3

LEMMA NewRequestType == NewRequest \in Request
BY RequestType

LEMMA CountType ==
    ASSUME ManagementTypeOK, NEW ok \in Outcomes, Count(ok) PROVE trouble' \in 0..MaxTrouble /\ ok \in BOOLEAN
<1>1. ok \in BOOLEAN /\ (trouble > 0 \/ ok = TRUE) BY DEF Outcomes
<1>2. MaxTrouble \in Nat /\ trouble \in 0..MaxTrouble BY ManagementAssumption DEF ManagementTypeOK
<1> QED BY <1>1, <1>2 DEF Count

\* A request goes on as a stream request, or is over.
Becomes(q) == \E r \in Request: req' = [req EXCEPT ![q] = r] /\ r.kind \notin ListenerKinds

PCs == {"new", "add", "write", "start", "reserve", "spec", "read", "run", "listeners", "record", "runtime", "apply", "done"}

LEMMA GotoType ==
    ASSUME req \in [Requests -> Request], NEW q \in Requests, req[q].kind \notin ListenerKinds, NEW pc \in PCs, Goto(q, pc)
    PROVE  Becomes(q)
<1> DEFINE r == [req[q] EXCEPT !.pc = pc]
<1>1. r \in Request /\ r.kind = req[q].kind BY DEF Request, PCs
<1>2. req' = [req EXCEPT ![q] = r] BY DEF Goto
<1> HIDE DEF r
<1> QED BY <1>1, <1>2 DEF Becomes

LEMMA DoneType ==
    ASSUME req \in [Requests -> Request], NEW q \in Requests, NEW ok \in BOOLEAN, Done(q, ok)
    PROVE  Becomes(q)
<1> DEFINE r == Ended(req[q].kind, req[q].s, ok)
<1>1. r \in Request BY RequestType
<1>2. r.kind \in {"deleteStream", None} BY DEF Ended, NewRequest
<1>3. req' = [req EXCEPT ![q] = r] BY DEF Done
<1> HIDE DEF r
<1> QED BY <1>1, <1>2, <1>3 DEF Becomes, ListenerKinds, None

LEMMA RefuseType ==
    ASSUME req \in [Requests -> Request], NEW q \in Requests, Refuse(q)
    PROVE  Becomes(q) /\ ~Active(q)
<1> DEFINE r == [NewRequest EXCEPT !.pc = "done"]
<1>1. r \in Request /\ r.kind = None BY RequestType DEF NewRequest, Request
<1>2. req' = [req EXCEPT ![q] = r] /\ ~Active(q) BY DEF Refuse, Start, Active
<1> HIDE DEF r
<1> QED BY <1>1, <1>2 DEF Becomes, ListenerKinds, None

\* A step of a stream request, whatever it does to the store and the maps, keeps
\* the types if these do.  It leaves the mutex alone.
LEMMA StreamStepType ==
    ASSUME ManagementTypeOK, NEW q \in Requests, Becomes(q),
           req[q].kind \notin ListenerKinds \/ ~Active(q), UNCHANGED <<listenersAdminMux, up>>,
           streams' \in [Streams -> StreamSpec], rt' \in [Streams -> Runtime], eventStreams' \subseteq Streams,
           listeners' \in [Listeners -> [stream: Streams \cup {None}, name: Names \cup {None}]],
           streamsByName' \in [Names -> Streams \cup {None}], listenersByName' \in [Names -> Listeners \cup {None}],
           trouble' \in 0..MaxTrouble, known' \subseteq Streams, created' \subseteq Streams \cup Listeners, astray' \subseteq Streams
    PROVE  ManagementTypeOK'
<1>1. PICK r \in Request: req' = [req EXCEPT ![q] = r] /\ r.kind \notin ListenerKinds BY DEF Becomes
<1>2. req' \in [Requests -> Request] BY <1>1 DEF ManagementTypeOK
<1>3. \A p \in Requests: listenersAdminMux' = p <=> Active(p)' /\ req'[p].kind \in ListenerKinds
  BY <1>1 DEF ManagementTypeOK, Active
<1>4. up' \in BOOLEAN /\ listenersAdminMux' \in Requests \cup {None} BY DEF ManagementTypeOK
<1> QED BY <1>2, <1>3, <1>4 DEF ManagementTypeOK

LEMMA WithoutType ==
    ASSUME ManagementTypeOK, NEW n PROVE Without(streamsByName, n) \in [Names -> Streams \cup {None}]
BY DEF Without, ManagementTypeOK

LEMMA ReleasedType ==
    ASSUME ManagementTypeOK, NEW n, NEW l PROVE ReleasedName(listenersByName, n, l) \in [Names -> Listeners \cup {None}]
BY DEF ReleasedName, ManagementTypeOK

\* Changing a stream at run time.
LEMMA RuntimeType ==
    ASSUME ManagementTypeOK, NEW s \in Streams
    PROVE  /\ [rt EXCEPT ![s].status = "deleted"] \in [Streams -> Runtime]
           /\ \A f \in BOOLEAN: Ran(s, f) \in [Streams -> Runtime]
           /\ \A spec \in StreamSpec: [rt EXCEPT ![s].spec = spec] \in [Streams -> Runtime]
           /\ \A l \in Listeners, n \in Names \cup {None}: [rt EXCEPT ![s].listeners[l] = n] \in [Streams -> Runtime]
<1>1. rt \in [Streams -> Runtime] BY DEF ManagementTypeOK
<1>2. [rt EXCEPT ![s].status = "deleted"] \in [Streams -> Runtime] BY <1>1 DEF Runtime
<1>3. ASSUME NEW f \in BOOLEAN PROVE Ran(s, f) \in [Streams -> Runtime] BY <1>1 DEF Runtime, Ran, Status
<1>4. ASSUME NEW spec \in StreamSpec PROVE [rt EXCEPT ![s].spec = spec] \in [Streams -> Runtime] BY <1>1 DEF Runtime
<1>5. ASSUME NEW l \in Listeners, NEW n \in Names \cup {None}
      PROVE  [rt EXCEPT ![s].listeners[l] = n] \in [Streams -> Runtime]
  BY <1>1 DEF Runtime
<1> QED BY <1>2, <1>3, <1>4, <1>5

\* Every step of a stream request keeps the types.
LEMMA StreamTypeStep ==
    ASSUME ManagementTypeOK, RequestsOK, NEW q \in Requests, StreamRequest(q) PROVE ManagementTypeOK'
<1> DEFINE s == req[q].s
<1>0. /\ req[q] \in Request /\ rt \in [Streams -> Runtime] /\ streams \in [Streams -> StreamSpec]
      /\ known \subseteq Streams /\ req \in [Requests -> Request] /\ eventStreams \subseteq Streams
      /\ streamsByName \in [Names -> Streams \cup {None}] /\ RequestOK(q)
      /\ listeners \in [Listeners -> [stream: Streams \cup {None}, name: Names \cup {None}]]
      /\ listenersByName \in [Names -> Listeners \cup {None}] /\ trouble \in 0..MaxTrouble
      /\ created \subseteq Streams \cup Listeners /\ astray \subseteq Streams
  BY DEF ManagementTypeOK, RequestsOK
<1>a. req[q].spec \in StreamSpec /\ req[q].name \in Names \cup {None} BY <1>0 DEF Request
<1>b. \A t \in Streams: Overlapping(t) \subseteq Streams BY DEF Overlapping
<1>1. CASE CreateStream(q)
  <2>1. PICK t \in Streams \ created, name \in Names, suspended \in BOOLEAN:
          /\ ReserveNew(t, name)
          /\ Start(q, [NewRequest EXCEPT !.kind = "createStream", !.pc = "add", !.s = t, !.name = name,
                                         !.spec = [name |-> name, suspended |-> suspended]])
          /\ created' = created \cup {t}
          /\ UNCHANGED <<storeVars, rt, eventStreams, listenersByName, listenersAdminMux, up, trouble, known, astray>>
    BY <1>1 DEF CreateStream
  <2> DEFINE r == [NewRequest EXCEPT !.kind = "createStream", !.pc = "add", !.s = t, !.name = name,
                                     !.spec = [name |-> name, suspended |-> suspended]]
  <2>2. r \in Request /\ r.kind = "createStream" BY NewRequestType DEF Request, StreamSpec
  <2>3. req' = [req EXCEPT ![q] = r] /\ ~Active(q) BY <2>1 DEF Start, Active
  <2>4. streamsByName' \in [Names -> Streams \cup {None}] BY <1>0, <2>1 DEF ReserveNew
  <2>5. UNCHANGED <<streams, listeners>> BY <2>1 DEF storeVars
  <2> HIDE DEF r
  <2>6. Becomes(q) BY <2>2, <2>3 DEF Becomes, ListenerKinds
  <2> QED BY <1>0, <2>1, <2>3, <2>4, <2>5, <2>6, StreamStepType
<1>2. CASE AddRuntimeStream(q)
  <2>1. s \in Streams /\ req[q].kind \notin ListenerKinds BY <1>0, <1>2 DEF AddRuntimeStream, At, RequestOK, ListenerKinds
  <2>2. Becomes(q) BY <1>0, <1>2, <2>1, GotoType DEF AddRuntimeStream, PCs
  <2>3. rt' \in [Streams -> Runtime] BY <1>0, <1>2, <1>a, <2>1, RequestType DEF AddRuntimeStream, Runtime, NoRuntime
  <2>4. UNCHANGED <<streams, listeners, streamsByName, listenersByName, listenersAdminMux, up, trouble, known, created, astray>>
        /\ eventStreams' \subseteq Streams
    BY <1>0, <1>2, <2>1 DEF AddRuntimeStream, storeVars, history
  <2> QED BY <1>0, <2>1, <2>2, <2>3, <2>4, StreamStepType
<1>3. CASE WriteNewStream(q)
  <2>1. s \in Streams /\ req[q].kind \notin ListenerKinds BY <1>0, <1>3 DEF WriteNewStream, At, RequestOK, ListenerKinds
  <2>2. PICK ok \in Outcomes:
          /\ Count(ok)
          /\ IF ok
             THEN /\ streams' = [streams EXCEPT ![s] = req[q].spec]
                  /\ known' = known \cup {s}
                  /\ Goto(q, "start")
                  /\ UNCHANGED <<rt, eventStreams, streamsByName>>
             ELSE /\ eventStreams' = eventStreams \ {s}
                  /\ rt' = [rt EXCEPT ![s].status = "deleted"]
                  /\ streamsByName' = Without(streamsByName, req[q].name)
                  /\ Done(q, FALSE)
                  /\ UNCHANGED <<streams, known>>
    BY <1>3 DEF WriteNewStream
  <2>3. Becomes(q) BY <1>0, <2>1, <2>2, GotoType, DoneType DEF PCs
  <2>4. streams' \in [Streams -> StreamSpec] /\ known' \subseteq Streams /\ eventStreams' \subseteq Streams
    BY <1>0, <1>a, <2>1, <2>2
  <2>a. rt' \in [Streams -> Runtime]
    <3>1. CASE ok BY <1>0, <2>2, <3>1
    <3>2. CASE ~ok BY <2>1, <2>2, <3>2, RuntimeType
    <3> QED BY <3>1, <3>2
  <2>b. streamsByName' \in [Names -> Streams \cup {None}]
    <3>1. CASE ok BY <1>0, <2>2, <3>1
    <3>2. CASE ~ok BY <2>2, <3>2, WithoutType
    <3> QED BY <3>1, <3>2
  <2>5. UNCHANGED <<listeners, listenersByName, listenersAdminMux, up, created, astray>> BY <1>3 DEF WriteNewStream
  <2>6. trouble' \in 0..MaxTrouble BY <2>2, CountType
  <2> QED BY <1>0, <2>1, <2>3, <2>a, <2>b, <2>4, <2>5, <2>6, StreamStepType
<1>4. CASE StartNewStream(q)
  <2>1. s \in Streams /\ req[q].kind \notin ListenerKinds BY <1>0, <1>4 DEF StartNewStream, At, RequestOK, ListenerKinds
  <2>2. Becomes(q) BY <1>0, <1>4, DoneType DEF StartNewStream
  <2>3. rt' \in [Streams -> Runtime] BY <1>4, <1>a, <2>1, RuntimeType DEF StartNewStream, StreamSpec
  <2>4. UNCHANGED <<streams, listeners, eventStreams, streamsByName, listenersByName, listenersAdminMux, up, trouble, known, created, astray>>
    BY <1>4 DEF StartNewStream, storeVars, history
  <2> QED BY <1>0, <2>1, <2>2, <2>3, <2>4, StreamStepType
<1>5. CASE UpdateStream(q)
  <2>1. PICK t \in known, name \in Names \cup {None}, suspended \in BOOLEAN:
          /\ IF t \in eventStreams
             THEN Start(q, [NewRequest EXCEPT !.kind = "updateStream", !.pc = "reserve", !.s = t, !.name = name,
                                              !.spec = [name |-> name, suspended |-> suspended]])
             ELSE Refuse(q)
          /\ astray' = astray \cup Overlapping(t)
          /\ UNCHANGED <<storeVars, memoryVars, listenersAdminMux, up, trouble, known, created>>
    BY <1>5 DEF UpdateStream
  <2> DEFINE spec == [name |-> name, suspended |-> suspended]
             r == [NewRequest EXCEPT !.kind = "updateStream", !.pc = "reserve", !.s = t, !.name = name, !.spec = spec]
  <2>3. t \in eventStreams => req' = [req EXCEPT ![q] = r] /\ ~Active(q) BY <2>1 DEF Start, Active
  <2>a. spec \in StreamSpec /\ t \in Streams BY <1>0 DEF StreamSpec
  <2> HIDE DEF spec
  <2>2. r \in Request /\ r.kind = "updateStream" BY <2>a, NewRequestType DEF Request
  <2> HIDE DEF r
  <2>4. Becomes(q) /\ ~Active(q) BY <1>0, <2>1, <2>2, <2>3, RefuseType DEF Becomes, ListenerKinds
  <2>5. UNCHANGED <<streams, listeners, rt, eventStreams, streamsByName, listenersByName>> BY <2>1 DEF storeVars, memoryVars
  <2>6. astray' \subseteq Streams BY <1>0, <1>b, <2>1
  <2> QED BY <1>0, <2>1, <2>4, <2>5, <2>6, StreamStepType
<1>6. CASE ReserveStreamName(q)
  <2>1. s \in Streams /\ req[q].kind \notin ListenerKinds BY <1>0, <1>6 DEF ReserveStreamName, At, RequestOK, ListenerKinds
  <2> DEFINE h == streamsByName[req[q].name] # None
             old == IF s \in eventStreams THEN rt[s].spec.name ELSE None
             r == [req[q] EXCEPT !.pc = "spec", !.had = h, !.old = old]
  <2>a. old \in Names \cup {None} BY <1>0, <2>1 DEF Runtime, StreamSpec
  <2>b. h \in BOOLEAN OBVIOUS
  <2>3. \/ Goto(q, "spec") \/ Done(q, FALSE) \/ req' = [req EXCEPT ![q] = r]
    BY <1>0, <1>6 DEF ReserveStreamName
  <2> HIDE DEF h, old
  <2>2. r \in Request /\ r.kind = req[q].kind BY <1>0, <2>a, <2>b, ZenonT(60) DEF Request
  <2> HIDE DEF r
  <2>4. Becomes(q) BY <1>0, <2>1, <2>2, <2>3, GotoType, DoneType DEF Becomes, PCs
  <2>5. streamsByName' \in [Names -> Streams \cup {None}] BY <1>0, <1>6, <2>1 DEF ReserveStreamName
  <2>6. UNCHANGED <<streams, listeners, rt, eventStreams, listenersByName, listenersAdminMux, up, trouble, known, created, astray>>
    BY <1>6 DEF ReserveStreamName, storeVars, history
  <2> QED BY <1>0, <2>1, <2>4, <2>5, <2>6, StreamStepType
<1>7. CASE UpdateSpec(q)
  <2>1. s \in Streams /\ req[q].kind \notin ListenerKinds BY <1>0, <1>7 DEF UpdateSpec, At, RequestOK, ListenerKinds
  <2>2. Becomes(q) BY <1>0, <1>7, <2>1, GotoType DEF UpdateSpec, PCs
  <2> DEFINE spec == [name |-> IF req[q].name = None THEN rt[s].spec.name ELSE req[q].name, suspended |-> req[q].spec.suspended]
  <2>3. spec \in StreamSpec BY <1>0, <1>a, <2>1 DEF Runtime, StreamSpec
  <2>4. rt' = [rt EXCEPT ![s].spec = spec] BY <1>0, <1>7, <2>1 DEF UpdateSpec
  <2> HIDE DEF spec
  <2>5. rt' \in [Streams -> Runtime] BY <2>1, <2>3, <2>4, RuntimeType
  <2>6. UNCHANGED <<streams, listeners, eventStreams, streamsByName, listenersByName, listenersAdminMux, up, trouble, known, created, astray>>
    BY <1>7 DEF UpdateSpec, storeVars, history
  <2> QED BY <1>0, <2>1, <2>2, <2>5, <2>6, StreamStepType
<1>8. CASE ReadSpec(q)
  <2>1. s \in Streams /\ req[q].kind \notin ListenerKinds BY <1>0, <1>8 DEF ReadSpec, At, RequestOK, ListenerKinds
  <2> DEFINE r == [req[q] EXCEPT !.pc = "write", !.spec = rt[s].spec]
  <2>2. r \in Request /\ r.kind = req[q].kind BY <1>0, <2>1 DEF Request, Runtime
  <2>3. req' = [req EXCEPT ![q] = r] BY <1>0, <1>8 DEF ReadSpec
  <2> HIDE DEF r
  <2>4. Becomes(q) BY <2>1, <2>2, <2>3 DEF Becomes
  <2>5. UNCHANGED <<streams, listeners, rt, eventStreams, streamsByName, listenersByName, listenersAdminMux, up, trouble, known, created, astray>>
    BY <1>8 DEF ReadSpec, storeVars, memoryVars, history
  <2> QED BY <1>0, <2>1, <2>4, <2>5, StreamStepType
<1>9. CASE WriteStream(q)
  <2>1. s \in Streams /\ req[q].kind \notin ListenerKinds BY <1>0, <1>9 DEF WriteStream, At, RequestOK, ListenerKinds
  <2>2. PICK ok \in Outcomes:
          /\ Count(ok)
          /\ IF ok
             THEN /\ streams' = [streams EXCEPT ![s] = req[q].spec]
                  /\ Goto(q, "run")
                  /\ UNCHANGED <<streamsByName, astray>>
             ELSE /\ streamsByName' = IF req[q].had THEN streamsByName ELSE Without(streamsByName, req[q].name)
                  /\ astray' = astray \cup {s}
                  /\ Done(q, FALSE)
                  /\ UNCHANGED streams
    BY <1>9 DEF WriteStream
  <2>3. Becomes(q) BY <1>0, <2>1, <2>2, GotoType, DoneType DEF PCs
  <2>a. streamsByName' \in [Names -> Streams \cup {None}]
    <3>1. CASE ok BY <1>0, <2>2, <3>1
    <3>2. CASE ~ok BY <1>0, <2>2, <3>2, WithoutType
    <3> QED BY <3>1, <3>2
  <2>4. streams' \in [Streams -> StreamSpec] /\ astray' \subseteq Streams BY <1>0, <1>a, <2>1, <2>2
  <2>5. UNCHANGED <<listeners, rt, eventStreams, listenersByName, listenersAdminMux, up, known, created>> BY <1>9 DEF WriteStream
  <2>6. trouble' \in 0..MaxTrouble BY <2>2, CountType
  <2> QED BY <1>0, <2>1, <2>3, <2>a, <2>4, <2>5, <2>6, StreamStepType
<1>10. CASE RunUpdated(q)
  <2>1. s \in Streams /\ req[q].kind \notin ListenerKinds BY <1>0, <1>10 DEF RunUpdated, At, RequestOK, ListenerKinds
  <2>2. Becomes(q) BY <1>0, <1>10, DoneType DEF RunUpdated
  <2>3. rt' \in [Streams -> Runtime] BY <1>10, <1>a, <2>1, RuntimeType DEF RunUpdated, StreamSpec
  <2>4. streamsByName' \in [Names -> Streams \cup {None}] BY <1>0, <1>10, WithoutType DEF RunUpdated
  <2>5. UNCHANGED <<streams, listeners, eventStreams, listenersByName, listenersAdminMux, up, trouble, known, created, astray>>
    BY <1>10 DEF RunUpdated, storeVars, history
  <2> QED BY <1>0, <2>1, <2>2, <2>3, <2>4, <2>5, StreamStepType
<1>11. CASE DeleteStream(q)
  <2>1. PICK t \in known:
          /\ Start(q, [NewRequest EXCEPT !.kind = "deleteStream", !.pc = "listeners", !.s = t, !.held = t \in eventStreams])
          /\ eventStreams' = Unmapped(t)
          /\ streamsByName' = IF t \in eventStreams THEN Without(streamsByName, rt[t].spec.name) ELSE streamsByName
          /\ astray' = astray \cup Overlapping(t)
          /\ UNCHANGED <<storeVars, rt, listenersByName, listenersAdminMux, up, trouble, known, created>>
    BY <1>11 DEF DeleteStream
  <2> DEFINE h == t \in eventStreams
             r == [NewRequest EXCEPT !.kind = "deleteStream", !.pc = "listeners", !.s = t, !.held = h]
  <2>a. h \in BOOLEAN OBVIOUS
  <2>b. req' = [req EXCEPT ![q] = r] /\ ~Active(q) BY <2>1 DEF Start, Active
  <2> HIDE DEF h
  <2>2. r \in Request /\ r.kind = "deleteStream" BY <1>0, <2>a, NewRequestType, ZenonT(60) DEF Request
  <2> HIDE DEF r
  <2>4. Becomes(q) BY <2>2, <2>b DEF Becomes, ListenerKinds
  <2>5. UNCHANGED <<streams, listeners>> /\ astray' \subseteq Streams /\ eventStreams' \subseteq Streams
    BY <1>0, <1>b, <2>1 DEF storeVars, Unmapped
  <2>6. streamsByName' \in [Names -> Streams \cup {None}] BY <1>0, <2>1, WithoutType
  <2> QED BY <1>0, <2>1, <2>b, <2>4, <2>5, <2>6, StreamStepType
<1>12. CASE DeleteAllStreamListeners(q)
  <2>1. s \in Streams /\ req[q].kind \notin ListenerKinds
    BY <1>0, <1>12 DEF DeleteAllStreamListeners, At, RequestOK, ListenerKinds
  <2>2. PICK ok \in Outcomes, gone \in SUBSET ListenersOf(s):
          /\ Count(ok)
          /\ listeners' = [l \in Listeners |-> IF l \in gone THEN NoListener ELSE listeners[l]]
          /\ listenersByName' = [n \in Names |->
               IF \E l \in gone: listeners[l].name = n /\ listenersByName[n] = l THEN None ELSE listenersByName[n]]
          /\ astray' = IF ok THEN astray ELSE astray \cup {s}
          /\ IF ok THEN Goto(q, "record") ELSE Done(q, FALSE)
    BY <1>12 DEF DeleteAllStreamListeners
  <2>3. Becomes(q) BY <1>0, <2>1, <2>2, GotoType, DoneType DEF PCs
  <2>4. /\ listeners' \in [Listeners -> [stream: Streams \cup {None}, name: Names \cup {None}]]
        /\ listenersByName' \in [Names -> Listeners \cup {None}]
        /\ astray' \subseteq Streams
    BY <1>0, <2>1, <2>2 DEF NoListener
  <2>5. UNCHANGED <<streams, rt, eventStreams, streamsByName, listenersAdminMux, up, known, created>>
    BY <1>12 DEF DeleteAllStreamListeners
  <2>6. trouble' \in 0..MaxTrouble BY <2>2, CountType
  <2> QED BY <1>0, <2>1, <2>3, <2>4, <2>5, <2>6, StreamStepType
<1>13. CASE DeleteStreamRecord(q)
  <2>1. s \in Streams /\ req[q].kind \notin ListenerKinds
    BY <1>0, <1>13 DEF DeleteStreamRecord, At, RequestOK, ListenerKinds
  <2>2. PICK ok \in Outcomes:
          /\ Count(ok)
          /\ streams' = IF ok THEN [streams EXCEPT ![s] = NoStream] ELSE streams
          /\ astray' = IF ok THEN astray ELSE astray \cup {s}
          /\ IF ok THEN Goto(q, "runtime") ELSE Done(q, FALSE)
    BY <1>13 DEF DeleteStreamRecord
  <2>3. Becomes(q) BY <1>0, <2>1, <2>2, GotoType, DoneType DEF PCs
  <2>4. streams' \in [Streams -> StreamSpec] /\ astray' \subseteq Streams BY <1>0, <2>1, <2>2, RequestType
  <2>5. UNCHANGED <<listeners, rt, eventStreams, streamsByName, listenersByName, listenersAdminMux, up, known, created>>
    BY <1>13 DEF DeleteStreamRecord, memoryVars
  <2>6. trouble' \in 0..MaxTrouble BY <2>2, CountType
  <2> QED BY <1>0, <2>1, <2>3, <2>4, <2>5, <2>6, StreamStepType
<1>14. CASE DeleteRuntime(q)
  <2>1. s \in Streams /\ req[q].kind \notin ListenerKinds BY <1>0, <1>14 DEF DeleteRuntime, At, RequestOK, ListenerKinds
  <2>2. Becomes(q) BY <1>0, <1>14, DoneType DEF DeleteRuntime
  <2>3. rt' \in [Streams -> Runtime] BY <1>0, <1>14, <2>1, RuntimeType DEF DeleteRuntime
  <2>4. UNCHANGED <<streams, listeners, eventStreams, streamsByName, listenersByName, listenersAdminMux, up, trouble, known, created, astray>>
    BY <1>14 DEF DeleteRuntime, storeVars, history
  <2> QED BY <1>0, <2>1, <2>2, <2>3, <2>4, StreamStepType
<1> QED BY <1>1, <1>2, <1>3, <1>4, <1>5, <1>6, <1>7, <1>8, <1>9, <1>10, <1>11, <1>12, <1>13, <1>14 DEF StreamRequest

\* A listener request that starts takes the mutex, one that ends returns it.
LEMMA ListenerStepType ==
    ASSUME ManagementTypeOK, NEW q \in Requests, NEW r \in Request, req' = [req EXCEPT ![q] = r],
           \/ listenersAdminMux' = q /\ r.kind \in ListenerKinds /\ r.pc \notin {"new", "done"}
           \/ listenersAdminMux' = None /\ r.pc = "done",
           listenersAdminMux \in {None, q}, UNCHANGED <<streams, eventStreams, streamsByName, up>>,
           rt' \in [Streams -> Runtime], listeners' \in [Listeners -> [stream: Streams \cup {None}, name: Names \cup {None}]],
           listenersByName' \in [Names -> Listeners \cup {None}],
           trouble' \in 0..MaxTrouble, known' \subseteq Streams, created' \subseteq Streams \cup Listeners, astray' \subseteq Streams
    PROVE  ManagementTypeOK'
<1>1. req' \in [Requests -> Request] BY DEF ManagementTypeOK
<1>2. \A p \in Requests: listenersAdminMux' = p <=> Active(p)' /\ req'[p].kind \in ListenerKinds
  BY ManagementAssumption DEF ManagementTypeOK, Active
<1>3. up' \in BOOLEAN /\ listenersAdminMux' \in Requests \cup {None} BY DEF ManagementTypeOK
<1>4. /\ streams' \in [Streams -> StreamSpec] /\ eventStreams' \subseteq Streams
      /\ streamsByName' \in [Names -> Streams \cup {None}]
  BY DEF ManagementTypeOK
<1> QED BY <1>1, <1>2, <1>3, <1>4 DEF ManagementTypeOK

\* The start of a request to create or to update a listener.
LEMMA ReserveType ==
    ASSUME ManagementTypeOK, NEW q \in Requests, NEW kind \in {"createListener", "updateListener"}, NEW s \in Streams,
           NEW l \in Listeners, NEW name \in Names, NEW old \in Names \cup {None},
           listenersAdminMux = None, ReserveListenerName(q, kind, s, l, name, old)
    PROVE  /\ listenersByName' \in [Names -> Listeners \cup {None}]
           /\ \E r \in Request:
                /\ req' = [req EXCEPT ![q] = r]
                /\ \/ listenersAdminMux' = q /\ r.kind \in ListenerKinds /\ r.pc \notin {"new", "done"}
                   \/ listenersAdminMux' = None /\ r.pc = "done"
                /\ RequestsOK => RequestsOK'
<1> DEFINE allowed == s \in eventStreams /\ Reservable(l, name)
           h == listenersByName[name] # None
           r == [NewRequest EXCEPT !.kind = kind, !.pc = "write", !.s = s, !.l = l, !.name = name, !.old = old, !.had = h]
           x == [NewRequest EXCEPT !.pc = "done"]
<1>1. h \in BOOLEAN OBVIOUS
<1>2. IF ~allowed
      THEN req' = [req EXCEPT ![q] = x] /\ UNCHANGED <<listenersByName, listenersAdminMux>>
      ELSE /\ req' = [req EXCEPT ![q] = r] /\ listenersAdminMux' = q
           /\ listenersByName' = [listenersByName EXCEPT ![name] = l]
  BY DEF ReserveListenerName, Start, Refuse, Lock
<1> HIDE DEF h, allowed
<1>3. r \in Request /\ r.kind = kind /\ r.pc = "write" /\ r.s = s /\ r.l = l /\ r.name = name
  BY <1>1, NewRequestType DEF Request
<1>4. x \in Request /\ x.pc = "done" /\ x.kind = None BY NewRequestType DEF Request, NewRequest
<1> HIDE DEF r, x
<1>5. listenersByName' \in [Names -> Listeners \cup {None}] BY <1>2 DEF ManagementTypeOK
<1>6. RequestsOK => RequestsOK'
  <2> SUFFICES ASSUME RequestsOK, NEW p \in Requests PROVE RequestOK(p)' BY DEF RequestsOK
  <2>1. CASE p # q BY <1>2, <2>1 DEF RequestsOK, RequestOK, ManagementTypeOK
  <2>2. CASE p = q BY <1>2, <1>3, <1>4, <2>2 DEF RequestOK, ManagementTypeOK, None
  <2> QED BY <2>1, <2>2
<1>7. CASE allowed BY <1>2, <1>3, <1>5, <1>6, <1>7 DEF ListenerKinds
<1>8. CASE ~allowed BY <1>2, <1>4, <1>5, <1>6, <1>8
<1> QED BY <1>7, <1>8

\* A request that is over has nothing more to do.
LEMMA DoneShape ==
    ASSUME ManagementTypeOK, RequestsOK, NEW q \in Requests, NEW ok \in BOOLEAN, Done(q, ok)
    PROVE  RequestsOK' /\ \E r \in Request: r.pc = "done" /\ req' = [req EXCEPT ![q] = r]
<1> DEFINE r == Ended(req[q].kind, req[q].s, ok)
<1>1. r \in Request BY RequestType DEF ManagementTypeOK
<1>2. r.pc = "done" /\ (r.kind = None \/ (r.kind = "deleteStream" /\ req[q].kind = "deleteStream" /\ r.s = req[q].s))
  BY DEF Ended, NewRequest
<1>3. req' = [req EXCEPT ![q] = r] BY DEF Done
<1> HIDE DEF r
<1>4. ASSUME NEW p \in Requests PROVE RequestOK(p)'
  <2>1. CASE p # q BY <1>3, <2>1 DEF RequestsOK, RequestOK, ManagementTypeOK
  <2>2. CASE p = q BY <1>1, <1>2, <1>3, <2>2 DEF RequestsOK, RequestOK, ManagementTypeOK, None
  <2> QED BY <2>1, <2>2
<1> QED BY <1>1, <1>2, <1>3, <1>4 DEF RequestsOK

\* A request goes on: only its phase changes.
LEMMA GotoShape ==
    ASSUME ManagementTypeOK, RequestsOK, NEW q \in Requests, NEW pc \in PCs \ {"new"}, Goto(q, pc),
           RequestOK(q) => LET r == req[q]
                           IN  /\ r.kind # None
                               /\ r.kind = "createStream" => pc \in {"add", "write", "start"}
                               /\ r.kind = "updateStream" => pc \in {"reserve", "spec", "read", "write", "run"}
                               /\ r.kind = "deleteStream" => pc \in {"listeners", "record", "runtime", "done"}
                               /\ r.kind \in {"createListener", "updateListener"} => pc \in {"write", "apply"}
                               /\ r.kind = "deleteListener" => pc = "record"
    PROVE  RequestsOK'
<1> SUFFICES ASSUME NEW p \in Requests PROVE RequestOK(p)' BY DEF RequestsOK
<1>1. CASE p # q BY <1>1 DEF Goto, RequestsOK, RequestOK, ManagementTypeOK
<1>2. CASE p = q BY <1>2 DEF Goto, RequestsOK, RequestOK, ManagementTypeOK, Request
<1> QED BY <1>1, <1>2

\* A request starts.
LEMMA StartShape ==
    ASSUME ManagementTypeOK, RequestsOK, NEW q \in Requests, NEW r \in Request, req' = [req EXCEPT ![q] = r],
           r.pc # "new",
           \/ r.kind = None /\ r.pc = "done"
           \/ r.kind = "createStream" /\ r.pc = "add" /\ r.s \in Streams /\ r.name \in Names /\ r.spec.name = r.name
           \/ r.kind = "updateStream" /\ r.pc \in {"reserve", "spec", "write"} /\ r.s \in Streams
           \/ r.kind = "deleteStream" /\ r.pc = "listeners" /\ r.s \in Streams
           \/ r.kind = "deleteListener" /\ r.pc = "record" /\ r.s \in Streams /\ r.l \in Listeners
    PROVE  RequestsOK'
<1> SUFFICES ASSUME NEW p \in Requests PROVE RequestOK(p)' BY DEF RequestsOK
<1>1. CASE p # q BY <1>1 DEF RequestsOK, RequestOK, ManagementTypeOK
<1>2. CASE p = q BY <1>2 DEF RequestOK, ManagementTypeOK, None
<1> QED BY <1>1, <1>2

LEMMA RefuseShape ==
    ASSUME ManagementTypeOK, RequestsOK, NEW q \in Requests, Refuse(q)
    PROVE  RequestsOK' /\ \E r \in Request: r.pc = "done" /\ req' = [req EXCEPT ![q] = r]
<1> DEFINE r == [NewRequest EXCEPT !.pc = "done"]
<1>1. r \in Request /\ r.kind = None /\ r.pc = "done" BY NewRequestType DEF NewRequest, Request
<1>2. req' = [req EXCEPT ![q] = r] BY DEF Refuse, Start
<1> HIDE DEF r
<1> QED BY <1>1, <1>2, StartShape

\* Every step of a stream request keeps its shape.
LEMMA StreamShapeStep ==
    ASSUME ManagementTypeOK, RequestsOK, NEW q \in Requests, StreamRequest(q) PROVE RequestsOK'
<1>0. RequestOK(q) /\ req[q] \in Request /\ req \in [Requests -> Request] /\ known \subseteq Streams
  BY DEF RequestsOK, ManagementTypeOK
<1>1. CASE CreateStream(q)
  <2>1. PICK t \in Streams \ created, name \in Names, suspended \in BOOLEAN:
          Start(q, [NewRequest EXCEPT !.kind = "createStream", !.pc = "add", !.s = t, !.name = name,
                                      !.spec = [name |-> name, suspended |-> suspended]])
    BY <1>1 DEF CreateStream
  <2> DEFINE r == [NewRequest EXCEPT !.kind = "createStream", !.pc = "add", !.s = t, !.name = name,
                                     !.spec = [name |-> name, suspended |-> suspended]]
  <2>2. r \in Request /\ r.kind = "createStream" /\ r.pc = "add" /\ r.s = t /\ r.name = name /\ r.spec.name = name
    BY NewRequestType DEF Request, StreamSpec
  <2>3. req' = [req EXCEPT ![q] = r] BY <2>1 DEF Start
  <2> HIDE DEF r
  <2> QED BY <2>2, <2>3, StartShape
<1>2. CASE AddRuntimeStream(q) BY <1>0, <1>2, GotoShape DEF AddRuntimeStream, At, PCs, None
<1>3. CASE WriteNewStream(q) BY <1>0, <1>3, GotoShape, DoneShape DEF WriteNewStream, At, PCs, None
<1>4. CASE StartNewStream(q) BY <1>4, DoneShape DEF StartNewStream
<1>5. CASE UpdateStream(q)
  <2>1. PICK t \in known, name \in Names \cup {None}, suspended \in BOOLEAN:
          IF t \in eventStreams
          THEN Start(q, [NewRequest EXCEPT !.kind = "updateStream", !.pc = "reserve", !.s = t, !.name = name,
                                           !.spec = [name |-> name, suspended |-> suspended]])
          ELSE Refuse(q)
    BY <1>5 DEF UpdateStream
  <2> DEFINE spec == [name |-> name, suspended |-> suspended]
             r == [NewRequest EXCEPT !.kind = "updateStream", !.pc = "reserve", !.s = t, !.name = name, !.spec = spec]
  <2>a. t \in Streams /\ spec \in StreamSpec BY <1>0 DEF StreamSpec
  <2>3. t \in eventStreams => req' = [req EXCEPT ![q] = r] BY <2>1 DEF Start
  <2> HIDE DEF spec
  <2>2. r \in Request /\ r.kind = "updateStream" /\ r.pc = "reserve" /\ r.s = t
    BY <2>a, NewRequestType DEF Request
  <2> HIDE DEF r
  <2> QED BY <1>0, <2>1, <2>2, <2>3, StartShape, RefuseShape
<1>6. CASE ReserveStreamName(q)
  <2>1. CASE Goto(q, "spec") BY <1>0, <1>6, <2>1, GotoShape DEF ReserveStreamName, At, PCs, None
  <2>2. CASE Done(q, FALSE) BY <2>2, DoneShape
  <2>3. CASE ~Goto(q, "spec") /\ ~Done(q, FALSE)
    <3>1. /\ req[q].kind = "updateStream"
          /\ req' = [req EXCEPT ![q].pc = "spec", ![q].had = streamsByName[req[q].name] # None,
                                ![q].old = IF req[q].s \in eventStreams THEN rt[req[q].s].spec.name ELSE None]
      BY <1>6, <2>3 DEF ReserveStreamName, At
    <3> QED
      <4> SUFFICES ASSUME NEW p \in Requests PROVE RequestOK(p)' BY DEF RequestsOK
      <4>1. CASE p # q BY <1>0, <3>1, <4>1 DEF RequestsOK, RequestOK
      <4>2. CASE p = q BY <1>0, <3>1, <4>2 DEF RequestOK, Request, None
      <4> QED BY <4>1, <4>2
  <2> QED BY <2>1, <2>2, <2>3
<1>7. CASE UpdateSpec(q) BY <1>0, <1>7, GotoShape DEF UpdateSpec, At, PCs, None
<1>8. CASE ReadSpec(q)
  <2> SUFFICES ASSUME NEW p \in Requests PROVE RequestOK(p)' BY DEF RequestsOK
  <2>1. CASE p # q BY <1>0, <1>8, <2>1 DEF RequestsOK, RequestOK, ReadSpec
  <2>2. CASE p = q BY <1>0, <1>8, <2>2 DEF RequestOK, Request, None, ReadSpec, At
  <2> QED BY <2>1, <2>2
<1>9. CASE WriteStream(q) BY <1>0, <1>9, GotoShape, DoneShape DEF WriteStream, At, PCs, None
<1>10. CASE RunUpdated(q) BY <1>10, DoneShape DEF RunUpdated
<1>11. CASE DeleteStream(q)
  <2>1. PICK t \in known: Start(q, [NewRequest EXCEPT !.kind = "deleteStream", !.pc = "listeners", !.s = t, !.held = t \in eventStreams])
    BY <1>11 DEF DeleteStream
  <2> DEFINE h == t \in eventStreams
             r == [NewRequest EXCEPT !.kind = "deleteStream", !.pc = "listeners", !.s = t, !.held = h]
  <2>a. h \in BOOLEAN OBVIOUS
  <2>b. req' = [req EXCEPT ![q] = r] BY <2>1 DEF Start
  <2> HIDE DEF h
  <2>2. r \in Request /\ r.kind = "deleteStream" /\ r.pc = "listeners" /\ r.s = t BY <1>0, <2>a, NewRequestType, ZenonT(60) DEF Request
  <2> HIDE DEF r
  <2> QED BY <1>0, <2>2, <2>b, StartShape
<1>12. CASE DeleteAllStreamListeners(q) BY <1>0, <1>12, GotoShape, DoneShape DEF DeleteAllStreamListeners, At, PCs, None
<1>13. CASE DeleteStreamRecord(q) BY <1>0, <1>13, GotoShape, DoneShape DEF DeleteStreamRecord, At, PCs, None
<1>14. CASE DeleteRuntime(q) BY <1>14, DoneShape DEF DeleteRuntime
<1> QED BY <1>1, <1>2, <1>3, <1>4, <1>5, <1>6, <1>7, <1>8, <1>9, <1>10, <1>11, <1>12, <1>13, <1>14 DEF StreamRequest

\* Every step of a listener request keeps the types and its shape.
LEMMA ListenerTypeStep ==
    ASSUME ManagementTypeOK, RequestsOK, NEW q \in Requests, ListenerRequest(q) PROVE ManagementTypeOK' /\ RequestsOK'
<1> DEFINE s == req[q].s
           l == req[q].l
<1>0. /\ req[q] \in Request /\ rt \in [Streams -> Runtime] /\ known \subseteq Streams /\ req \in [Requests -> Request]
      /\ RequestOK(q) /\ eventStreams \subseteq Streams
      /\ listeners \in [Listeners -> [stream: Streams \cup {None}, name: Names \cup {None}]]
      /\ listenersByName \in [Names -> Listeners \cup {None}] /\ trouble \in 0..MaxTrouble
      /\ created \subseteq Streams \cup Listeners /\ astray \subseteq Streams
  BY DEF ManagementTypeOK, RequestsOK
<1>a. ASSUME At(q, "createListener", "write") \/ At(q, "updateListener", "write")
          \/ At(q, "createListener", "apply") \/ At(q, "updateListener", "apply") \/ At(q, "deleteListener", "record")
      PROVE  s \in Streams /\ l \in Listeners /\ listenersAdminMux = q /\ (req[q].kind # "deleteListener" => req[q].name \in Names)
  <2>1. Active(q) /\ req[q].kind \in ListenerKinds BY <1>a DEF At, Active, ListenerKinds
  <2> QED BY <1>0, <1>a, <2>1 DEF At, RequestOK, ManagementTypeOK
<1>1. CASE CreateListener(q)
  <2>1. PICK t \in known, m \in Listeners \ created, name \in Names:
          /\ listenersAdminMux = None
          /\ ReserveListenerName(q, "createListener", t, m, name, None)
          /\ created' = created \cup {m}
          /\ UNCHANGED <<storeVars, rt, eventStreams, streamsByName, up, trouble, known, astray>>
    BY <1>1 DEF CreateListener
  <2>2. created' \subseteq Streams \cup Listeners BY <1>0, <2>1
  <2>3. UNCHANGED <<streams, listeners>> BY <2>1 DEF storeVars
  <2>4. /\ listenersByName' \in [Names -> Listeners \cup {None}]
        /\ \E r \in Request:
             /\ req' = [req EXCEPT ![q] = r]
             /\ \/ listenersAdminMux' = q /\ r.kind \in ListenerKinds /\ r.pc \notin {"new", "done"}
                \/ listenersAdminMux' = None /\ r.pc = "done"
             /\ RequestsOK => RequestsOK'
    BY <1>0, <2>1, ReserveType
  <2> QED BY <1>0, <2>1, <2>2, <2>3, <2>4, ListenerStepType
<1>2. CASE UpdateListener(q)
  <2>1. PICK m \in Listeners, name \in Names \cup {None}:
          /\ listenersAdminMux = None
          /\ listeners[m].stream # None
          /\ ReserveListenerName(q, "updateListener", listeners[m].stream, m, MergedName(listeners[m].stream, m, name), listeners[m].name)
          /\ UNCHANGED <<storeVars, rt, eventStreams, streamsByName, up, trouble, history>>
    BY <1>2 DEF UpdateListener
  <2>2. listeners[m].stream \in Streams /\ listeners[m].name \in Names \cup {None} BY <1>0, <2>1
  <2>3. MergedName(listeners[m].stream, m, name) \in Names BY <1>0, <2>2, ManagementAssumption DEF MergedName, Runtime
  <2>4. UNCHANGED <<streams, listeners, known, created, astray>> BY <2>1 DEF storeVars, history
  <2>5. /\ listenersByName' \in [Names -> Listeners \cup {None}]
        /\ \E r \in Request:
             /\ req' = [req EXCEPT ![q] = r]
             /\ \/ listenersAdminMux' = q /\ r.kind \in ListenerKinds /\ r.pc \notin {"new", "done"}
                \/ listenersAdminMux' = None /\ r.pc = "done"
             /\ RequestsOK => RequestsOK'
    BY <2>1, <2>2, <2>3, ReserveType
  <2> QED BY <1>0, <2>1, <2>4, <2>5, ListenerStepType
<1>3. CASE WriteListener(q)
  <2>1. s \in Streams /\ l \in Listeners /\ listenersAdminMux = q /\ req[q].name \in Names /\ req[q].kind \in ListenerKinds
    BY <1>a, <1>3 DEF WriteListener, At, ListenerKinds
  <2>2. PICK ok \in Outcomes, refused \in BOOLEAN:
          /\ Count(ok)
          /\ IF ok /\ ~refused
             THEN /\ listeners' = [listeners EXCEPT ![l] = [stream |-> s, name |-> req[q].name]]
                  /\ Goto(q, "apply")
                  /\ UNCHANGED <<listenersByName, listenersAdminMux>>
             ELSE /\ listenersByName' = CloseoutFailed(q)
                  /\ listenersAdminMux' = None
                  /\ Done(q, FALSE)
                  /\ UNCHANGED listeners
    BY <1>3 DEF WriteListener
  <2>3. UNCHANGED <<streams, rt, eventStreams, streamsByName, up, known, created, astray>> BY <1>3 DEF WriteListener, history
  <2>4. trouble' \in 0..MaxTrouble BY <2>2, CountType
  <2>5. CASE ok /\ ~refused
    <3> DEFINE r == [req[q] EXCEPT !.pc = "apply"]
    <3>1. r \in Request /\ r.pc = "apply" /\ r.kind = req[q].kind BY <1>0 DEF Request
    <3>2. req' = [req EXCEPT ![q] = r] BY <1>0, <2>2, <2>5 DEF Goto
    <3> HIDE DEF r
    <3>3. listeners' \in [Listeners -> [stream: Streams \cup {None}, name: Names \cup {None}]] BY <1>0, <2>1, <2>2, <2>5
    <3>4. listenersAdminMux' = q /\ UNCHANGED listenersByName BY <2>1, <2>2, <2>5
    <3>5. ManagementTypeOK' BY <1>0, <2>1, <2>3, <2>4, <3>1, <3>2, <3>3, <3>4, ListenerStepType
    <3>6. RequestsOK'
      BY <1>0, <1>3, <2>2, <2>5, GotoShape DEF WriteListener, At, PCs, None
    <3> QED BY <3>5, <3>6
  <2>6. CASE ~(ok /\ ~refused)
    <3>1. RequestsOK' /\ \E r \in Request: r.pc = "done" /\ req' = [req EXCEPT ![q] = r] BY <2>2, <2>6, DoneShape
    <3>2. listenersByName' \in [Names -> Listeners \cup {None}] /\ UNCHANGED listeners /\ listenersAdminMux' = None
      <4>1. CloseoutFailed(q) \in [Names -> Listeners \cup {None}]
        <5>1. CASE req[q].had BY <1>0, <5>1 DEF CloseoutFailed
        <5>2. CASE ~req[q].had BY <5>2, ReleasedType DEF CloseoutFailed
        <5> QED BY <5>1, <5>2
      <4> QED BY <2>2, <2>6, <4>1
    <3> QED BY <1>0, <2>1, <2>3, <2>4, <3>1, <3>2, ListenerStepType
  <2> QED BY <2>5, <2>6
<1>4. CASE ApplyListener(q)
  <2>1. s \in Streams /\ l \in Listeners /\ listenersAdminMux = q /\ req[q].name \in Names
    BY <1>a, <1>4 DEF ApplyListener, At
  <2>2. RequestsOK' /\ \E r \in Request: r.pc = "done" /\ req' = [req EXCEPT ![q] = r] BY <1>4, DoneShape DEF ApplyListener
  <2>3. listenersByName' \in [Names -> Listeners \cup {None}]
    BY <1>0, <1>4, ReleasedType DEF ApplyListener, CloseoutWritten
  <2>4. rt' \in [Streams -> Runtime] BY <1>4, <2>1, RuntimeType DEF ApplyListener
  <2>5. UNCHANGED <<streams, listeners, eventStreams, streamsByName, up, trouble, known, created, astray>> /\ listenersAdminMux' = None
    BY <1>4 DEF ApplyListener, storeVars, history
  <2> QED BY <1>0, <2>1, <2>2, <2>3, <2>4, <2>5, ListenerStepType
<1>5. CASE DeleteListener(q)
  <2>1. PICK m \in Listeners:
          /\ listeners[m].stream # None /\ listenersAdminMux = None
          /\ IF listeners[m].stream \notin eventStreams
             THEN /\ Refuse(q) /\ UNCHANGED <<rt, listenersAdminMux, trouble>>
             ELSE \E ok \in Outcomes:
                    /\ Count(ok)
                    /\ rt' = [rt EXCEPT ![listeners[m].stream].listeners[m] = None]
                    /\ IF ok THEN /\ Lock(q)
                                  /\ Start(q, [NewRequest EXCEPT !.kind = "deleteListener", !.pc = "record",
                                                                 !.s = listeners[m].stream, !.l = m])
                       ELSE UNCHANGED listenersAdminMux /\ Refuse(q)
          /\ UNCHANGED <<storeVars, eventStreams, streamsByName, listenersByName, up, history>>
    BY <1>5 DEF DeleteListener
  <2>2. UNCHANGED <<streams, listeners, eventStreams, streamsByName, listenersByName, up, known, created, astray>>
    BY <2>1 DEF storeVars, history
  <2>3. listeners[m].stream \in Streams BY <1>0, <2>1
  <2>4. CASE Refuse(q) /\ UNCHANGED listenersAdminMux
    <3>1. RequestsOK' /\ \E r \in Request: r.pc = "done" /\ req' = [req EXCEPT ![q] = r] BY <2>4, RefuseShape
    <3>2. CASE UNCHANGED <<rt, trouble>> BY <1>0, <2>1, <2>2, <2>4, <3>1, <3>2, ListenerStepType, ZenonT(60)
    <3>3. CASE rt' = [rt EXCEPT ![listeners[m].stream].listeners[m] = None] /\ \E ok \in Outcomes: Count(ok)
      <4>1. rt' \in [Streams -> Runtime] BY <2>3, <3>3, RuntimeType
      <4>2. trouble' \in 0..MaxTrouble BY <3>3, CountType
      <4> QED BY <1>0, <2>1, <2>2, <2>4, <3>1, <4>1, <4>2, ListenerStepType, ZenonT(60)
    <3> QED BY <2>1, <3>2, <3>3
  <2>5. CASE ~(Refuse(q) /\ UNCHANGED listenersAdminMux)
    <3> DEFINE r == [NewRequest EXCEPT !.kind = "deleteListener", !.pc = "record", !.s = listeners[m].stream, !.l = m]
    <3>1. /\ \E ok \in Outcomes: Count(ok)
          /\ rt' = [rt EXCEPT ![listeners[m].stream].listeners[m] = None]
          /\ listenersAdminMux' = q /\ req' = [req EXCEPT ![q] = r]
      BY <2>1, <2>5 DEF Lock, Start
    <3>2. r \in Request /\ r.kind = "deleteListener" /\ r.pc = "record" /\ r.s = listeners[m].stream /\ r.l = m
      BY <2>3, NewRequestType DEF Request
    <3> HIDE DEF r
    <3>3. rt' \in [Streams -> Runtime] BY <2>3, <3>1, RuntimeType
    <3>4. trouble' \in 0..MaxTrouble BY <3>1, CountType
    <3>5. RequestsOK' BY <2>3, <3>1, <3>2, StartShape
    <3> QED BY <1>0, <2>1, <2>2, <3>1, <3>2, <3>3, <3>4, <3>5, ListenerStepType DEF ListenerKinds
  <2> QED BY <2>4, <2>5
<1>6. CASE DeleteListenerRecord(q)
  <2>1. s \in Streams /\ l \in Listeners /\ listenersAdminMux = q BY <1>a, <1>6 DEF DeleteListenerRecord
  <2>2. PICK ok \in Outcomes:
          /\ Count(ok)
          /\ listeners' = IF ok THEN [listeners EXCEPT ![l] = NoListener] ELSE listeners
          /\ listenersByName' = IF ok THEN ReleasedName(listenersByName, listeners[l].name, l) ELSE listenersByName
          /\ Done(q, ok)
    BY <1>6 DEF DeleteListenerRecord
  <2>3. UNCHANGED <<streams, rt, eventStreams, streamsByName, up, known, created, astray>> /\ listenersAdminMux' = None
    BY <1>6 DEF DeleteListenerRecord, history
  <2>4. trouble' \in 0..MaxTrouble /\ ok \in BOOLEAN BY <2>2, CountType
  <2>5. RequestsOK' /\ \E r \in Request: r.pc = "done" /\ req' = [req EXCEPT ![q] = r] BY <2>2, <2>4, DoneShape
  <2>6. listeners' \in [Listeners -> [stream: Streams \cup {None}, name: Names \cup {None}]]
    BY <1>0, <2>1, <2>2 DEF NoListener
  <2>7. listenersByName' \in [Names -> Listeners \cup {None}]
    <3>1. CASE ok BY <2>2, <3>1, ReleasedType
    <3>2. CASE ~ok BY <1>0, <2>2, <3>2
    <3> QED BY <3>1, <3>2
  <2> QED BY <1>0, <2>1, <2>3, <2>4, <2>5, <2>6, <2>7, ListenerStepType
<1> QED BY <1>1, <1>2, <1>3, <1>4, <1>5, <1>6 DEF ListenerRequest

LEMMA RestartType == ASSUME ManagementTypeOK, RequestsOK, Restart PROVE ManagementTypeOK' /\ RequestsOK'
<1> DEFINE x == [NewRequest EXCEPT !.pc = "done"]
<1>1. x \in Request /\ x.pc = "done" /\ x.kind = None BY NewRequestType DEF Request, NewRequest
<1>2. req' = [q \in Requests |-> IF Active(q) THEN x ELSE req[q]] BY DEF Restart
<1> HIDE DEF x
<1>3. req' \in [Requests -> Request] BY <1>1, <1>2 DEF ManagementTypeOK
<1>4. \A p \in Requests: ~Active(p)' BY <1>1, <1>2 DEF Active
<1>5. RequestsOK'
  <2> SUFFICES ASSUME NEW p \in Requests PROVE RequestOK(p)' BY DEF RequestsOK
  <2>1. CASE Active(p) BY <1>1, <1>2, <2>1 DEF RequestOK, None
  <2>2. CASE ~Active(p) BY <1>2, <2>2 DEF RequestsOK, RequestOK
  <2> QED BY <2>1, <2>2
<1>6. trouble' \in 0..MaxTrouble
  <2>1. MaxTrouble \in Nat /\ trouble \in 0..MaxTrouble /\ trouble > 0 /\ trouble' = trouble - 1
    BY ManagementAssumption DEF ManagementTypeOK, Restart
  <2> QED BY <2>1
<1>7. astray' \subseteq Streams BY DEF Restart, ManagementTypeOK, Overlapping
<1>8. UNCHANGED <<streams, listeners, known, created>> /\ listenersAdminMux' = None /\ up' \in BOOLEAN
  BY DEF Restart, storeVars, Restorable
<1>9. /\ rt' \in [Streams -> Runtime] /\ eventStreams' \subseteq Streams
      /\ streamsByName' \in [Names -> Streams \cup {None}] /\ listenersByName' \in [Names -> Listeners \cup {None}]
  BY RestoredType DEF Restart
<1>10. \A p \in Requests: listenersAdminMux' = p <=> Active(p)' /\ req'[p].kind \in ListenerKinds
  BY <1>4, <1>8, ManagementAssumption
<1> QED BY <1>3, <1>5, <1>6, <1>7, <1>8, <1>9, <1>10 DEF ManagementTypeOK

LEMMA TypeInit == Init => Typed
<1> SUFFICES ASSUME Init PROVE Typed OBVIOUS
<1>1. PICK x \in Stores: streams = x.streams /\ listeners = x.listeners BY DEF Init
<1>2. streams \in [Streams -> StreamSpec]
  <2>1. streams \in [Streams -> [name: Names, suspended: BOOLEAN] \cup {NoStream}] BY <1>1, ManagementAssumption
  <2>2. \A x0 \in [name: Names, suspended: BOOLEAN]: x0 \in StreamSpec BY DEF StreamSpec
  <2>3. ASSUME NEW s \in Streams PROVE streams[s] \in StreamSpec BY <2>1, <2>2, RequestType
  <2> QED BY <2>1, <2>3
<1>3. listeners \in [Listeners -> [stream: Streams \cup {None}, name: Names \cup {None}]]
  <2>1. listeners \in [Listeners -> [stream: Streams, name: Names] \cup {NoListener}] BY <1>1, ManagementAssumption
  <2>2. [stream: Streams, name: Names] \cup {NoListener} \subseteq [stream: Streams \cup {None}, name: Names \cup {None}]
    BY DEF NoListener
  <2> QED BY <2>1, <2>2
<1>4. req = [q \in Requests |-> NewRequest] /\ listenersAdminMux = None /\ astray = {} /\ trouble = MaxTrouble /\ up = TRUE
  BY DEF Init
<1>5. StoredStreams \subseteq Streams /\ StoredListeners \subseteq Listeners BY DEF StoredStreams, StoredListeners
<1>6. NewRequest.pc = "new" /\ NewRequest.kind = None BY DEF NewRequest
<1>7. \A q \in Requests: ~Active(q) /\ RequestOK(q) BY <1>4, <1>6 DEF Active, RequestOK, None
<1>8. req \in [Requests -> Request] BY <1>4, NewRequestType
<1>9. RestoredRuntime \in [Streams -> Runtime]
  <2> SUFFICES ASSUME NEW s \in Streams PROVE RestoredRuntime[s] \in Runtime BY DEF RestoredRuntime
  <2>1. [l \in Listeners |-> IF listeners[l].stream = s THEN listeners[l].name ELSE None] \in [Listeners -> Names \cup {None}]
    BY <1>3
  <2>2. streams[s] \in StreamSpec BY <1>2
  <2> QED BY <2>1, <2>2, RequestType DEF RestoredRuntime, Runtime, Status
<1>10. RestoredStreamNames \in [Names -> Streams \cup {None}]
  <2> SUFFICES ASSUME NEW n \in Names PROVE RestoredStreamNames[n] \in Streams \cup {None} BY DEF RestoredStreamNames
  <2> QED BY <1>5 DEF RestoredStreamNames
<1>11. RestoredListenerNames \in [Names -> Listeners \cup {None}]
  <2> SUFFICES ASSUME NEW n \in Names PROVE RestoredListenerNames[n] \in Listeners \cup {None} BY DEF RestoredListenerNames
  <2> QED BY DEF RestoredListenerNames
<1>12. trouble \in 0..MaxTrouble BY <1>4, ManagementAssumption
<1>13. \A q \in Requests: listenersAdminMux = q <=> Active(q) /\ req[q].kind \in ListenerKinds
  BY <1>4, <1>7, ManagementAssumption
<1>14. /\ rt = RestoredRuntime /\ streamsByName = RestoredStreamNames /\ listenersByName = RestoredListenerNames
       /\ eventStreams \subseteq Streams /\ known \subseteq Streams /\ created \subseteq Streams \cup Listeners
  BY <1>5 DEF Init
<1> QED BY <1>2, <1>3, <1>4, <1>7, <1>8, <1>9, <1>10, <1>11, <1>12, <1>13, <1>14 DEF Typed, RequestsOK, ManagementTypeOK

LEMMA TypedStep == Typed /\ [Next]_vars => Typed'
<1> SUFFICES ASSUME Typed, [Next]_vars PROVE Typed' OBVIOUS
<1>1. ManagementTypeOK /\ RequestsOK BY DEF Typed
<1>2. ASSUME NEW q \in Requests, StreamRequest(q) PROVE Typed'
  BY <1>1, <1>2, StreamTypeStep, StreamShapeStep DEF Typed
<1>3. ASSUME NEW q \in Requests, ListenerRequest(q) PROVE Typed' BY <1>1, <1>3, ListenerTypeStep DEF Typed
<1>4. CASE Restart BY <1>1, <1>4, RestartType DEF Typed
<1>5. CASE UNCHANGED vars
  BY <1>1, <1>5 DEF vars, storeVars, memoryVars, history, Typed, ManagementTypeOK, RequestsOK, RequestOK, Active
<1> QED BY <1>2, <1>3, <1>4, <1>5 DEF Next

\* listenersAdminMux: the state is well typed, and the mutex is held by a listener
\* request exactly as long as that request is between its steps, so that no two of
\* them are (createOrUpdateListener, DeleteListener).
THEOREM TypeCorrect == Spec => []ManagementTypeOK
<1>1. Typed => ManagementTypeOK BY DEF Typed
<1> QED BY <1>1, TypeInit, TypedStep, PTL DEF Spec

(***************************************************************************)
(* The names of listeners                                                  *)
(***************************************************************************)

\* A stream request other than the one deleting listeners leaves the listeners,
\* their index and the request with the mutex alone.
LEMMA StreamLeavesListeners ==
    ASSUME Typed, NEW q \in Requests, StreamRequest(q), ~DeleteAllStreamListeners(q)
    PROVE  /\ UNCHANGED <<listeners, listenersByName, listenersAdminMux>>
           /\ \A p \in Requests: listenersAdminMux = p => req'[p] = req[p]
<1> USE DEF storeVars, memoryVars, history
<1>0. req \in [Requests -> Request] BY DEF Typed, ManagementTypeOK
<1>1. \A p \in Requests: listenersAdminMux = p => Active(p) /\ req[p].kind \in ListenerKinds BY DEF Typed, ManagementTypeOK
<1>2. CASE CreateStream(q)
  BY <1>0, <1>1, <1>2 DEF CreateStream, Start, Active
<1>3. CASE UpdateStream(q)
  BY <1>0, <1>1, <1>3 DEF UpdateStream, Start, Refuse, Active
<1>4. CASE DeleteStream(q)
  BY <1>0, <1>1, <1>4 DEF DeleteStream, Start, Active
<1>5. CASE AddRuntimeStream(q) BY <1>0, <1>1, <1>5 DEF AddRuntimeStream, At, Goto, ListenerKinds
<1>6. CASE WriteNewStream(q) BY <1>0, <1>1, <1>6 DEF WriteNewStream, At, Goto, Done, ListenerKinds
<1>7. CASE StartNewStream(q) BY <1>0, <1>1, <1>7 DEF StartNewStream, At, Done, ListenerKinds
<1>8. CASE ReserveStreamName(q) BY <1>0, <1>1, <1>8 DEF ReserveStreamName, At, Goto, Done, ListenerKinds
<1>9. CASE UpdateSpec(q) BY <1>0, <1>1, <1>9 DEF UpdateSpec, At, Goto, ListenerKinds
<1>10. CASE ReadSpec(q) BY <1>0, <1>1, <1>10 DEF ReadSpec, At, ListenerKinds
<1>11. CASE WriteStream(q) BY <1>0, <1>1, <1>11 DEF WriteStream, At, Goto, Done, ListenerKinds
<1>12. CASE RunUpdated(q) BY <1>0, <1>1, <1>12 DEF RunUpdated, At, Done, ListenerKinds
<1>13. CASE DeleteStreamRecord(q) BY <1>0, <1>1, <1>13 DEF DeleteStreamRecord, At, Goto, Done, ListenerKinds
<1>14. CASE DeleteRuntime(q) BY <1>0, <1>1, <1>14 DEF DeleteRuntime, At, Done, ListenerKinds
<1> QED BY <1>2, <1>3, <1>4, <1>5, <1>6, <1>7, <1>8, <1>9, <1>10, <1>11, <1>12, <1>13, <1>14 DEF StreamRequest

\* Then the index stays right.
LEMMA IndexFrame ==
    ASSUME ListenerInv, UNCHANGED <<listeners, listenersByName, listenersAdminMux>>,
           \A p \in Requests: listenersAdminMux = p => req'[p] = req[p]
    PROVE  ListenerInv'
<1>1. ListenerNamesUnique' BY DEF ListenerInv, ListenerNamesUnique, StoredListeners
<1>2. AllIndexed' <=> AllIndexed BY DEF AllIndexed, Indexed
<1>3. ASSUME NEW p \in Requests, listenersAdminMux = p
      PROVE  (ReservedOK(req[p])' <=> ReservedOK(req[p])) /\ (WrittenOK(req[p])' <=> WrittenOK(req[p]))
  BY <1>3 DEF ReservedOK, WrittenOK, Indexed, Nobody
<1>4. IndexOK' BY <1>2, <1>3 DEF ListenerInv, IndexOK
<1> QED BY <1>1, <1>4 DEF ListenerInv

\* reserveListenerName: the name was free, or the listener's own.
LEMMA ReserveIndex ==
    ASSUME Typed, ListenerInv, NEW q \in Requests, NEW kind \in {"createListener", "updateListener"}, NEW s \in Streams,
           NEW l \in Listeners, NEW name \in Names, NEW old \in Names \cup {None},
           listenersAdminMux = None, ReserveListenerName(q, kind, s, l, name, old), old = listeners[l].name, UNCHANGED listeners
    PROVE  ListenerInv'
<1>0. /\ AllIndexed /\ req \in [Requests -> Request] /\ listenersByName \in [Names -> Listeners \cup {None}]
      /\ None \notin Requests \cup Listeners \cup Names
  BY ManagementAssumption DEF ListenerInv, IndexOK, Typed, ManagementTypeOK
<1>1. ListenerNamesUnique' BY DEF ListenerInv, ListenerNamesUnique, StoredListeners
<1> DEFINE allowed == s \in eventStreams /\ Reservable(l, name)
           h == listenersByName[name] # None
           r == [NewRequest EXCEPT !.kind = kind, !.pc = "write", !.s = s, !.l = l, !.name = name, !.old = old, !.had = h]
<1>2. CASE ~allowed
  <2>1. UNCHANGED <<listenersByName, listenersAdminMux>> BY <1>2 DEF ReserveListenerName
  <2>2. AllIndexed' BY <1>0, <2>1 DEF AllIndexed, Indexed
  <2> QED BY <1>0, <1>1, <2>1, <2>2 DEF ListenerInv, IndexOK
<1>3. CASE allowed
  <2>1. /\ req' = [req EXCEPT ![q] = r] /\ listenersAdminMux' = q /\ listenersByName' = [listenersByName EXCEPT ![name] = l]
        /\ listenersByName[name] \in {None, l}
    BY <1>3 DEF ReserveListenerName, Start, Lock, Reservable
  <2>2. h \in BOOLEAN OBVIOUS
  <2>3. h <=> listeners[l].name = name BY <1>0, <2>1 DEF AllIndexed, Indexed
  <2> HIDE DEF h
  <2>4. r.pc = "write" /\ r.l = l /\ r.name = name /\ r.old = old /\ r.had = h BY <2>2, NewRequestType DEF Request
  <2> HIDE DEF r
  <2>5. ASSUME NEW n \in Names \ {name} PROVE Indexed(n)' BY <1>0, <2>1 DEF AllIndexed, Indexed
  <2>6. ASSUME NEW m \in Listeners, listeners[m].name = name PROVE m = l
    BY <1>0, <2>1, <2>6 DEF AllIndexed, Indexed
  <2>7. req'[q] = r BY <1>0, <2>1
  <2>8. ReservedOK(req[q])' BY <1>0, <2>1, <2>3, <2>4, <2>5, <2>6, <2>7 DEF ReservedOK
  <2>9. IndexOK' BY <1>0, <2>1, <2>4, <2>7, <2>8 DEF IndexOK
  <2> QED BY <1>1, <2>9 DEF ListenerInv
<1> QED BY <1>2, <1>3

\* Steps of listener requests keep the index right.
LEMMA ListenerIndexStep ==
    ASSUME Typed, StoredOK, ListenerInv, NEW q \in Requests, ListenerRequest(q) PROVE ListenerInv'
<1> DEFINE r == req[q]
<1>0. /\ req \in [Requests -> Request] /\ listenersByName \in [Names -> Listeners \cup {None}] /\ RequestOK(q) /\ RequestsOK
      /\ None \notin Requests \cup Listeners \cup Names /\ r \in Request
      /\ listeners \in [Listeners -> [stream: Streams \cup {None}, name: Names \cup {None}]]
      /\ rt \in [Streams -> Runtime] /\ ManagementTypeOK
      /\ known \subseteq Streams
  BY ManagementAssumption DEF Typed, ManagementTypeOK, RequestsOK
<1>a. ASSUME Active(q), req[q].kind \in ListenerKinds
      PROVE  /\ listenersAdminMux = q /\ r.s \in Streams /\ r.l \in Listeners
             /\ r.pc = "write" => ReservedOK(r) /\ r.name \in Names
             /\ r.pc = "apply" => WrittenOK(r) /\ r.name \in Names
             /\ r.pc = "record" => AllIndexed
  <2>1. listenersAdminMux = q BY <1>0, <1>a DEF ManagementTypeOK
  <2>2. r.s \in Streams /\ r.l \in Listeners /\ (r.pc \in {"write", "apply"} => r.name \in Names)
    BY <1>0, <1>a DEF RequestOK, ListenerKinds
  <2> QED BY <2>1, <2>2 DEF ListenerInv, IndexOK
<1>1. CASE CreateListener(q)
  <2>1. PICK t \in known, m \in Listeners \ created, name \in Names:
          /\ listenersAdminMux = None
          /\ ReserveListenerName(q, "createListener", t, m, name, None)
          /\ UNCHANGED storeVars
    BY <1>1 DEF CreateListener
  <2>2. listeners[m].name = None BY <2>1 DEF StoredOK, StoredListeners, NoListener
  <2>3. UNCHANGED listeners BY <2>1 DEF storeVars
  <2> QED BY <1>0, <2>1, <2>2, <2>3, ReserveIndex
<1>2. CASE UpdateListener(q)
  <2>1. PICK m \in Listeners, name \in Names \cup {None}:
          /\ listenersAdminMux = None
          /\ listeners[m].stream # None
          /\ ReserveListenerName(q, "updateListener", listeners[m].stream, m, MergedName(listeners[m].stream, m, name), listeners[m].name)
          /\ UNCHANGED storeVars
    BY <1>2 DEF UpdateListener
  <2>2. listeners[m].stream \in Streams /\ listeners[m].name \in Names \cup {None} BY <1>0, <2>1
  <2>3. MergedName(listeners[m].stream, m, name) \in Names BY <1>0, <2>2, ManagementAssumption DEF MergedName, Runtime
  <2>4. UNCHANGED listeners BY <2>1 DEF storeVars
  <2> QED BY <2>1, <2>2, <2>3, <2>4, ReserveIndex
<1>3. CASE WriteListener(q)
  <2>1. /\ listenersAdminMux = q /\ r.s \in Streams /\ r.l \in Listeners /\ ReservedOK(r) /\ r.name \in Names
    BY <1>3, <1>a DEF WriteListener, At, Active, ListenerKinds
  <2>2. PICK ok \in Outcomes, refused \in BOOLEAN:
          IF ok /\ ~refused
          THEN /\ listeners' = [listeners EXCEPT ![r.l] = [stream |-> r.s, name |-> r.name]]
               /\ Goto(q, "apply")
               /\ UNCHANGED <<listenersByName, listenersAdminMux>>
          ELSE /\ listenersByName' = CloseoutFailed(q)
               /\ listenersAdminMux' = None
               /\ Done(q, FALSE)
               /\ UNCHANGED listeners
    BY <1>3 DEF WriteListener
  <2>3. CASE ok /\ ~refused
    <3>1. /\ listeners' = [listeners EXCEPT ![r.l] = [stream |-> r.s, name |-> r.name]]
          /\ UNCHANGED <<listenersByName, listenersAdminMux>>
      BY <2>2, <2>3
    <3>2. \A m \in Listeners: listeners'[m].name = (IF m = r.l THEN r.name ELSE listeners[m].name) BY <1>0, <3>1
    <3>3. req'[q].pc = "apply" /\ req'[q].name = r.name /\ req'[q].old = r.old /\ req'[q].l = r.l
      BY <1>0, <2>2, <2>3 DEF Goto, Request
    <3>4. ASSUME NEW n \in Names, n = r.name \/ n # r.old PROVE Indexed(n)'
      <4>1. CASE n = r.name BY <2>1, <3>1, <3>2, <4>1 DEF Indexed, ReservedOK
      <4>2. CASE n # r.name
        <5>1. Indexed(n) /\ n # r.old BY <2>1, <3>4, <4>2 DEF ReservedOK
        <5>2. \A m \in Listeners: listeners'[m].name = n <=> listeners[m].name = n BY <2>1, <3>2, <4>2, <5>1 DEF ReservedOK
        <5> QED BY <3>1, <5>1, <5>2 DEF Indexed
      <4> QED BY <4>1, <4>2
    <3>5. ASSUME r.old \in Names \ {r.name} PROVE Nobody(r.old)' /\ listenersByName'[r.old] = r.l
      <4>1. Indexed(r.old) /\ r.old = listeners[r.l].name BY <2>1, <3>5 DEF ReservedOK
      <4>2. listenersByName[r.old] = r.l BY <2>1, <4>1 DEF Indexed
      <4>3. ASSUME NEW m \in Listeners PROVE listeners'[m].name # r.old
        <5>1. CASE m = r.l BY <3>2, <3>5, <5>1
        <5>2. CASE m # r.l BY <3>2, <4>1, <4>2, <5>2 DEF Indexed
        <5> QED BY <5>1, <5>2
      <4> QED BY <3>1, <3>3, <4>2, <4>3 DEF Nobody
    <3>6. WrittenOK(req[q])' BY <2>1, <3>2, <3>3, <3>4, <3>5 DEF WrittenOK
    <3>7. IndexOK' BY <1>0, <2>1, <3>1, <3>3, <3>6 DEF IndexOK
    <3>8. ListenerNamesUnique'
      <4> SUFFICES ASSUME NEW m \in StoredListeners', NEW n \in StoredListeners', listeners'[m].name = listeners'[n].name
                   PROVE  m = n
        BY DEF ListenerNamesUnique
      <4>1. m \in Listeners /\ n \in Listeners BY DEF StoredListeners
      <4>2. m # r.l => listeners'[m] = listeners[m] /\ m \in StoredListeners BY <1>0, <3>1, <4>1 DEF StoredListeners
      <4>3. n # r.l => listeners'[n] = listeners[n] /\ n \in StoredListeners BY <1>0, <3>1, <4>1 DEF StoredListeners
      <4>4. CASE m = r.l \/ n = r.l BY <2>1, <3>2, <4>1, <4>4 DEF ReservedOK
      <4>5. CASE m # r.l /\ n # r.l BY <4>2, <4>3, <4>5 DEF ListenerInv, ListenerNamesUnique
      <4> QED BY <4>4, <4>5
    <3> QED BY <3>7, <3>8 DEF ListenerInv
  <2>4. CASE ~(ok /\ ~refused)
    <3>1. listenersByName' = CloseoutFailed(q) /\ listenersAdminMux' = None /\ UNCHANGED listeners BY <2>2, <2>4
    <3>2. AllIndexed'
      <4> SUFFICES ASSUME NEW n \in Names PROVE Indexed(n)' BY DEF AllIndexed
      <4>1. CASE r.had
        <5>1. UNCHANGED listenersByName BY <3>1, <4>1 DEF CloseoutFailed
        <5>2. Indexed(n) BY <2>1, <4>1 DEF ReservedOK, Indexed
        <5> QED BY <3>1, <5>1, <5>2 DEF Indexed
      <4>2. CASE ~r.had
        <5>1. listenersByName' = ReleasedName(listenersByName, r.name, r.l) BY <3>1, <4>2 DEF CloseoutFailed
        <5>2. listenersByName'[n] = (IF n = r.name THEN None ELSE listenersByName[n])
          BY <2>1, <5>1 DEF ReleasedName, ReservedOK
        <5>3. CASE n = r.name BY <1>0, <2>1, <3>1, <4>2, <5>2, <5>3 DEF ReservedOK, Indexed
        <5>4. CASE n # r.name BY <2>1, <3>1, <5>2, <5>4 DEF ReservedOK, Indexed
        <5> QED BY <5>3, <5>4
      <4> QED BY <4>1, <4>2
    <3>3. ListenerNamesUnique' BY <3>1 DEF ListenerInv, ListenerNamesUnique, StoredListeners
    <3> QED BY <1>0, <3>1, <3>2, <3>3 DEF ListenerInv, IndexOK
  <2> QED BY <2>3, <2>4
<1>4. CASE ApplyListener(q)
  <2>1. /\ listenersAdminMux = q /\ r.s \in Streams /\ r.l \in Listeners /\ WrittenOK(r) /\ r.name \in Names
    BY <1>4, <1>a DEF ApplyListener, At, Active, ListenerKinds
  <2>2. listenersByName' = CloseoutWritten(q) /\ listenersAdminMux' = None /\ UNCHANGED listeners
    BY <1>4 DEF ApplyListener, storeVars
  <2>3. AllIndexed'
    <3> SUFFICES ASSUME NEW n \in Names PROVE Indexed(n)' BY DEF AllIndexed
    <3>1. CASE r.old \in {None, r.name}
      <4>1. UNCHANGED listenersByName /\ Indexed(n) BY <1>0, <2>1, <2>2, <3>1 DEF CloseoutWritten, WrittenOK
      <4> QED BY <2>2, <4>1 DEF Indexed
    <3>2. CASE r.old \notin {None, r.name}
      <4>1. listenersByName' = ReleasedName(listenersByName, r.old, r.l) /\ r.old \in Names \ {r.name}
        BY <1>0, <2>2, <3>2 DEF CloseoutWritten, Request
      <4>2. listenersByName'[n] = (IF n = r.old THEN None ELSE listenersByName[n])
        BY <2>1, <4>1 DEF ReleasedName, WrittenOK
      <4>3. CASE n = r.old BY <1>0, <2>1, <2>2, <4>1, <4>2, <4>3 DEF WrittenOK, Indexed, Nobody
      <4>4. CASE n # r.old BY <2>1, <2>2, <4>2, <4>4 DEF WrittenOK, Indexed
      <4> QED BY <4>3, <4>4
    <3> QED BY <3>1, <3>2
  <2>4. ListenerNamesUnique' BY <2>2 DEF ListenerInv, ListenerNamesUnique, StoredListeners
  <2> QED BY <1>0, <2>2, <2>3, <2>4 DEF ListenerInv, IndexOK
<1>5. CASE DeleteListener(q)
  <2>1. listenersAdminMux = None /\ UNCHANGED <<listeners, listenersByName>> BY <1>5 DEF DeleteListener, storeVars
  <2>2. \/ listenersAdminMux' = None
        \/ listenersAdminMux' = q /\ \E t, m: Start(q, [NewRequest EXCEPT !.kind = "deleteListener", !.pc = "record", !.s = t, !.l = m])
    BY <1>5, <2>1 DEF DeleteListener, Lock
  <2>3. AllIndexed' BY <2>1 DEF ListenerInv, IndexOK, AllIndexed, Indexed
  <2>4. ListenerNamesUnique' BY <2>1 DEF ListenerInv, ListenerNamesUnique, StoredListeners
  <2>5. ASSUME listenersAdminMux' = q PROVE req'[q].pc = "record"
    <3>1. PICK t, m: req' = [req EXCEPT ![q] = [NewRequest EXCEPT !.kind = "deleteListener", !.pc = "record", !.s = t, !.l = m]]
      BY <1>0, <2>2, <2>5 DEF Start
    <3>2. [NewRequest EXCEPT !.kind = "deleteListener", !.pc = "record", !.s = t, !.l = m].pc = "record" BY DEF NewRequest
    <3> QED BY <1>0, <3>1, <3>2
  <2>6. IndexOK' BY <1>0, <2>2, <2>3, <2>5 DEF IndexOK
  <2> QED BY <2>4, <2>6 DEF ListenerInv
<1>6. CASE DeleteListenerRecord(q)
  <2>1. listenersAdminMux = q /\ r.l \in Listeners /\ AllIndexed
    BY <1>6, <1>a DEF DeleteListenerRecord, At, Active, ListenerKinds
  <2>2. PICK ok \in Outcomes:
          /\ listeners' = IF ok THEN [listeners EXCEPT ![r.l] = NoListener] ELSE listeners
          /\ listenersByName' = IF ok THEN ReleasedName(listenersByName, listeners[r.l].name, r.l) ELSE listenersByName
    BY <1>6 DEF DeleteListenerRecord
  <2>3. listenersAdminMux' = None BY <1>6 DEF DeleteListenerRecord
  <2>4. CASE ~ok
    <3>1. UNCHANGED <<listeners, listenersByName>> BY <2>2, <2>4
    <3> QED BY <1>0, <2>1, <2>3, <3>1 DEF ListenerInv, ListenerNamesUnique, StoredListeners, IndexOK, AllIndexed, Indexed
  <2>5. CASE ok
    <3>1. /\ listeners' = [listeners EXCEPT ![r.l] = NoListener]
          /\ listenersByName' = ReleasedName(listenersByName, listeners[r.l].name, r.l)
      BY <2>2, <2>5
    <3>2. AllIndexed'
      <4> SUFFICES ASSUME NEW n \in Names, NEW m \in Listeners PROVE listenersByName'[n] = m <=> listeners'[m].name = n
        BY DEF AllIndexed, Indexed
      <4>1. listenersByName[n] = m <=> listeners[m].name = n BY <2>1 DEF AllIndexed, Indexed
      <4>2. listenersByName[n] = r.l <=> listeners[r.l].name = n BY <2>1 DEF AllIndexed, Indexed
      <4>3. listenersByName'[n] = (IF listenersByName[n] = r.l THEN None ELSE listenersByName[n])
        BY <3>1, <4>2 DEF ReleasedName
      <4>4. listeners'[m].name = (IF m = r.l THEN None ELSE listeners[m].name) BY <1>0, <3>1 DEF NoListener
      <4> QED BY <1>0, <4>1, <4>2, <4>3, <4>4
    <3>3. ListenerNamesUnique'
      <4>1. \A m \in StoredListeners': m \in StoredListeners /\ listeners'[m] = listeners[m]
        BY <1>0, <3>1 DEF StoredListeners
      <4> QED BY <4>1 DEF ListenerInv, ListenerNamesUnique
    <3> QED BY <1>0, <2>3, <3>2, <3>3 DEF ListenerInv, IndexOK
  <2> QED BY <2>4, <2>5
<1> QED BY <1>1, <1>2, <1>3, <1>4, <1>5, <1>6 DEF ListenerRequest

(***************************************************************************)
(* Listeners and their streams                                             *)
(***************************************************************************)

\* What a step does to the requests: one starts, goes on or ends, others stay.
Others(q) == \A p \in Requests \ {q}: req'[p] = req[p]
Starts(q, kind, pc, s) ==
    Others(q) /\ req[q].pc = "new" /\ req'[q].kind = kind /\ req'[q].pc = pc /\ req'[q].s = s
Goes(q, kind, from, to) ==
    /\ Others(q) /\ req[q].kind = kind /\ req[q].pc = from
    /\ req'[q].kind = kind /\ req'[q].pc = to /\ req'[q].s = req[q].s /\ req'[q].l = req[q].l
Ends(q) ==
    /\ Others(q) /\ req'[q].pc = "done"
    /\ req'[q].kind = None \/ (req'[q].kind = "deleteStream" /\ req[q].kind = "deleteStream" /\ req'[q].s = req[q].s)

LEMMA RequestMoves ==
    ASSUME Typed, NEW q \in Requests
    PROVE  /\ \A pc \in PCs: Goto(q, pc) => Goes(q, req[q].kind, req[q].pc, pc) /\ req'[q].spec = req[q].spec
           /\ \A ok \in BOOLEAN: Done(q, ok) => Ends(q)
           /\ Refuse(q) => Ends(q)
           /\ \A r \in Request: Start(q, r) => Starts(q, r.kind, r.pc, r.s)
<1>0. req \in [Requests -> Request] BY DEF Typed, ManagementTypeOK
<1>1. ASSUME NEW pc \in PCs, Goto(q, pc)
      PROVE  Goes(q, req[q].kind, req[q].pc, pc) /\ req'[q].spec = req[q].spec
  BY <1>0, <1>1 DEF Goto, Goes, Others, Request
<1>2. ASSUME NEW ok \in BOOLEAN, Done(q, ok) PROVE Ends(q)
  <2> DEFINE r == Ended(req[q].kind, req[q].s, ok)
  <2>1. r.pc = "done" /\ (r.kind = None \/ (r.kind = "deleteStream" /\ req[q].kind = "deleteStream" /\ r.s = req[q].s))
    BY DEF Ended, NewRequest
  <2>2. req' = [req EXCEPT ![q] = r] BY <1>2 DEF Done
  <2> HIDE DEF r
  <2> QED BY <1>0, <2>1, <2>2 DEF Ends, Others
<1>3. ASSUME Refuse(q) PROVE Ends(q)
  <2> DEFINE r == [NewRequest EXCEPT !.pc = "done"]
  <2>1. r.pc = "done" /\ r.kind = None BY DEF NewRequest
  <2>2. req' = [req EXCEPT ![q] = r] BY <1>3 DEF Refuse, Start
  <2> HIDE DEF r
  <2> QED BY <1>0, <2>1, <2>2 DEF Ends, Others
<1>4. ASSUME NEW r \in Request, Start(q, r) PROVE Starts(q, r.kind, r.pc, r.s) BY <1>0, <1>4 DEF Start, Starts, Others
<1> QED BY <1>1, <1>2, <1>3, <1>4

\* Every step of a stream request keeps the streams and listeners consistent.
LEMMA StreamOrphanStep ==
    ASSUME Typed, OrphanInv, NEW q \in Requests, StreamRequest(q) PROVE OrphanInv'
<1> DEFINE s == req[q].s
           SameSpecs == \A t \in Streams: rt'[t].spec = rt[t].spec
<1> USE DEF storeVars, memoryVars, history
<1>0. /\ req \in [Requests -> Request] /\ RequestOK(q) /\ req[q] \in Request
      /\ rt \in [Streams -> Runtime] /\ streams \in [Streams -> StreamSpec]
      /\ listeners \in [Listeners -> [stream: Streams \cup {None}, name: Names \cup {None}]]
      /\ None \notin Names \cup Streams \cup Listeners \cup Requests
      /\ known \subseteq Streams /\ eventStreams \subseteq Streams
      /\ \A p \in Requests: listenersAdminMux = p => req[p].pc # "new" /\ req[p].kind \in ListenerKinds
      /\ \A p \in Requests: req[p].kind = "updateStream" => req[p].s \in Streams
      /\ StoredOK /\ CreatesOK /\ RuntimeNamed /\ HolderOK /\ DeletesOK /\ NoOrphanListeners
  BY ManagementAssumption DEF Typed, ManagementTypeOK, RequestsOK, OrphanInv, Active, RequestOK
<1>b. \A p \in Requests: listenersAdminMux = p => req'[p] = req[p]
  <2>1. CASE DeleteAllStreamListeners(q) BY <1>0, <2>1 DEF DeleteAllStreamListeners
  <2>2. CASE ~DeleteAllStreamListeners(q) BY <2>2, StreamLeavesListeners
  <2> QED BY <2>1, <2>2
<1>1. CASE CreateStream(q)
  <2>1. PICK t \in Streams \ created:
          /\ Starts(q, "createStream", "add", t)
          /\ created' = created \cup {t}
          /\ UNCHANGED <<streams, listeners, rt, eventStreams, known, listenersAdminMux>>
    <3>1. PICK t \in Streams \ created, name \in Names, suspended \in BOOLEAN:
            /\ Start(q, [NewRequest EXCEPT !.kind = "createStream", !.pc = "add", !.s = t, !.name = name,
                                           !.spec = [name |-> name, suspended |-> suspended]])
            /\ created' = created \cup {t}
            /\ UNCHANGED <<storeVars, rt, eventStreams, listenersByName, listenersAdminMux, up, trouble, known, astray>>
      BY <1>1 DEF CreateStream
    <3> DEFINE r == [NewRequest EXCEPT !.kind = "createStream", !.pc = "add", !.s = t, !.name = name,
                                       !.spec = [name |-> name, suspended |-> suspended]]
    <3>2. r \in Request /\ r.kind = "createStream" /\ r.pc = "add" /\ r.s = t BY NewRequestType DEF Request, StreamSpec
    <3>3. Start(q, r) BY <3>1
    <3> HIDE DEF r
    <3>4. Starts(q, "createStream", "add", t) BY <3>2, <3>3, RequestMoves
    <3> QED BY <3>1, <3>4
  <2>11. StoredOK' BY <1>0, <2>1 DEF StoredOK, StoredStreams, StoredListeners
  <2>12. CreatesOK' BY <1>0, <2>1 DEF CreatesOK, StoredOK, Starts, Others
  <2>13. RuntimeNamed' BY <1>0, <2>1 DEF RuntimeNamed, Starts, Others
  <2>14. HolderOK' BY <1>0, <1>b, <2>1 DEF HolderOK, StoredStreams, Starts, Others
  <2>15. DeletesOK' BY <1>0, <1>b, <2>1 DEF DeletesOK, ListenersOf, Starts, Others
  <2>16. NoOrphanListeners' BY <1>0, <2>1 DEF NoOrphanListeners, StoredStreams
  <2> QED BY <2>11, <2>12, <2>13, <2>14, <2>15, <2>16 DEF OrphanInv
<1>2. CASE AddRuntimeStream(q)
  <2>1. /\ Goes(q, "createStream", "add", "write") /\ s \in Streams /\ req[q].spec.name \in Names
        /\ rt'[s].spec = req[q].spec /\ \A t \in Streams \ {s}: rt'[t].spec = rt[t].spec
        /\ eventStreams' = eventStreams \cup {s}
        /\ UNCHANGED <<streams, listeners, known, created, listenersAdminMux>>
    <3>1. Goes(q, "createStream", "add", "write") BY <1>2, RequestMoves DEF AddRuntimeStream, At, PCs
    <3>2. s \in Streams /\ req[q].spec.name \in Names BY <1>0, <1>2 DEF AddRuntimeStream, At, RequestOK
    <3> QED BY <1>0, <1>2, <3>1, <3>2 DEF AddRuntimeStream, NoRuntime, Runtime
  <2>11. StoredOK' BY <1>0, <2>1 DEF StoredOK, StoredStreams, StoredListeners, CreatesOK, Goes
  <2>12. CreatesOK' BY <1>0, <2>1 DEF CreatesOK, Goes, Others
  <2>13. RuntimeNamed' BY <1>0, <2>1 DEF RuntimeNamed, Goes, Others
  <2>14. HolderOK' BY <1>0, <1>b, <2>1 DEF HolderOK, StoredStreams, Goes, Others
  <2>15. DeletesOK' BY <1>0, <1>b, <2>1 DEF DeletesOK, ListenersOf, CreatesOK, Goes, Others
  <2>16. NoOrphanListeners' BY <1>0, <2>1 DEF NoOrphanListeners, StoredStreams
  <2> QED BY <2>11, <2>12, <2>13, <2>14, <2>15, <2>16 DEF OrphanInv
<1>3. CASE WriteNewStream(q)
  <2>1. /\ req[q].kind = "createStream" /\ req[q].pc = "write" /\ s \in Streams /\ req[q].spec.name \in Names
        /\ SameSpecs /\ UNCHANGED <<listeners, created, listenersAdminMux>>
        /\ \/ /\ Goes(q, "createStream", "write", "start")
              /\ streams' = [streams EXCEPT ![s] = req[q].spec] /\ known' = known \cup {s} /\ UNCHANGED eventStreams
           \/ Ends(q) /\ eventStreams' = eventStreams \ {s} /\ UNCHANGED <<streams, known>>
    <3>1. s \in Streams /\ req[q].spec.name \in Names /\ req[q].kind = "createStream" /\ req[q].pc = "write"
      BY <1>0, <1>3 DEF WriteNewStream, At, RequestOK
    <3>2. PICK ok \in Outcomes:
            IF ok THEN /\ streams' = [streams EXCEPT ![s] = req[q].spec] /\ known' = known \cup {s}
                       /\ Goto(q, "start") /\ UNCHANGED <<rt, eventStreams, streamsByName>>
            ELSE /\ eventStreams' = eventStreams \ {s} /\ rt' = [rt EXCEPT ![s].status = "deleted"]
                 /\ Done(q, FALSE) /\ UNCHANGED <<streams, known>>
      BY <1>3 DEF WriteNewStream
    <3>3. UNCHANGED <<listeners, created, listenersAdminMux>> BY <1>3 DEF WriteNewStream
    <3>4. CASE ok BY <3>1, <3>2, <3>3, <3>4, RequestMoves DEF PCs
    <3>5. CASE ~ok
      <4>1. SameSpecs BY <1>0, <3>1, <3>2, <3>5 DEF Runtime
      <4>2. Ends(q) BY <3>2, <3>5, RequestMoves
      <4> QED BY <3>1, <3>2, <3>3, <3>5, <4>1, <4>2
    <3> QED BY <3>4, <3>5
  <2>2. streams' # streams => /\ streams' = [streams EXCEPT ![s] = req[q].spec] /\ known' = known \cup {s}
                              /\ StoredStreams' = StoredStreams \cup {s}
    BY <1>0, <2>1 DEF StoredStreams, NoStream
  <2>11. StoredOK'
    <3>1. s \in created BY <1>0, <2>1 DEF CreatesOK
    <3>2. CASE Goes(q, "createStream", "write", "start") /\ streams' = [streams EXCEPT ![s] = req[q].spec]
               /\ known' = known \cup {s} /\ UNCHANGED eventStreams
      <4>1. streams'[s] = req[q].spec /\ streams'[s].name \in Names /\ \A t \in Streams \ {s}: streams'[t] = streams[t]
        BY <1>0, <2>1, <3>2
      <4>2. s \in StoredStreams' BY <1>0, <2>1, <4>1 DEF StoredStreams, NoStream
      <4>3. StoredStreams' = StoredStreams \cup {s} BY <2>1, <4>1, <4>2 DEF StoredStreams
      <4>4. \A t \in Streams: streams'[t] = NoStream \/ streams'[t].name \in Names BY <1>0, <4>1 DEF StoredOK
      <4>5. StoredListeners' = StoredListeners BY <2>1 DEF StoredListeners
      <4> HIDE DEF s
      <4> QED BY <1>0, <2>1, <3>1, <3>2, <4>3, <4>4, <4>5 DEF StoredOK
    <3>3. CASE eventStreams' = eventStreams \ {s} /\ UNCHANGED <<streams, known>>
      BY <1>0, <2>1, <3>3 DEF StoredOK, StoredStreams, StoredListeners
    <3> QED BY <2>1, <3>2, <3>3
  <2>12. CreatesOK' BY <1>0, <2>1, <2>2 DEF CreatesOK, Goes, Ends, Others, None
  <2>13. RuntimeNamed' BY <1>0, <2>1, <2>2 DEF RuntimeNamed, Goes, Ends, Others, None
  <2>14. HolderOK' BY <1>0, <1>b, <2>1, <2>2 DEF HolderOK, StoredStreams, Goes, Ends, Others, None
  <2>15. DeletesOK' BY <1>0, <1>b, <2>1, <2>2 DEF DeletesOK, ListenersOf, CreatesOK, Goes, Ends, Others, None
  <2>16. NoOrphanListeners' BY <1>0, <2>1, <2>2 DEF NoOrphanListeners, StoredStreams
  <2> QED BY <2>11, <2>12, <2>13, <2>14, <2>15, <2>16 DEF OrphanInv
<1>4. CASE StartNewStream(q)
  <2>1. Ends(q) /\ SameSpecs /\ UNCHANGED <<streams, listeners, known, created, eventStreams, listenersAdminMux>>
    <3>1. Ends(q) BY <1>4, RequestMoves DEF StartNewStream
    <3> QED BY <1>0, <1>4, <3>1 DEF StartNewStream, Ran, Runtime
  <2>11. StoredOK' BY <1>0, <2>1 DEF StoredOK, StoredStreams, StoredListeners
  <2>12. CreatesOK' BY <1>0, <2>1 DEF CreatesOK, Ends, Others, None
  <2>13. RuntimeNamed' BY <1>0, <2>1 DEF RuntimeNamed, Ends, Others, None
  <2>14. HolderOK' BY <1>0, <1>b, <2>1 DEF HolderOK, StoredStreams, Ends, Others, None
  <2>15. DeletesOK' BY <1>0, <1>b, <2>1 DEF DeletesOK, ListenersOf, Ends, Others, None
  <2>16. NoOrphanListeners' BY <1>0, <2>1 DEF NoOrphanListeners, StoredStreams
  <2> QED BY <2>11, <2>12, <2>13, <2>14, <2>15, <2>16 DEF OrphanInv
<1>5. CASE UpdateStream(q)
  <2>1. /\ Ends(q) \/ \E t \in known \cap eventStreams: Starts(q, "updateStream", "reserve", t)
        /\ UNCHANGED <<streams, listeners, rt, known, created, eventStreams, listenersAdminMux>>
    <3>1. PICK t \in known, name \in Names \cup {None}, suspended \in BOOLEAN:
            /\ IF t \in eventStreams
               THEN Start(q, [NewRequest EXCEPT !.kind = "updateStream", !.pc = "reserve", !.s = t, !.name = name,
                                                !.spec = [name |-> name, suspended |-> suspended]])
               ELSE Refuse(q)
            /\ UNCHANGED <<storeVars, memoryVars, listenersAdminMux, up, trouble, known, created>>
      BY <1>5 DEF UpdateStream
    <3> DEFINE spec == [name |-> name, suspended |-> suspended]
               r == [NewRequest EXCEPT !.kind = "updateStream", !.pc = "reserve", !.s = t, !.name = name, !.spec = spec]
    <3>2. t \in Streams /\ spec \in StreamSpec BY <1>0 DEF StreamSpec
    <3>3. t \in eventStreams => Start(q, r) BY <3>1
    <3> HIDE DEF spec
    <3>4. r \in Request /\ r.kind = "updateStream" /\ r.pc = "reserve" /\ r.s = t BY <3>2, NewRequestType DEF Request
    <3> HIDE DEF r
    <3>5. t \in eventStreams => Starts(q, "updateStream", "reserve", t) BY <3>3, <3>4, RequestMoves
    <3>6. t \notin eventStreams => Ends(q) BY <3>1, RequestMoves
    <3> QED BY <3>1, <3>5, <3>6
  <2>11. StoredOK' BY <1>0, <2>1 DEF StoredOK, StoredStreams, StoredListeners
  <2>12. CreatesOK' BY <1>0, <2>1 DEF CreatesOK, Starts, Ends, Others, None
  <2>13. RuntimeNamed' BY <1>0, <2>1 DEF RuntimeNamed, Starts, Ends, Others, None
  <2>14. HolderOK' BY <1>0, <1>b, <2>1 DEF HolderOK, StoredStreams, Starts, Ends, Others, None
  <2>15. DeletesOK' BY <1>0, <1>b, <2>1 DEF DeletesOK, ListenersOf, Starts, Ends, Others, None
  <2>16. NoOrphanListeners' BY <1>0, <2>1 DEF NoOrphanListeners, StoredStreams
  <2> QED BY <2>11, <2>12, <2>13, <2>14, <2>15, <2>16 DEF OrphanInv
<1>6. CASE ReserveStreamName(q)
  <2>1. /\ Ends(q) \/ Goes(q, "updateStream", "reserve", "spec")
        /\ UNCHANGED <<streams, listeners, rt, known, created, eventStreams, listenersAdminMux>>
    <3>1. CASE Goto(q, "spec") BY <1>6, <3>1, RequestMoves DEF ReserveStreamName, At, PCs
    <3>2. CASE Done(q, FALSE) BY <1>6, <3>2, RequestMoves DEF ReserveStreamName
    <3>3. CASE ~Goto(q, "spec") /\ ~Done(q, FALSE)
      <4>1. /\ req[q].kind = "updateStream" /\ req[q].pc = "reserve"
            /\ req' = [req EXCEPT ![q].pc = "spec", ![q].had = streamsByName[req[q].name] # None,
                                  ![q].old = IF s \in eventStreams THEN rt[s].spec.name ELSE None]
        BY <1>6, <3>3 DEF ReserveStreamName, At
      <4>2. Goes(q, "updateStream", "reserve", "spec") BY <1>0, <4>1 DEF Goes, Others, Request
      <4> QED BY <1>6, <4>2 DEF ReserveStreamName
    <3> QED BY <3>1, <3>2, <3>3
  <2>11. StoredOK' BY <1>0, <2>1 DEF StoredOK, StoredStreams, StoredListeners
  <2>12. CreatesOK' BY <1>0, <2>1 DEF CreatesOK, Goes, Ends, Others, None
  <2>13. RuntimeNamed' BY <1>0, <2>1 DEF RuntimeNamed, Goes, Ends, Others, None
  <2>14. HolderOK' BY <1>0, <1>b, <2>1 DEF HolderOK, StoredStreams, Goes, Ends, Others, None
  <2>15. DeletesOK' BY <1>0, <1>b, <2>1 DEF DeletesOK, ListenersOf, Goes, Ends, Others, None
  <2>16. NoOrphanListeners' BY <1>0, <2>1 DEF NoOrphanListeners, StoredStreams
  <2> QED BY <2>11, <2>12, <2>13, <2>14, <2>15, <2>16 DEF OrphanInv
<1>7. CASE UpdateSpec(q)
  <2>1. /\ Goes(q, "updateStream", "spec", "read") /\ s \in Streams
        /\ rt'[s].spec.name \in Names /\ \A t \in Streams \ {s}: rt'[t].spec = rt[t].spec
        /\ UNCHANGED <<streams, listeners, known, created, eventStreams, listenersAdminMux>>
    <3>1. Goes(q, "updateStream", "spec", "read") BY <1>7, RequestMoves DEF UpdateSpec, At, PCs
    <3>2. s \in Streams /\ rt[s].spec.name \in Names /\ req[q].name \in Names \cup {None}
      BY <1>0, <1>7 DEF UpdateSpec, At, RequestOK, RuntimeNamed, Request
    <3> QED BY <1>0, <1>7, <3>1, <3>2 DEF UpdateSpec, Runtime
  <2>11. StoredOK' BY <1>0, <2>1 DEF StoredOK, StoredStreams, StoredListeners
  <2>12. CreatesOK' BY <1>0, <2>1 DEF CreatesOK, Goes, Others
  <2>13. RuntimeNamed' BY <1>0, <2>1 DEF RuntimeNamed, Goes, Others
  <2>14. HolderOK' BY <1>0, <1>b, <2>1 DEF HolderOK, StoredStreams, Goes, Others
  <2>15. DeletesOK' BY <1>0, <1>b, <2>1 DEF DeletesOK, ListenersOf, Goes, Others
  <2>16. NoOrphanListeners' BY <1>0, <2>1 DEF NoOrphanListeners, StoredStreams
  <2> QED BY <2>11, <2>12, <2>13, <2>14, <2>15, <2>16 DEF OrphanInv
<1>8. CASE ReadSpec(q)
  <2>1. /\ Goes(q, "updateStream", "read", "write") /\ req'[q].spec = rt[s].spec
        /\ UNCHANGED <<streams, listeners, rt, known, created, eventStreams, listenersAdminMux>>
    BY <1>0, <1>8 DEF ReadSpec, At, Goes, Others, Request
  <2>11. StoredOK' BY <1>0, <2>1 DEF StoredOK, StoredStreams, StoredListeners
  <2>12. CreatesOK' BY <1>0, <2>1 DEF CreatesOK, Goes, Others
  <2>13. RuntimeNamed' BY <1>0, <2>1 DEF RuntimeNamed, Goes, Others
  <2>14. HolderOK' BY <1>0, <1>b, <2>1 DEF HolderOK, StoredStreams, Goes, Others
  <2>15. DeletesOK' BY <1>0, <1>b, <2>1 DEF DeletesOK, ListenersOf, Goes, Others
  <2>16. NoOrphanListeners' BY <1>0, <2>1 DEF NoOrphanListeners, StoredStreams
  <2> QED BY <2>11, <2>12, <2>13, <2>14, <2>15, <2>16 DEF OrphanInv
<1>9. CASE WriteStream(q)
  <2>1. /\ req[q].kind = "updateStream" /\ s \in known /\ s \in Streams /\ req[q].spec.name \in Names
        /\ UNCHANGED <<listeners, rt, known, created, eventStreams, listenersAdminMux>>
        /\ \/ Ends(q) /\ UNCHANGED streams
           \/ /\ Goes(q, "updateStream", "write", "run") /\ req'[q].spec = req[q].spec
              /\ streams' = [streams EXCEPT ![s] = req[q].spec]
    <3>1. req[q].kind = "updateStream" /\ req[q].pc = "write" /\ s \in Streams /\ s \in known /\ req[q].spec.name \in Names
      BY <1>0, <1>9 DEF WriteStream, At, RequestOK, RuntimeNamed
    <3>2. PICK ok \in Outcomes:
            IF ok THEN streams' = [streams EXCEPT ![s] = req[q].spec] /\ Goto(q, "run")
            ELSE Done(q, FALSE) /\ UNCHANGED streams
      BY <1>9 DEF WriteStream
    <3>3. UNCHANGED <<listeners, rt, known, created, eventStreams, listenersAdminMux>> BY <1>9 DEF WriteStream
    <3>4. CASE ok BY <3>1, <3>2, <3>3, <3>4, RequestMoves DEF PCs
    <3>5. CASE ~ok BY <3>1, <3>2, <3>3, <3>5, RequestMoves
    <3> QED BY <3>4, <3>5
  <2>2. streams' # streams => /\ streams' = [streams EXCEPT ![s] = req[q].spec]
                              /\ StoredStreams' = StoredStreams \cup {s}
    BY <1>0, <2>1 DEF StoredStreams, NoStream
  <2>11. StoredOK' BY <1>0, <2>1, <2>2 DEF StoredOK, StoredStreams, StoredListeners
  <2>12. CreatesOK' BY <1>0, <2>1, <2>2 DEF CreatesOK, Goes, Ends, Others, None
  <2>13. RuntimeNamed' BY <1>0, <2>1, <2>2 DEF RuntimeNamed, Goes, Ends, Others, None
  <2>14. HolderOK' BY <1>0, <1>b, <2>1, <2>2 DEF HolderOK, StoredStreams, Goes, Ends, Others, None
  <2>15. DeletesOK' BY <1>0, <1>b, <2>1, <2>2 DEF DeletesOK, ListenersOf, Goes, Ends, Others, None
  <2>16. NoOrphanListeners' BY <1>0, <2>1, <2>2 DEF NoOrphanListeners, StoredStreams
  <2> QED BY <2>11, <2>12, <2>13, <2>14, <2>15, <2>16 DEF OrphanInv
<1>10. CASE RunUpdated(q)
  <2>1. Ends(q) /\ SameSpecs /\ UNCHANGED <<streams, listeners, known, created, eventStreams, listenersAdminMux>>
    <3>1. Ends(q) BY <1>10, RequestMoves DEF RunUpdated
    <3> QED BY <1>0, <1>10, <3>1 DEF RunUpdated, Ran, Runtime
  <2>11. StoredOK' BY <1>0, <2>1 DEF StoredOK, StoredStreams, StoredListeners
  <2>12. CreatesOK' BY <1>0, <2>1 DEF CreatesOK, Ends, Others, None
  <2>13. RuntimeNamed' BY <1>0, <2>1 DEF RuntimeNamed, Ends, Others, None
  <2>14. HolderOK' BY <1>0, <1>b, <2>1 DEF HolderOK, StoredStreams, Ends, Others, None
  <2>15. DeletesOK' BY <1>0, <1>b, <2>1 DEF DeletesOK, ListenersOf, Ends, Others, None
  <2>16. NoOrphanListeners' BY <1>0, <2>1 DEF NoOrphanListeners, StoredStreams
  <2> QED BY <2>11, <2>12, <2>13, <2>14, <2>15, <2>16 DEF OrphanInv
<1>11. CASE DeleteStream(q)
  <2>1. PICK t \in known:
          /\ Starts(q, "deleteStream", "listeners", t) /\ eventStreams' = eventStreams \ {t}
          /\ UNCHANGED <<streams, listeners, rt, known, created, listenersAdminMux>>
    <3>1. PICK t \in known:
            /\ Start(q, [NewRequest EXCEPT !.kind = "deleteStream", !.pc = "listeners", !.s = t, !.held = t \in eventStreams])
            /\ eventStreams' = Unmapped(t)
            /\ UNCHANGED <<storeVars, rt, listenersByName, listenersAdminMux, up, trouble, known, created>>
      BY <1>11 DEF DeleteStream
    <3> DEFINE h == t \in eventStreams
               r == [NewRequest EXCEPT !.kind = "deleteStream", !.pc = "listeners", !.s = t, !.held = h]
    <3>2. h \in BOOLEAN /\ Start(q, r) BY <3>1
    <3> HIDE DEF h
    <3>3. r \in Request /\ r.kind = "deleteStream" /\ r.pc = "listeners" /\ r.s = t BY <1>0, <3>2, NewRequestType, ZenonT(60) DEF Request
    <3> HIDE DEF r
    <3>4. Starts(q, "deleteStream", "listeners", t) BY <3>2, <3>3, RequestMoves
    <3> QED BY <3>1, <3>4 DEF Unmapped
  <2>11. StoredOK' BY <1>0, <2>1 DEF StoredOK, StoredStreams, StoredListeners
  <2>12. CreatesOK' BY <1>0, <2>1 DEF CreatesOK, Starts, Others
  <2>13. RuntimeNamed' BY <1>0, <2>1 DEF RuntimeNamed, Starts, Others
  <2>14. HolderOK' BY <1>0, <1>b, <2>1 DEF HolderOK, StoredStreams, Starts, Others
  <2>15. DeletesOK' BY <1>0, <1>b, <2>1 DEF DeletesOK, ListenersOf, Starts, Others
  <2>16. NoOrphanListeners' BY <1>0, <2>1 DEF NoOrphanListeners, StoredStreams
  <2> QED BY <2>11, <2>12, <2>13, <2>14, <2>15, <2>16 DEF OrphanInv
<1>12. CASE DeleteAllStreamListeners(q)
  <2>1. /\ req[q].kind = "deleteStream" /\ s \in known /\ s \in Streams /\ listenersAdminMux = None
        /\ UNCHANGED <<streams, rt, known, created, eventStreams, listenersAdminMux>>
        /\ \A l \in Listeners: listeners'[l] \in {NoListener, listeners[l]}
        /\ \/ Ends(q)
           \/ Goes(q, "deleteStream", "listeners", "record") /\ \A l \in Listeners: listeners'[l].stream # s
    <3>1. req[q].kind = "deleteStream" /\ req[q].pc = "listeners" /\ s \in Streams /\ s \in known
      BY <1>0, <1>12 DEF DeleteAllStreamListeners, At, RequestOK, DeletesOK
    <3>2. PICK ok \in Outcomes, gone \in SUBSET ListenersOf(s):
            /\ ok => gone = ListenersOf(s)
            /\ listeners' = [l \in Listeners |-> IF l \in gone THEN NoListener ELSE listeners[l]]
            /\ IF ok THEN Goto(q, "record") ELSE Done(q, FALSE)
      BY <1>12 DEF DeleteAllStreamListeners
    <3>3. UNCHANGED <<streams, rt, known, created, eventStreams, listenersAdminMux>> /\ listenersAdminMux = None
      BY <1>12 DEF DeleteAllStreamListeners
    <3>4. CASE ok
      <4>1. \A l \in Listeners: listeners'[l].stream # s BY <1>0, <3>1, <3>2, <3>4 DEF ListenersOf, NoListener
      <4> QED BY <3>1, <3>2, <3>3, <3>4, <4>1, RequestMoves DEF PCs
    <3>5. CASE ~ok BY <3>1, <3>2, <3>3, <3>5, RequestMoves
    <3> QED BY <3>4, <3>5
  <2>11. StoredOK' BY <1>0, <2>1 DEF StoredOK, StoredStreams, StoredListeners
  <2>12. CreatesOK' BY <1>0, <2>1 DEF CreatesOK, Goes, Ends, Others, None
  <2>13. RuntimeNamed' BY <1>0, <2>1 DEF RuntimeNamed, Goes, Ends, Others, None
  <2>14. HolderOK' BY <1>0, <1>b, <2>1 DEF HolderOK, StoredStreams, Goes, Ends, Others, None
  <2>15. DeletesOK' BY <1>0, <1>b, <2>1 DEF DeletesOK, ListenersOf, NoListener, Goes, Ends, Others, None
  <2>16. NoOrphanListeners' BY <1>0, <2>1 DEF NoOrphanListeners, StoredStreams, NoListener
  <2> QED BY <2>11, <2>12, <2>13, <2>14, <2>15, <2>16 DEF OrphanInv
<1>13. CASE DeleteStreamRecord(q)
  <2>1. /\ req[q].kind = "deleteStream" /\ req[q].pc = "record" /\ s \in Streams
        /\ UNCHANGED <<listeners, rt, known, created, eventStreams, listenersAdminMux>>
        /\ \/ Ends(q) /\ UNCHANGED streams
           \/ Goes(q, "deleteStream", "record", "runtime") /\ streams' = [streams EXCEPT ![s] = NoStream]
    <3>1. req[q].kind = "deleteStream" /\ req[q].pc = "record" /\ s \in Streams
      BY <1>0, <1>13 DEF DeleteStreamRecord, At, RequestOK
    <3>2. PICK ok \in Outcomes:
            /\ streams' = IF ok THEN [streams EXCEPT ![s] = NoStream] ELSE streams
            /\ IF ok THEN Goto(q, "runtime") ELSE Done(q, FALSE)
      BY <1>13 DEF DeleteStreamRecord
    <3>3. UNCHANGED <<listeners, rt, known, created, eventStreams, listenersAdminMux>> BY <1>13 DEF DeleteStreamRecord
    <3>4. CASE ok BY <3>1, <3>2, <3>3, <3>4, RequestMoves DEF PCs
    <3>5. CASE ~ok BY <3>1, <3>2, <3>3, <3>5, RequestMoves
    <3> QED BY <3>4, <3>5
  <2>11. StoredOK' BY <1>0, <2>1 DEF StoredOK, StoredStreams, StoredListeners, DeletesOK
  <2>12. CreatesOK' BY <1>0, <2>1 DEF CreatesOK, Goes, Ends, Others, None
  <2>13. RuntimeNamed' BY <1>0, <2>1 DEF RuntimeNamed, Goes, Ends, Others, None
  <2>14. HolderOK' BY <1>0, <1>b, <2>1 DEF HolderOK, StoredStreams, DeletesOK, Goes, Ends, Others, None
  <2>15. DeletesOK' BY <1>0, <1>b, <2>1 DEF DeletesOK, ListenersOf, Goes, Ends, Others, None
  <2>16. NoOrphanListeners' BY <1>0, <2>1 DEF NoOrphanListeners, StoredStreams, DeletesOK, ListenersOf
  <2> QED BY <2>11, <2>12, <2>13, <2>14, <2>15, <2>16 DEF OrphanInv
<1>14. CASE DeleteRuntime(q)
  <2>1. Ends(q) /\ SameSpecs /\ UNCHANGED <<streams, listeners, known, created, eventStreams, listenersAdminMux>>
    <3>1. Ends(q) BY <1>14, RequestMoves DEF DeleteRuntime
    <3> QED BY <1>0, <1>14, <3>1 DEF DeleteRuntime, Runtime
  <2>11. StoredOK' BY <1>0, <2>1 DEF StoredOK, StoredStreams, StoredListeners
  <2>12. CreatesOK' BY <1>0, <2>1 DEF CreatesOK, Ends, Others, None
  <2>13. RuntimeNamed' BY <1>0, <2>1 DEF RuntimeNamed, Ends, Others, None
  <2>14. HolderOK' BY <1>0, <1>b, <2>1 DEF HolderOK, StoredStreams, Ends, Others, None
  <2>15. DeletesOK' BY <1>0, <1>b, <2>1 DEF DeletesOK, ListenersOf, Ends, Others, None
  <2>16. NoOrphanListeners' BY <1>0, <2>1 DEF NoOrphanListeners, StoredStreams
  <2> QED BY <2>11, <2>12, <2>13, <2>14, <2>15, <2>16 DEF OrphanInv
<1> QED BY <1>1, <1>2, <1>3, <1>4, <1>5, <1>6, <1>7, <1>8, <1>9, <1>10, <1>11, <1>12, <1>13, <1>14 DEF StreamRequest

\* Every step of a listener request does.
LEMMA ListenerOrphanStep ==
    ASSUME Typed, OrphanInv, NEW q \in Requests, ListenerRequest(q) PROVE OrphanInv'
<1> DEFINE s == req[q].s
           l == req[q].l
           SameSpecs == \A t \in Streams: rt'[t].spec = rt[t].spec
<1> USE DEF storeVars, memoryVars, history
<1>0. /\ req \in [Requests -> Request] /\ RequestOK(q) /\ req[q] \in Request
      /\ rt \in [Streams -> Runtime] /\ streams \in [Streams -> StreamSpec]
      /\ listeners \in [Listeners -> [stream: Streams \cup {None}, name: Names \cup {None}]]
      /\ None \notin Names \cup Streams \cup Listeners \cup Requests
      /\ known \subseteq Streams /\ eventStreams \subseteq Streams
      /\ \A p \in Requests: listenersAdminMux = p <=> Active(p) /\ req[p].kind \in ListenerKinds
      /\ \A p \in Requests: req[p].kind = "updateStream" => req[p].s \in Streams
      /\ StoredOK /\ CreatesOK /\ RuntimeNamed /\ HolderOK /\ DeletesOK /\ NoOrphanListeners
  BY ManagementAssumption DEF Typed, ManagementTypeOK, RequestsOK, OrphanInv, RequestOK
<1>a. ASSUME NEW kind \in {"createListener", "updateListener"}, NEW t \in Streams, NEW m \in Listeners, NEW name \in Names,
             NEW old \in Names \cup {None}, listenersAdminMux = None, ReserveListenerName(q, kind, t, m, name, old)
      PROVE  \/ Ends(q) /\ listenersAdminMux' = None
             \/ Starts(q, kind, "write", t) /\ req'[q].l = m /\ t \in eventStreams /\ listenersAdminMux' = q
  <2> DEFINE h == listenersByName[name] # None
             r == [NewRequest EXCEPT !.kind = kind, !.pc = "write", !.s = t, !.l = m, !.name = name, !.old = old, !.had = h]
  <2>1. \/ Refuse(q) /\ UNCHANGED listenersAdminMux
        \/ Start(q, r) /\ t \in eventStreams /\ listenersAdminMux' = q
    BY <1>a DEF ReserveListenerName, Lock
  <2>2. h \in BOOLEAN OBVIOUS
  <2> HIDE DEF h
  <2>3. r \in Request /\ r.kind = kind /\ r.pc = "write" /\ r.s = t /\ r.l = m BY <2>2, NewRequestType DEF Request
  <2> HIDE DEF r
  <2>4. Start(q, r) => req'[q] = r BY <1>0 DEF Start
  <2> QED BY <1>a, <2>1, <2>3, <2>4, RequestMoves
<1>1. CASE CreateListener(q)
  <2>1. /\ listenersAdminMux = None /\ created \subseteq created'
        /\ UNCHANGED <<streams, listeners, rt, known, eventStreams>>
        /\ \/ Ends(q) /\ listenersAdminMux' = None
           \/ \E t \in known \cap eventStreams: Starts(q, "createListener", "write", t) /\ listenersAdminMux' = q
                                                 /\ req'[q].l \in created'
    BY <1>0, <1>1, <1>a DEF CreateListener
  <2>11. StoredOK' BY <1>0, <2>1 DEF StoredOK, StoredStreams, StoredListeners
  <2>12. CreatesOK' BY <1>0, <2>1 DEF CreatesOK, Starts, Ends, Others, None
  <2>13. RuntimeNamed' BY <1>0, <2>1 DEF RuntimeNamed, Starts, Ends, Others, None
  <2>14. HolderOK' BY <1>0, <2>1 DEF HolderOK, StoredStreams, StoredOK, Starts, Ends, Others, None
  <2>15. DeletesOK' BY <1>0, <2>1 DEF DeletesOK, ListenersOf, Starts, Ends, Others, None
  <2>16. NoOrphanListeners' BY <1>0, <2>1 DEF NoOrphanListeners, StoredStreams
  <2> QED BY <2>11, <2>12, <2>13, <2>14, <2>15, <2>16 DEF OrphanInv
<1>2. CASE UpdateListener(q)
  <2>1. /\ listenersAdminMux = None
        /\ UNCHANGED <<streams, listeners, rt, known, created, eventStreams>>
        /\ \/ Ends(q) /\ listenersAdminMux' = None
           \/ \E t \in StoredStreams \cap eventStreams: Starts(q, "updateListener", "write", t) /\ listenersAdminMux' = q
                                                         /\ req'[q].l \in created
    <3>1. PICK m \in Listeners, name \in Names \cup {None}:
            /\ listenersAdminMux = None
            /\ listeners[m].stream # None
            /\ ReserveListenerName(q, "updateListener", listeners[m].stream, m, MergedName(listeners[m].stream, m, name), listeners[m].name)
            /\ UNCHANGED <<storeVars, rt, eventStreams, streamsByName, up, trouble, history>>
      BY <1>2 DEF UpdateListener
    <3>2. listeners[m].stream \in Streams /\ listeners[m].name \in Names \cup {None} BY <1>0, <3>1
    <3>3. MergedName(listeners[m].stream, m, name) \in Names BY <1>0, <3>2, ManagementAssumption DEF MergedName, Runtime
    <3>4. listeners[m].stream \in StoredStreams /\ m \in created
      BY <1>0, <3>1 DEF NoOrphanListeners, StoredOK, StoredListeners, NoListener
    <3> QED BY <3>1, <3>2, <3>3, <3>4, <1>a
  <2>11. StoredOK' BY <1>0, <2>1 DEF StoredOK, StoredStreams, StoredListeners
  <2>12. CreatesOK' BY <1>0, <2>1 DEF CreatesOK, Starts, Ends, Others, None
  <2>13. RuntimeNamed' BY <1>0, <2>1 DEF RuntimeNamed, Starts, Ends, Others, None
  <2>14. HolderOK' BY <1>0, <2>1 DEF HolderOK, StoredStreams, Starts, Ends, Others, None
  <2>15. DeletesOK' BY <1>0, <2>1 DEF DeletesOK, ListenersOf, Starts, Ends, Others, None
  <2>16. NoOrphanListeners' BY <1>0, <2>1 DEF NoOrphanListeners, StoredStreams
  <2> QED BY <2>11, <2>12, <2>13, <2>14, <2>15, <2>16 DEF OrphanInv
<1>3. CASE WriteListener(q)
  <2>1. /\ listenersAdminMux = q /\ s \in Streams /\ s \in StoredStreams /\ l \in Listeners /\ l \in created /\ req[q].name \in Names
        /\ UNCHANGED <<streams, rt, known, created, eventStreams>>
        /\ \/ Ends(q) /\ listenersAdminMux' = None /\ UNCHANGED listeners
           \/ /\ Goes(q, req[q].kind, "write", "apply") /\ UNCHANGED listenersAdminMux
              /\ listeners' = [listeners EXCEPT ![l] = [stream |-> s, name |-> req[q].name]]
    <3>1. listenersAdminMux = q /\ s \in Streams /\ l \in Listeners /\ req[q].name \in Names /\ req[q].pc = "write"
      BY <1>0, <1>3 DEF WriteListener, At, Active, RequestOK, ListenerKinds
    <3>2. PICK ok \in Outcomes, refused \in BOOLEAN:
            IF ok /\ ~refused
            THEN /\ listeners' = [listeners EXCEPT ![l] = [stream |-> s, name |-> req[q].name]]
                 /\ Goto(q, "apply")
                 /\ UNCHANGED <<listenersByName, listenersAdminMux>>
            ELSE /\ listenersAdminMux' = None
                 /\ Done(q, FALSE)
                 /\ UNCHANGED listeners
      BY <1>3 DEF WriteListener
    <3>3. UNCHANGED <<streams, rt, known, created, eventStreams>> BY <1>3 DEF WriteListener
    <3>4. s \in StoredStreams /\ l \in created BY <1>0, <3>1 DEF HolderOK
    <3>5. CASE ok /\ ~refused BY <3>1, <3>2, <3>3, <3>4, <3>5, RequestMoves DEF PCs
    <3>6. CASE ~(ok /\ ~refused) BY <3>1, <3>2, <3>3, <3>4, <3>6, RequestMoves
    <3> QED BY <3>5, <3>6
  <2>11. StoredOK' BY <1>0, <2>1 DEF StoredOK, StoredStreams, StoredListeners, NoListener
  <2>12. CreatesOK' BY <1>0, <2>1 DEF CreatesOK, Goes, Ends, Others, None
  <2>13. RuntimeNamed' BY <1>0, <2>1 DEF RuntimeNamed, Goes, Ends, Others, None
  <2>14. HolderOK' BY <1>0, <2>1 DEF HolderOK, StoredStreams, Goes, Ends, Others, None
  <2>15. DeletesOK' BY <1>0, <2>1 DEF DeletesOK, ListenersOf, Goes, Ends, Others, None
  <2>16. NoOrphanListeners' BY <1>0, <2>1 DEF NoOrphanListeners, StoredStreams
  <2> QED BY <2>11, <2>12, <2>13, <2>14, <2>15, <2>16 DEF OrphanInv
<1>4. CASE ApplyListener(q)
  <2>1. Ends(q) /\ listenersAdminMux' = None /\ SameSpecs /\ UNCHANGED <<streams, listeners, known, created, eventStreams>>
    <3>1. Ends(q) BY <1>4, RequestMoves DEF ApplyListener
    <3> QED BY <1>0, <1>4, <3>1 DEF ApplyListener, Runtime
  <2>11. StoredOK' BY <1>0, <2>1 DEF StoredOK, StoredStreams, StoredListeners
  <2>12. CreatesOK' BY <1>0, <2>1 DEF CreatesOK, Ends, Others, None
  <2>13. RuntimeNamed' BY <1>0, <2>1 DEF RuntimeNamed, Ends, Others, None
  <2>14. HolderOK' BY <1>0, <2>1 DEF HolderOK, StoredStreams, Ends, Others, None
  <2>15. DeletesOK' BY <1>0, <2>1 DEF DeletesOK, ListenersOf, Ends, Others, None
  <2>16. NoOrphanListeners' BY <1>0, <2>1 DEF NoOrphanListeners, StoredStreams
  <2> QED BY <2>11, <2>12, <2>13, <2>14, <2>15, <2>16 DEF OrphanInv
<1>5. CASE DeleteListener(q)
  <2>1. /\ listenersAdminMux = None /\ SameSpecs /\ UNCHANGED <<streams, listeners, known, created, eventStreams>>
        /\ \/ Ends(q) /\ listenersAdminMux' = None
           \/ \E t \in StoredStreams \cap eventStreams: Starts(q, "deleteListener", "record", t) /\ listenersAdminMux' = q
                                                         /\ req'[q].l \in created
    <3>1. PICK m \in Listeners:
            /\ listeners[m].stream # None /\ listenersAdminMux = None
            /\ UNCHANGED rt \/ rt' = [rt EXCEPT ![listeners[m].stream].listeners[m] = None]
            /\ \/ Refuse(q) /\ UNCHANGED listenersAdminMux
               \/ /\ listeners[m].stream \in eventStreams /\ listenersAdminMux' = q
                  /\ Start(q, [NewRequest EXCEPT !.kind = "deleteListener", !.pc = "record", !.s = listeners[m].stream, !.l = m])
      BY <1>5 DEF DeleteListener, Lock
    <3>2. listeners[m].stream \in StoredStreams /\ listeners[m].stream \in Streams /\ m \in created
      BY <1>0, <3>1 DEF NoOrphanListeners, StoredOK, StoredListeners, NoListener
    <3>3. SameSpecs
      <4>1. CASE UNCHANGED rt BY <4>1
      <4>2. CASE rt' = [rt EXCEPT ![listeners[m].stream].listeners[m] = None] BY <1>0, <3>2, <4>2 DEF Runtime
      <4> QED BY <3>1, <4>1, <4>2
    <3>4. UNCHANGED <<streams, listeners, known, created, eventStreams>> BY <1>5 DEF DeleteListener
    <3> DEFINE t == listeners[m].stream
               r == [NewRequest EXCEPT !.kind = "deleteListener", !.pc = "record", !.s = t, !.l = m]
    <3>5. \/ Refuse(q) /\ UNCHANGED listenersAdminMux
          \/ Start(q, r) /\ listenersAdminMux' = q /\ t \in eventStreams
      BY <3>1
    <3> HIDE DEF t
    <3>6. r \in Request /\ r.kind = "deleteListener" /\ r.pc = "record" /\ r.s = t /\ r.l = m
      BY <3>2, NewRequestType DEF Request, t
    <3> HIDE DEF r
    <3>8. Start(q, r) => req'[q] = r BY <1>0 DEF Start
    <3>7. \/ Ends(q) /\ listenersAdminMux' = None
          \/ /\ Starts(q, "deleteListener", "record", t) /\ req'[q].l = m
             /\ listenersAdminMux' = q /\ t \in eventStreams
      BY <3>1, <3>5, <3>6, <3>8, RequestMoves
    <3> QED BY <3>1, <3>2, <3>3, <3>4, <3>7 DEF t
  <2>11. StoredOK' BY <1>0, <2>1 DEF StoredOK, StoredStreams, StoredListeners
  <2>12. CreatesOK' BY <1>0, <2>1 DEF CreatesOK, Starts, Ends, Others, None
  <2>13. RuntimeNamed' BY <1>0, <2>1 DEF RuntimeNamed, Starts, Ends, Others, None
  <2>14. HolderOK' BY <1>0, <2>1 DEF HolderOK, StoredStreams, Starts, Ends, Others, None
  <2>15. DeletesOK' BY <1>0, <2>1 DEF DeletesOK, ListenersOf, Starts, Ends, Others, None
  <2>16. NoOrphanListeners' BY <1>0, <2>1 DEF NoOrphanListeners, StoredStreams
  <2> QED BY <2>11, <2>12, <2>13, <2>14, <2>15, <2>16 DEF OrphanInv
<1>6. CASE DeleteListenerRecord(q)
  <2>1. /\ Ends(q) /\ listenersAdminMux' = None /\ UNCHANGED <<streams, rt, known, created, eventStreams>>
        /\ \A m \in Listeners: listeners'[m] \in {NoListener, listeners[m]}
    <3>1. PICK ok \in Outcomes:
            Done(q, ok) /\ listeners' = IF ok THEN [listeners EXCEPT ![l] = NoListener] ELSE listeners
      BY <1>6 DEF DeleteListenerRecord
    <3>2. ok \in BOOLEAN BY DEF Outcomes
    <3>3. Ends(q) BY <3>1, <3>2, RequestMoves
    <3>4. \A m \in Listeners: listeners'[m] \in {NoListener, listeners[m]} BY <1>0, <3>1
    <3> QED BY <1>6, <3>3, <3>4 DEF DeleteListenerRecord
  <2>11. StoredOK' BY <1>0, <2>1 DEF StoredOK, StoredStreams, StoredListeners
  <2>12. CreatesOK' BY <1>0, <2>1 DEF CreatesOK, Ends, Others, None
  <2>13. RuntimeNamed' BY <1>0, <2>1 DEF RuntimeNamed, Ends, Others, None
  <2>14. HolderOK' BY <1>0, <2>1 DEF HolderOK, StoredStreams, Ends, Others, None
  <2>15. DeletesOK' BY <1>0, <2>1 DEF DeletesOK, ListenersOf, NoListener, Ends, Others, None
  <2>16. NoOrphanListeners' BY <1>0, <2>1 DEF NoOrphanListeners, StoredStreams, NoListener
  <2> QED BY <2>11, <2>12, <2>13, <2>14, <2>15, <2>16 DEF OrphanInv
<1> QED BY <1>1, <1>2, <1>3, <1>4, <1>5, <1>6 DEF ListenerRequest

\* A deletion of listeners under the mutex leaves the index exact.
LEMMA DeleteAllIndexStep ==
    ASSUME Typed, ListenerInv, NEW q \in Requests, DeleteAllStreamListeners(q) PROVE ListenerInv'
<1>0. /\ listeners \in [Listeners -> [stream: Streams \cup {None}, name: Names \cup {None}]]
      /\ listenersByName \in [Names -> Listeners \cup {None}]
      /\ None \notin Names \cup Listeners \cup Requests
      /\ listenersAdminMux = None /\ listenersAdminMux' = None /\ AllIndexed /\ ListenerNamesUnique
  BY ManagementAssumption DEF Typed, ManagementTypeOK, ListenerInv, IndexOK, DeleteAllStreamListeners
<1>1. PICK gone \in SUBSET ListenersOf(req[q].s):
        /\ listeners' = [l \in Listeners |-> IF l \in gone THEN NoListener ELSE listeners[l]]
        /\ listenersByName' = [n \in Names |->
             IF \E l \in gone: listeners[l].name = n /\ listenersByName[n] = l THEN None ELSE listenersByName[n]]
  BY DEF DeleteAllStreamListeners
<1>2. gone \subseteq Listeners BY DEF ListenersOf
<1>3. \A n \in Names: Indexed(n)'
  <2> SUFFICES ASSUME NEW n \in Names, NEW l \in Listeners PROVE listenersByName'[n] = l <=> listeners'[l].name = n
    BY DEF Indexed
  <2>1. \A m \in Listeners: listenersByName[n] = m <=> listeners[m].name = n BY <1>0 DEF AllIndexed, Indexed
  <2>2. CASE l \in gone
    <3>1. listeners'[l].name # n BY <1>0, <1>1, <2>2 DEF NoListener
    <3>2. listenersByName'[n] # l BY <1>0, <1>1, <1>2, <2>1, <2>2
    <3> QED BY <3>1, <3>2
  <2>3. CASE l \notin gone
    <3>1. listeners'[l] = listeners[l] BY <1>1, <2>3
    <3>2. listenersByName'[n] = l <=> listenersByName[n] = l BY <1>0, <1>1, <1>2, <2>1, <2>3
    <3> QED BY <2>1, <3>1, <3>2
  <2> QED BY <2>2, <2>3
<1>4. ListenerNamesUnique'
  <2>1. \A l \in Listeners: listeners'[l] # NoListener => listeners'[l] = listeners[l] BY <1>1
  <2> QED BY <1>0, <2>1 DEF ListenerNamesUnique, StoredListeners
<1> QED BY <1>0, <1>3, <1>4 DEF ListenerInv, IndexOK, AllIndexed

\* A start indexes the listeners that are stored; streams in the map are those stored.
LEMMA RestoredIndex ==
    ASSUME ManagementTypeOK, StoredOK, ListenerNamesUnique, listenersByName' = RestoredListenerNames, UNCHANGED listeners
    PROVE  AllIndexed'
<1>0. /\ listeners \in [Listeners -> [stream: Streams \cup {None}, name: Names \cup {None}]]
      /\ None \notin Names \cup Listeners
  BY ManagementAssumption DEF ManagementTypeOK
<1> SUFFICES ASSUME NEW n \in Names, NEW l \in Listeners PROVE RestoredListenerNames[n] = l <=> listeners[l].name = n
  BY DEF AllIndexed, Indexed
<1>1. \A m \in Listeners: listeners[m].name = n => m \in StoredListeners BY <1>0 DEF StoredListeners, NoListener
<1>2. \A k, m \in Listeners: listeners[k].name = n /\ listeners[m].name = n => k = m BY <1>1 DEF ListenerNamesUnique
<1>3. CASE \E m \in Listeners: listeners[m].name = n
  <2> DEFINE c == CHOOSE m \in Listeners: listeners[m].name = n
  <2>1. c \in Listeners /\ listeners[c].name = n BY <1>3
  <2>2. RestoredListenerNames[n] = c BY <1>3 DEF RestoredListenerNames
  <2> HIDE DEF c
  <2> QED BY <1>2, <2>1, <2>2
<1>4. CASE ~\E m \in Listeners: listeners[m].name = n
  <2>1. RestoredListenerNames[n] = None BY <1>4 DEF RestoredListenerNames
  <2> QED BY <1>0, <1>4, <2>1
<1> QED BY <1>3, <1>4

LEMMA RestartIndexStep ==
    ASSUME Typed, StoredOK, ListenerInv, Restart PROVE ListenerInv'
<1>1. ListenerNamesUnique' BY DEF ListenerInv, ListenerNamesUnique, StoredListeners, Restart, storeVars
<1>2. AllIndexed' BY RestoredIndex DEF ListenerInv, Typed, Restart, storeVars
<1>3. listenersAdminMux' = None /\ None \notin Requests BY ManagementAssumption DEF Restart
<1> QED BY <1>1, <1>2, <1>3 DEF ListenerInv, IndexOK

LEMMA RestartOrphanStep ==
    ASSUME Typed, OrphanInv, Restart PROVE OrphanInv'
<1>0. /\ req \in [Requests -> Request] /\ streams \in [Streams -> StreamSpec] /\ None \notin Requests
      /\ eventStreams' = StoredStreams /\ listenersAdminMux' = None /\ rt' = RestoredRuntime
      /\ UNCHANGED <<streams, listeners, known, created>>
      /\ req' = [q \in Requests |-> IF Active(q) THEN [NewRequest EXCEPT !.pc = "done"] ELSE req[q]]
      /\ StoredOK /\ CreatesOK /\ RuntimeNamed /\ DeletesOK /\ NoOrphanListeners /\ RequestsOK
  BY ManagementAssumption DEF Typed, ManagementTypeOK, OrphanInv, Restart, storeVars
<1>1. \A q \in Requests: req'[q].kind \in {None, "deleteStream"} /\ (req'[q].kind = "deleteStream" => req'[q].pc = "done")
  <2> SUFFICES ASSUME NEW q \in Requests
               PROVE  req'[q].kind \in {None, "deleteStream"} /\ (req'[q].kind = "deleteStream" => req'[q].pc = "done")
    OBVIOUS
  <2>1. CASE Active(q) BY <1>0, <2>1 DEF NewRequest, None
  <2>2. CASE ~Active(q)
    <3>1. req'[q] = req[q] /\ req[q].pc \in {"new", "done"} BY <1>0, <2>2 DEF Active
    <3>2. req[q] \in Request /\ RequestOK(q) BY <1>0 DEF RequestsOK
    <3> QED BY <3>1, <3>2 DEF RequestOK, Request, None
  <2> QED BY <2>1, <2>2
<1>2. StoredOK' BY <1>0 DEF StoredOK, StoredStreams, StoredListeners
<1>3. CreatesOK' BY <1>1 DEF CreatesOK, None
<1>4. RuntimeNamed'
  <2>1. \A s \in StoredStreams: rt'[s].spec = streams[s] /\ streams[s].name \in Names
    BY <1>0 DEF RestoredRuntime, StoredStreams, StoredOK
  <2> QED BY <1>0, <1>1, <2>1 DEF RuntimeNamed, None
<1>5. HolderOK' BY <1>0 DEF HolderOK
<1>6. DeletesOK' BY <1>1 DEF DeletesOK
<1>7. NoOrphanListeners' BY <1>0 DEF NoOrphanListeners, StoredStreams
<1> QED BY <1>2, <1>3, <1>4, <1>5, <1>6, <1>7 DEF OrphanInv

\* What is stored when the manager starts for the first time is consistent.
LEMMA ConsistentInit == Init => OrphanInv /\ ListenerInv
<1> SUFFICES ASSUME Init PROVE OrphanInv /\ ListenerInv OBVIOUS
<1>0. Typed /\ None \notin Names \cup Streams \cup Listeners \cup Requests BY TypeInit, ManagementAssumption
<1>1. PICK x \in Stores: streams = x.streams /\ listeners = x.listeners BY DEF Init
<1>2. /\ \A s \in Streams: streams[s] \in [name: Names, suspended: BOOLEAN] \cup {NoStream}
      /\ \A l \in Listeners: listeners[l] \in [stream: Streams, name: Names] \cup {NoListener}
      /\ \A l, m \in Listeners: listeners[l].name = listeners[m].name => l = m \/ listeners[l].name = None
      /\ \A l \in Listeners: listeners[l].stream = None \/ streams[listeners[l].stream].name # None
  BY <1>1, ManagementAssumption
<1>3. /\ eventStreams = StoredStreams /\ listenersAdminMux = None /\ rt = RestoredRuntime
      /\ known = StoredStreams /\ created = StoredStreams \cup StoredListeners
      /\ \A q \in Requests: req[q].kind = None
      /\ listenersByName = RestoredListenerNames
  BY DEF Init, NewRequest
<1>4. StoredOK
  <2>1. \A s \in Streams: streams[s] = NoStream \/ streams[s].name \in Names BY <1>2
  <2>2. \A l \in Listeners: listeners[l] = NoListener \/ (listeners[l].stream \in Streams /\ listeners[l].name \in Names) BY <1>2
  <2> QED BY <1>3, <2>1, <2>2 DEF StoredOK
<1>5. CreatesOK BY <1>3 DEF CreatesOK, None
<1>6. RuntimeNamed
  <2>1. \A s \in StoredStreams: rt[s].spec = streams[s] /\ streams[s].name \in Names
    BY <1>3, <1>4 DEF RestoredRuntime, StoredStreams, StoredOK
  <2> QED BY <1>3, <2>1 DEF RuntimeNamed, None
<1>7. HolderOK BY <1>0, <1>3 DEF HolderOK
<1>8. DeletesOK BY <1>3 DEF DeletesOK, None
<1>9. NoOrphanListeners
  <2> SUFFICES ASSUME NEW l \in Listeners, listeners[l].stream # None PROVE listeners[l].stream \in StoredStreams
    BY DEF NoOrphanListeners
  <2>1. listeners[l].stream \in Streams BY <1>2 DEF NoListener
  <2>2. streams[listeners[l].stream].name # None BY <1>2
  <2> QED BY <2>1, <2>2 DEF StoredStreams, NoStream
<1>10. ListenerNamesUnique
  <2> SUFFICES ASSUME NEW l \in StoredListeners, NEW m \in StoredListeners, listeners[l].name = listeners[m].name PROVE l = m
    BY DEF ListenerNamesUnique
  <2>1. l \in Listeners /\ m \in Listeners /\ listeners[l].name # None BY <1>0, <1>4 DEF StoredListeners, StoredOK
  <2> QED BY <1>2, <2>1
<1>11. AllIndexed
  <2> SUFFICES ASSUME NEW n \in Names, NEW l \in Listeners PROVE listenersByName[n] = l <=> listeners[l].name = n
    BY DEF AllIndexed, Indexed
  <2>1. \A k, m \in Listeners: listeners[k].name = n /\ listeners[m].name = n => k = m BY <1>0, <1>2
  <2>2. CASE \E m \in Listeners: listeners[m].name = n
    <3> DEFINE c == CHOOSE m \in Listeners: listeners[m].name = n
    <3>1. c \in Listeners /\ listeners[c].name = n BY <2>2
    <3>2. listenersByName[n] = c BY <1>3, <2>2 DEF RestoredListenerNames
    <3> HIDE DEF c
    <3> QED BY <2>1, <3>1, <3>2
  <2>3. CASE ~\E m \in Listeners: listeners[m].name = n
    <3>1. listenersByName[n] = None BY <1>3, <2>3 DEF RestoredListenerNames
    <3> QED BY <1>0, <2>3, <3>1
  <2> QED BY <2>2, <2>3
<1> QED BY <1>0, <1>3, <1>4, <1>5, <1>6, <1>7, <1>8, <1>9, <1>10, <1>11 DEF OrphanInv, ListenerInv, IndexOK

\* The inductive invariant: types, the streams of listeners, and the index of names.
ManagementInv == Typed /\ OrphanInv /\ ListenerInv

LEMMA ManagementStep == ManagementInv /\ [Next]_vars => ManagementInv'
<1> SUFFICES ASSUME ManagementInv, [Next]_vars PROVE ManagementInv' OBVIOUS
<1>1. Typed /\ OrphanInv /\ ListenerInv /\ StoredOK BY DEF ManagementInv, OrphanInv
<1>2. Typed' BY <1>1, TypedStep
<1>3. ASSUME NEW q \in Requests, StreamRequest(q) PROVE OrphanInv' /\ ListenerInv'
  <2>1. OrphanInv' BY <1>1, <1>3, StreamOrphanStep
  <2>2. CASE DeleteAllStreamListeners(q) BY <1>1, <2>1, <2>2, DeleteAllIndexStep
  <2>3. CASE ~DeleteAllStreamListeners(q) BY <1>1, <1>3, <2>1, <2>3, StreamLeavesListeners, IndexFrame
  <2> QED BY <2>2, <2>3
<1>4. ASSUME NEW q \in Requests, ListenerRequest(q) PROVE OrphanInv' /\ ListenerInv'
  BY <1>1, <1>4, ListenerOrphanStep, ListenerIndexStep
<1>5. CASE Restart BY <1>1, <1>2, <1>5, RestartOrphanStep, RestartIndexStep DEF ManagementInv
<1>6. CASE UNCHANGED vars
  <2>1. UNCHANGED <<streams, listeners, rt, eventStreams, listenersByName, listenersAdminMux, req, known, created>>
    BY <1>6 DEF vars, storeVars, memoryVars, history
  <2>2. ListenerInv' BY <1>1, <2>1, IndexFrame
  <2>3. StoredOK' /\ CreatesOK' /\ RuntimeNamed' BY <1>1, <2>1 DEF OrphanInv, StoredOK, StoredStreams, StoredListeners, CreatesOK, RuntimeNamed
  <2>4. HolderOK' /\ DeletesOK' /\ NoOrphanListeners'
    BY <1>1, <2>1 DEF OrphanInv, HolderOK, StoredStreams, DeletesOK, ListenersOf, NoOrphanListeners
  <2> QED BY <1>2, <2>2, <2>3, <2>4 DEF OrphanInv, ManagementInv
<1> QED BY <1>1, <1>2, <1>3, <1>4, <1>5, <1>6 DEF Next, ManagementInv

LEMMA ManagementInvariant == Spec => []ManagementInv
<1>1. Init => ManagementInv BY TypeInit, ConsistentInit DEF ManagementInv
<1> QED BY <1>1, ManagementStep, PTL DEF Spec

\* reserveListenerName and closeoutName, with the mutex held across the database
\* work: no two stored listeners ever have the same name, however requests
\* interleave, whatever writes fail and whenever the process dies.
THEOREM ListenerNamesCorrect == Spec => []ListenerNamesUnique
<1>1. ManagementInv => ListenerNamesUnique BY DEF ManagementInv, ListenerInv
<1> QED BY <1>1, ManagementInvariant, PTL

\* createOrUpdateListener, deleteAllStreamListeners, DeleteListener: whenever no
\* listener request is between its steps, the index in memory has exactly the names
\* in the store, each for the listener that has it.
THEOREM ListenerIndexCorrect == Spec => []ListenerIndexed
<1>1. ManagementInv => ListenerIndexed
  BY DEF ManagementInv, ListenerInv, IndexOK, AllIndexed, Indexed, ListenerIndexed
<1> QED BY <1>1, ManagementInvariant, PTL

\* DeleteStream unmaps the stream before it takes the mutex to delete the listeners,
\* createOrUpdateListener looks the stream up under the mutex: no listener is ever
\* stored for a stream that is not.
THEOREM ListenersHaveStreams == Spec => []NoOrphanListeners
<1>1. ManagementInv => NoOrphanListeners BY DEF ManagementInv, OrphanInv
<1> QED BY <1>1, ManagementInvariant, PTL
=============================================================================
