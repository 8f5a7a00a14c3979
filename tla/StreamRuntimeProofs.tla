------------------------ MODULE StreamRuntimeProofs ------------------------
(***************************************************************************)
(* Theorems about StreamManagement on what runs: the runtime streams and   *)
(* their listeners agree with the store, a deleted stream is gone, and     *)
(* streams have different names, while nothing has gone astray.            *)
(***************************************************************************)
EXTENDS StreamManagementProofs

(***************************************************************************)
(* The inductive invariants                                                *)
(***************************************************************************)

\* A request that creates, updates or deletes this stream, or has deleted it.
StreamKinds == {"createStream", "updateStream", "deleteStream"}
Mine(q, s) == req[q].kind \in StreamKinds /\ req[q].s = s
Works(q, s) == Mine(q, s) /\ req[q].pc # "done"

RunsAsStored(s) == rt[s].spec = streams[s] /\ rt[s].status = Status(streams[s].suspended)
Gone(s) == streams[s] = NoStream /\ rt[s].status \in {"none", "deleted"}

\* How far the one request on a stream has come, and what it has made of it.
PhaseOK(q, s) ==
    LET r == req[q]
    IN  /\ r.kind = "createStream" =>
             /\ r.pc # "add" => s \in eventStreams /\ rt[s].spec = r.spec /\ rt[s].status = "stopped"
             /\ r.pc = "start" => streams[s] = r.spec
        /\ r.kind = "updateStream" =>
             /\ s \in eventStreams /\ rt[s].status # "deleted"
             /\ r.pc \in {"reserve", "spec"} => RunsAsStored(s)
             /\ r.pc \in {"write", "run"} => rt[s].spec = r.spec
             /\ r.pc = "run" => streams[s] = r.spec
        /\ r.kind = "deleteStream" =>
             /\ ~r.held => rt[s].status \in {"none", "deleted"}
             /\ r.pc = "runtime" => streams[s] = NoStream

\* A stream that is not astray has one request at a time; without one it runs as it
\* is stored, or is gone; and one that was deleted stays so.
StreamOK(s) ==
    /\ \A p, q \in Requests: Works(p, s) /\ Works(q, s) => p = q
    /\ \A q \in Requests: Works(q, s) => PhaseOK(q, s)
    /\ (\A q \in Requests: ~Works(q, s)) => IF s \in eventStreams THEN RunsAsStored(s) ELSE Gone(s)
    /\ (\E q \in Requests: Mine(q, s) /\ req[q].pc = "done") =>
         /\ Gone(s) /\ s \in known \ eventStreams
         /\ \A q \in Requests: Works(q, s) => req[q].kind = "deleteStream"

\* The name the stream will have when its update has been written.
Target(q, s) == IF req[q].name = None THEN streams[s].name ELSE req[q].name

\* The name of a stream is indexed for it; so is, during an update, the new one.
NamedOK(s) ==
    /\ s \in eventStreams /\ streams[s] # NoStream => streamsByName[streams[s].name] = s
    /\ \A q \in Requests: Works(q, s) =>
         /\ req[q].kind = "createStream" => streamsByName[req[q].name] = s
         /\ req[q].kind = "updateStream" =>
              /\ req[q].pc = "read" => rt[s].spec.name = Target(q, s)
              /\ req[q].pc = "write" => req[q].spec.name = Target(q, s)
              /\ req[q].name # None /\ req[q].pc # "reserve" =>
                   /\ streamsByName[req[q].name] = s /\ req[q].old \in Names /\ streamsByName[req[q].old] = s
                   /\ streams[s].name = IF req[q].pc = "run" THEN req[q].name ELSE req[q].old

RunInv == \A s \in Streams \ astray: StreamOK(s)
NameInv == astray = {} => \A s \in Streams: NamedOK(s)

\* What runs of a listener is what is stored, except while it is being applied.
Applying(s, l, pcs) ==
    \E q \in Requests: listenersAdminMux = q /\ req[q].pc \in pcs /\ req[q].s = s /\ req[q].l = l
ListenersRunOK ==
    /\ \A s \in eventStreams, l \in Listeners:
         \/ rt[s].listeners[l] \in {None, IF listeners[l].stream = s THEN listeners[l].name ELSE None}
         \/ Applying(s, l, {"apply"})
    /\ trouble = MaxTrouble => \A s \in eventStreams, l \in Listeners:
         listeners[l].stream = s => rt[s].listeners[l] # None \/ Applying(s, l, {"apply", "record"})
    /\ \A q \in Requests: listenersAdminMux = q =>
         /\ req[q].kind = "createListener" /\ req[q].pc = "write" => listeners[req[q].l] = NoListener
         /\ req[q].kind # "createListener" \/ req[q].pc # "write" => listeners[req[q].l].stream = req[q].s
         /\ req[q].pc = "record" => rt[req[q].s].listeners[req[q].l] = None

(***************************************************************************)
(* Frames: a stream that a step does not touch                             *)
(***************************************************************************)

Untouched(t) ==
    /\ streams'[t] = streams[t] /\ rt'[t].spec = rt[t].spec /\ rt'[t].status = rt[t].status
    /\ t \in eventStreams' <=> t \in eventStreams
    /\ \A p \in Requests: (Mine(p, t) \/ Mine(p, t)') => req'[p] = req[p]

LEMMA RunFrame ==
    ASSUME NEW t, Untouched(t), StreamOK(t), known \subseteq known' PROVE StreamOK(t)'
<1>1. \A p \in Requests: (Mine(p, t)' <=> Mine(p, t)) /\ (Works(p, t)' <=> Works(p, t)) BY DEF Untouched, Mine, Works
<1>2. \A p \in Requests: Mine(p, t) => req'[p] = req[p] BY DEF Untouched
<1>3. \A p \in Requests: Works(p, t) => Mine(p, t) BY DEF Works
<1>4. (Gone(t)' <=> Gone(t)) /\ (RunsAsStored(t)' <=> RunsAsStored(t)) /\ (t \in eventStreams' <=> t \in eventStreams)
  BY DEF Untouched, Gone, RunsAsStored
<1>5. ASSUME NEW p \in Requests, Works(p, t), PhaseOK(p, t) PROVE PhaseOK(p, t)'
  <2>1. req'[p] = req[p] /\ rt'[t].spec = rt[t].spec /\ rt'[t].status = rt[t].status /\ streams'[t] = streams[t]
    BY <1>2, <1>3, <1>5 DEF Untouched
  <2> QED BY <1>4, <1>5, <2>1 DEF PhaseOK
<1> QED BY <1>1, <1>2, <1>3, <1>4, <1>5 DEF StreamOK

LEMMA NameFrame ==
    ASSUME Typed, NEW t \in Streams, Untouched(t), NamedOK(t), StoredOK, RequestsOK,
           \A n \in Names: streamsByName[n] = t => streamsByName'[n] = t
    PROVE  NamedOK(t)'
<1>1. \A p \in Requests: Works(p, t)' => Works(p, t) /\ req'[p] = req[p] BY DEF Untouched, Mine, Works
<1>2. streams'[t] # NoStream /\ t \in eventStreams' => streamsByName'[streams'[t].name] = t
  BY DEF Untouched, NamedOK, StoredOK
<1>3. ASSUME NEW p \in Requests, Works(p, t)', req'[p].kind = "createStream" PROVE streamsByName'[req'[p].name] = t
  BY <1>1, <1>3 DEF NamedOK, RequestsOK, RequestOK
<1>4. ASSUME NEW p \in Requests, Works(p, t)', req'[p].kind = "updateStream"
      PROVE  /\ req'[p].pc = "read" => rt'[t].spec.name = Target(p, t)'
             /\ req'[p].pc = "write" => req'[p].spec.name = Target(p, t)'
             /\ req'[p].name # None /\ req'[p].pc # "reserve" =>
                  /\ streamsByName'[req'[p].name] = t /\ req'[p].old \in Names /\ streamsByName'[req'[p].old] = t
                  /\ streams'[t].name = IF req'[p].pc = "run" THEN req'[p].name ELSE req'[p].old
  <2>1. Works(p, t) /\ req'[p] = req[p] /\ streams'[t] = streams[t] /\ rt'[t].spec = rt[t].spec /\ req[p].kind = "updateStream"
    BY <1>1, <1>4 DEF Untouched
  <2>2. Target(p, t)' = Target(p, t) BY <2>1 DEF Target
  <2>3. req[p].name \in Names \cup {None} BY DEF Typed, ManagementTypeOK, Request
  <2> QED BY <2>1, <2>2, <2>3 DEF NamedOK
<1> QED BY <1>2, <1>3, <1>4 DEF NamedOK

LEMMA RunCombine ==
    ASSUME Typed, StoredOK, RunInv, NameInv, NEW s \in Streams,
           astray \subseteq astray', known \subseteq known', \A t \in Streams \ {s}: Untouched(t),
           s \notin astray' => StreamOK(s)',
           astray' = {} => /\ NamedOK(s)'
                           /\ \A t \in Streams \ {s}, n \in Names: streamsByName[n] = t => streamsByName'[n] = t
    PROVE  RunInv' /\ NameInv'
<1>1. ASSUME NEW t \in Streams \ astray' PROVE StreamOK(t)'
  <2>1. CASE t = s BY <1>1, <2>1
  <2>2. CASE t # s
    <3>1. Untouched(t) /\ StreamOK(t) BY <1>1, <2>2 DEF RunInv
    <3> QED BY <3>1, RunFrame
  <2> QED BY <2>1, <2>2
<1>2. ASSUME astray' = {}, NEW t \in Streams PROVE NamedOK(t)'
  <2>1. CASE t = s BY <1>2, <2>1
  <2>2. CASE t # s
    <3>1. Untouched(t) /\ NamedOK(t) /\ RequestsOK BY <1>2, <2>2 DEF NameInv, Typed
    <3>2. \A n \in Names: streamsByName[n] = t => streamsByName'[n] = t BY <1>2, <2>2
    <3> QED BY <3>1, <3>2, NameFrame
  <2> QED BY <2>1, <2>2
<1> QED BY <1>1, <1>2 DEF RunInv, NameInv

\* The one request on a stream goes on, ends or starts.
LEMMA SoleGoes ==
    ASSUME NEW s, NEW q \in Requests, Others(q), StreamOK(s), Works(q, s), Works(q, s)', req'[q].kind = req[q].kind,
           known \subseteq known', PhaseOK(q, s)',
           req[q].kind = "deleteStream" => (Gone(s) => Gone(s)') /\ (s \in eventStreams' => s \in eventStreams)
    PROVE  StreamOK(s)'
<1>1. \A p \in Requests \ {q}: /\ Works(p, s)' <=> Works(p, s)
                               /\ Mine(p, s)' <=> Mine(p, s)
                               /\ req'[p] = req[p] /\ ~Works(p, s)
  BY DEF Others, StreamOK, Works, Mine
<1>2. ASSUME \E p \in Requests: Mine(p, s)' /\ req'[p].pc = "done"
      PROVE  Gone(s)' /\ s \in known' \ eventStreams' /\ req'[q].kind = "deleteStream"
  <2>1. PICK p \in Requests: Mine(p, s)' /\ req'[p].pc = "done" BY <1>2
  <2>2. p # q BY <2>1 DEF Works
  <2>3. Mine(p, s) /\ req[p].pc = "done" BY <1>1, <2>1, <2>2
  <2> QED BY <2>3 DEF StreamOK
<1>3. \A p \in Requests: Works(p, s)' => p = q BY <1>1
<1>4. ASSUME NEW p \in Requests, Works(p, s)' PROVE PhaseOK(p, s)' BY <1>3, <1>4
<1> QED BY <1>2, <1>3, <1>4 DEF StreamOK

LEMMA SoleEnds ==
    ASSUME NEW s, NEW q \in Requests, Ends(q), StreamOK(s), Works(q, s), known \subseteq known',
           IF s \in eventStreams' THEN RunsAsStored(s)' ELSE Gone(s)',
           req[q].kind = "deleteStream" => Gone(s)' /\ s \in known' \ eventStreams'
    PROVE  StreamOK(s)'
<1>1. \A p \in Requests \ {q}: /\ Works(p, s)' <=> Works(p, s)
                               /\ Mine(p, s)' <=> Mine(p, s)
                               /\ req'[p] = req[p] /\ ~Works(p, s)
  BY DEF Ends, Others, StreamOK, Works, Mine
<1>2. \A p \in Requests: ~Works(p, s)' BY <1>1 DEF Ends, Works
<1>3. ASSUME \E p \in Requests: Mine(p, s)' /\ req'[p].pc = "done" PROVE Gone(s)' /\ s \in known' \ eventStreams'
  <2>1. PICK p \in Requests: Mine(p, s)' /\ req'[p].pc = "done" BY <1>3
  <2>2. CASE p = q BY <2>1, <2>2 DEF Ends, Mine, StreamKinds, None
  <2>3. CASE p # q
    <3>1. Mine(p, s) /\ req[p].pc = "done" BY <1>1, <2>1, <2>3
    <3>2. req[q].kind = "deleteStream" BY <3>1 DEF StreamOK
    <3> QED BY <3>2
  <2> QED BY <2>2, <2>3
<1> QED BY <1>2, <1>3 DEF StreamOK

LEMMA SoleStarts ==
    ASSUME NEW s, NEW q \in Requests, Others(q), StreamOK(s), \A p \in Requests: ~Works(p, s), Works(q, s)',
           known \subseteq known', PhaseOK(q, s)', Gone(s) => Gone(s)', s \in eventStreams' => s \in eventStreams,
           req'[q].kind # "deleteStream" => \A p \in Requests: ~Mine(p, s)
    PROVE  StreamOK(s)'
<1>1. \A p \in Requests \ {q}: /\ Works(p, s)' <=> Works(p, s)
                               /\ Mine(p, s)' <=> Mine(p, s)
                               /\ req'[p] = req[p] /\ ~Works(p, s)
  BY DEF Others, Works, Mine
<1>2. ASSUME \E p \in Requests: Mine(p, s)' /\ req'[p].pc = "done"
      PROVE  Gone(s)' /\ s \in known' \ eventStreams' /\ req'[q].kind = "deleteStream"
  <2>1. PICK p \in Requests: Mine(p, s)' /\ req'[p].pc = "done" BY <1>2
  <2>2. p # q BY <2>1 DEF Works
  <2>3. Mine(p, s) /\ req[p].pc = "done" BY <1>1, <2>1, <2>2
  <2> QED BY <2>3 DEF StreamOK
<1>3. \A p \in Requests: Works(p, s)' => p = q BY <1>1
<1>4. ASSUME NEW p \in Requests, Works(p, s)' PROVE PhaseOK(p, s)' BY <1>3, <1>4
<1> QED BY <1>2, <1>3, <1>4 DEF StreamOK

LEMMA OthersUntouched ==
    ASSUME NEW s, NEW q \in Requests, Others(q), \A t \in Streams \ {s}: ~Mine(q, t) /\ ~Mine(q, t)',
           \A t \in Streams \ {s}: /\ streams'[t] = streams[t] /\ rt'[t].spec = rt[t].spec /\ rt'[t].status = rt[t].status
                                   /\ t \in eventStreams' <=> t \in eventStreams
    PROVE  \A t \in Streams \ {s}: Untouched(t)
BY DEF Others, Untouched

\* What a stream request works on.
LEMMA RequestMine ==
    ASSUME Typed, NEW q \in Requests
    PROVE  /\ req[q].kind \in StreamKinds => req[q].pc # "new"
           /\ req[q].kind \in StreamKinds /\ req[q].pc # "done" => Works(q, req[q].s) /\ Active(q)
           /\ \A t: Works(q, t) => Active(q) /\ t = req[q].s
           /\ \A t: Mine(q, t) /\ req[q].pc = "done" => req[q].kind = "deleteStream"
           /\ \A t \in Streams: Overlapping(t) = {} => \A p \in Requests: ~Works(p, t)
<1>1. \A p \in Requests: RequestOK(p) /\ req[p] \in Request BY DEF Typed, RequestsOK, ManagementTypeOK
<1>2. \A p \in Requests: req[p].kind \in StreamKinds => req[p].pc # "new" BY <1>1 DEF RequestOK, StreamKinds, None
<1>3. \A p \in Requests: req[p].kind \in StreamKinds /\ req[p].pc # "done" => Active(p) BY <1>2 DEF Active
<1>4. \A p \in Requests, t \in Streams: Overlapping(t) = {} => ~Works(p, t)
  BY <1>3 DEF Overlapping, On, Works, Mine, StreamKinds
<1>5. \A t: Mine(q, t) /\ req[q].pc = "done" => req[q].kind = "deleteStream" BY <1>1 DEF Mine, StreamKinds, RequestOK
<1> QED BY <1>2, <1>3, <1>4, <1>5 DEF Works, Mine

\* A request that goes on keeps what it was given.
Keeps(q) ==
    /\ req'[q].spec = req[q].spec /\ req'[q].name = req[q].name /\ req'[q].old = req[q].old /\ req'[q].held = req[q].held

LEMMA GotoKeeps == ASSUME Typed, NEW q \in Requests, NEW pc \in PCs, Goto(q, pc) PROVE Keeps(q)
BY DEF Typed, ManagementTypeOK, Goto, Keeps, Request

\* Every step of a stream request.
LEMMA StreamRunStep ==
    ASSUME ManagementInv, RunInv, NameInv, NEW q \in Requests, StreamRequest(q) PROVE RunInv' /\ NameInv'
<1>s. PICK s: s = req[q].s OBVIOUS
<1> USE <1>s DEF storeVars, memoryVars, history
<1>0. /\ Typed /\ req \in [Requests -> Request] /\ RequestOK(q) /\ req[q] \in Request
      /\ rt \in [Streams -> Runtime] /\ streams \in [Streams -> StreamSpec]
      /\ streamsByName \in [Names -> Streams \cup {None}]
      /\ None \notin Names \cup Streams \cup Listeners \cup Requests
      /\ known \subseteq Streams /\ eventStreams \subseteq Streams
      /\ StoredOK /\ CreatesOK /\ RuntimeNamed /\ DeletesOK
  BY ManagementAssumption DEF ManagementInv, Typed, ManagementTypeOK, RequestsOK, OrphanInv
<1>a. \A t \in Streams: Overlapping(t) = {} => \A p \in Requests: ~Works(p, t) BY <1>0, RequestMine
<1>1. CASE CreateStream(q)
  <2>1. PICK t \in Streams \ created, name \in Names:
          /\ Starts(q, "createStream", "add", t) /\ req'[q].name = name
          /\ streamsByName[name] = None /\ streamsByName' = [streamsByName EXCEPT ![name] = t]
          /\ UNCHANGED <<streams, rt, eventStreams, known, astray>>
    <3>1. PICK t \in Streams \ created, name \in Names, suspended \in BOOLEAN:
            /\ ReserveNew(t, name)
            /\ Start(q, [NewRequest EXCEPT !.kind = "createStream", !.pc = "add", !.s = t, !.name = name,
                                           !.spec = [name |-> name, suspended |-> suspended]])
            /\ UNCHANGED <<storeVars, rt, eventStreams, listenersByName, listenersAdminMux, up, trouble, known, astray>>
      BY <1>1 DEF CreateStream
    <3> DEFINE r == [NewRequest EXCEPT !.kind = "createStream", !.pc = "add", !.s = t, !.name = name,
                                       !.spec = [name |-> name, suspended |-> suspended]]
    <3>2. r \in Request /\ r.kind = "createStream" /\ r.pc = "add" /\ r.s = t /\ r.name = name
      BY NewRequestType DEF Request, StreamSpec
    <3>3. Start(q, r) BY <3>1
    <3> HIDE DEF r
    <3>4. Starts(q, "createStream", "add", t) BY <1>0, <3>2, <3>3, RequestMoves
    <3>5. req'[q].name = name BY <1>0, <3>2, <3>3 DEF Start
    <3> QED BY <3>1, <3>4, <3>5 DEF ReserveNew
  <2>2. \A u \in Streams \ {t}: ~Mine(q, u) /\ ~Mine(q, u)' BY <1>0, <2>1, RequestMine DEF Starts, Mine
  <2>3. \A u \in Streams \ {t}: Untouched(u) BY <2>1, <2>2, OthersUntouched DEF Starts
  <2>4. \A p \in Requests: ~Works(p, t)
    <3> SUFFICES ASSUME NEW p \in Requests, Works(p, t) PROVE FALSE OBVIOUS
    <3>1. t \in created BY <1>0 DEF Works, Mine, StreamKinds, CreatesOK, RuntimeNamed, DeletesOK, StoredOK
    <3> QED BY <2>1, <3>1
  <2>5. ASSUME t \notin astray' PROVE StreamOK(t)'
    <3>1. StreamOK(t) BY <2>1, <2>5 DEF RunInv
    <3>2. \A p \in Requests: ~Mine(p, t) BY <1>0, <2>1, <2>4, <3>1 DEF StreamOK, Works, StoredOK
    <3>3. Works(q, t)' BY <2>1 DEF Starts, Works, Mine, StreamKinds
    <3>4. PhaseOK(q, t)' BY <2>1 DEF Starts, PhaseOK
    <3>5. Gone(t) => Gone(t)' BY <2>1 DEF Gone
    <3> QED BY <2>1, <2>4, <3>1, <3>2, <3>3, <3>4, <3>5, SoleStarts DEF Starts
  <2>6. ASSUME astray' = {}
        PROVE  NamedOK(t)' /\ \A u \in Streams \ {t}, n \in Names: streamsByName[n] = u => streamsByName'[n] = u
    <3>1. \A u \in Streams \ {t}, n \in Names: streamsByName[n] = u => streamsByName'[n] = u BY <1>0, <2>1
    <3>2. streams'[t] = NoStream BY <1>0, <2>1 DEF StoredOK, StoredStreams
    <3>3. \A p \in Requests: Works(p, t)' => p = q BY <2>1, <2>4 DEF Starts, Others, Works, Mine
    <3>4. req'[q].kind = "createStream" /\ streamsByName'[req'[q].name] = t BY <1>0, <2>1 DEF Starts
    <3> QED BY <3>1, <3>2, <3>3, <3>4 DEF NamedOK
  <2> QED BY <1>0, <2>1, <2>3, <2>5, <2>6, RunCombine
<1>2. CASE AddRuntimeStream(q)
  <2>1. /\ Goes(q, "createStream", "add", "write") /\ s \in Streams
        /\ rt'[s].spec = req[q].spec /\ rt'[s].status = "stopped" /\ \A t \in Streams \ {s}: rt'[t] = rt[t]
        /\ eventStreams' = eventStreams \cup {s} /\ req'[q].spec = req[q].spec /\ req'[q].name = req[q].name
        /\ UNCHANGED <<streams, known, streamsByName, astray>>
    <3>1. Goes(q, "createStream", "add", "write") /\ req'[q].spec = req[q].spec
      BY <1>0, <1>2, RequestMoves DEF AddRuntimeStream, At, PCs
    <3>2. s \in Streams BY <1>0, <1>2 DEF AddRuntimeStream, At, RequestOK
    <3>3. req'[q].name = req[q].name BY <1>0, <1>2 DEF AddRuntimeStream, Goto, Request
    <3> QED BY <1>0, <1>2, <3>1, <3>2, <3>3 DEF AddRuntimeStream, NoRuntime, Runtime
  <2>2. \A u \in Streams \ {s}: ~Mine(q, u) /\ ~Mine(q, u)' BY <2>1 DEF Goes, Mine
  <2>3. \A u \in Streams \ {s}: Untouched(u) BY <2>1, <2>2, OthersUntouched DEF Goes
  <2>4. Works(q, s) /\ Works(q, s)' BY <2>1 DEF Goes, Works, Mine, StreamKinds
  <2>5. ASSUME s \notin astray' PROVE StreamOK(s)'
    <3>1. StreamOK(s) BY <2>1, <2>5 DEF RunInv
    <3>2. PhaseOK(q, s)' BY <2>1 DEF Goes, PhaseOK
    <3> QED BY <2>1, <2>4, <3>1, <3>2, SoleGoes DEF Goes
  <2>6. ASSUME astray' = {} PROVE NamedOK(s)'
    <3>0. s \notin known BY <1>0, <2>1 DEF Goes, CreatesOK
    <3>1. streams'[s] = NoStream BY <1>0, <2>1, <3>0 DEF StoredOK, StoredStreams
    <3>2. StreamOK(s) /\ NamedOK(s) BY <2>1, <2>6 DEF RunInv, NameInv
    <3>3. \A p \in Requests: Works(p, s)' => p = q BY <2>1, <2>4, <3>2 DEF StreamOK, Goes, Others, Works, Mine
    <3>4. req'[q].kind = "createStream" /\ streamsByName'[req'[q].name] = s BY <2>1, <2>4, <3>2 DEF Goes, NamedOK
    <3> QED BY <3>1, <3>3, <3>4 DEF NamedOK
  <2> QED BY <1>0, <2>1, <2>3, <2>5, <2>6, RunCombine
<1>3. CASE WriteNewStream(q)
  <2>1. /\ req[q].kind = "createStream" /\ req[q].pc = "write" /\ s \in Streams /\ UNCHANGED astray
        /\ req[q].name \in Names /\ req[q].spec.name = req[q].name
    BY <1>0, <1>3 DEF WriteNewStream, At, RequestOK
  <2>2. \/ /\ Goes(q, "createStream", "write", "start") /\ Keeps(q)
           /\ streams' = [streams EXCEPT ![s] = req[q].spec] /\ known' = known \cup {s}
           /\ UNCHANGED <<rt, eventStreams, streamsByName>>
        \/ /\ Ends(q) /\ eventStreams' = eventStreams \ {s} /\ rt' = [rt EXCEPT ![s].status = "deleted"]
           /\ streamsByName' = Without(streamsByName, req[q].name) /\ UNCHANGED <<streams, known>>
    <3>1. PICK ok \in Outcomes:
            IF ok THEN /\ streams' = [streams EXCEPT ![s] = req[q].spec] /\ known' = known \cup {s}
                       /\ Goto(q, "start") /\ UNCHANGED <<rt, eventStreams, streamsByName>>
            ELSE /\ eventStreams' = eventStreams \ {s} /\ rt' = [rt EXCEPT ![s].status = "deleted"]
                 /\ streamsByName' = Without(streamsByName, req[q].name)
                 /\ Done(q, FALSE) /\ UNCHANGED <<streams, known>>
      BY <1>3 DEF WriteNewStream
    <3>2. CASE ok BY <1>0, <2>1, <3>1, <3>2, RequestMoves, GotoKeeps DEF PCs
    <3>3. CASE ~ok BY <1>0, <3>1, <3>3, RequestMoves
    <3> QED BY <3>2, <3>3
  <2>3. \A u \in Streams \ {s}: ~Mine(q, u) /\ ~Mine(q, u)' BY <2>1, <2>2 DEF Goes, Ends, Mine, StreamKinds, None
  <2>4. /\ rt'[s].spec = rt[s].spec
        /\ \A u \in Streams \ {s}: /\ rt'[u] = rt[u] /\ streams'[u] = streams[u]
                                   /\ u \in eventStreams' <=> u \in eventStreams
    BY <1>0, <2>1, <2>2 DEF Runtime
  <2>5. Others(q) /\ known \subseteq known' BY <2>2 DEF Goes, Ends
  <2>6. \A u \in Streams \ {s}: Untouched(u) BY <2>3, <2>4, <2>5, OthersUntouched
  <2>7. Works(q, s) BY <2>1 DEF Works, Mine, StreamKinds
  <2>8. streams[s] = NoStream BY <1>0, <2>1 DEF CreatesOK, StoredOK, StoredStreams
  <2>9. ASSUME s \notin astray' PROVE StreamOK(s)'
    <3>1. StreamOK(s) /\ PhaseOK(q, s) BY <2>1, <2>7, <2>9 DEF RunInv, StreamOK
    <3>2. CASE Goes(q, "createStream", "write", "start") /\ Keeps(q) /\ streams' = [streams EXCEPT ![s] = req[q].spec]
               /\ UNCHANGED <<rt, eventStreams, streamsByName>>
      <4>1. PhaseOK(q, s)' BY <1>0, <2>1, <3>1, <3>2 DEF Goes, Keeps, PhaseOK
      <4>2. Works(q, s)' BY <3>2 DEF Goes, Works, Mine, StreamKinds
      <4> QED BY <2>5, <2>7, <3>1, <3>2, <4>1, <4>2, SoleGoes DEF Goes
    <3>3. CASE Ends(q) /\ eventStreams' = eventStreams \ {s} /\ rt' = [rt EXCEPT ![s].status = "deleted"] /\ UNCHANGED streams
      <4>1. Gone(s)' BY <1>0, <2>1, <2>8, <3>3 DEF Gone, Runtime
      <4> QED BY <2>1, <2>5, <2>7, <3>1, <3>3, <4>1, SoleEnds
    <3> QED BY <2>2, <3>2, <3>3
  <2>10. ASSUME astray' = {}
         PROVE  NamedOK(s)' /\ \A u \in Streams \ {s}, n \in Names: streamsByName[n] = u => streamsByName'[n] = u
    <3>1. StreamOK(s) /\ NamedOK(s) BY <2>1, <2>10 DEF RunInv, NameInv
    <3>2. \A p \in Requests: Works(p, s)' => p = q BY <2>5, <2>7, <3>1 DEF StreamOK, Others, Works, Mine
    <3>3. streamsByName[req[q].name] = s BY <2>1, <2>7, <3>1 DEF NamedOK
    <3>4. CASE Goes(q, "createStream", "write", "start") /\ Keeps(q) /\ streams' = [streams EXCEPT ![s] = req[q].spec]
               /\ UNCHANGED <<rt, eventStreams, streamsByName>>
      <4>1. streamsByName'[streams'[s].name] = s BY <1>0, <2>1, <3>3, <3>4
      <4>2. req'[q].kind = "createStream" /\ streamsByName'[req'[q].name] = s BY <3>3, <3>4 DEF Goes, Keeps
      <4> QED BY <3>2, <3>4, <4>1, <4>2 DEF NamedOK
    <3>5. CASE Ends(q) /\ eventStreams' = eventStreams \ {s} /\ streamsByName' = Without(streamsByName, req[q].name)
      <4>1. ~Works(q, s)' /\ s \notin eventStreams' BY <3>5 DEF Ends, Works
      <4>2. \A u \in Streams \ {s}, n \in Names: streamsByName[n] = u => streamsByName'[n] = u
        BY <1>0, <3>3, <3>5 DEF Without
      <4> QED BY <3>2, <4>1, <4>2 DEF NamedOK
    <3> QED BY <2>2, <3>4, <3>5
  <2> QED BY <1>0, <2>1, <2>5, <2>6, <2>9, <2>10, RunCombine
<1>4. CASE StartNewStream(q)
  <2>1. /\ Ends(q) /\ req[q].kind = "createStream" /\ req[q].pc = "start" /\ s \in Streams
        /\ rt'[s].spec = rt[s].spec /\ (rt[s].status # "deleted" => rt'[s].status = Status(req[q].spec.suspended))
        /\ \A u \in Streams \ {s}: rt'[u] = rt[u]
        /\ UNCHANGED <<streams, eventStreams, streamsByName, known, astray>>
    <3>1. Ends(q) BY <1>0, <1>4, RequestMoves DEF StartNewStream
    <3>2. s \in Streams /\ req[q].kind = "createStream" /\ req[q].pc = "start" BY <1>0, <1>4 DEF StartNewStream, At, RequestOK
    <3> QED BY <1>0, <1>4, <3>1, <3>2 DEF StartNewStream, Ran, Runtime
  <2>3. \A u \in Streams \ {s}: ~Mine(q, u) /\ ~Mine(q, u)' BY <2>1 DEF Ends, Mine, StreamKinds, None
  <2>4. \A u \in Streams \ {s}: Untouched(u) BY <2>1, <2>3, OthersUntouched DEF Ends
  <2>7. Works(q, s) BY <2>1 DEF Works, Mine, StreamKinds
  <2>9. ASSUME s \notin astray' PROVE StreamOK(s)'
    <3>1. StreamOK(s) /\ PhaseOK(q, s) BY <2>1, <2>7, <2>9 DEF RunInv, StreamOK
    <3>2. s \in eventStreams' /\ RunsAsStored(s)' BY <2>1, <3>1 DEF PhaseOK, RunsAsStored
    <3> QED BY <2>1, <2>7, <3>1, <3>2, SoleEnds
  <2>10. ASSUME astray' = {} PROVE NamedOK(s)'
    <3>1. StreamOK(s) /\ NamedOK(s) BY <2>1, <2>10 DEF RunInv, NameInv
    <3>2. \A p \in Requests: ~Works(p, s)' BY <2>1, <2>7, <3>1 DEF StreamOK, Ends, Others, Works, Mine
    <3> QED BY <2>1, <3>1, <3>2 DEF NamedOK
  <2> QED BY <1>0, <2>1, <2>4, <2>9, <2>10, RunCombine
<1>5. CASE UpdateStream(q)
  <2>1. PICK t \in known:
          /\ \/ Ends(q) /\ req[q].pc = "new"
             \/ Starts(q, "updateStream", "reserve", t) /\ t \in eventStreams
          /\ astray' = astray \cup Overlapping(t)
          /\ UNCHANGED <<streams, rt, known, eventStreams, streamsByName>>
    <3>1. PICK t \in known, name \in Names \cup {None}, suspended \in BOOLEAN:
            /\ IF t \in eventStreams
               THEN Start(q, [NewRequest EXCEPT !.kind = "updateStream", !.pc = "reserve", !.s = t, !.name = name,
                                                !.spec = [name |-> name, suspended |-> suspended]])
               ELSE Refuse(q)
            /\ astray' = astray \cup Overlapping(t)
            /\ UNCHANGED <<storeVars, memoryVars, listenersAdminMux, up, trouble, known, created>>
      BY <1>5 DEF UpdateStream
    <3> DEFINE spec == [name |-> name, suspended |-> suspended]
               r == [NewRequest EXCEPT !.kind = "updateStream", !.pc = "reserve", !.s = t, !.name = name, !.spec = spec]
    <3>2. t \in Streams /\ spec \in StreamSpec BY <1>0 DEF StreamSpec
    <3>3. t \in eventStreams => Start(q, r) BY <3>1
    <3> HIDE DEF spec
    <3>4. r \in Request /\ r.kind = "updateStream" /\ r.pc = "reserve" /\ r.s = t BY <3>2, NewRequestType DEF Request
    <3> HIDE DEF r
    <3>5. t \in eventStreams => Starts(q, "updateStream", "reserve", t) BY <1>0, <3>3, <3>4, RequestMoves
    <3>6. t \notin eventStreams => Ends(q) /\ req[q].pc = "new" BY <1>0, <3>1, RequestMoves DEF Refuse, Start
    <3> QED BY <3>1, <3>5, <3>6
  <2>2. t \in Streams /\ ~ \E u: Mine(q, u) BY <1>0, <2>1, RequestMine DEF Starts, Mine
  <2>3. \A u \in Streams \ {t}: ~Mine(q, u) /\ ~Mine(q, u)'
    BY <1>0, <2>1, <2>2 DEF Starts, Ends, Mine, RequestOK, StreamKinds, None
  <2>4. \A u \in Streams \ {t}: Untouched(u) BY <2>1, <2>3, OthersUntouched DEF Ends, Starts
  <2>5. CASE Ends(q) /\ req[q].pc = "new"
    <3>1. ~Mine(q, t)' BY <1>0, <2>1, <2>5 DEF Ends, Mine, RequestOK, StreamKinds, None
    <3>2. Untouched(t) BY <2>1, <2>2, <2>5, <3>1 DEF Ends, Others, Untouched
    <3>3. t \notin astray' => StreamOK(t)'
      <4> SUFFICES ASSUME t \notin astray' PROVE StreamOK(t)' OBVIOUS
      <4>1. StreamOK(t) BY <2>1, <2>2 DEF RunInv
      <4> QED BY <2>1, <3>2, <4>1, RunFrame
    <3>4. astray' = {} => NamedOK(t)'
      <4> SUFFICES ASSUME astray' = {} PROVE NamedOK(t)' OBVIOUS
      <4>1. NamedOK(t) /\ RequestsOK BY <1>0, <2>1, <2>2 DEF NameInv, Typed
      <4> QED BY <1>0, <2>1, <2>2, <3>2, <4>1, NameFrame
    <3> QED BY <1>0, <2>1, <2>2, <2>4, <3>3, <3>4, RunCombine
  <2>6. CASE Starts(q, "updateStream", "reserve", t) /\ t \in eventStreams
    <3>1. Works(q, t)' BY <2>6 DEF Starts, Works, Mine, StreamKinds
    <3>2. t \notin astray' => \A p \in Requests: ~Works(p, t) BY <1>a, <2>1, <2>2 DEF Overlapping
    <3>3. ASSUME t \notin astray' PROVE StreamOK(t)'
      <4>1. StreamOK(t) BY <2>1, <2>2, <3>3 DEF RunInv
      <4>2. RunsAsStored(t) BY <2>6, <3>2, <3>3, <4>1 DEF StreamOK
      <4>3. PhaseOK(q, t)'
        <5>1. rt[t].status # "deleted" BY <4>2 DEF RunsAsStored, Status
        <5>2. RunsAsStored(t)' BY <2>1, <4>2 DEF RunsAsStored
        <5> QED BY <2>1, <2>6, <5>1, <5>2 DEF Starts, PhaseOK
      <4>4. \A p \in Requests: ~Mine(p, t) BY <2>6, <3>2, <3>3, <4>1 DEF StreamOK, Works
      <4>5. Gone(t) => Gone(t)' BY <2>1 DEF Gone
      <4> QED BY <2>1, <2>6, <3>1, <3>2, <3>3, <4>1, <4>3, <4>4, <4>5, SoleStarts DEF Starts
    <3>4. ASSUME astray' = {} PROVE NamedOK(t)'
      <4>1. NamedOK(t) BY <2>1, <2>2, <3>4 DEF NameInv
      <4>2. \A p \in Requests: Works(p, t)' => p = q BY <2>6, <3>2, <3>4 DEF Starts, Others, Works, Mine
      <4> QED BY <2>1, <2>6, <4>1, <4>2 DEF NamedOK, Starts
    <3> QED BY <1>0, <2>1, <2>2, <2>4, <3>3, <3>4, RunCombine
  <2> QED BY <2>1, <2>5, <2>6
<1>6. CASE ReserveStreamName(q)
  <2>1. /\ req[q].kind = "updateStream" /\ req[q].pc = "reserve" /\ s \in known /\ s \in Streams /\ req[q].name \in Names \cup {None}
        /\ UNCHANGED <<streams, rt, known, eventStreams, astray>>
    BY <1>0, <1>6 DEF ReserveStreamName, At, RequestOK, RuntimeNamed, Request
  <2>2. \/ Ends(q) /\ UNCHANGED streamsByName
        \/ Goes(q, "updateStream", "reserve", "spec") /\ req[q].name = None /\ req'[q].name = None /\ UNCHANGED streamsByName
        \/ /\ Goes(q, "updateStream", "reserve", "spec") /\ req[q].name \in Names /\ req'[q].name = req[q].name
           /\ req'[q].old = (IF s \in eventStreams THEN rt[s].spec.name ELSE None)
           /\ streamsByName[req[q].name] \in {None, s} /\ streamsByName' = [streamsByName EXCEPT ![req[q].name] = s]
    <3>1. CASE req[q].name = None
      <4>1. Goto(q, "spec") /\ UNCHANGED streamsByName BY <1>6, <3>1 DEF ReserveStreamName
      <4> QED BY <1>0, <2>1, <3>1, <4>1, RequestMoves, GotoKeeps DEF PCs, Keeps
    <3>2. CASE req[q].name # None /\ streamsByName[req[q].name] \notin {None, s}
      <4>1. Done(q, FALSE) /\ UNCHANGED streamsByName BY <1>6, <3>2 DEF ReserveStreamName
      <4> QED BY <1>0, <4>1, RequestMoves
    <3>3. CASE req[q].name # None /\ streamsByName[req[q].name] \in {None, s}
      <4>1. /\ streamsByName' = [streamsByName EXCEPT ![req[q].name] = s]
            /\ req' = [req EXCEPT ![q].pc = "spec", ![q].had = streamsByName[req[q].name] # None,
                                  ![q].old = IF s \in eventStreams THEN rt[s].spec.name ELSE None]
        BY <1>6, <3>3 DEF ReserveStreamName
      <4>2. Goes(q, "updateStream", "reserve", "spec") BY <1>0, <2>1, <4>1 DEF Goes, Others, Request
      <4>3. req'[q].name = req[q].name BY <1>0, <4>1 DEF Request
      <4>4. req'[q].old = IF s \in eventStreams THEN rt[s].spec.name ELSE None BY <1>0, <4>1 DEF Request
      <4> QED BY <2>1, <3>3, <4>1, <4>2, <4>3, <4>4
    <3> QED BY <3>1, <3>2, <3>3
  <2>3. \A u \in Streams \ {s}: ~Mine(q, u) /\ ~Mine(q, u)' BY <2>1, <2>2 DEF Ends, Goes, Mine, StreamKinds, None
  <2>4. \A u \in Streams \ {s}: Untouched(u) BY <2>1, <2>2, <2>3, OthersUntouched DEF Ends, Goes
  <2>7. Works(q, s) BY <2>1 DEF Works, Mine, StreamKinds
  <2>8. RunsAsStored(s)' <=> RunsAsStored(s) BY <2>1 DEF RunsAsStored
  <2>9. ASSUME s \notin astray' PROVE StreamOK(s)'
    <3>1. StreamOK(s) /\ PhaseOK(q, s) BY <2>1, <2>7, <2>9 DEF RunInv, StreamOK
    <3>2. s \in eventStreams /\ RunsAsStored(s) /\ rt[s].status # "deleted" BY <2>1, <3>1 DEF PhaseOK
    <3>3. CASE Ends(q) BY <2>1, <2>7, <2>8, <3>1, <3>2, <3>3, SoleEnds
    <3>4. CASE Goes(q, "updateStream", "reserve", "spec")
      <4>1. PhaseOK(q, s)' BY <2>1, <2>8, <3>2, <3>4 DEF Goes, PhaseOK
      <4>2. Works(q, s)' BY <3>4 DEF Goes, Works, Mine, StreamKinds
      <4> QED BY <2>1, <2>7, <3>1, <3>4, <4>1, <4>2, SoleGoes DEF Goes
    <3> QED BY <2>2, <3>3, <3>4
  <2>10. ASSUME astray' = {}
         PROVE  NamedOK(s)' /\ \A u \in Streams \ {s}, n \in Names: streamsByName[n] = u => streamsByName'[n] = u
    <3>1. StreamOK(s) /\ NamedOK(s) BY <2>1, <2>10 DEF RunInv, NameInv
    <3>2. PhaseOK(q, s) BY <2>7, <3>1 DEF StreamOK
    <3>3. \A p \in Requests: Works(p, s)' => p = q BY <2>2, <2>7, <3>1 DEF StreamOK, Ends, Goes, Others, Works, Mine
    <3>4. s \in eventStreams /\ rt[s].spec.name = streams[s].name /\ streams[s].name \in Names /\ streams[s] # NoStream
      BY <1>0, <2>1, <3>2 DEF PhaseOK, RunsAsStored, StoredOK, StoredStreams
    <3>5. streamsByName[streams[s].name] = s BY <3>1, <3>4 DEF NamedOK
    <3>6. CASE Ends(q) /\ UNCHANGED streamsByName
      <4>1. ~Works(q, s)' BY <3>6 DEF Ends, Works
      <4> QED BY <2>1, <3>3, <3>5, <3>6, <4>1 DEF NamedOK
    <3>7. CASE Goes(q, "updateStream", "reserve", "spec") /\ req[q].name = None /\ req'[q].name = None /\ UNCHANGED streamsByName
      BY <2>1, <3>3, <3>5, <3>7 DEF NamedOK, Goes
    <3>8. CASE /\ Goes(q, "updateStream", "reserve", "spec") /\ req[q].name \in Names /\ req'[q].name = req[q].name
               /\ req'[q].old = (IF s \in eventStreams THEN rt[s].spec.name ELSE None)
               /\ streamsByName[req[q].name] \in {None, s} /\ streamsByName' = [streamsByName EXCEPT ![req[q].name] = s]
      <4>1. \A u \in Streams \ {s}, n \in Names: streamsByName[n] = u => streamsByName'[n] = u BY <1>0, <3>8
      <4>2. streamsByName'[req'[q].name] = s /\ streamsByName'[streams[s].name] = s BY <1>0, <3>4, <3>5, <3>8
      <4>3. req'[q].old = streams[s].name BY <3>4, <3>8
      <4>4. req'[q].kind = "updateStream" /\ req'[q].pc = "spec" BY <3>8 DEF Goes
      <4> QED BY <2>1, <3>3, <3>4, <4>1, <4>2, <4>3, <4>4 DEF NamedOK
    <3> QED BY <2>2, <3>6, <3>7, <3>8
  <2> QED BY <1>0, <2>1, <2>4, <2>9, <2>10, RunCombine
<1>7. CASE UpdateSpec(q)
  <2>1. /\ Goes(q, "updateStream", "spec", "read") /\ Keeps(q) /\ s \in Streams
        /\ rt'[s].spec.name = (IF req[q].name = None THEN rt[s].spec.name ELSE req[q].name)
        /\ rt'[s].status = rt[s].status /\ \A u \in Streams \ {s}: rt'[u] = rt[u]
        /\ UNCHANGED <<streams, known, eventStreams, streamsByName, astray>>
    <3>1. Goes(q, "updateStream", "spec", "read") /\ Keeps(q) BY <1>0, <1>7, RequestMoves, GotoKeeps DEF UpdateSpec, At, PCs
    <3>2. s \in Streams BY <1>0, <1>7 DEF UpdateSpec, At, RequestOK
    <3> QED BY <1>0, <1>7, <3>1, <3>2 DEF UpdateSpec, Runtime
  <2>3. \A u \in Streams \ {s}: ~Mine(q, u) /\ ~Mine(q, u)' BY <2>1 DEF Goes, Mine
  <2>4. \A u \in Streams \ {s}: Untouched(u) BY <2>1, <2>3, OthersUntouched DEF Goes
  <2>7. Works(q, s) /\ Works(q, s)' BY <2>1 DEF Goes, Works, Mine, StreamKinds
  <2>9. ASSUME s \notin astray' PROVE StreamOK(s)'
    <3>1. StreamOK(s) /\ PhaseOK(q, s) BY <2>1, <2>7, <2>9 DEF RunInv, StreamOK
    <3>2. PhaseOK(q, s)' BY <2>1, <3>1 DEF Goes, PhaseOK
    <3> QED BY <2>1, <2>7, <3>1, <3>2, SoleGoes DEF Goes
  <2>10. ASSUME astray' = {} PROVE NamedOK(s)'
    <3>1. StreamOK(s) /\ NamedOK(s) BY <2>1, <2>10 DEF RunInv, NameInv
    <3>2. PhaseOK(q, s) BY <2>7, <3>1 DEF StreamOK
    <3>3. \A p \in Requests: Works(p, s)' => p = q BY <2>1, <2>7, <3>1 DEF StreamOK, Goes, Others, Works, Mine
    <3>4. rt[s].spec.name = streams[s].name BY <2>1, <3>2 DEF Goes, PhaseOK, RunsAsStored
    <3>5. req'[q].pc = "read" /\ req'[q].kind = "updateStream" /\ rt'[s].spec.name = Target(q, s)'
      BY <2>1, <3>4 DEF Goes, Keeps, Target
    <3>6. req[q].name # None => /\ streamsByName[req[q].name] = s /\ req[q].old \in Names /\ streamsByName[req[q].old] = s
                                /\ streams[s].name = req[q].old
      BY <2>1, <2>7, <3>1 DEF NamedOK, Goes
    <3> QED BY <2>1, <3>1, <3>3, <3>5, <3>6, ZenonT(60) DEF NamedOK, Keeps
  <2> QED BY <1>0, <2>1, <2>4, <2>9, <2>10, RunCombine
<1>8. CASE ReadSpec(q)
  <2>1. /\ Goes(q, "updateStream", "read", "write") /\ s \in Streams /\ req'[q].spec = rt[s].spec
        /\ req'[q].name = req[q].name /\ req'[q].old = req[q].old
        /\ UNCHANGED <<streams, rt, known, eventStreams, streamsByName, astray>>
    <3>1. s \in Streams BY <1>0, <1>8 DEF ReadSpec, At, RequestOK
    <3> QED BY <1>0, <1>8, <3>1 DEF ReadSpec, At, Goes, Others, Request
  <2>3. \A u \in Streams \ {s}: ~Mine(q, u) /\ ~Mine(q, u)' BY <2>1 DEF Goes, Mine
  <2>4. \A u \in Streams \ {s}: Untouched(u) BY <2>1, <2>3, OthersUntouched DEF Goes
  <2>7. Works(q, s) /\ Works(q, s)' BY <2>1 DEF Goes, Works, Mine, StreamKinds
  <2>9. ASSUME s \notin astray' PROVE StreamOK(s)'
    <3>1. StreamOK(s) /\ PhaseOK(q, s) BY <2>1, <2>7, <2>9 DEF RunInv, StreamOK
    <3>2. PhaseOK(q, s)' BY <2>1, <3>1 DEF Goes, PhaseOK
    <3> QED BY <2>1, <2>7, <3>1, <3>2, SoleGoes DEF Goes
  <2>10. ASSUME astray' = {} PROVE NamedOK(s)'
    <3>1. StreamOK(s) /\ NamedOK(s) BY <2>1, <2>10 DEF RunInv, NameInv
    <3>3. \A p \in Requests: Works(p, s)' => p = q BY <2>1, <2>7, <3>1 DEF StreamOK, Goes, Others, Works, Mine
    <3>4. rt[s].spec.name = Target(q, s) BY <2>1, <2>7, <3>1 DEF Goes, NamedOK
    <3>5. req'[q].pc = "write" /\ req'[q].kind = "updateStream" /\ req'[q].spec.name = Target(q, s)'
      BY <2>1, <3>4 DEF Goes, Target
    <3>6. req[q].name # None => /\ streamsByName[req[q].name] = s /\ req[q].old \in Names /\ streamsByName[req[q].old] = s
                                /\ streams[s].name = req[q].old
      BY <2>1, <2>7, <3>1 DEF NamedOK, Goes
    <3> QED BY <2>1, <3>1, <3>3, <3>5, <3>6 DEF NamedOK
  <2> QED BY <1>0, <2>1, <2>4, <2>9, <2>10, RunCombine
<1>9. CASE WriteStream(q)
  <2>1. /\ req[q].kind = "updateStream" /\ req[q].pc = "write" /\ s \in Streams /\ UNCHANGED <<rt, known, eventStreams>>
    BY <1>0, <1>9 DEF WriteStream, At, RequestOK
  <2>2. \/ Ends(q) /\ UNCHANGED streams /\ astray' = astray \cup {s}
        \/ /\ Goes(q, "updateStream", "write", "run") /\ Keeps(q) /\ UNCHANGED <<astray, streamsByName>>
           /\ streams' = [streams EXCEPT ![s] = req[q].spec]
    <3>2. PICK ok \in Outcomes:
            IF ok THEN streams' = [streams EXCEPT ![s] = req[q].spec] /\ Goto(q, "run") /\ UNCHANGED <<streamsByName, astray>>
            ELSE Done(q, FALSE) /\ UNCHANGED streams /\ astray' = astray \cup {s}
      BY <1>9 DEF WriteStream
    <3>4. CASE ok BY <1>0, <2>1, <3>2, <3>4, RequestMoves, GotoKeeps DEF PCs
    <3>5. CASE ~ok BY <1>0, <3>2, <3>5, RequestMoves
    <3> QED BY <3>4, <3>5
  <2>3. \A u \in Streams \ {s}: ~Mine(q, u) /\ ~Mine(q, u)' BY <2>1, <2>2 DEF Ends, Goes, Mine, StreamKinds, None
  <2>4. \A u \in Streams \ {s}: streams'[u] = streams[u] BY <1>0, <2>2
  <2>5. Others(q) BY <2>2 DEF Ends, Goes
  <2>6. \A u \in Streams \ {s}: Untouched(u) BY <2>1, <2>3, <2>4, <2>5, OthersUntouched
  <2>7. Works(q, s) BY <2>1 DEF Works, Mine, StreamKinds
  <2>8. CASE astray' = astray \cup {s} BY <1>0, <2>1, <2>6, <2>8, RunCombine
  <2>9. CASE /\ Goes(q, "updateStream", "write", "run") /\ Keeps(q) /\ UNCHANGED <<astray, streamsByName>>
             /\ streams' = [streams EXCEPT ![s] = req[q].spec]
    <3>0. streams'[s] = req[q].spec /\ Works(q, s)' BY <1>0, <2>1, <2>9 DEF Goes, Works, Mine, StreamKinds
    <3>1. ASSUME s \notin astray' PROVE StreamOK(s)'
      <4>1. StreamOK(s) /\ PhaseOK(q, s) BY <2>1, <2>7, <2>9, <3>1 DEF RunInv, StreamOK
      <4>2. PhaseOK(q, s)' BY <2>1, <2>9, <3>0, <4>1 DEF Goes, Keeps, PhaseOK
      <4> QED BY <2>1, <2>7, <2>9, <3>0, <4>1, <4>2, SoleGoes DEF Goes
    <3>2. ASSUME astray' = {} PROVE NamedOK(s)'
      <4>1. StreamOK(s) /\ NamedOK(s) BY <2>1, <2>9, <3>2 DEF RunInv, NameInv
      <4>2. PhaseOK(q, s) BY <2>7, <4>1 DEF StreamOK
      <4>3. \A p \in Requests: Works(p, s)' => p = q BY <2>5, <2>7, <4>1 DEF StreamOK, Others, Works, Mine
      <4>4. req[q].spec.name = Target(q, s) BY <2>1, <2>7, <4>1 DEF NamedOK
      <4>5. req[q].name # None => /\ streamsByName[req[q].name] = s /\ req[q].old \in Names /\ streamsByName[req[q].old] = s
                                  /\ streams[s].name = req[q].old
        BY <2>1, <2>7, <4>1 DEF NamedOK
      <4>6. s \in eventStreams /\ streams[s] # NoStream BY <1>0, <2>1, <4>2 DEF PhaseOK, RuntimeNamed, StoredOK, StoredStreams
      <4>7. streamsByName[streams'[s].name] = s BY <3>0, <4>1, <4>4, <4>5, <4>6 DEF NamedOK, Target
      <4>8. req'[q].pc = "run" /\ req'[q].kind = "updateStream" BY <2>9 DEF Goes
      <4>9. req[q].name # None => streams'[s].name = req[q].name BY <3>0, <4>4 DEF Target
      <4> QED BY <2>9, <4>3, <4>5, <4>7, <4>8, <4>9 DEF NamedOK, Keeps
    <3> QED BY <1>0, <2>1, <2>6, <2>9, <3>1, <3>2, RunCombine
  <2> QED BY <2>2, <2>8, <2>9
<1>10. CASE RunUpdated(q)
  <2>1. /\ Ends(q) /\ req[q].kind = "updateStream" /\ req[q].pc = "run" /\ s \in Streams
        /\ rt'[s].spec = rt[s].spec /\ (rt[s].status # "deleted" => rt'[s].status = Status(req[q].spec.suspended))
        /\ \A u \in Streams \ {s}: rt'[u] = rt[u]
        /\ streamsByName' = (IF req[q].name # None /\ req[q].old # req[q].name
                             THEN Without(streamsByName, req[q].old) ELSE streamsByName)
        /\ UNCHANGED <<streams, eventStreams, known, astray>>
    <3>1. Ends(q) BY <1>0, <1>10, RequestMoves DEF RunUpdated
    <3>2. s \in Streams /\ req[q].kind = "updateStream" /\ req[q].pc = "run" BY <1>0, <1>10 DEF RunUpdated, At, RequestOK
    <3> QED BY <1>0, <1>10, <3>1, <3>2 DEF RunUpdated, Ran, Runtime
  <2>3. \A u \in Streams \ {s}: ~Mine(q, u) /\ ~Mine(q, u)' BY <2>1 DEF Ends, Mine, StreamKinds, None
  <2>4. \A u \in Streams \ {s}: Untouched(u) BY <2>1, <2>3, OthersUntouched DEF Ends
  <2>7. Works(q, s) BY <2>1 DEF Works, Mine, StreamKinds
  <2>9. ASSUME s \notin astray' PROVE StreamOK(s)'
    <3>1. StreamOK(s) /\ PhaseOK(q, s) BY <2>1, <2>7, <2>9 DEF RunInv, StreamOK
    <3>2. s \in eventStreams' /\ RunsAsStored(s)' BY <2>1, <3>1 DEF PhaseOK, RunsAsStored
    <3> QED BY <2>1, <2>7, <3>1, <3>2, SoleEnds
  <2>10. ASSUME astray' = {}
         PROVE  NamedOK(s)' /\ \A u \in Streams \ {s}, n \in Names: streamsByName[n] = u => streamsByName'[n] = u
    <3>1. StreamOK(s) /\ NamedOK(s) BY <2>1, <2>10 DEF RunInv, NameInv
    <3>2. \A p \in Requests: ~Works(p, s)' BY <2>1, <2>7, <3>1 DEF StreamOK, Ends, Others, Works, Mine
    <3>3. req[q].name # None => streamsByName[req[q].old] = s /\ streams[s].name = req[q].name /\ streamsByName[req[q].name] = s
      BY <2>1, <2>7, <3>1 DEF NamedOK
    <3>4. req[q].name \in Names \cup {None} BY <1>0 DEF Request
    <3>5. \A u \in Streams \ {s}, n \in Names: streamsByName[n] = u => streamsByName'[n] = u
      BY <1>0, <2>1, <3>3 DEF Without
    <3>6. s \in eventStreams' /\ streams'[s] # NoStream => streamsByName'[streams'[s].name] = s
      BY <2>1, <3>1, <3>3, <3>4 DEF NamedOK, Without
    <3> QED BY <3>2, <3>5, <3>6 DEF NamedOK
  <2> QED BY <1>0, <2>1, <2>4, <2>9, <2>10, RunCombine
<1>11. CASE DeleteStream(q)
  <2>1. PICK t \in known:
          /\ Starts(q, "deleteStream", "listeners", t) /\ req'[q].held = (t \in eventStreams)
          /\ eventStreams' = eventStreams \ {t} /\ astray' = astray \cup Overlapping(t)
          /\ streamsByName' = (IF t \in eventStreams THEN Without(streamsByName, rt[t].spec.name) ELSE streamsByName)
          /\ UNCHANGED <<streams, rt, known>>
    <3>1. PICK t \in known:
            /\ Start(q, [NewRequest EXCEPT !.kind = "deleteStream", !.pc = "listeners", !.s = t, !.held = t \in eventStreams])
            /\ eventStreams' = Unmapped(t) /\ astray' = astray \cup Overlapping(t)
            /\ streamsByName' = IF t \in eventStreams THEN Without(streamsByName, rt[t].spec.name) ELSE streamsByName
            /\ UNCHANGED <<storeVars, rt, listenersByName, listenersAdminMux, up, trouble, known, created>>
      BY <1>11 DEF DeleteStream
    <3> DEFINE h == t \in eventStreams
               r == [NewRequest EXCEPT !.kind = "deleteStream", !.pc = "listeners", !.s = t, !.held = h]
    <3>2. h \in BOOLEAN /\ Start(q, r) BY <3>1
    <3>a. h = (t \in eventStreams) OBVIOUS
    <3> HIDE DEF h
    <3>3. r \in Request /\ r.kind = "deleteStream" /\ r.pc = "listeners" /\ r.s = t /\ r.held = h
      BY <1>0, <3>2, NewRequestType, ZenonT(60) DEF Request
    <3> HIDE DEF r
    <3>4. Starts(q, "deleteStream", "listeners", t) BY <1>0, <3>2, <3>3, RequestMoves
    <3>5. req'[q].held = h BY <1>0, <3>2, <3>3 DEF Start
    <3> QED BY <3>1, <3>4, <3>5, <3>a DEF Unmapped
  <2>2. t \in Streams /\ ~ \E u: Mine(q, u) BY <1>0, <2>1, RequestMine DEF Starts, Mine
  <2>3. \A u \in Streams \ {t}: ~Mine(q, u) /\ ~Mine(q, u)' BY <2>1, <2>2 DEF Starts, Mine
  <2>4. \A u \in Streams \ {t}: Untouched(u) BY <2>1, <2>3, OthersUntouched DEF Starts
  <2>5. Works(q, t)' BY <2>1 DEF Starts, Works, Mine, StreamKinds
  <2>6. t \notin astray' => \A p \in Requests: ~Works(p, t) BY <1>a, <2>1, <2>2 DEF Overlapping
  <2>7. ASSUME t \notin astray' PROVE StreamOK(t)'
    <3>1. StreamOK(t) BY <2>1, <2>2, <2>7 DEF RunInv
    <3>2. t \notin eventStreams => Gone(t) BY <2>6, <2>7, <3>1 DEF StreamOK
    <3>3. PhaseOK(q, t)' BY <2>1, <3>2 DEF Starts, PhaseOK, Gone
    <3>4. Gone(t) => Gone(t)' BY <2>1 DEF Gone
    <3> QED BY <2>1, <2>5, <2>6, <2>7, <3>1, <3>3, <3>4, SoleStarts DEF Starts
  <2>8. ASSUME astray' = {}
        PROVE  NamedOK(t)' /\ \A u \in Streams \ {t}, n \in Names: streamsByName[n] = u => streamsByName'[n] = u
    <3>1. StreamOK(t) /\ NamedOK(t) BY <2>1, <2>2, <2>8 DEF RunInv, NameInv
    <3>2. \A p \in Requests: Works(p, t)' => p = q BY <2>1, <2>6, <2>8 DEF Starts, Others, Works, Mine
    <3>3. NamedOK(t)' BY <2>1, <3>2 DEF NamedOK, Starts
    <3>4. t \in eventStreams => streamsByName[rt[t].spec.name] = t
      BY <1>0, <2>1, <2>6, <2>8, <3>1 DEF StreamOK, NamedOK, RunsAsStored, StoredOK, StoredStreams
    <3>5. \A u \in Streams \ {t}, n \in Names: streamsByName[n] = u => streamsByName'[n] = u BY <2>1, <3>4 DEF Without
    <3> QED BY <3>3, <3>5
  <2> QED BY <1>0, <2>1, <2>2, <2>4, <2>7, <2>8, RunCombine
<1>12. CASE DeleteAllStreamListeners(q)
  <2>1. /\ req[q].kind = "deleteStream" /\ req[q].pc = "listeners" /\ s \in Streams
        /\ UNCHANGED <<streams, rt, known, eventStreams, streamsByName>>
    BY <1>0, <1>12 DEF DeleteAllStreamListeners, At, RequestOK
  <2>2. \/ Ends(q) /\ astray' = astray \cup {s}
        \/ Goes(q, "deleteStream", "listeners", "record") /\ Keeps(q) /\ UNCHANGED astray
    <3>1. PICK ok \in Outcomes: /\ astray' = IF ok THEN astray ELSE astray \cup {s}
                                /\ IF ok THEN Goto(q, "record") ELSE Done(q, FALSE)
      BY <1>12 DEF DeleteAllStreamListeners
    <3>4. CASE ok BY <1>0, <2>1, <3>1, <3>4, RequestMoves, GotoKeeps DEF PCs
    <3>5. CASE ~ok BY <1>0, <3>1, <3>5, RequestMoves
    <3> QED BY <3>4, <3>5
  <2>3. \A u \in Streams \ {s}: ~Mine(q, u) /\ ~Mine(q, u)' BY <2>1, <2>2 DEF Ends, Goes, Mine, StreamKinds, None
  <2>5. Others(q) BY <2>2 DEF Ends, Goes
  <2>6. \A u \in Streams \ {s}: Untouched(u) BY <2>1, <2>3, <2>5, OthersUntouched
  <2>7. Works(q, s) BY <2>1 DEF Works, Mine, StreamKinds
  <2>8. CASE astray' = astray \cup {s} BY <1>0, <2>1, <2>6, <2>8, RunCombine
  <2>9. CASE Goes(q, "deleteStream", "listeners", "record") /\ Keeps(q) /\ UNCHANGED astray
    <3>0. Works(q, s)' BY <2>9 DEF Goes, Works, Mine, StreamKinds
    <3>1. ASSUME s \notin astray' PROVE StreamOK(s)'
      <4>1. StreamOK(s) /\ PhaseOK(q, s) BY <2>1, <2>7, <2>9, <3>1 DEF RunInv, StreamOK
      <4>2. PhaseOK(q, s)' BY <2>1, <2>9, <4>1 DEF Goes, Keeps, PhaseOK
      <4>3. Gone(s) => Gone(s)' BY <2>1 DEF Gone
      <4> QED BY <2>1, <2>7, <2>9, <3>0, <4>1, <4>2, <4>3, SoleGoes DEF Goes
    <3>2. ASSUME astray' = {} PROVE NamedOK(s)'
      <4>1. StreamOK(s) /\ NamedOK(s) BY <2>1, <2>9, <3>2 DEF RunInv, NameInv
      <4>2. \A p \in Requests: Works(p, s)' => p = q BY <2>5, <2>7, <4>1 DEF StreamOK, Others, Works, Mine
      <4> QED BY <2>1, <2>9, <4>1, <4>2 DEF NamedOK, Goes
    <3> QED BY <1>0, <2>1, <2>6, <2>9, <3>1, <3>2, RunCombine
  <2> QED BY <2>2, <2>8, <2>9
<1>13. CASE DeleteStreamRecord(q)
  <2>1. /\ req[q].kind = "deleteStream" /\ req[q].pc = "record" /\ s \in Streams /\ s \notin eventStreams
        /\ UNCHANGED <<rt, known, eventStreams, streamsByName>>
    BY <1>0, <1>13 DEF DeleteStreamRecord, At, RequestOK, DeletesOK
  <2>2. \/ Ends(q) /\ astray' = astray \cup {s} /\ UNCHANGED streams
        \/ /\ Goes(q, "deleteStream", "record", "runtime") /\ Keeps(q) /\ UNCHANGED astray
           /\ streams' = [streams EXCEPT ![s] = NoStream]
    <3>1. PICK ok \in Outcomes: /\ streams' = IF ok THEN [streams EXCEPT ![s] = NoStream] ELSE streams
                                /\ astray' = IF ok THEN astray ELSE astray \cup {s}
                                /\ IF ok THEN Goto(q, "runtime") ELSE Done(q, FALSE)
      BY <1>13 DEF DeleteStreamRecord
    <3>4. CASE ok BY <1>0, <2>1, <3>1, <3>4, RequestMoves, GotoKeeps DEF PCs
    <3>5. CASE ~ok BY <1>0, <3>1, <3>5, RequestMoves
    <3> QED BY <3>4, <3>5
  <2>3. \A u \in Streams \ {s}: ~Mine(q, u) /\ ~Mine(q, u)' BY <2>1, <2>2 DEF Ends, Goes, Mine, StreamKinds, None
  <2>4. \A u \in Streams \ {s}: streams'[u] = streams[u] BY <1>0, <2>2
  <2>5. Others(q) BY <2>2 DEF Ends, Goes
  <2>6. \A u \in Streams \ {s}: Untouched(u) BY <2>1, <2>3, <2>4, <2>5, OthersUntouched
  <2>7. Works(q, s) BY <2>1 DEF Works, Mine, StreamKinds
  <2>8. CASE astray' = astray \cup {s} BY <1>0, <2>1, <2>6, <2>8, RunCombine
  <2>9. CASE Goes(q, "deleteStream", "record", "runtime") /\ Keeps(q) /\ UNCHANGED astray /\ streams' = [streams EXCEPT ![s] = NoStream]
    <3>0. Works(q, s)' /\ streams'[s] = NoStream BY <1>0, <2>1, <2>9 DEF Goes, Works, Mine, StreamKinds
    <3>1. ASSUME s \notin astray' PROVE StreamOK(s)'
      <4>1. StreamOK(s) /\ PhaseOK(q, s) BY <2>1, <2>7, <2>9, <3>1 DEF RunInv, StreamOK
      <4>2. PhaseOK(q, s)' BY <2>1, <2>9, <3>0, <4>1 DEF Goes, Keeps, PhaseOK
      <4>3. Gone(s) => Gone(s)' BY <2>1, <3>0 DEF Gone
      <4> QED BY <2>1, <2>7, <2>9, <3>0, <4>1, <4>2, <4>3, SoleGoes DEF Goes
    <3>2. ASSUME astray' = {} PROVE NamedOK(s)'
      <4>1. StreamOK(s) /\ NamedOK(s) BY <2>1, <2>9, <3>2 DEF RunInv, NameInv
      <4>2. \A p \in Requests: Works(p, s)' => p = q BY <2>5, <2>7, <4>1 DEF StreamOK, Others, Works, Mine
      <4> QED BY <2>1, <2>9, <4>2 DEF NamedOK, Goes
    <3> QED BY <1>0, <2>1, <2>6, <2>9, <3>1, <3>2, RunCombine
  <2> QED BY <2>2, <2>8, <2>9
<1>14. CASE DeleteRuntime(q)
  <2>1. /\ Ends(q) /\ req[q].kind = "deleteStream" /\ req[q].pc = "runtime" /\ s \in known /\ s \notin eventStreams /\ s \in Streams
        /\ rt'[s].status = (IF req[q].held THEN "deleted" ELSE rt[s].status) /\ \A u \in Streams \ {s}: rt'[u] = rt[u]
        /\ UNCHANGED <<streams, eventStreams, streamsByName, known, astray>>
    <3>1. Ends(q) BY <1>0, <1>14, RequestMoves DEF DeleteRuntime
    <3>2. /\ s \in Streams /\ req[q].kind = "deleteStream" /\ req[q].pc = "runtime" /\ s \in known /\ s \notin eventStreams
      BY <1>0, <1>14 DEF DeleteRuntime, At, RequestOK, DeletesOK
    <3> QED BY <1>0, <1>14, <3>1, <3>2 DEF DeleteRuntime, Runtime
  <2>3. \A u \in Streams \ {s}: ~Mine(q, u) /\ ~Mine(q, u)' BY <2>1 DEF Ends, Mine, StreamKinds, None
  <2>4. \A u \in Streams \ {s}: Untouched(u) BY <2>1, <2>3, OthersUntouched DEF Ends
  <2>7. Works(q, s) BY <2>1 DEF Works, Mine, StreamKinds
  <2>9. ASSUME s \notin astray' PROVE StreamOK(s)'
    <3>1. StreamOK(s) /\ PhaseOK(q, s) BY <2>1, <2>7, <2>9 DEF RunInv, StreamOK
    <3>2. Gone(s)' BY <2>1, <3>1 DEF PhaseOK, Gone
    <3> QED BY <2>1, <2>7, <3>1, <3>2, SoleEnds
  <2>10. ASSUME astray' = {} PROVE NamedOK(s)'
    <3>1. StreamOK(s) BY <2>1, <2>10 DEF RunInv
    <3>2. \A p \in Requests: ~Works(p, s)' BY <2>1, <2>7, <3>1 DEF StreamOK, Ends, Others, Works, Mine
    <3> QED BY <2>1, <3>2 DEF NamedOK
  <2> QED BY <1>0, <2>1, <2>4, <2>9, <2>10, RunCombine
<1> QED BY <1>1, <1>2, <1>3, <1>4, <1>5, <1>6, <1>7, <1>8, <1>9, <1>10, <1>11, <1>12, <1>13, <1>14 DEF StreamRequest

\* A restart: what is stored runs, and a request that was cut off has left its
\* stream astray.
LEMMA RestartRunStep ==
    ASSUME ManagementInv, RunInv, NameInv, Restart PROVE RunInv' /\ NameInv'
<1>0. /\ Typed /\ req \in [Requests -> Request] /\ streams \in [Streams -> StreamSpec] /\ StoredOK
      /\ eventStreams' = StoredStreams /\ rt' = RestoredRuntime /\ streamsByName' = RestoredStreamNames
      /\ UNCHANGED <<streams, listeners, known>>
      /\ req' = [q \in Requests |-> IF Active(q) THEN [NewRequest EXCEPT !.pc = "done"] ELSE req[q]]
      /\ astray' = astray \cup UNION {Overlapping(s): s \in Streams}
  BY DEF ManagementInv, Typed, ManagementTypeOK, OrphanInv, Restart, storeVars
<1>1. ASSUME NEW q \in Requests, NEW t PROVE ~Works(q, t)' /\ (Mine(q, t)' => Mine(q, t) /\ req'[q] = req[q])
  <2>1. CASE Active(q) BY <1>0, <2>1 DEF NewRequest, Works, Mine, StreamKinds, None
  <2>2. CASE ~Active(q)
    <3>1. req'[q] = req[q] /\ ~Works(q, t) BY <1>0, <2>2, RequestMine
    <3> QED BY <3>1 DEF Works, Mine
  <2> QED BY <2>1, <2>2
<1>2. ASSUME NEW t \in Streams \ astray' PROVE t \notin astray /\ \A p \in Requests: ~Works(p, t)
  <2>1. Overlapping(t) \subseteq astray' /\ t \notin astray BY <1>0, <1>2
  <2>2. Overlapping(t) = {} BY <1>2, <2>1 DEF Overlapping
  <2> QED BY <1>0, <1>2, <2>1, <2>2, RequestMine
<1>3. ASSUME NEW t \in Streams PROVE IF t \in eventStreams' THEN RunsAsStored(t)' ELSE Gone(t)'
  <2>1. CASE t \in StoredStreams BY <1>0, <2>1 DEF RestoredRuntime, RunsAsStored
  <2>2. CASE t \notin StoredStreams BY <1>0, <2>2 DEF RestoredRuntime, NoRuntime, Gone, StoredStreams
  <2> QED BY <1>0, <2>1, <2>2
<1>4. ASSUME NEW t \in Streams \ astray' PROVE StreamOK(t)'
  <2>1. StreamOK(t) BY <1>2 DEF RunInv
  <2>2. ASSUME \E q \in Requests: Mine(q, t)' /\ req'[q].pc = "done" PROVE Gone(t)' /\ t \in known' \ eventStreams'
    <3>1. \E q \in Requests: Mine(q, t) /\ req[q].pc = "done" BY <1>1, <2>2
    <3>2. Gone(t) /\ t \in known BY <2>1, <3>1 DEF StreamOK
    <3>3. t \notin eventStreams' BY <1>0, <3>2 DEF Gone, StoredStreams
    <3> QED BY <1>0, <1>3, <3>2, <3>3
  <2> QED BY <1>1, <1>3, <2>2 DEF StreamOK
<1>5. ASSUME astray' = {}, NEW t \in Streams PROVE NamedOK(t)'
  <2>1. \A u \in Streams: NamedOK(u) /\ StreamOK(u) /\ \A p \in Requests: ~Works(p, u) BY <1>0, <1>2, <1>5 DEF NameInv, RunInv
  <2>2. \A u \in StoredStreams: u \in eventStreams BY <2>1 DEF StreamOK, Gone, StoredStreams
  <2>3. \A u \in StoredStreams: u \in Streams /\ streams[u].name \in Names /\ streamsByName[streams[u].name] = u
    BY <1>0, <2>1, <2>2 DEF NamedOK, StoredOK, StoredStreams
  <2>4. \A u, v \in StoredStreams: streams[u].name = streams[v].name => u = v BY <2>3
  <2>5. ASSUME t \in StoredStreams PROVE streamsByName'[streams'[t].name] = t
    <3> DEFINE n == streams[t].name
               c == CHOOSE u \in StoredStreams: streams[u].name = n
    <3>1. c \in StoredStreams /\ streams[c].name = n BY <2>5
    <3>2. RestoredStreamNames[n] = c BY <2>3, <2>5 DEF RestoredStreamNames
    <3> HIDE DEF c
    <3> QED BY <1>0, <2>4, <2>5, <3>1, <3>2
  <2> QED BY <1>0, <1>1, <2>5 DEF NamedOK, StoredStreams
<1> QED BY <1>4, <1>5 DEF RunInv, NameInv

(***************************************************************************)
(* Listener requests: they leave the streams, and what runs of a listener  *)
(* is what is stored                                                       *)
(***************************************************************************)

LEMMA ListenerRunFrame ==
    ASSUME Typed, StoredOK, RunInv, NameInv, NEW q \in Requests, Others(q),
           UNCHANGED <<streams, eventStreams, streamsByName, known, astray>>,
           \A t \in Streams: rt'[t].spec = rt[t].spec /\ rt'[t].status = rt[t].status,
           \A t \in Streams: ~Mine(q, t) /\ ~Mine(q, t)'
    PROVE  RunInv' /\ NameInv'
<1>1. \A t \in Streams: Untouched(t) BY DEF Untouched, Others
<1>2. ASSUME NEW t \in Streams \ astray' PROVE StreamOK(t)' BY <1>1, RunFrame DEF RunInv
<1>3. ASSUME astray' = {}, NEW t \in Streams PROVE NamedOK(t)'
  <2>1. NamedOK(t) /\ Untouched(t) /\ RequestsOK BY <1>1, <1>3 DEF NameInv, Typed
  <2> QED BY <2>1, NameFrame
<1> QED BY <1>2, <1>3 DEF RunInv, NameInv

\* A failing write leaves less trouble than there was at first.
LEMMA CountDown ==
    ASSUME ManagementTypeOK, NEW ok \in Outcomes, Count(ok) PROVE trouble' = MaxTrouble => trouble = MaxTrouble /\ ok
BY ManagementAssumption DEF ManagementTypeOK, Count, Outcomes

\* With nobody between the steps of a listener request, what runs is what is stored.
LEMMA NobodyApplies ==
    ASSUME listenersAdminMux = None, None \notin Requests
    PROVE  \A s, l, pcs: ~Applying(s, l, pcs)
BY DEF Applying

LEMMA ListenerRunStep ==
    ASSUME ManagementInv, RunInv, NameInv, ListenersRunOK, NEW q \in Requests, ListenerRequest(q)
    PROVE  RunInv' /\ NameInv' /\ ListenersRunOK'
<1>s. PICK s, l: s = req[q].s /\ l = req[q].l OBVIOUS
<1> USE <1>s DEF storeVars, memoryVars, history
<1>0. /\ Typed /\ ManagementTypeOK /\ req \in [Requests -> Request] /\ RequestOK(q) /\ req[q] \in Request
      /\ rt \in [Streams -> Runtime]
      /\ listeners \in [Listeners -> [stream: Streams \cup {None}, name: Names \cup {None}]]
      /\ None \notin Names \cup Streams \cup Listeners \cup Requests
      /\ known \subseteq Streams /\ eventStreams \subseteq Streams
      /\ \A p \in Requests: listenersAdminMux = p <=> Active(p) /\ req[p].kind \in ListenerKinds
      /\ StoredOK /\ HolderOK /\ NoOrphanListeners /\ IndexOK
  BY ManagementAssumption DEF ManagementInv, Typed, ManagementTypeOK, RequestsOK, OrphanInv, ListenerInv
<1>a. ASSUME NEW kind \in {"createListener", "updateListener"}, NEW t \in Streams, NEW m \in Listeners, NEW name \in Names,
             NEW old \in Names \cup {None}, listenersAdminMux = None, ReserveListenerName(q, kind, t, m, name, old)
      PROVE  /\ req[q].pc = "new"
             /\ \/ Ends(q) /\ listenersAdminMux' = None
                \/ Starts(q, kind, "write", t) /\ req'[q].l = m /\ listenersAdminMux' = q
  <2> DEFINE h == listenersByName[name] # None
             r == [NewRequest EXCEPT !.kind = kind, !.pc = "write", !.s = t, !.l = m, !.name = name, !.old = old, !.had = h]
  <2>1. \/ Refuse(q) /\ UNCHANGED listenersAdminMux
        \/ Start(q, r) /\ listenersAdminMux' = q
    BY <1>a DEF ReserveListenerName, Lock
  <2>2. h \in BOOLEAN OBVIOUS
  <2> HIDE DEF h
  <2>3. r \in Request /\ r.kind = kind /\ r.pc = "write" /\ r.s = t /\ r.l = m BY <2>2, NewRequestType, ZenonT(60) DEF Request
  <2> HIDE DEF r
  <2>4. Start(q, r) => req'[q] = r BY <1>0 DEF Start
  <2>5. req[q].pc = "new" BY <2>1 DEF Start, Refuse
  <2> QED BY <1>0, <1>a, <2>1, <2>3, <2>4, <2>5, RequestMoves
<1>b. req[q].pc = "new" \/ req[q].kind \in ListenerKinds => \A t \in Streams: ~Mine(q, t)
  BY <1>0, RequestMine DEF Mine, StreamKinds, ListenerKinds
<1>c. ASSUME req[q].kind \in ListenerKinds, Ends(q) PROVE \A t \in Streams: ~Mine(q, t)'
  BY <1>c DEF Ends, Mine, StreamKinds, ListenerKinds, None
<1>d. ASSUME req[q].pc = "new", Ends(q) PROVE \A t \in Streams: ~Mine(q, t)'
  BY <1>0, <1>d DEF Ends, Mine, StreamKinds, RequestOK, None
<1>e. ASSUME NEW kind \in ListenerKinds, req'[q].kind = kind PROVE \A t \in Streams: ~Mine(q, t)'
  BY <1>e DEF Mine, StreamKinds, ListenerKinds
<1>1. CASE CreateListener(q)
  <2>1. /\ listenersAdminMux = None /\ req[q].pc = "new"
        /\ UNCHANGED <<streams, listeners, rt, eventStreams, streamsByName, trouble, known, astray>>
        /\ \/ Ends(q) /\ listenersAdminMux' = None
           \/ \E t \in Streams, m \in Listeners \ created:
                Starts(q, "createListener", "write", t) /\ req'[q].l = m /\ listenersAdminMux' = q
    BY <1>0, <1>1, <1>a DEF CreateListener
  <2>2. Others(q) /\ \A t \in Streams: ~Mine(q, t) /\ ~Mine(q, t)' BY <1>b, <1>d, <1>e, <2>1 DEF Ends, Starts, ListenerKinds
  <2>3. RunInv' /\ NameInv' BY <1>0, <2>1, <2>2, ListenerRunFrame
  <2>4. \A t, m, pcs: ~Applying(t, m, pcs) BY <1>0, <2>1, NobodyApplies
  <2>5. \A p \in Requests: listenersAdminMux' = p => p = q BY <1>0, <2>1
  <2>6. listenersAdminMux' = q =>
          req'[q].kind = "createListener" /\ req'[q].pc = "write" /\ listeners'[req'[q].l] = NoListener
    BY <1>0, <2>1 DEF StoredOK, StoredListeners, Starts
  <2>7. ListenersRunOK' BY <2>1, <2>4, <2>5, <2>6 DEF ListenersRunOK
  <2> QED BY <2>3, <2>7
<1>2. CASE UpdateListener(q)
  <2>1. /\ listenersAdminMux = None /\ req[q].pc = "new"
        /\ UNCHANGED <<streams, listeners, rt, eventStreams, streamsByName, trouble, known, astray>>
        /\ \/ Ends(q) /\ listenersAdminMux' = None
           \/ \E m \in Listeners:
                Starts(q, "updateListener", "write", listeners[m].stream) /\ req'[q].l = m /\ listenersAdminMux' = q
    <3>1. PICK m \in Listeners, name \in Names \cup {None}:
            /\ listenersAdminMux = None
            /\ listeners[m].stream # None
            /\ ReserveListenerName(q, "updateListener", listeners[m].stream, m, MergedName(listeners[m].stream, m, name), listeners[m].name)
            /\ UNCHANGED <<storeVars, rt, eventStreams, streamsByName, up, trouble, history>>
      BY <1>2 DEF UpdateListener
    <3>2. listeners[m].stream \in Streams /\ listeners[m].name \in Names \cup {None} BY <1>0, <3>1
    <3>3. MergedName(listeners[m].stream, m, name) \in Names BY <1>0, <3>2, ManagementAssumption DEF MergedName, Runtime
    <3> QED BY <3>1, <3>2, <3>3, <1>a
  <2>2. Others(q) /\ \A t \in Streams: ~Mine(q, t) /\ ~Mine(q, t)' BY <1>b, <1>d, <1>e, <2>1 DEF Ends, Starts, ListenerKinds
  <2>3. RunInv' /\ NameInv' BY <1>0, <2>1, <2>2, ListenerRunFrame
  <2>4. \A t, m, pcs: ~Applying(t, m, pcs) BY <1>0, <2>1, NobodyApplies
  <2>5. \A p \in Requests: listenersAdminMux' = p => p = q BY <1>0, <2>1
  <2>6. listenersAdminMux' = q =>
          req'[q].kind = "updateListener" /\ req'[q].pc = "write" /\ listeners'[req'[q].l].stream = req'[q].s
    BY <1>0, <2>1 DEF Starts
  <2>7. ListenersRunOK' BY <2>1, <2>4, <2>5, <2>6 DEF ListenersRunOK
  <2> QED BY <2>3, <2>7
<1>3. CASE WriteListener(q)
  <2>1. /\ listenersAdminMux = q /\ s \in Streams /\ l \in Listeners /\ req[q].name \in Names
        /\ req[q].pc = "write" /\ req[q].kind \in {"createListener", "updateListener"}
    BY <1>0, <1>3 DEF WriteListener, At, Active, RequestOK, ListenerKinds
  <2>2. /\ UNCHANGED <<streams, rt, eventStreams, streamsByName, known, astray>>
        /\ trouble' = MaxTrouble => trouble = MaxTrouble
        /\ \/ Ends(q) /\ listenersAdminMux' = None /\ UNCHANGED listeners
           \/ /\ Goes(q, req[q].kind, "write", "apply") /\ UNCHANGED listenersAdminMux
              /\ listeners' = [listeners EXCEPT ![l] = [stream |-> s, name |-> req[q].name]]
    <3>2. PICK ok \in Outcomes, refused \in BOOLEAN:
            /\ Count(ok)
            /\ IF ok /\ ~refused
               THEN /\ listeners' = [listeners EXCEPT ![l] = [stream |-> s, name |-> req[q].name]]
                    /\ Goto(q, "apply")
                    /\ UNCHANGED <<listenersByName, listenersAdminMux>>
               ELSE /\ listenersAdminMux' = None
                    /\ Done(q, FALSE)
                    /\ UNCHANGED listeners
      BY <1>3 DEF WriteListener
    <3>3. UNCHANGED <<streams, rt, eventStreams, streamsByName, known, astray>> BY <1>3 DEF WriteListener
    <3>4. trouble' = MaxTrouble => trouble = MaxTrouble BY <1>0, <3>2, CountDown
    <3>5. CASE ok /\ ~refused BY <1>0, <2>1, <3>2, <3>3, <3>4, <3>5, RequestMoves DEF PCs
    <3>6. CASE ~(ok /\ ~refused) BY <1>0, <2>1, <3>2, <3>3, <3>4, <3>6, RequestMoves
    <3> QED BY <3>5, <3>6
  <2>3. Others(q) /\ \A t \in Streams: ~Mine(q, t) /\ ~Mine(q, t)'
    BY <1>b, <1>c, <1>e, <2>1, <2>2 DEF Ends, Goes, ListenerKinds
  <2>4. RunInv' /\ NameInv' BY <1>0, <2>2, <2>3, ListenerRunFrame
  <2>5. \A t, m: ~Applying(t, m, {"apply"}) /\ ~Applying(t, m, {"apply", "record"}) BY <2>1 DEF Applying
  <2>6. CASE listenersAdminMux' = None /\ UNCHANGED listeners
    BY <1>0, <2>2, <2>4, <2>5, <2>6 DEF ListenersRunOK
  <2>7. CASE /\ Goes(q, req[q].kind, "write", "apply") /\ UNCHANGED listenersAdminMux
             /\ listeners' = [listeners EXCEPT ![l] = [stream |-> s, name |-> req[q].name]]
    <3>1. Applying(s, l, {"apply"})' /\ Applying(s, l, {"apply", "record"})' BY <2>1, <2>7 DEF Goes, Applying
    <3>2. \A m \in Listeners \ {l}: listeners'[m] = listeners[m] BY <1>0, <2>7
    <3>3. listeners'[l].stream = s BY <1>0, <2>1, <2>7
    <3>4. listeners[l].stream \in {None, s} BY <2>1 DEF ListenersRunOK, NoListener
    <3>5. \A t \in eventStreams: t # s => rt[t].listeners[l] = None
      BY <1>0, <2>1, <2>5, <3>4 DEF ListenersRunOK
    <3>6. ASSUME NEW t \in eventStreams', NEW m \in Listeners
          PROVE  /\ \/ rt'[t].listeners[m] \in {None, IF listeners'[m].stream = t THEN listeners'[m].name ELSE None}
                    \/ Applying(t, m, {"apply"})'
                 /\ trouble' = MaxTrouble /\ listeners'[m].stream = t =>
                      rt'[t].listeners[m] # None \/ Applying(t, m, {"apply", "record"})'
      <4>1. CASE m = l /\ t = s BY <3>1, <4>1
      <4>2. CASE m = l /\ t # s BY <2>2, <3>3, <3>5, <3>6, <4>2
      <4>3. CASE m # l BY <2>2, <2>5, <3>2, <3>6, <4>3 DEF ListenersRunOK
      <4> QED BY <4>1, <4>2, <4>3
    <3>7. ASSUME NEW p \in Requests, listenersAdminMux' = p
          PROVE  p = q /\ req'[p].pc = "apply" /\ listeners'[req'[p].l].stream = req'[p].s
      BY <2>1, <2>7, <3>3, <3>7 DEF Goes
    <3>8. ListenersRunOK' BY <3>6, <3>7 DEF ListenersRunOK
    <3> QED BY <2>4, <3>8
  <2> QED BY <2>2, <2>6, <2>7
<1>4. CASE ApplyListener(q)
  <2>1. /\ listenersAdminMux = q /\ s \in Streams /\ l \in Listeners /\ req[q].name \in Names
        /\ req[q].pc = "apply" /\ req[q].kind \in ListenerKinds
    BY <1>0, <1>4 DEF ApplyListener, At, Active, RequestOK, ListenerKinds
  <2>2. /\ UNCHANGED <<streams, listeners, eventStreams, streamsByName, known, astray, trouble>>
        /\ Ends(q) /\ listenersAdminMux' = None
        /\ rt' = [rt EXCEPT ![s].listeners[l] = req[q].name]
    <3>1. Ends(q) BY <1>0, <1>4, RequestMoves DEF ApplyListener
    <3> QED BY <1>4, <3>1 DEF ApplyListener
  <2>3. Others(q) /\ \A t \in Streams: ~Mine(q, t) /\ ~Mine(q, t)' BY <1>b, <1>c, <2>1, <2>2 DEF Ends
  <2>4. /\ \A t \in Streams: rt'[t].spec = rt[t].spec /\ rt'[t].status = rt[t].status
        /\ rt'[s].listeners[l] = req[q].name
        /\ \A t \in Streams, m \in Listeners: t # s \/ m # l => rt'[t].listeners[m] = rt[t].listeners[m]
    BY <1>0, <2>1, <2>2 DEF Runtime
  <2>5. RunInv' /\ NameInv' BY <1>0, <2>2, <2>3, <2>4, ListenerRunFrame
  <2>6. listeners[l].name = req[q].name /\ listeners[l].stream = s
    BY <1>0, <2>1 DEF IndexOK, WrittenOK, ListenersRunOK
  <2>7. \A t, m, pcs: Applying(t, m, pcs) => t = s /\ m = l BY <2>1 DEF Applying
  <2>8. ASSUME NEW t \in eventStreams', NEW m \in Listeners
        PROVE  /\ rt'[t].listeners[m] \in {None, IF listeners'[m].stream = t THEN listeners'[m].name ELSE None}
               /\ trouble' = MaxTrouble /\ listeners'[m].stream = t => rt'[t].listeners[m] # None
    <3>1. CASE m = l /\ t = s BY <1>0, <2>1, <2>2, <2>4, <2>6, <3>1
    <3>2. CASE m # l \/ t # s BY <1>0, <2>2, <2>4, <2>7, <2>8, <3>2 DEF ListenersRunOK
    <3> QED BY <3>1, <3>2
  <2>9. ListenersRunOK' BY <1>0, <2>2, <2>8, ZenonT(60) DEF ListenersRunOK
  <2> QED BY <2>5, <2>9
<1>5. CASE DeleteListener(q)
  <2>1. PICK m \in Listeners:
          /\ listeners[m].stream # None /\ listenersAdminMux = None
          /\ \/ Refuse(q) /\ UNCHANGED <<rt, listenersAdminMux, trouble>>
             \/ \E ok \in Outcomes:
                  /\ Count(ok) /\ rt' = [rt EXCEPT ![listeners[m].stream].listeners[m] = None]
                  /\ IF ok THEN /\ listenersAdminMux' = q
                                /\ Start(q, [NewRequest EXCEPT !.kind = "deleteListener", !.pc = "record",
                                                               !.s = listeners[m].stream, !.l = m])
                     ELSE UNCHANGED listenersAdminMux /\ Refuse(q)
          /\ UNCHANGED <<storeVars, eventStreams, streamsByName, listenersByName, up, history>>
    BY <1>5 DEF DeleteListener, Lock
  <2>t. PICK t \in Streams: t = listeners[m].stream BY <1>0, <2>1
  <2> DEFINE r == [NewRequest EXCEPT !.kind = "deleteListener", !.pc = "record", !.s = t, !.l = m]
  <2>2. r \in Request /\ r.kind = "deleteListener" /\ r.pc = "record" /\ r.s = t /\ r.l = m BY NewRequestType DEF Request
  <2>3. \/ Refuse(q) /\ UNCHANGED <<rt, listenersAdminMux, trouble>>
        \/ \E ok \in Outcomes:
             /\ Count(ok) /\ rt' = [rt EXCEPT ![t].listeners[m] = None]
             /\ IF ok THEN listenersAdminMux' = q /\ Start(q, r)
                ELSE UNCHANGED listenersAdminMux /\ Refuse(q)
    BY <2>1, <2>t
  <2> HIDE DEF r
  <2>4. /\ UNCHANGED <<streams, listeners, eventStreams, streamsByName, known, astray>>
        /\ req[q].pc = "new"
    BY <2>1, <2>3 DEF Start, Refuse
  <2>5. Start(q, r) => req'[q] = r /\ Starts(q, "deleteListener", "record", t)
    <3>1. Start(q, r) => req'[q] = r BY <1>0 DEF Start
    <3>2. Start(q, r) => Starts(q, r.kind, r.pc, r.s) BY <1>0, <2>2, RequestMoves
    <3> QED BY <2>2, <3>1, <3>2
  <2>6. Refuse(q) => Ends(q) BY <1>0, RequestMoves
  <2>7. Others(q) /\ \A u \in Streams: ~Mine(q, u) /\ ~Mine(q, u)'
    BY <1>b, <1>d, <1>e, <2>3, <2>4, <2>5, <2>6 DEF Ends, Starts, ListenerKinds
  <2>8. \A u, k, pcs: ~Applying(u, k, pcs) BY <1>0, <2>1, NobodyApplies
  <2>9. CASE Refuse(q) /\ UNCHANGED <<rt, listenersAdminMux, trouble>>
    <3>1. RunInv' /\ NameInv' BY <1>0, <2>4, <2>7, <2>9, ListenerRunFrame
    <3>2. ListenersRunOK' BY <1>0, <2>1, <2>4, <2>8, <2>9 DEF ListenersRunOK
    <3> QED BY <3>1, <3>2
  <2>10. CASE \E ok \in Outcomes: /\ Count(ok) /\ rt' = [rt EXCEPT ![t].listeners[m] = None]
                                  /\ IF ok THEN listenersAdminMux' = q /\ Start(q, r)
                                     ELSE UNCHANGED listenersAdminMux /\ Refuse(q)
    <3>1. PICK ok \in Outcomes: /\ Count(ok) /\ rt' = [rt EXCEPT ![t].listeners[m] = None]
                                /\ IF ok THEN listenersAdminMux' = q /\ Start(q, r)
                                   ELSE UNCHANGED listenersAdminMux /\ Refuse(q)
      BY <2>10
    <3>2. trouble' = MaxTrouble => trouble = MaxTrouble /\ ok BY <1>0, <3>1, CountDown
    <3>3. /\ \A u \in Streams: rt'[u].spec = rt[u].spec /\ rt'[u].status = rt[u].status
          /\ rt'[t].listeners[m] = None
          /\ \A u \in Streams, k \in Listeners: u # t \/ k # m => rt'[u].listeners[k] = rt[u].listeners[k]
      BY <1>0, <3>1 DEF Runtime
    <3>4. RunInv' /\ NameInv' BY <1>0, <2>4, <2>7, <3>3, ListenerRunFrame
    <3>5. ok => Applying(t, m, {"apply", "record"})' BY <2>2, <2>5, <3>1 DEF Applying
    <3>6. ASSUME NEW u \in eventStreams', NEW k \in Listeners
          PROVE  /\ rt'[u].listeners[k] \in {None, IF listeners'[k].stream = u THEN listeners'[k].name ELSE None}
                 /\ trouble' = MaxTrouble /\ listeners'[k].stream = u =>
                      rt'[u].listeners[k] # None \/ Applying(u, k, {"apply", "record"})'
      <4>1. CASE u = t /\ k = m BY <3>2, <3>3, <3>5, <4>1
      <4>2. CASE u # t \/ k # m BY <1>0, <2>4, <2>8, <3>2, <3>3, <3>6, <4>2 DEF ListenersRunOK
      <4> QED BY <4>1, <4>2
    <3>7. ASSUME NEW p \in Requests, listenersAdminMux' = p
          PROVE  /\ req'[p].pc = "record" /\ listeners'[req'[p].l].stream = req'[p].s
                 /\ rt'[req'[p].s].listeners[req'[p].l] = None
      <4>1. p = q /\ Start(q, r) BY <1>0, <2>1, <3>1, <3>7
      <4> QED BY <2>2, <2>4, <2>5, <2>t, <3>3, <4>1
    <3>8. ListenersRunOK' BY <3>6, <3>7 DEF ListenersRunOK
    <3> QED BY <3>4, <3>8
  <2> QED BY <2>3, <2>9, <2>10
<1>6. CASE DeleteListenerRecord(q)
  <2>1. listenersAdminMux = q /\ s \in Streams /\ l \in Listeners /\ req[q].pc = "record" /\ req[q].kind \in ListenerKinds
    BY <1>0, <1>6 DEF DeleteListenerRecord, At, Active, RequestOK, ListenerKinds
  <2>2. PICK ok \in Outcomes:
          /\ Count(ok) /\ Done(q, ok) /\ listenersAdminMux' = None
          /\ listeners' = IF ok THEN [listeners EXCEPT ![l] = NoListener] ELSE listeners
          /\ UNCHANGED <<streams, rt, eventStreams, streamsByName, known, astray>>
    BY <1>6 DEF DeleteListenerRecord
  <2>3. ok \in BOOLEAN BY DEF Outcomes
  <2>4. Ends(q) BY <1>0, <2>2, <2>3, RequestMoves
  <2>5. Others(q) /\ \A t \in Streams: ~Mine(q, t) /\ ~Mine(q, t)' BY <1>b, <1>c, <2>1, <2>4 DEF Ends
  <2>6. RunInv' /\ NameInv' BY <1>0, <2>2, <2>5, ListenerRunFrame
  <2>7. trouble' = MaxTrouble => trouble = MaxTrouble /\ ok BY <1>0, <2>2, CountDown
  <2>8. /\ \A t, m: ~Applying(t, m, {"apply"})
        /\ \A t, m: Applying(t, m, {"apply", "record"}) => t = s /\ m = l
    BY <2>1 DEF Applying
  <2>9. listeners[l].stream = s /\ rt[s].listeners[l] = None BY <2>1 DEF ListenersRunOK
  <2>10. \A t \in eventStreams: rt[t].listeners[l] = None BY <2>1, <2>8, <2>9 DEF ListenersRunOK
  <2>11. \A m \in Listeners: listeners'[m] = IF ok /\ m = l THEN NoListener ELSE listeners[m] BY <1>0, <2>1, <2>2
  <2>12. ASSUME NEW t \in eventStreams', NEW m \in Listeners
         PROVE  /\ rt'[t].listeners[m] \in {None, IF listeners'[m].stream = t THEN listeners'[m].name ELSE None}
                /\ trouble' = MaxTrouble /\ listeners'[m].stream = t => rt'[t].listeners[m] # None
    <3>1. t \in Streams /\ t # None BY <1>0, <2>2, <2>12
    <3>2. CASE m = l BY <2>2, <2>7, <2>10, <2>11, <3>1, <3>2 DEF NoListener
    <3>3. CASE m # l BY <2>2, <2>7, <2>8, <2>11, <2>12, <3>3 DEF ListenersRunOK
    <3> QED BY <3>2, <3>3
  <2>13. ListenersRunOK' BY <1>0, <2>2, <2>12 DEF ListenersRunOK
  <2> QED BY <2>6, <2>13
<1> QED BY <1>1, <1>2, <1>3, <1>4, <1>5, <1>6 DEF ListenerRequest

\* A stream request leaves the listeners at run time, except that a new stream has
\* none.
LEMMA StreamKeepsRuntimeListeners ==
    ASSUME ManagementInv, NEW q \in Requests, StreamRequest(q)
    PROVE  /\ trouble' = MaxTrouble => trouble = MaxTrouble
           /\ \A t \in Streams:
                \/ rt'[t].listeners = rt[t].listeners /\ (t \in eventStreams' => t \in eventStreams)
                \/ t \notin known /\ \A l \in Listeners: rt'[t].listeners[l] = None
<1> USE DEF storeVars, memoryVars, history
<1>0. /\ Typed /\ ManagementTypeOK /\ RequestOK(q) /\ rt \in [Streams -> Runtime] /\ CreatesOK
  BY DEF ManagementInv, Typed, ManagementTypeOK, RequestsOK, OrphanInv
<1> DEFINE Kept == \A t \in Streams: rt'[t].listeners = rt[t].listeners /\ (t \in eventStreams' => t \in eventStreams)
<1>1. CASE CreateStream(q) BY <1>1 DEF CreateStream
<1>2. CASE AddRuntimeStream(q)
  <2>1. req[q].s \in Streams \ known BY <1>0, <1>2 DEF AddRuntimeStream, At, RequestOK, CreatesOK
  <2>2. /\ rt' = [rt EXCEPT ![req[q].s] = [NoRuntime EXCEPT !.spec = req[q].spec, !.status = "stopped"]]
        /\ eventStreams' = eventStreams \cup {req[q].s} /\ UNCHANGED trouble
    BY <1>2 DEF AddRuntimeStream
  <2>3. \A l \in Listeners: rt'[req[q].s].listeners[l] = None BY <1>0, <2>1, <2>2 DEF NoRuntime
  <2>4. \A t \in Streams \ {req[q].s}: rt'[t] = rt[t] BY <1>0, <2>2
  <2> QED BY <2>1, <2>2, <2>3, <2>4
<1>3. CASE WriteNewStream(q)
  <2>1. req[q].s \in Streams BY <1>0, <1>3 DEF WriteNewStream, At, RequestOK
  <2>2. PICK ok \in Outcomes:
          /\ Count(ok)
          /\ \/ UNCHANGED <<rt, eventStreams>>
             \/ eventStreams' = eventStreams \ {req[q].s} /\ rt' = [rt EXCEPT ![req[q].s].status = "deleted"]
    BY <1>3 DEF WriteNewStream
  <2>3. trouble' = MaxTrouble => trouble = MaxTrouble BY <1>0, <2>2, CountDown
  <2>4. Kept BY <1>0, <2>1, <2>2 DEF Runtime
  <2> QED BY <2>3, <2>4
<1>4. CASE StartNewStream(q)
  <2>1. req[q].s \in Streams BY <1>0, <1>4 DEF StartNewStream, At, RequestOK
  <2>2. Kept BY <1>0, <1>4, <2>1 DEF StartNewStream, Ran, Runtime
  <2> QED BY <1>4, <2>2 DEF StartNewStream
<1>5. CASE UpdateStream(q) BY <1>5 DEF UpdateStream
<1>6. CASE ReserveStreamName(q) BY <1>6 DEF ReserveStreamName
<1>7. CASE UpdateSpec(q)
  <2>1. req[q].s \in Streams BY <1>0, <1>7 DEF UpdateSpec, At, RequestOK
  <2>2. Kept BY <1>0, <1>7, <2>1 DEF UpdateSpec, Runtime
  <2> QED BY <1>7, <2>2 DEF UpdateSpec
<1>8. CASE ReadSpec(q) BY <1>8 DEF ReadSpec
<1>9. CASE WriteStream(q)
  <2>1. PICK ok \in Outcomes: Count(ok) BY <1>9 DEF WriteStream
  <2>2. trouble' = MaxTrouble => trouble = MaxTrouble BY <1>0, <2>1, CountDown
  <2> QED BY <1>9, <2>2 DEF WriteStream
<1>10. CASE RunUpdated(q)
  <2>1. req[q].s \in Streams BY <1>0, <1>10 DEF RunUpdated, At, RequestOK
  <2>2. Kept BY <1>0, <1>10, <2>1 DEF RunUpdated, Ran, Runtime
  <2> QED BY <1>10, <2>2 DEF RunUpdated
<1>11. CASE DeleteStream(q)
  <2>1. UNCHANGED <<rt, trouble>> /\ eventStreams' \subseteq eventStreams BY <1>11 DEF DeleteStream, Unmapped
  <2> QED BY <2>1
<1>12. CASE DeleteAllStreamListeners(q)
  <2>1. PICK ok \in Outcomes: Count(ok) BY <1>12 DEF DeleteAllStreamListeners
  <2>2. trouble' = MaxTrouble => trouble = MaxTrouble BY <1>0, <2>1, CountDown
  <2> QED BY <1>12, <2>2 DEF DeleteAllStreamListeners
<1>13. CASE DeleteStreamRecord(q)
  <2>1. PICK ok \in Outcomes: Count(ok) BY <1>13 DEF DeleteStreamRecord
  <2>2. trouble' = MaxTrouble => trouble = MaxTrouble BY <1>0, <2>1, CountDown
  <2> QED BY <1>13, <2>2 DEF DeleteStreamRecord
<1>14. CASE DeleteRuntime(q)
  <2>1. req[q].s \in Streams BY <1>0, <1>14 DEF DeleteRuntime, At, RequestOK
  <2>2. Kept BY <1>0, <1>14, <2>1 DEF DeleteRuntime, Runtime
  <2> QED BY <1>14, <2>2 DEF DeleteRuntime
<1> QED BY <1>1, <1>2, <1>3, <1>4, <1>5, <1>6, <1>7, <1>8, <1>9, <1>10, <1>11, <1>12, <1>13, <1>14 DEF StreamRequest

LEMMA StreamListenersStep ==
    ASSUME ManagementInv, ListenersRunOK, NEW q \in Requests, StreamRequest(q) PROVE ListenersRunOK'
<1>0. /\ Typed /\ ManagementTypeOK /\ StoredOK /\ HolderOK /\ NoOrphanListeners /\ DeletesOK /\ RequestOK(q)
      /\ listeners \in [Listeners -> [stream: Streams \cup {None}, name: Names \cup {None}]]
      /\ eventStreams \subseteq Streams /\ eventStreams' \subseteq Streams
      /\ None \notin Names \cup Streams \cup Listeners \cup Requests
  <2>1. ManagementTypeOK' BY StreamTypeStep DEF ManagementInv, Typed
  <2> QED BY <2>1, ManagementAssumption DEF ManagementInv, Typed, ManagementTypeOK, OrphanInv, RequestsOK
<1>1. /\ trouble' = MaxTrouble => trouble = MaxTrouble
      /\ \A t \in Streams:
           \/ rt'[t].listeners = rt[t].listeners /\ (t \in eventStreams' => t \in eventStreams)
           \/ t \notin known /\ \A l \in Listeners: rt'[t].listeners[l] = None
  BY StreamKeepsRuntimeListeners
<1>2. \A t \in Streams \ known, l \in Listeners: listeners[l].stream # t
  BY <1>0 DEF NoOrphanListeners, StoredOK, StoredStreams
<1>3. CASE ~DeleteAllStreamListeners(q)
  <2>1. /\ UNCHANGED <<listeners, listenersAdminMux>>
        /\ \A p \in Requests: listenersAdminMux = p => req'[p] = req[p]
    BY <1>0, <1>3, StreamLeavesListeners
  <2>2. \A t, l: Applying(t, l, {"apply"}) => Applying(t, l, {"apply"})' BY <2>1 DEF Applying
  <2>3. \A t, l: Applying(t, l, {"apply", "record"}) => Applying(t, l, {"apply", "record"})' BY <2>1 DEF Applying
  <2>4. ASSUME NEW t \in eventStreams', NEW l \in Listeners
        PROVE  /\ \/ rt'[t].listeners[l] \in {None, IF listeners'[l].stream = t THEN listeners'[l].name ELSE None}
                  \/ Applying(t, l, {"apply"})'
               /\ trouble' = MaxTrouble /\ listeners'[l].stream = t =>
                    rt'[t].listeners[l] # None \/ Applying(t, l, {"apply", "record"})'
    <3>1. t \in Streams BY <1>0
    <3>2. CASE t \in eventStreams /\ rt'[t].listeners = rt[t].listeners
      BY <1>1, <2>1, <2>2, <2>3, <3>2 DEF ListenersRunOK
    <3>3. CASE t \notin known /\ \A k \in Listeners: rt'[t].listeners[k] = None BY <1>2, <2>1, <3>1, <3>3
    <3> QED BY <1>1, <2>4, <3>1, <3>2, <3>3
  <2>5. ASSUME NEW p \in Requests, listenersAdminMux' = p
        PROVE  /\ req'[p] = req[p] /\ listenersAdminMux = p /\ listeners' = listeners
               /\ rt'[req'[p].s].listeners = rt[req[p].s].listeners
    <3>1. req'[p] = req[p] /\ listenersAdminMux = p BY <2>1, <2>5
    <3>2. req[p].s \in Streams /\ req[p].s \in known BY <1>0, <3>1 DEF HolderOK, StoredOK, StoredStreams
    <3> QED BY <1>1, <2>1, <3>1, <3>2
  <2>6. ASSUME NEW p \in Requests, listenersAdminMux' = p
        PROVE  /\ req'[p].kind = "createListener" /\ req'[p].pc = "write" => listeners'[req'[p].l] = NoListener
               /\ req'[p].kind # "createListener" \/ req'[p].pc # "write" => listeners'[req'[p].l].stream = req'[p].s
               /\ req'[p].pc = "record" => rt'[req'[p].s].listeners[req'[p].l] = None
    BY <2>5, <2>6 DEF ListenersRunOK
  <2> QED BY <2>4, <2>6 DEF ListenersRunOK
<1>4. CASE DeleteAllStreamListeners(q)
  <2>1. PICK gone \in SUBSET ListenersOf(req[q].s):
          /\ listenersAdminMux = None /\ listenersAdminMux' = None /\ UNCHANGED <<rt, eventStreams>>
          /\ listeners' = [l \in Listeners |-> IF l \in gone THEN NoListener ELSE listeners[l]]
    BY <1>4 DEF DeleteAllStreamListeners
  <2>2. req[q].s \notin eventStreams BY <1>0, <1>4 DEF DeleteAllStreamListeners, At, DeletesOK
  <2>3. \A t, l, pcs: ~Applying(t, l, pcs) BY <1>0, <2>1, NobodyApplies
  <2>4. ASSUME NEW t \in eventStreams', NEW l \in Listeners
        PROVE  /\ rt'[t].listeners[l] \in {None, IF listeners'[l].stream = t THEN listeners'[l].name ELSE None}
               /\ trouble' = MaxTrouble /\ listeners'[l].stream = t => rt'[t].listeners[l] # None
    <3>1. t \in eventStreams /\ t \in Streams /\ t # None /\ t # req[q].s BY <1>0, <2>1, <2>2
    <3>2. /\ rt[t].listeners[l] \in {None, IF listeners[l].stream = t THEN listeners[l].name ELSE None}
          /\ trouble = MaxTrouble /\ listeners[l].stream = t => rt[t].listeners[l] # None
      BY <2>3, <3>1 DEF ListenersRunOK
    <3>3. CASE l \in gone
      <4>1. listeners[l].stream = req[q].s /\ listeners'[l] = NoListener BY <2>1, <3>3 DEF ListenersOf
      <4> QED BY <2>1, <3>1, <3>2, <4>1 DEF NoListener
    <3>4. CASE l \notin gone BY <1>1, <2>1, <3>2, <3>4
    <3> QED BY <3>3, <3>4
  <2> QED BY <1>0, <2>1, <2>4 DEF ListenersRunOK
<1> QED BY <1>3, <1>4

LEMMA RestartListenersStep == ASSUME ManagementInv, Restart PROVE ListenersRunOK'
<1>0. /\ ManagementTypeOK /\ StoredOK /\ None \notin Names \cup Streams \cup Listeners \cup Requests
      /\ eventStreams' = StoredStreams /\ rt' = RestoredRuntime /\ UNCHANGED listeners /\ listenersAdminMux' = None
      /\ trouble > 0 /\ trouble' = trouble - 1 /\ trouble \in 0..MaxTrouble
  BY ManagementAssumption DEF ManagementInv, Typed, ManagementTypeOK, OrphanInv, Restart, storeVars
<1>1. trouble' # MaxTrouble BY <1>0, ManagementAssumption
<1>2. ASSUME NEW t \in eventStreams', NEW l \in Listeners
      PROVE  rt'[t].listeners[l] = IF listeners'[l].stream = t THEN listeners'[l].name ELSE None
  BY <1>0, <1>2 DEF RestoredRuntime, StoredStreams
<1> QED BY <1>0, <1>1, <1>2 DEF ListenersRunOK

(***************************************************************************)
(* The invariant and the theorems                                          *)
(***************************************************************************)

LEMMA RunInit == Init => RunInv /\ NameInv /\ ListenersRunOK
<1> SUFFICES ASSUME Init PROVE RunInv /\ NameInv /\ ListenersRunOK OBVIOUS
<1>0. /\ Typed /\ StoredOK /\ None \notin Names \cup Streams \cup Listeners \cup Requests
      /\ eventStreams = StoredStreams /\ rt = RestoredRuntime /\ streamsByName = RestoredStreamNames
      /\ listenersAdminMux = None /\ \A q \in Requests: req[q].kind = None
  BY TypeInit, ConsistentInit, ManagementAssumption DEF Init, OrphanInv, NewRequest
<1>1. \A s, t \in Streams: streams[s].name = streams[t].name => s = t \/ streams[s].name = None
  BY ManagementAssumption DEF Init
<1>2. \A q \in Requests, s \in Streams: ~Mine(q, s) /\ ~Works(q, s) BY <1>0 DEF Mine, Works, StreamKinds, None
<1>3. ASSUME NEW s \in Streams PROVE IF s \in eventStreams THEN RunsAsStored(s) ELSE Gone(s)
  <2>1. CASE s \in StoredStreams BY <1>0, <2>1 DEF RestoredRuntime, RunsAsStored
  <2>2. CASE s \notin StoredStreams BY <1>0, <2>2 DEF RestoredRuntime, NoRuntime, Gone, StoredStreams
  <2> QED BY <1>0, <2>1, <2>2
<1>4. RunInv BY <1>2, <1>3 DEF RunInv, StreamOK
<1>5. ASSUME NEW s \in StoredStreams PROVE streamsByName[streams[s].name] = s
  <2>1. s \in Streams /\ streams[s].name \in Names /\ streams[s].name # None BY <1>0 DEF StoredOK, StoredStreams
  <2> DEFINE c == CHOOSE u \in StoredStreams: streams[u].name = streams[s].name
  <2>2. c \in StoredStreams /\ streams[c].name = streams[s].name BY <1>5
  <2>3. RestoredStreamNames[streams[s].name] = c BY <1>5, <2>1 DEF RestoredStreamNames
  <2> HIDE DEF c
  <2>4. c = s BY <1>1, <2>1, <2>2 DEF StoredStreams
  <2> QED BY <1>0, <2>3, <2>4
<1>6. NameInv BY <1>0, <1>2, <1>5 DEF NameInv, NamedOK
<1>7. ASSUME NEW t \in eventStreams, NEW l \in Listeners
      PROVE  /\ rt[t].listeners[l] = IF listeners[l].stream = t THEN listeners[l].name ELSE None
             /\ listeners[l].stream = t => rt[t].listeners[l] # None
  <2>1. t \in Streams /\ t # None BY <1>0, <1>7 DEF StoredStreams
  <2>2. listeners[l].stream = t => listeners[l].name \in Names BY <1>0, <2>1 DEF StoredOK, NoListener
  <2>3. rt[t].listeners[l] = IF listeners[l].stream = t THEN listeners[l].name ELSE None
    BY <1>0, <1>7 DEF RestoredRuntime, StoredStreams
  <2> QED BY <1>0, <2>2, <2>3
<1>8. ListenersRunOK BY <1>0, <1>7 DEF ListenersRunOK
<1> QED BY <1>4, <1>6, <1>8

\* The inductive invariant: the one of the store, and what runs.
RuntimeInv == ManagementInv /\ RunInv /\ NameInv /\ ListenersRunOK

LEMMA RuntimeStep == RuntimeInv /\ [Next]_vars => RuntimeInv'
<1> SUFFICES ASSUME RuntimeInv, [Next]_vars PROVE RuntimeInv' OBVIOUS
<1>0. ManagementInv /\ RunInv /\ NameInv /\ ListenersRunOK BY DEF RuntimeInv
<1>1. ManagementInv' BY <1>0, ManagementStep
<1>2. ASSUME NEW q \in Requests, StreamRequest(q) PROVE RunInv' /\ NameInv' /\ ListenersRunOK'
  BY <1>0, <1>2, StreamRunStep, StreamListenersStep
<1>3. ASSUME NEW q \in Requests, ListenerRequest(q) PROVE RunInv' /\ NameInv' /\ ListenersRunOK'
  BY <1>0, <1>3, ListenerRunStep
<1>4. CASE Restart BY <1>0, <1>1, <1>4, RestartRunStep, RestartListenersStep DEF RuntimeInv
<1>5. CASE UNCHANGED vars
  <2>1. UNCHANGED <<streams, listeners, rt, eventStreams, streamsByName, listenersAdminMux, req, trouble, known, astray>>
    BY <1>5 DEF vars, storeVars, memoryVars, history
  <2>2. Typed /\ StoredOK /\ RequestsOK BY <1>0 DEF ManagementInv, OrphanInv, Typed
  <2>3. \A t \in Streams: Untouched(t) BY <2>1 DEF Untouched
  <2>4. RunInv' BY <1>0, <2>1, <2>3, RunFrame DEF RunInv
  <2>5. ASSUME astray' = {}, NEW t \in Streams PROVE NamedOK(t)'
    <3>1. NamedOK(t) /\ Untouched(t) BY <1>0, <2>1, <2>3, <2>5 DEF NameInv
    <3> QED BY <2>1, <2>2, <3>1, NameFrame
  <2>6. NameInv' BY <2>5 DEF NameInv
  <2>7. ListenersRunOK' BY <1>0, <2>1 DEF ListenersRunOK, Applying
  <2> QED BY <1>1, <2>4, <2>6, <2>7 DEF RuntimeInv
<1> QED BY <1>1, <1>2, <1>3, <1>4, <1>5 DEF Next, RuntimeInv

LEMMA RuntimeInvariant == Spec => []RuntimeInv
<1>1. Init => ManagementInv BY TypeInit, ConsistentInit DEF ManagementInv
<1>2. Init => RuntimeInv BY <1>1, RunInit DEF RuntimeInv
<1> QED BY <1>2, RuntimeStep, PTL DEF Spec

\* reserveStreamName against UpdateStream's release of the old name and
\* DeleteStream's of the current one: while every update and delete has succeeded,
\* alone on its stream, streams in the map have different names in the store, for
\* any number of streams, names, requests, failing creations and restarts.
THEOREM StreamNamesCorrect == Spec => []StreamNamesUnique
<1>1. RuntimeInv => StreamNamesUnique
  <2> SUFFICES ASSUME RuntimeInv, astray = {}, NEW s \in StoredStreams \cap eventStreams, NEW t \in StoredStreams \cap eventStreams,
                      streams[s].name = streams[t].name
               PROVE  s = t
    BY DEF StreamNamesUnique
  <2>1. NamedOK(s) /\ NamedOK(t) BY DEF RuntimeInv, NameInv, StoredStreams
  <2> QED BY <2>1 DEF NamedOK, StoredStreams
<1> QED BY <1>1, RuntimeInvariant, PTL

\* CreateAndStoreNewStream, UpdateStream and DeleteStream, which change the runtime
\* stream and the store in separate steps without a mutex over both, and
\* createOrUpdateListener and DeleteListener: a stream that nobody is busy with, and
\* that nothing went wrong with, runs with the stored specification, in the stored
\* state, and with the stored listeners.
THEOREM RuntimeCorrect == Spec => []RuntimeMatchesStore
<1>1. RuntimeInv => RuntimeMatchesStore
  <2> SUFFICES ASSUME RuntimeInv, NEW s \in eventStreams \ astray, On(s) = {}
               PROVE  /\ rt[s].spec = streams[s]
                      /\ rt[s].status = Status(streams[s].suspended)
                      /\ \A l \in Listeners:
                           rt[s].listeners[l] \in {None, IF listeners[l].stream = s THEN listeners[l].name ELSE None}
                      /\ trouble = MaxTrouble => \A l \in ListenersOf(s): rt[s].listeners[l] # None
    BY DEF RuntimeMatchesStore
  <2>0. Typed /\ ManagementTypeOK /\ s \in Streams /\ StreamOK(s) /\ ListenersRunOK
    BY DEF RuntimeInv, ManagementInv, Typed, ManagementTypeOK, RunInv
  <2>1. \A q \in Requests: ~Works(q, s) BY <2>0, RequestMine DEF On
  <2>2. RunsAsStored(s) BY <2>0, <2>1 DEF StreamOK
  <2>3. \A l, pcs: ~Applying(s, l, pcs) BY <2>0 DEF Applying, On, ManagementTypeOK
  <2> QED BY <2>0, <2>2, <2>3 DEF RunsAsStored, ListenersRunOK, ListenersOf
<1> QED BY <1>1, RuntimeInvariant, PTL

\* DeleteStream: after it has answered with success there is no record, no listener
\* and nothing that runs, whatever else was requested and whenever the process died,
\* unless another request on the same stream overlapped it or a delete had failed.
THEOREM DeletedCorrect == Spec => []DeletedIsGone
<1>1. RuntimeInv => DeletedIsGone
  <2> SUFFICES ASSUME RuntimeInv, NEW q \in Requests, req[q].kind = "deleteStream", req[q].pc = "done", req[q].s \notin astray
               PROVE  /\ streams[req[q].s] = NoStream /\ ListenersOf(req[q].s) = {}
                      /\ rt[req[q].s].status \in {"deleted", "none"}
    BY DEF DeletedIsGone
  <2>0. /\ req[q].s \in Streams /\ req[q].s # None /\ StreamOK(req[q].s) /\ NoOrphanListeners
    BY ManagementAssumption DEF RuntimeInv, ManagementInv, Typed, RequestsOK, RequestOK, RunInv, OrphanInv
  <2>1. Gone(req[q].s) BY <2>0 DEF StreamOK, Mine, StreamKinds
  <2>2. ListenersOf(req[q].s) = {} BY <2>0, <2>1 DEF Gone, NoOrphanListeners, StoredStreams, ListenersOf
  <2> QED BY <2>1, <2>2 DEF Gone
<1> QED BY <1>1, RuntimeInvariant, PTL
=============================================================================
