------------------------ MODULE StateTrackingProofs ------------------------
(***************************************************************************)
(* Theorems about StateTracking, for any lists, textures, buffers and      *)
(* subresources: type correctness; the barriers a command list places on a *)
(* texture form a chain that ends in the state the tracker believes in;    *)
(* and, for the applications that are Disciplined, every list enters each  *)
(* resource in the state its first barrier leaves from, every access finds *)
(* its bits, and between lists resources are in their initialState or      *)
(* their permanent state.  The order of unordered accesses is proved for   *)
(* all applications.                                                       *)
(***************************************************************************)
EXTENDS StateTracking, SequenceTheorems, TLAPS

USE StateTrackingAssumption

-----------------------------------------------------------------------------
(* Types of the tracker's operations.                                       *)

LEMMA EmptyTypes == EmptyTexture \in TextureRec /\ EmptyBuffer \in BufferRec
  BY DEF EmptyTexture, EmptyBuffer, TextureRec, BufferRec, States, Unknown, Barrier, Use

\* TrackTexture returns a well-formed record.
LEMMA TrackTextureType ==
  ASSUME TypeOK, NEW t \in Textures, NEW x \in TextureRec
  PROVE  TrackTexture(t, x) \in TextureRec
<1> DEFINE state == [s \in Subresources |->
                       IF t \notin KeepInitialState THEN Unknown
                       ELSE IF stateInitialized[t] THEN InitialState[t]
                       ELSE {Common}]
<1>1. Unknown \in States /\ {Common} \in States /\ InitialState[t] \in States
  BY DEF States, Unknown, Resources
<1>2. state \in [Subresources -> States]
  BY <1>1
<1> HIDE DEF state
<1>3. [x EXCEPT !.tracked = TRUE, !.state = state] \in TextureRec
  BY <1>2 DEF TextureRec
<1> QED
  BY <1>3 DEF TrackTexture, state

LEMMA TrackBufferType ==
  ASSUME NEW b \in Buffers, NEW x \in BufferRec
  PROVE  TrackBuffer(b, x) \in BufferRec
  BY DEF TrackBuffer, BufferRec, States, Unknown, Resources

\* requireTextureState keeps a record well formed.
LEMMA RequireTextureType ==
  ASSUME TypeOK, NEW t \in Textures, NEW x \in TextureRec,
         NEW S \in SUBSET Subresources, NEW st \in States
  PROVE  RequireTexture(t, x, S, st) \in TextureRec
<1> DEFINE y == TrackTexture(t, x)
           B == BarrierSubresources(y, S, st)
           pending == [s \in Subresources |->
                         IF s \in B
                         THEN Append(y.pending[s], [before |-> y.state[s], after |-> st])
                         ELSE y.pending[s]]
           state == [s \in Subresources |-> IF s \in S THEN st ELSE y.state[s]]
<1>1. y \in TextureRec
  BY TrackTextureType
<1>2. pending \in [Subresources -> Seq(Barrier)]
  <2> SUFFICES ASSUME NEW s \in Subresources
               PROVE  /\ y.pending[s] \in Seq(Barrier)
                      /\ Append(y.pending[s], [before |-> y.state[s], after |-> st])
                            \in Seq(Barrier)
    OBVIOUS
  <2>1. y.pending[s] \in Seq(Barrier) /\ y.state[s] \in States
    BY <1>1 DEF TextureRec
  <2>2. [before |-> y.state[s], after |-> st] \in Barrier
    BY <2>1 DEF Barrier
  <2> QED
    BY <2>1, <2>2
<1>3. state \in [Subresources -> States]
  BY <1>1 DEF TextureRec
<1>4. PlacesUavBarrier(y, S, st) \in BOOLEAN
  BY DEF PlacesUavBarrier
<1> HIDE DEF y
<1>5. (y.expanded \/ S # Subresources) \in BOOLEAN
  OBVIOUS
<1>6. (y.firstUavBarrierPlaced \/ PlacesUavBarrier(y, S, st)) \in BOOLEAN
  OBVIOUS
<1> HIDE DEF pending, state
<1>7. [y EXCEPT !.expanded = y.expanded \/ S # Subresources,
                !.pending = pending, !.state = state,
                !.firstUavBarrierPlaced =
                    y.firstUavBarrierPlaced \/ PlacesUavBarrier(y, S, st)] \in TextureRec
  BY <1>1, <1>2, <1>3, <1>5, <1>6 DEF TextureRec
<1> QED
  BY <1>7 DEF RequireTexture, pending, state, y

\* requireBufferState keeps a record well formed, in the merging case too.
LEMMA RequireBufferType ==
  ASSUME TypeOK, NEW b \in Buffers, NEW x \in BufferRec, NEW st \in States
  PROVE  RequireBuffer(b, x, st) \in BufferRec
<1> DEFINE y == TrackBuffer(b, x)
           uav == UavBarrierDue(y, st)
           merged == y.pending[1].after \cup st
           appended == IF y.state # st \/ uav
                       THEN Append(y.pending, [before |-> y.state, after |-> st])
                       ELSE y.pending
<1>1. y \in BufferRec
  BY TrackBufferType
<1>2. y.pending \in Seq(Barrier) /\ y.state \in States
  BY <1>1 DEF BufferRec
<1> HIDE DEF y
<1>3. CASE b \in UntrackedBuffers \/ permanentState[b] # Unknown
  BY <1>3 DEF RequireBuffer
<1>4. CASE ~(b \in UntrackedBuffers \/ permanentState[b] # Unknown)
           /\ y.state # st /\ y.pending # <<>>
  <2>1. 1 \in 1..Len(y.pending) /\ y.pending[1] \in Barrier
    BY <1>2, <1>4
  <2>2. merged \in States
    BY <2>1 DEF Barrier, States
  <2> HIDE DEF merged
  <2>3. [y.pending[1] EXCEPT !.after = merged] \in Barrier
    BY <2>1, <2>2 DEF Barrier
  <2>4. [y.pending EXCEPT ![1] = [y.pending[1] EXCEPT !.after = merged]] \in Seq(Barrier)
    BY <1>2, <2>1, <2>3
  <2>5. [y EXCEPT !.pending[1].after = merged, !.state = merged] \in BufferRec
    BY <1>1, <2>2, <2>4 DEF BufferRec
  <2> QED
    BY <1>4, <2>5 DEF RequireBuffer, y, merged
<1>5. CASE ~(b \in UntrackedBuffers \/ permanentState[b] # Unknown)
           /\ ~(y.state # st /\ y.pending # <<>>)
  <2>1. [before |-> y.state, after |-> st] \in Barrier
    BY <1>2 DEF Barrier
  <2>2. appended \in Seq(Barrier)
    BY <1>2, <2>1
  <2>3. (uav /\ ~(y.state # st)) \in BOOLEAN
    BY DEF UavBarrierDue
  <2> HIDE DEF appended, uav
  <2>4. [y EXCEPT !.pending = appended,
                  !.firstUavBarrierPlaced =
                    y.firstUavBarrierPlaced \/ (uav /\ ~(y.state # st)),
                  !.state = st] \in BufferRec
    BY <1>1, <2>2, <2>3 DEF BufferRec
  <2> QED
    BY <1>5, <2>4 DEF RequireBuffer, y, appended, uav
<1> QED
  BY <1>3, <1>4, <1>5

LEMMA BeginTextureType ==
  ASSUME TypeOK, NEW t \in Textures, NEW x \in TextureRec,
         NEW S \in SUBSET Subresources, NEW st \in States
  PROVE  BeginTexture(t, x, S, st) \in TextureRec
<1> DEFINE y == TrackTexture(t, x)
           state == [s \in Subresources |-> IF s \in S THEN st ELSE y.state[s]]
<1>1. y \in TextureRec
  BY TrackTextureType
<1>2. state \in [Subresources -> States]
  BY <1>1 DEF TextureRec
<1> HIDE DEF y, state
<1>3. [y EXCEPT !.expanded = S # Subresources, !.state = state] \in TextureRec
  BY <1>1, <1>2 DEF TextureRec
<1> QED
  BY <1>3 DEF BeginTexture, y, state

LEMMA PermanentTextureType ==
  ASSUME TypeOK, NEW t \in Textures, NEW x \in TextureRec, NEW st \in States
  PROVE  PermanentTexture(t, x, st) \in TextureRec
<1> DEFINE y == TrackTexture(t, RequireTexture(t, x, Subresources, st))
<1>1. y \in TextureRec
  BY TrackTextureType, RequireTextureType
<1> HIDE DEF y
<1>2. [y EXCEPT !.permanent = IF y.permanent = Unknown THEN st ELSE y.permanent,
                !.permanentTransition = TRUE] \in TextureRec
  BY <1>1 DEF TextureRec
<1> QED
  BY <1>2 DEF PermanentTexture, y

LEMMA PermanentBufferType ==
  ASSUME TypeOK, NEW b \in Buffers, NEW x \in BufferRec, NEW st \in States
  PROVE  PermanentBuffer(b, x, st) \in BufferRec
<1> DEFINE y == RequireBuffer(b, x, st)
<1>1. y \in BufferRec
  BY RequireBufferType
<1> HIDE DEF y
<1>2. [y EXCEPT !.permanent = IF y.permanent = Unknown THEN st ELSE y.permanent]
        \in BufferRec
  BY <1>1 DEF BufferRec
<1> QED
  BY <1>2 DEF PermanentBuffer, y

LEMMA KeepTypes ==
  ASSUME TypeOK
  PROVE  /\ \A t \in Textures, x \in TextureRec : KeepTexture(t, x) \in TextureRec
         /\ \A b \in Buffers, x \in BufferRec : KeepBuffer(b, x) \in BufferRec
<1>1. \A r \in Resources : InitialState[r] \in States
  OBVIOUS
<1> QED
  BY <1>1, RequireTextureType, RequireBufferType DEF KeepTexture, KeepBuffer, Resources

LEMMA CommitTypes ==
  /\ \A x \in TextureRec : CommitTexture(x) \in TextureRec
  /\ \A x \in BufferRec : CommitBuffer(x) \in BufferRec
<1>1. ASSUME NEW x \in TextureRec PROVE CommitTexture(x) \in TextureRec
  <2> DEFINE recorded == [s \in Subresources |-> x.recorded[s] \o x.pending[s]]
             pending == [s \in Subresources |-> <<>>]
  <2>1. \A s \in Subresources : x.recorded[s] \in Seq(Barrier) /\ x.pending[s] \in Seq(Barrier)
    BY DEF TextureRec
  <2>2. recorded \in [Subresources -> Seq(Barrier)] /\ pending \in [Subresources -> Seq(Barrier)]
    BY <2>1
  <2> HIDE DEF recorded, pending
  <2>3. [x EXCEPT !.recorded = recorded, !.pending = pending] \in TextureRec
    BY <2>2 DEF TextureRec
  <2> QED
    BY <2>3 DEF CommitTexture, recorded, pending
<1>2. ASSUME NEW x \in BufferRec PROVE CommitBuffer(x) \in BufferRec
  <2> DEFINE recorded == x.recorded \o x.pending
  <2>1. x.recorded \in Seq(Barrier) /\ x.pending \in Seq(Barrier)
    BY DEF BufferRec
  <2>2. recorded \in Seq(Barrier) /\ <<>> \in Seq(Barrier)
    BY <2>1
  <2> HIDE DEF recorded
  <2>3. [x EXCEPT !.recorded = recorded, !.pending = <<>>] \in BufferRec
    BY <2>2 DEF BufferRec
  <2> QED
    BY <2>3 DEF CommitBuffer, recorded
<1> QED
  BY <1>1, <1>2

LEMMA AccessTypes ==
  ASSUME NEW st \in States
  PROVE  /\ \A x \in TextureRec, S \in SUBSET Subresources :
               AccessTexture(x, S, st) \in TextureRec
         /\ \A x \in BufferRec : AccessBuffer(x, st) \in BufferRec
<1>1. ASSUME NEW x \in TextureRec, NEW S \in SUBSET Subresources
      PROVE  AccessTexture(x, S, st) \in TextureRec
  <2> DEFINE uses == [s \in Subresources |->
                        IF s \in S
                        THEN Append(x.uses[s], [at |-> Len(x.recorded[s]), state |-> st])
                        ELSE x.uses[s]]
  <2>1. ASSUME NEW s \in Subresources
        PROVE  /\ x.uses[s] \in Seq(Use)
               /\ [at |-> Len(x.recorded[s]), state |-> st] \in Use
    <3>1. x.uses[s] \in Seq(Use) /\ x.recorded[s] \in Seq(Barrier)
      BY DEF TextureRec
    <3>2. Len(x.recorded[s]) \in Nat
      BY <3>1
    <3> QED
      BY <3>1, <3>2 DEF Use
  <2>2. uses \in [Subresources -> Seq(Use)]
    BY <2>1
  <2> HIDE DEF uses
  <2>3. [x EXCEPT !.uses = uses] \in TextureRec
    BY <2>2 DEF TextureRec
  <2> QED
    BY <2>3 DEF AccessTexture, uses
<1>2. ASSUME NEW x \in BufferRec PROVE AccessBuffer(x, st) \in BufferRec
  <2> DEFINE use == [at |-> Len(x.recorded), state |-> st]
             uses == Append(x.uses, use)
  <2>1. x.uses \in Seq(Use) /\ x.recorded \in Seq(Barrier)
    BY DEF BufferRec
  <2>2. use \in Use
    BY <2>1 DEF Use
  <2>3. uses \in Seq(Use)
    BY <2>1, <2>2
  <2> HIDE DEF uses
  <2>4. [x EXCEPT !.uses = uses] \in BufferRec
    BY <2>3 DEF BufferRec
  <2> QED
    BY <2>4 DEF AccessBuffer, uses
<1> QED
  BY <1>1, <1>2

-----------------------------------------------------------------------------
(* Type correctness.                                                        *)

LEMMA InitTypeOK == Init => TypeOK
<1> SUFFICES ASSUME Init PROVE TypeOK
  OBVIOUS
<1>1. permanentState \in [Resources -> States] /\ gpuBuf \in [Buffers -> States]
  BY DEF Init, States, Unknown, Resources
<1>2. gpuTex \in [Textures -> [Subresources -> States]]
  BY DEF Init, States, Unknown, Resources
<1>3. tex \in [CommandLists -> [Textures -> TextureRec]]
  BY EmptyTypes DEF Init
<1>4. buf \in [CommandLists -> [Buffers -> BufferRec]]
  BY EmptyTypes DEF Init
<1>5. /\ app \in Applications
      /\ stateInitialized \in [Textures -> BOOLEAN]
      /\ phase \in [CommandLists -> {"initial", "open", "closed"}]
      /\ ops \in [CommandLists -> 0..app.ops]
  BY ApplicationsAssumption DEF Init
<1> QED
  BY <1>1, <1>2, <1>3, <1>4, <1>5 DEF TypeOK

LEMMA NextTypeOK == TypeOK /\ [Next]_vars => TypeOK'
<1> SUFFICES ASSUME TypeOK, [Next]_vars PROVE TypeOK'
  OBVIOUS
<1> USE DEF TypeOK
<1>0. /\ \A st \in Usages : st \in States
      /\ \A c \in CommandLists : /\ \A u \in Textures : tex[c][u] \in TextureRec
                                 /\ \A u \in Buffers : buf[c][u] \in BufferRec
  OBVIOUS
<1>1. ASSUME NEW cl \in CommandLists, Records(cl)
      PROVE  /\ ops' \in [CommandLists -> 0..app.ops]
             /\ UNCHANGED <<app, permanentState, stateInitialized, phase, gpuTex, gpuBuf>>
  <2>1. app.ops \in Nat /\ ops[cl] + 1 \in 0..app.ops
    BY <1>1, ApplicationsAssumption DEF Records
  <2> QED
    BY <1>1, <2>1 DEF Records
<1>2. ASSUME NEW cl \in CommandLists, NEW t \in Textures, NEW x \in TextureRec,
             Records(cl), SetTexture(cl, t, x)
      PROVE  TypeOK'
  BY <1>1, <1>2 DEF SetTexture
<1>3. ASSUME NEW cl \in CommandLists, NEW b \in Buffers, NEW x \in BufferRec,
             Records(cl), SetBuffer(cl, b, x)
      PROVE  TypeOK'
  BY <1>1, <1>3 DEF SetBuffer
<1>4. ASSUME NEW cl \in CommandLists, NEW f \in [Textures -> TextureRec],
             NEW g \in [Buffers -> BufferRec],
             tex' = [tex EXCEPT ![cl] = f], buf' = [buf EXCEPT ![cl] = g]
      PROVE  /\ tex' \in [CommandLists -> [Textures -> TextureRec]]
             /\ buf' \in [CommandLists -> [Buffers -> BufferRec]]
  BY <1>4
<1>5. ASSUME NEW cl \in CommandLists, TextureCall(cl) PROVE TypeOK'
  <2>1. ASSUME NEW t \in Textures, NEW st \in Usages, SetPermanentTextureState(cl, t, st)
        PROVE  TypeOK'
    BY <1>0, <1>2, <2>1, PermanentTextureType DEF SetPermanentTextureState
  <2>2. ASSUME NEW t \in Textures, NEW enable \in BOOLEAN,
               SetEnableUavBarriersForTexture(cl, t, enable)
        PROVE  TypeOK'
    <3> DEFINE y == TrackTexture(t, tex[cl][t])
               z == [y EXCEPT !.enableUavBarriers = enable, !.firstUavBarrierPlaced = FALSE]
    <3>1. y \in TextureRec
      BY <1>0, TrackTextureType
    <3> HIDE DEF y
    <3>2. z \in TextureRec
      BY <3>1 DEF TextureRec
    <3> QED
      BY <1>2, <2>2, <3>2 DEF SetEnableUavBarriersForTexture, y
  <2>3. ASSUME NEW t \in Textures, NEW S \in SubresourceSets, NEW st \in Usages,
               SetTextureState(cl, t, S, st)
        PROVE  TypeOK'
    BY <1>0, <1>2, <2>3, RequireTextureType DEF SetTextureState, SubresourceSets
  <2>4. ASSUME NEW t \in Textures, NEW S \in SubresourceSets, NEW st \in Usages,
               UseTexture(cl, t, S, st)
        PROVE  TypeOK'
    <3> DEFINE f == [u \in Textures |->
                      IF u = t
                      THEN AccessTexture(CommitTexture(RequireTexture(t, tex[cl][t], S, st)), S, st)
                      ELSE CommitTexture(tex[cl][u])]
               g == [b \in Buffers |-> CommitBuffer(buf[cl][b])]
    <3>1. RequireTexture(t, tex[cl][t], S, st) \in TextureRec
      BY <1>0, RequireTextureType DEF SubresourceSets
    <3>2. AccessTexture(CommitTexture(RequireTexture(t, tex[cl][t], S, st)), S, st) \in TextureRec
      BY <3>1, <1>0, CommitTypes, AccessTypes DEF SubresourceSets
    <3>3. f \in [Textures -> TextureRec] /\ g \in [Buffers -> BufferRec]
      BY <1>0, <3>2, CommitTypes
    <3>4. tex' = [tex EXCEPT ![cl] = f] /\ buf' = [buf EXCEPT ![cl] = g] /\ Records(cl)
      BY <2>4 DEF UseTexture
    <3> HIDE DEF f, g
    <3> QED
      BY <1>1, <1>4, <3>3, <3>4
  <2>5. ASSUME NEW t \in Textures, NEW S \in SubresourceSets, NEW st \in States,
               BeginTrackingTextureState(cl, t, S, st)
        PROVE  TypeOK'
    BY <1>0, <1>2, <2>5, BeginTextureType DEF BeginTrackingTextureState, SubresourceSets
  <2> QED
    BY <1>5, <2>1, <2>2, <2>3, <2>4, <2>5 DEF TextureCall
<1>6. ASSUME NEW cl \in CommandLists, BufferCall(cl) PROVE TypeOK'
  <2>1. ASSUME NEW b \in Buffers, NEW enable \in BOOLEAN,
               SetEnableUavBarriersForBuffer(cl, b, enable)
        PROVE  TypeOK'
    <3> DEFINE y == TrackBuffer(b, buf[cl][b])
               z == [y EXCEPT !.enableUavBarriers = enable, !.firstUavBarrierPlaced = FALSE]
    <3>1. y \in BufferRec
      BY <1>0, TrackBufferType
    <3> HIDE DEF y
    <3>2. z \in BufferRec
      BY <3>1 DEF BufferRec
    <3> QED
      BY <1>3, <2>1, <3>2 DEF SetEnableUavBarriersForBuffer, y
  <2>2. ASSUME NEW b \in Buffers, NEW st \in States, BeginTrackingBufferState(cl, b, st)
        PROVE  TypeOK'
    <3> DEFINE y == TrackBuffer(b, buf[cl][b])
    <3>1. y \in BufferRec
      BY <1>0, TrackBufferType
    <3> HIDE DEF y
    <3>2. [y EXCEPT !.state = st] \in BufferRec
      BY <3>1 DEF BufferRec
    <3> QED
      BY <1>3, <2>2, <3>2 DEF BeginTrackingBufferState, y
  <2>3. ASSUME NEW b \in Buffers, NEW st \in Usages, SetBufferState(cl, b, st)
        PROVE  TypeOK'
    BY <1>0, <1>3, <2>3, RequireBufferType DEF SetBufferState
  <2>4. ASSUME NEW b \in Buffers, NEW st \in Usages, SetPermanentBufferState(cl, b, st)
        PROVE  TypeOK'
    BY <1>0, <1>3, <2>4, PermanentBufferType DEF SetPermanentBufferState
  <2>5. ASSUME NEW b \in Buffers, NEW z \in BufferRec, Records(cl),
               tex' = [tex EXCEPT ![cl] = [t \in Textures |-> CommitTexture(tex[cl][t])]],
               buf' = [buf EXCEPT ![cl] = [c \in Buffers |->
                         IF c = b THEN z ELSE CommitBuffer(buf[cl][c])]]
        PROVE  TypeOK'
    <3> DEFINE f == [t \in Textures |-> CommitTexture(tex[cl][t])]
               g == [c \in Buffers |-> IF c = b THEN z ELSE CommitBuffer(buf[cl][c])]
    <3>1. f \in [Textures -> TextureRec] /\ g \in [Buffers -> BufferRec]
      BY <1>0, CommitTypes
    <3>2. tex' = [tex EXCEPT ![cl] = f] /\ buf' = [buf EXCEPT ![cl] = g]
      BY <2>5
    <3> HIDE DEF f, g
    <3> QED
      BY <1>1, <1>4, <2>5, <3>1, <3>2
  <2>6. ASSUME NEW b \in Buffers, NEW st \in Usages, UseBuffer(cl, b, st)
        PROVE  TypeOK'
    <3>1. AccessBuffer(CommitBuffer(RequireBuffer(b, buf[cl][b], st)), st) \in BufferRec
      BY <1>0, RequireBufferType, CommitTypes, AccessTypes
    <3> QED
      BY <2>5, <2>6, <3>1 DEF UseBuffer
  <2>7. ASSUME NEW b \in Buffers, NEW st1 \in Usages, NEW st2 \in Usages,
               UseBufferTwice(cl, b, st1, st2)
        PROVE  TypeOK'
    <3> DEFINE x == RequireBuffer(b, RequireBuffer(b, buf[cl][b], st1), st2)
    <3>1. x \in BufferRec
      BY <1>0, RequireBufferType
    <3>2. st1 \cup st2 \in States
      BY <1>0 DEF States
    <3>3. AccessBuffer(CommitBuffer(x), st1 \cup st2) \in BufferRec
      BY <3>1, <3>2, CommitTypes, AccessTypes
    <3> QED
      BY <2>5, <2>7, <3>3 DEF UseBufferTwice
  <2> QED
    BY <1>6, <2>1, <2>2, <2>3, <2>4, <2>6, <2>7 DEF BufferCall
<1>7. ASSUME NEW cl \in CommandLists, CommitBarriers(cl) PROVE TypeOK'
  <2> DEFINE f == [t \in Textures |-> CommitTexture(tex[cl][t])]
             g == [b \in Buffers |-> CommitBuffer(buf[cl][b])]
  <2>1. f \in [Textures -> TextureRec] /\ g \in [Buffers -> BufferRec]
    BY <1>0, CommitTypes
  <2>2. tex' = [tex EXCEPT ![cl] = f] /\ buf' = [buf EXCEPT ![cl] = g]
    BY <1>7 DEF CommitBarriers
  <2> HIDE DEF f, g
  <2> QED
    BY <1>4, <1>7, <2>1, <2>2 DEF CommitBarriers
<1>8. ASSUME NEW cl \in CommandLists, Open(cl) PROVE TypeOK'
  <2> DEFINE f == [t \in Textures |-> [tex[cl][t] EXCEPT !.recorded = EmptyTexture.recorded,
                                                         !.uses = EmptyTexture.uses]]
             g == [b \in Buffers |-> [buf[cl][b] EXCEPT !.recorded = <<>>, !.uses = <<>>]]
  <2>1. /\ EmptyTexture.recorded \in [Subresources -> Seq(Barrier)]
        /\ EmptyTexture.uses \in [Subresources -> Seq(Use)]
    BY DEF EmptyTexture
  <2>2. \A x \in TextureRec :
          [x EXCEPT !.recorded = EmptyTexture.recorded, !.uses = EmptyTexture.uses] \in TextureRec
    BY <2>1 DEF TextureRec
  <2>3. \A x \in BufferRec : [x EXCEPT !.recorded = <<>>, !.uses = <<>>] \in BufferRec
    <3>1. <<>> \in Seq(Barrier) /\ <<>> \in Seq(Use)
      OBVIOUS
    <3> QED
      BY <3>1 DEF BufferRec
  <2>4. f \in [Textures -> TextureRec] /\ g \in [Buffers -> BufferRec]
    BY <1>0, <2>2, <2>3
  <2>5. tex' = [tex EXCEPT ![cl] = f] /\ buf' = [buf EXCEPT ![cl] = g]
    BY <1>8 DEF Open
  <2>6. ops' \in [CommandLists -> 0..app.ops] /\ phase' \in [CommandLists -> {"initial", "open", "closed"}]
    <3>1. 0 \in 0..app.ops
      BY ApplicationsAssumption
    <3> QED
      BY <1>0, <1>8, <3>1 DEF Open
  <2>7. UNCHANGED <<app, permanentState, stateInitialized, gpuTex, gpuBuf>>
    BY <1>8 DEF Open
  <2> HIDE DEF f, g
  <2> QED
    BY <1>4, <2>4, <2>5, <2>6, <2>7
<1>9. ASSUME NEW cl \in CommandLists, Close(cl) PROVE TypeOK'
  <2> DEFINE f == [t \in Textures |-> CommitTexture(KeepTexture(t, tex[cl][t]))]
             g == [b \in Buffers |-> CommitBuffer(KeepBuffer(b, buf[cl][b]))]
  <2>1. f \in [Textures -> TextureRec] /\ g \in [Buffers -> BufferRec]
    BY <1>0, CommitTypes, KeepTypes
  <2>2. tex' = [tex EXCEPT ![cl] = f] /\ buf' = [buf EXCEPT ![cl] = g]
    BY <1>9 DEF Close
  <2> HIDE DEF f, g
  <2> QED
    BY <1>4, <1>9, <2>1, <2>2 DEF Close
<1>10. ASSUME NEW cl \in CommandLists, Execute(cl) PROVE TypeOK'
  <2>1. ASSUME NEW seq \in Seq(Barrier), NEW st \in States
        PROVE  AfterBarriers(seq, st) \in States
    <3>1. CASE seq = <<>>
      BY <3>1 DEF AfterBarriers
    <3>2. CASE seq # <<>>
      <4>1. seq[Len(seq)] \in Barrier
        BY <3>2
      <4> QED
        BY <3>2, <4>1 DEF AfterBarriers, Barrier
    <3> QED
      BY <3>1, <3>2
  <2>2. gpuTex' \in [Textures -> [Subresources -> States]]
    BY <1>0, <1>10, <2>1 DEF Execute, TextureRec
  <2>3. gpuBuf' \in [Buffers -> States]
    BY <1>0, <1>10, <2>1 DEF Execute, BufferRec
  <2>4. permanentState' \in [Resources -> States]
    BY <1>0, <1>10 DEF Execute, NewPermanent, DeferredPermanent, TextureRec, BufferRec, Resources
  <2>5. stateInitialized' \in [Textures -> BOOLEAN]
    BY <1>10, <1>0 DEF Execute, TextureRec
  <2>6. /\ tex' \in [CommandLists -> [Textures -> TextureRec]]
        /\ buf' \in [CommandLists -> [Buffers -> BufferRec]]
    BY <1>10, EmptyTypes DEF Execute
  <2> QED
    BY <1>10, <2>2, <2>3, <2>4, <2>5, <2>6 DEF Execute
<1>11. CASE UNCHANGED vars
  BY <1>11 DEF vars
<1> QED
  BY <1>5, <1>6, <1>7, <1>8, <1>9, <1>10, <1>11 DEF Next

\* TypeOK holds in every reachable state, for any resources and command lists.
THEOREM TypeCorrect == Spec => []TypeOK
<1> QED
  BY InitTypeOK, NextTypeOK, PTL DEF Spec

-----------------------------------------------------------------------------
(* Linked, operation by operation.                                          *)

LEMMA ChainAppend ==
  ASSUME NEW p \in Seq(Barrier), Chain(p), NEW b \in Barrier,
         p # <<>> => p[Len(p)].after = b.before
  PROVE  Chain(Append(p, b))
<1> DEFINE q == Append(p, b)
<1>1. Len(q) = Len(p) + 1 /\ Len(p) \in Nat
  OBVIOUS
<1>2. \A i \in 1..Len(p) : q[i] = p[i]
  OBVIOUS
<1>3. q[Len(p) + 1] = b
  OBVIOUS
<1> HIDE DEF q
<1>4. ASSUME NEW i \in 1..(Len(q) - 1) PROVE q[i + 1].before = q[i].after
  <2>1. CASE i = Len(p)
    <3>1. p # <<>>
      BY <1>1, <2>1
    <3> QED
      BY <1>1, <1>2, <1>3, <2>1, <3>1
  <2>2. CASE i # Len(p)
    <3>1. i \in 1..(Len(p) - 1) /\ i + 1 \in 1..Len(p) /\ i \in 1..Len(p)
      BY <1>1, <2>2
    <3> QED
      BY <1>2, <3>1 DEF Chain
  <2> QED
    BY <2>1, <2>2
<1> QED
  BY <1>4 DEF Chain, q

\* Linked depends only on the barriers, the state and tracked.
LEMMA LinkedSame ==
  ASSUME NEW x \in TextureRec, NEW y \in TextureRec, Linked(x),
         y.recorded = x.recorded, y.pending = x.pending,
         y.state = x.state, x.tracked => y.tracked
  PROVE  Linked(y)
  BY DEF Linked

\* A record with no barrier is linked.
LEMMA EmptyLinked ==
  ASSUME NEW x, \A s \in Subresources : x.recorded[s] \o x.pending[s] = <<>>
  PROVE  Linked(x)
<1>1. Chain(<<>>)
  BY DEF Chain
<1> QED
  BY <1>1 DEF Linked

LEMMA TrackTextureLinked ==
  ASSUME TypeOK, NEW t \in Textures, NEW x \in TextureRec, Linked(x)
  PROVE  /\ Linked(TrackTexture(t, x))
         /\ TrackTexture(t, x).tracked
         /\ TrackTexture(t, x).recorded = x.recorded
         /\ TrackTexture(t, x).pending = x.pending
         /\ \A s \in Subresources :
              x.recorded[s] \o x.pending[s] # <<>> => TrackTexture(t, x) = x
<1>1. CASE x.tracked
  BY <1>1 DEF TrackTexture
<1>2. CASE ~x.tracked
  <2>1. \A s \in Subresources : x.recorded[s] \o x.pending[s] = <<>>
    BY <1>2 DEF Linked
  <2>2. /\ TrackTexture(t, x).tracked
        /\ TrackTexture(t, x).recorded = x.recorded
        /\ TrackTexture(t, x).pending = x.pending
    BY <1>2 DEF TrackTexture, TextureRec
  <2> DEFINE y == TrackTexture(t, x)
  <2> HIDE DEF y
  <2>3. \A s \in Subresources : y.recorded[s] \o y.pending[s] = <<>>
    BY <2>1, <2>2 DEF y
  <2>4. Linked(y)
    BY <2>3, EmptyLinked
  <2> QED
    BY <2>1, <2>2, <2>4 DEF y
<1> QED
  BY <1>1, <1>2

\* A require puts barriers on the subresources it covers only, and on all of
\* them that are in another state.
LEMMA BarrierSubresourcesCover ==
  ASSUME NEW y, NEW S \in SUBSET Subresources, NEW st
  PROVE  /\ BarrierSubresources(y, S, st) \subseteq S
         /\ \A s \in S \ BarrierSubresources(y, S, st) : y.state[s] = st
  BY DEF BarrierSubresources, UavSubresource

\* A barrier appended after the pending ones, from the state believed in.
LEMMA AppendLinked ==
  ASSUME NEW rec \in Seq(Barrier), NEW pend \in Seq(Barrier), NEW b \in Barrier,
         Chain(rec \o pend),
         rec \o pend # <<>> => (rec \o pend)[Len(rec \o pend)].after = b.before
  PROVE  /\ Chain(rec \o Append(pend, b))
         /\ rec \o Append(pend, b) # <<>>
         /\ (rec \o Append(pend, b))[Len(rec \o Append(pend, b))] = b
<1> DEFINE p == rec \o pend
<1>1. p \in Seq(Barrier)
  OBVIOUS
<1>2. rec \o Append(pend, b) = Append(p, b)
  OBVIOUS
<1> HIDE DEF p
<1>3. Chain(Append(p, b))
  BY <1>1, ChainAppend DEF p
<1>4. /\ Append(p, b) # <<>>
      /\ Append(p, b)[Len(Append(p, b))] = b
  <2> DEFINE q == Append(p, b)
  <2>1. Len(p) \in Nat /\ Len(q) = Len(p) + 1 /\ q[Len(p) + 1] = b
    BY <1>1
  <2> HIDE DEF q
  <2>2. q # <<>> /\ q[Len(q)] = b
    BY <2>1
  <2> QED
    BY <2>2 DEF q
<1> QED
  BY <1>2, <1>3, <1>4

\* requireTextureState extends the chain and moves its end.
LEMMA RequireTextureLinked ==
  ASSUME TypeOK, NEW t \in Textures, NEW x \in TextureRec, Linked(x),
         NEW S \in SUBSET Subresources, NEW st \in States
  PROVE  Linked(RequireTexture(t, x, S, st))
<1>1. CASE permanentState[t] # Unknown
  BY <1>1 DEF RequireTexture
<1>2. CASE permanentState[t] = Unknown
  <2> DEFINE y == TrackTexture(t, x)
             B == BarrierSubresources(y, S, st)
             z == RequireTexture(t, x, S, st)
             new(s) == [before |-> y.state[s], after |-> st]
  <2>1. y \in TextureRec /\ Linked(y) /\ y.tracked
    BY TrackTextureType, TrackTextureLinked
  <2>2. B \subseteq S /\ \A s \in S \ B : y.state[s] = st
    BY BarrierSubresourcesCover
  <2> HIDE DEF y, B
  <2>3. /\ z.recorded = y.recorded /\ z.tracked
        /\ z.pending = [s \in Subresources |->
                          IF s \in B THEN Append(y.pending[s], new(s)) ELSE y.pending[s]]
        /\ z.state = [s \in Subresources |-> IF s \in S THEN st ELSE y.state[s]]
    BY <1>2, <2>1 DEF RequireTexture, TextureRec, y, B
  <2> HIDE DEF z
  <2> SUFFICES ASSUME NEW s \in Subresources
               PROVE  LET seq == z.recorded[s] \o z.pending[s]
                      IN  /\ Chain(seq)
                          /\ seq # <<>> => z.tracked /\ seq[Len(seq)].after = z.state[s]
    BY DEF Linked, z
  <2>4. /\ y.recorded[s] \in Seq(Barrier) /\ y.pending[s] \in Seq(Barrier)
        /\ y.state[s] \in States
    BY <2>1 DEF TextureRec
  <2>5. LET seq == y.recorded[s] \o y.pending[s]
        IN  Chain(seq) /\ (seq # <<>> => seq[Len(seq)].after = y.state[s])
    BY <2>1 DEF Linked
  <2>6. CASE s \in B
    <3>1. new(s) \in Barrier
      BY <2>4 DEF Barrier
    <3>2. new(s).before = y.state[s] /\ new(s).after = st
      OBVIOUS
    <3> HIDE DEF new
    <3>3. z.recorded[s] \o z.pending[s] = y.recorded[s] \o Append(y.pending[s], new(s))
      BY <2>3, <2>6
    <3>4. z.state[s] = st
      BY <2>2, <2>3, <2>6
    <3> DEFINE rec == y.recorded[s]
               pend == y.pending[s]
               b == new(s)
               seq == rec \o Append(pend, b)
    <3>5. /\ rec \in Seq(Barrier) /\ pend \in Seq(Barrier) /\ b \in Barrier
          /\ Chain(rec \o pend)
          /\ rec \o pend # <<>> => (rec \o pend)[Len(rec \o pend)].after = b.before
      BY <2>4, <2>5, <3>1, <3>2
    <3>6. z.recorded[s] \o z.pending[s] = seq /\ b.after = st
      BY <3>2, <3>3
    <3> HIDE DEF rec, pend, b
    <3>7. Chain(seq) /\ seq # <<>> /\ seq[Len(seq)] = b
      BY <3>5, AppendLinked
    <3> QED
      BY <2>3, <3>4, <3>6, <3>7
  <2>7. CASE s \notin B
    <3>1. z.recorded[s] \o z.pending[s] = y.recorded[s] \o y.pending[s]
      BY <2>3, <2>7, ZenonT(40)
    <3>2. z.state[s] = y.state[s]
      BY <2>2, <2>3, <2>7
    <3> QED
      BY <2>3, <2>5, <3>1, <3>2
  <2> QED
    BY <2>6, <2>7
<1> QED
  BY <1>1, <1>2

\* beginTrackingTextureState before any barrier on the subresources.
LEMMA BeginTextureLinked ==
  ASSUME TypeOK, NEW t \in Textures, NEW x \in TextureRec, Linked(x),
         NEW S \in SUBSET Subresources, NEW st \in States,
         \A s \in S : x.recorded[s] \o x.pending[s] = <<>>
  PROVE  Linked(BeginTexture(t, x, S, st))
<1> DEFINE y == TrackTexture(t, x)
           z == BeginTexture(t, x, S, st)
<1>1. /\ y \in TextureRec /\ Linked(y) /\ y.tracked
      /\ y.recorded = x.recorded /\ y.pending = x.pending
  BY TrackTextureType, TrackTextureLinked
<1> HIDE DEF y
<1>2. /\ z.recorded = y.recorded /\ z.pending = y.pending /\ z.tracked
      /\ z.state = [s \in Subresources |-> IF s \in S THEN st ELSE y.state[s]]
  BY <1>1 DEF BeginTexture, TextureRec, y
<1> HIDE DEF z
<1> SUFFICES ASSUME NEW s \in Subresources
             PROVE  LET seq == z.recorded[s] \o z.pending[s]
                    IN  /\ Chain(seq)
                        /\ seq # <<>> => z.tracked /\ seq[Len(seq)].after = z.state[s]
  BY DEF Linked, z
<1>3. z.recorded[s] \o z.pending[s] = y.recorded[s] \o y.pending[s]
  BY <1>2
<1>4. LET seq == y.recorded[s] \o y.pending[s]
      IN  Chain(seq) /\ (seq # <<>> => seq[Len(seq)].after = y.state[s])
  BY <1>1 DEF Linked
<1>5. CASE s \in S
  <2>1. y.recorded[s] \o y.pending[s] = <<>>
    BY <1>1, <1>5
  <2> QED
    BY <1>3, <1>4, <2>1
<1>6. CASE s \notin S
  BY <1>2, <1>3, <1>4, <1>6
<1> QED
  BY <1>5, <1>6

\* setPermanentTextureState and keepTextureInitialStates, which require a state.
LEMMA PermanentTextureLinked ==
  ASSUME TypeOK, NEW t \in Textures, NEW x \in TextureRec, Linked(x), NEW st \in States
  PROVE  Linked(PermanentTexture(t, x, st))
<1> DEFINE r == RequireTexture(t, x, Subresources, st)
           y == TrackTexture(t, r)
           z == PermanentTexture(t, x, st)
<1>1. r \in TextureRec /\ Linked(r)
  BY RequireTextureType, RequireTextureLinked
<1> HIDE DEF r
<1>2. y \in TextureRec /\ Linked(y) /\ z \in TextureRec
  BY <1>1, TrackTextureType, TrackTextureLinked, PermanentTextureType
<1> HIDE DEF y
<1>3. z.recorded = y.recorded /\ z.pending = y.pending /\ z.state = y.state
      /\ z.tracked = y.tracked
  BY <1>2 DEF PermanentTexture, TextureRec, y, r
<1> HIDE DEF z
<1>4. Linked(z)
  BY <1>2, <1>3, LinkedSame
<1> QED
  BY <1>4 DEF z

LEMMA KeepTextureLinked ==
  ASSUME TypeOK, NEW t \in Textures, NEW x \in TextureRec, Linked(x)
  PROVE  Linked(KeepTexture(t, x))
<1>0. \A r \in Resources : InitialState[r] \in States
  OBVIOUS
<1>1. InitialState[t] \in States
  BY <1>0 DEF Resources
<1> QED
  BY <1>1, RequireTextureLinked DEF KeepTexture

\* commitBarriers moves the pending barriers behind the recorded ones.
LEMMA CommitTextureLinked ==
  ASSUME NEW x \in TextureRec
  PROVE  /\ Linked(x) => Linked(CommitTexture(x))
         /\ CommitTexture(x).tracked = x.tracked
         /\ CommitTexture(x).state = x.state
         /\ CommitTexture(x).permanent = x.permanent
         /\ CommitTexture(x).permanentTransition = x.permanentTransition
         /\ \A s \in Subresources :
              /\ CommitTexture(x).pending[s] = <<>>
              /\ CommitTexture(x).recorded[s] = x.recorded[s] \o x.pending[s]
<1> DEFINE z == CommitTexture(x)
<1>1. /\ z.tracked = x.tracked /\ z.state = x.state /\ z.permanent = x.permanent
      /\ z.permanentTransition = x.permanentTransition
      /\ \A s \in Subresources :
           z.pending[s] = <<>> /\ z.recorded[s] = x.recorded[s] \o x.pending[s]
  BY DEF CommitTexture, TextureRec
<1> HIDE DEF z
<1>2. \A s \in Subresources : z.recorded[s] \o z.pending[s] = x.recorded[s] \o x.pending[s]
  <2> SUFFICES ASSUME NEW s \in Subresources
               PROVE  z.recorded[s] \o z.pending[s] = x.recorded[s] \o x.pending[s]
    OBVIOUS
  <2> DEFINE w == x.recorded[s] \o x.pending[s]
  <2>1. x.recorded[s] \in Seq(Barrier) /\ x.pending[s] \in Seq(Barrier)
    BY DEF TextureRec
  <2>2. w \in Seq(Barrier)
    BY <2>1
  <2>3. z.recorded[s] \o z.pending[s] = w \o <<>>
    BY <1>1
  <2> HIDE DEF w
  <2>4. w \o <<>> = w
    BY <2>2
  <2> QED
    BY <2>3, <2>4 DEF w
<1>3. Linked(x) => Linked(z)
  BY <1>1, <1>2 DEF Linked
<1> QED
  BY <1>1, <1>3 DEF z

LEMMA AccessTextureLinked ==
  ASSUME NEW x \in TextureRec, Linked(x), NEW S \in SUBSET Subresources, NEW st \in States
  PROVE  Linked(AccessTexture(x, S, st))
<1> DEFINE z == AccessTexture(x, S, st)
<1>1. z \in TextureRec
  BY AccessTypes
<1>2. z.recorded = x.recorded /\ z.pending = x.pending /\ z.state = x.state
      /\ z.tracked = x.tracked
  BY DEF AccessTexture, TextureRec
<1> HIDE DEF z
<1>3. Linked(z)
  BY <1>1, <1>2, LinkedSame
<1> QED
  BY <1>3 DEF z

-----------------------------------------------------------------------------
(* The chain invariant.                                                     *)

\* What the chain needs from step to step: open() empties the command buffer
\* only, so a list that is not open must have nothing pending.
ChainInv == TypeOK /\ BarriersFollowTracker /\ CommittedUnlessOpen

\* Every action gives each texture record of each list a linked successor.
LEMMA NextLinked == ChainInv /\ [Next]_vars => BarriersFollowTracker'
<1> SUFFICES ASSUME ChainInv, [Next]_vars PROVE BarriersFollowTracker'
  OBVIOUS
<1>0. /\ TypeOK
      /\ \A st \in Usages : st \in States
      /\ tex \in [CommandLists -> [Textures -> TextureRec]]
      /\ \A c \in CommandLists, u \in Textures : tex[c][u] \in TextureRec /\ Linked(tex[c][u])
  BY DEF ChainInv, TypeOK, BarriersFollowTracker
<1>a. ASSUME \A c \in CommandLists, u \in Textures : Linked(tex'[c][u])
      PROVE  BarriersFollowTracker'
  BY <1>a DEF BarriersFollowTracker, Linked, Chain
<1>1. ASSUME NEW cl \in CommandLists, NEW t \in Textures, NEW x, Linked(x),
             tex' = [tex EXCEPT ![cl][t] = x]
      PROVE  BarriersFollowTracker'
  BY <1>0, <1>1, <1>a
<1>2. ASSUME NEW cl \in CommandLists, NEW f, \A t \in Textures : Linked(f[t]),
             tex' = [tex EXCEPT ![cl] = f]
      PROVE  BarriersFollowTracker'
  BY <1>0, <1>2, <1>a
<1>3. ASSUME tex' = tex PROVE BarriersFollowTracker'
  BY <1>0, <1>3, <1>a
<1>4. ASSUME NEW cl \in CommandLists,
             tex' = [tex EXCEPT ![cl] = [t \in Textures |-> CommitTexture(tex[cl][t])]]
      PROVE  BarriersFollowTracker'
  <2> DEFINE f == [t \in Textures |-> CommitTexture(tex[cl][t])]
  <2>1. \A t \in Textures : Linked(f[t])
    BY <1>0, CommitTextureLinked
  <2> HIDE DEF f
  <2> QED
    BY <1>2, <1>4, <2>1 DEF f
<1>5. ASSUME NEW cl \in CommandLists, TextureCall(cl) PROVE BarriersFollowTracker'
  <2>1. ASSUME NEW t \in Textures, NEW st \in Usages, SetPermanentTextureState(cl, t, st)
        PROVE  BarriersFollowTracker'
    BY <1>0, <1>1, <2>1, PermanentTextureLinked DEF SetPermanentTextureState, SetTexture
  <2>2. ASSUME NEW t \in Textures, NEW enable \in BOOLEAN,
               SetEnableUavBarriersForTexture(cl, t, enable)
        PROVE  BarriersFollowTracker'
    <3> DEFINE y == TrackTexture(t, tex[cl][t])
               z == [y EXCEPT !.enableUavBarriers = enable, !.firstUavBarrierPlaced = FALSE]
    <3>1. y \in TextureRec /\ Linked(y)
      BY <1>0, TrackTextureType, TrackTextureLinked
    <3>2. tex' = [tex EXCEPT ![cl][t] = z]
      BY <2>2 DEF SetEnableUavBarriersForTexture, SetTexture
    <3> HIDE DEF y
    <3>3. /\ z \in TextureRec /\ z.recorded = y.recorded /\ z.pending = y.pending
          /\ z.state = y.state /\ z.tracked = y.tracked
      BY <3>1 DEF TextureRec
    <3> HIDE DEF z
    <3>4. Linked(z)
      BY <3>1, <3>3, LinkedSame
    <3> QED
      BY <1>1, <3>2, <3>4
  <2>3. ASSUME NEW t \in Textures, NEW S \in SubresourceSets, NEW st \in Usages,
               SetTextureState(cl, t, S, st)
        PROVE  BarriersFollowTracker'
    <3>1. Linked(RequireTexture(t, tex[cl][t], S, st))
      BY <1>0, RequireTextureLinked DEF SubresourceSets
    <3> QED
      BY <1>1, <2>3, <3>1 DEF SetTextureState, SetTexture
  <2>4. ASSUME NEW t \in Textures, NEW S \in SubresourceSets, NEW st \in Usages,
               UseTexture(cl, t, S, st)
        PROVE  BarriersFollowTracker'
    <3> DEFINE r == RequireTexture(t, tex[cl][t], S, st)
               f == [u \in Textures |->
                      IF u = t THEN AccessTexture(CommitTexture(r), S, st)
                      ELSE CommitTexture(tex[cl][u])]
    <3>1. r \in TextureRec /\ Linked(r)
      BY <1>0, RequireTextureType, RequireTextureLinked DEF SubresourceSets
    <3>2. tex' = [tex EXCEPT ![cl] = f]
      BY <2>4 DEF UseTexture
    <3> HIDE DEF r
    <3>3. Linked(AccessTexture(CommitTexture(r), S, st))
      BY <1>0, <3>1, CommitTypes, CommitTextureLinked, AccessTextureLinked DEF SubresourceSets
    <3>4. \A u \in Textures : Linked(f[u])
      BY <1>0, <3>3, CommitTextureLinked
    <3> HIDE DEF f
    <3> QED
      BY <1>2, <3>2, <3>4
  <2>5. ASSUME NEW t \in Textures, NEW S \in SubresourceSets, NEW st \in States,
               BeginTrackingTextureState(cl, t, S, st)
        PROVE  BarriersFollowTracker'
    <3>1. \A s \in S : tex[cl][t].recorded[s] \o tex[cl][t].pending[s] = <<>>
      BY <2>5 DEF BeginTrackingTextureState
    <3>2. Linked(BeginTexture(t, tex[cl][t], S, st))
      BY <1>0, <3>1, BeginTextureLinked DEF SubresourceSets
    <3> QED
      BY <1>1, <2>5, <3>2 DEF BeginTrackingTextureState, SetTexture
  <2> QED
    BY <1>5, <2>1, <2>2, <2>3, <2>4, <2>5 DEF TextureCall
<1>6. ASSUME NEW cl \in CommandLists, BufferCall(cl) PROVE BarriersFollowTracker'
  <2>1. \/ tex' = tex
        \/ tex' = [tex EXCEPT ![cl] = [t \in Textures |-> CommitTexture(tex[cl][t])]]
    BY <1>6 DEF BufferCall, SetEnableUavBarriersForBuffer, BeginTrackingBufferState,
                SetBufferState, SetPermanentBufferState, UseBuffer, UseBufferTwice, SetBuffer
  <2> QED
    BY <1>3, <1>4, <2>1
<1>7. ASSUME NEW cl \in CommandLists, CommitBarriers(cl) PROVE BarriersFollowTracker'
  BY <1>4, <1>7 DEF CommitBarriers
<1>8. ASSUME NEW cl \in CommandLists, Open(cl) PROVE BarriersFollowTracker'
  <2> DEFINE z(t) == [tex[cl][t] EXCEPT !.recorded = EmptyTexture.recorded,
                                        !.uses = EmptyTexture.uses]
             f == [t \in Textures |-> z(t)]
  <2>1. ASSUME NEW t \in Textures PROVE Linked(z(t))
    <3>1. \A s \in Subresources : tex[cl][t].pending[s] = <<>>
      BY <1>8 DEF ChainInv, CommittedUnlessOpen, AnyPending, Open
    <3>2. z(t).pending = tex[cl][t].pending /\ z(t).recorded = EmptyTexture.recorded
      BY <1>0 DEF TextureRec
    <3> HIDE DEF z
    <3>3. \A s \in Subresources : z(t).recorded[s] \o z(t).pending[s] = <<>>
      BY <3>1, <3>2 DEF EmptyTexture
    <3> QED
      BY <3>3, EmptyLinked
  <2>2. \A t \in Textures : Linked(f[t])
    BY <2>1
  <2>3. tex' = [tex EXCEPT ![cl] = f]
    BY <1>8 DEF Open
  <2> HIDE DEF f
  <2> QED
    BY <1>2, <2>2, <2>3
<1>9. ASSUME NEW cl \in CommandLists, Close(cl) PROVE BarriersFollowTracker'
  <2> DEFINE f == [t \in Textures |-> CommitTexture(KeepTexture(t, tex[cl][t]))]
  <2>1. \A t \in Textures : Linked(f[t])
    BY <1>0, KeepTypes, KeepTextureLinked, CommitTextureLinked
  <2>2. tex' = [tex EXCEPT ![cl] = f]
    BY <1>9 DEF Close
  <2> HIDE DEF f
  <2> QED
    BY <1>2, <2>1, <2>2
<1>10. ASSUME NEW cl \in CommandLists, Execute(cl) PROVE BarriersFollowTracker'
  <2> DEFINE f == [t \in Textures |-> EmptyTexture]
  <2>1. \A t \in Textures : Linked(f[t])
    <3>1. \A s \in Subresources : EmptyTexture.recorded[s] \o EmptyTexture.pending[s] = <<>>
      BY DEF EmptyTexture
    <3> QED
      BY <3>1, EmptyLinked
  <2>2. tex' = [tex EXCEPT ![cl] = f]
    BY <1>10 DEF Execute
  <2> HIDE DEF f
  <2> QED
    BY <1>2, <2>1, <2>2
<1>11. CASE UNCHANGED vars
  BY <1>3, <1>11 DEF vars
<1> QED
  BY <1>5, <1>6, <1>7, <1>8, <1>9, <1>10, <1>11 DEF Next

\* Every action leaves the lists that are not open, and were not closed by it,
\* as they were; close() commits and execution clears.
LEMMA NextCommitted == ChainInv /\ [Next]_vars => CommittedUnlessOpen'
<1> SUFFICES ASSUME ChainInv, [Next]_vars PROVE CommittedUnlessOpen'
  OBVIOUS
<1>0. /\ tex \in [CommandLists -> [Textures -> TextureRec]]
      /\ buf \in [CommandLists -> [Buffers -> BufferRec]]
      /\ phase \in [CommandLists -> {"initial", "open", "closed"}]
      /\ \A c \in CommandLists : phase[c] # "open" =>
           /\ \A t \in Textures, s \in Subresources : tex[c][t].pending[s] = <<>>
           /\ \A b \in Buffers : buf[c][b].pending = <<>>
  BY DEF ChainInv, TypeOK, CommittedUnlessOpen, AnyPending
<1>a. ASSUME \A c \in CommandLists : phase'[c] # "open" =>
               /\ \A t \in Textures, s \in Subresources : tex'[c][t].pending[s] = <<>>
               /\ \A b \in Buffers : buf'[c][b].pending = <<>>
      PROVE  CommittedUnlessOpen'
  BY <1>a DEF CommittedUnlessOpen, AnyPending
<1>1. ASSUME NEW cl \in CommandLists, phase[cl] = "open", phase' = phase,
             \A c \in Others(cl) : tex'[c] = tex[c] /\ buf'[c] = buf[c]
      PROVE  CommittedUnlessOpen'
  BY <1>0, <1>1, <1>a DEF Others
<1>2. ASSUME NEW cl \in CommandLists, TextureCall(cl) PROVE CommittedUnlessOpen'
  <2>1. Records(cl)
    BY <1>2 DEF TextureCall, SetPermanentTextureState, SetEnableUavBarriersForTexture,
                SetTextureState, UseTexture, BeginTrackingTextureState
  <2>2. \A c \in Others(cl) : tex'[c] = tex[c] /\ buf'[c] = buf[c]
    BY <1>0, <1>2 DEF TextureCall, SetPermanentTextureState, SetEnableUavBarriersForTexture,
                SetTextureState, UseTexture, BeginTrackingTextureState, SetTexture, Others
  <2> QED
    BY <1>1, <2>1, <2>2 DEF Records
<1>3. ASSUME NEW cl \in CommandLists, BufferCall(cl) PROVE CommittedUnlessOpen'
  <2>1. Records(cl)
    BY <1>3 DEF BufferCall, SetEnableUavBarriersForBuffer, BeginTrackingBufferState,
                SetBufferState, SetPermanentBufferState, UseBuffer, UseBufferTwice
  <2>2. \A c \in Others(cl) : tex'[c] = tex[c] /\ buf'[c] = buf[c]
    BY <1>0, <1>3, ZenonT(40) DEF BufferCall, SetEnableUavBarriersForBuffer, BeginTrackingBufferState,
                SetBufferState, SetPermanentBufferState, UseBuffer, UseBufferTwice,
                SetBuffer, Others
  <2> QED
    BY <1>1, <2>1, <2>2 DEF Records
<1>4. ASSUME NEW cl \in CommandLists, CommitBarriers(cl) PROVE CommittedUnlessOpen'
  BY <1>0, <1>1, <1>4 DEF CommitBarriers, Others
<1>5. ASSUME NEW cl \in CommandLists, Open(cl) PROVE CommittedUnlessOpen'
  <2>1. phase' = [phase EXCEPT ![cl] = "open"]
    BY <1>5 DEF Open
  <2>2. \A c \in Others(cl) : tex'[c] = tex[c] /\ buf'[c] = buf[c]
    BY <1>0, <1>5 DEF Open, Others
  <2> QED
    BY <1>0, <1>a, <2>1, <2>2 DEF Others
<1>6. ASSUME NEW cl \in CommandLists, Close(cl) PROVE CommittedUnlessOpen'
  <2> DEFINE f == [t \in Textures |-> CommitTexture(KeepTexture(t, tex[cl][t]))]
             g == [b \in Buffers |-> CommitBuffer(KeepBuffer(b, buf[cl][b]))]
  <2>1. /\ \A t \in Textures : tex[cl][t] \in TextureRec
        /\ \A b \in Buffers : buf[cl][b] \in BufferRec
    BY <1>0
  <2>2. \A t \in Textures, s \in Subresources : f[t].pending[s] = <<>>
    BY <2>1, KeepTypes, CommitTextureLinked DEF ChainInv
  <2>3. \A b \in Buffers : KeepBuffer(b, buf[cl][b]) \in BufferRec
    BY <2>1, KeepTypes DEF ChainInv
  <2>4. \A x \in BufferRec : CommitBuffer(x).pending = <<>>
    BY DEF CommitBuffer, BufferRec
  <2>5. \A b \in Buffers : g[b].pending = <<>>
    BY <2>3, <2>4
  <2>6. /\ tex' = [tex EXCEPT ![cl] = f] /\ buf' = [buf EXCEPT ![cl] = g]
        /\ phase' = [phase EXCEPT ![cl] = "closed"]
    BY <1>6 DEF Close
  <2> HIDE DEF f, g
  <2> QED
    BY <1>0, <1>a, <2>2, <2>5, <2>6
<1>7. ASSUME NEW cl \in CommandLists, Execute(cl) PROVE CommittedUnlessOpen'
  <2> DEFINE f == [t \in Textures |-> EmptyTexture]
             g == [b \in Buffers |-> EmptyBuffer]
  <2>1. /\ \A t \in Textures, s \in Subresources : f[t].pending[s] = <<>>
        /\ \A b \in Buffers : g[b].pending = <<>>
    BY DEF EmptyTexture, EmptyBuffer
  <2>2. /\ tex' = [tex EXCEPT ![cl] = f] /\ buf' = [buf EXCEPT ![cl] = g]
        /\ phase' = [phase EXCEPT ![cl] = "initial"]
    BY <1>7 DEF Execute
  <2> HIDE DEF f, g
  <2> QED
    BY <1>0, <1>a, <2>1, <2>2
<1>8. CASE UNCHANGED vars
  BY <1>0, <1>8, <1>a DEF vars
<1> QED
  BY <1>2, <1>3, <1>4, <1>5, <1>6, <1>7, <1>8 DEF Next

LEMMA InitChainInv == Init => ChainInv
<1> SUFFICES ASSUME Init PROVE ChainInv
  OBVIOUS
<1>1. TypeOK
  BY InitTypeOK
<1>2. \A s \in Subresources :
        /\ EmptyTexture.pending[s] = <<>>
        /\ EmptyTexture.recorded[s] \o EmptyTexture.pending[s] = <<>>
  BY DEF EmptyTexture
<1>3. BarriersFollowTracker
  BY <1>2, EmptyLinked DEF BarriersFollowTracker, Init
<1>4. CommittedUnlessOpen
  BY <1>2 DEF CommittedUnlessOpen, AnyPending, Init, EmptyBuffer
<1> QED
  BY <1>1, <1>3, <1>4 DEF ChainInv

LEMMA ChainInvariant == Spec => []ChainInv
<1>1. ChainInv /\ [Next]_vars => ChainInv'
  BY NextTypeOK, NextLinked, NextCommitted DEF ChainInv
<1> QED
  BY <1>1, InitChainInv, PTL DEF Spec

\* In every reachable state, the barriers of each list on each subresource form
\* a chain (each leaves from where the one before it arrived) that ends in the
\* state the tracker holds.
THEOREM BarrierChains == Spec => []BarriersFollowTracker
<1>1. ChainInv => BarriersFollowTracker
  BY DEF ChainInv
<1> QED
  BY <1>1, ChainInvariant, PTL

\* A command list that is not being recorded owes no barrier.
THEOREM NothingPendingWhenClosed == Spec => []CommittedUnlessOpen
<1>1. ChainInv => CommittedUnlessOpen
  BY DEF ChainInv
<1> QED
  BY <1>1, ChainInvariant, PTL

-----------------------------------------------------------------------------
(* Textures created with keepInitialState, on a backend that initialises    *)
(* their states at creation (D3D12).                                        *)

\* The operations that leave a permanent transition alone, and where
\* setPermanentTextureState leads.
LEMMA PermanentFieldsKept ==
  ASSUME TypeOK, NEW t \in Textures, NEW x \in TextureRec
  PROVE  /\ TrackTexture(t, x).permanentTransition = x.permanentTransition
         /\ TrackTexture(t, x).permanent = x.permanent
         /\ \A S \in SUBSET Subresources, st \in States :
              /\ RequireTexture(t, x, S, st).permanentTransition = x.permanentTransition
              /\ RequireTexture(t, x, S, st).permanent = x.permanent
              /\ BeginTexture(t, x, S, st).permanentTransition = x.permanentTransition
              /\ BeginTexture(t, x, S, st).permanent = x.permanent
              /\ AccessTexture(x, S, st).permanentTransition = x.permanentTransition
              /\ AccessTexture(x, S, st).permanent = x.permanent
<1>1. /\ TrackTexture(t, x).permanentTransition = x.permanentTransition
      /\ TrackTexture(t, x).permanent = x.permanent
  BY DEF TrackTexture, TextureRec
<1>2. TrackTexture(t, x) \in TextureRec
  BY TrackTextureType
<1>3. ASSUME NEW S \in SUBSET Subresources, NEW st \in States
      PROVE  /\ RequireTexture(t, x, S, st).permanentTransition = x.permanentTransition
             /\ RequireTexture(t, x, S, st).permanent = x.permanent
             /\ BeginTexture(t, x, S, st).permanentTransition = x.permanentTransition
             /\ BeginTexture(t, x, S, st).permanent = x.permanent
             /\ AccessTexture(x, S, st).permanentTransition = x.permanentTransition
             /\ AccessTexture(x, S, st).permanent = x.permanent
  <2> DEFINE y == TrackTexture(t, x)
  <2>1. y \in TextureRec /\ y.permanentTransition = x.permanentTransition
        /\ y.permanent = x.permanent
    BY <1>1, <1>2
  <2> HIDE DEF y
  <2>2. /\ RequireTexture(t, x, S, st).permanentTransition = x.permanentTransition
        /\ RequireTexture(t, x, S, st).permanent = x.permanent
    BY <2>1 DEF RequireTexture, TextureRec, y
  <2>3. /\ BeginTexture(t, x, S, st).permanentTransition = x.permanentTransition
        /\ BeginTexture(t, x, S, st).permanent = x.permanent
    BY <2>1 DEF BeginTexture, TextureRec, y
  <2>4. /\ AccessTexture(x, S, st).permanentTransition = x.permanentTransition
        /\ AccessTexture(x, S, st).permanent = x.permanent
    BY DEF AccessTexture, TextureRec
  <2> QED
    BY <2>2, <2>3, <2>4
<1> QED
  BY <1>1, <1>3

\* a permanent transition under way has a state to reach
Marked(x) == x.permanentTransition => x.permanent # Unknown

LEMMA CommitMarked ==
  ASSUME NEW x \in TextureRec, Marked(x)
  PROVE  Marked(CommitTexture(x))
<1>1. /\ CommitTexture(x).permanent = x.permanent
      /\ CommitTexture(x).permanentTransition = x.permanentTransition
  BY CommitTextureLinked
<1> QED
  BY <1>1 DEF Marked

LEMMA PermanentTextureMarked ==
  ASSUME TypeOK, NEW t \in Textures, NEW x \in TextureRec, NEW st \in States, st # Unknown
  PROVE  Marked(PermanentTexture(t, x, st))
<1> DEFINE y == TrackTexture(t, RequireTexture(t, x, Subresources, st))
<1>1. y \in TextureRec
  BY TrackTextureType, RequireTextureType
<1> HIDE DEF y
<1>2. PermanentTexture(t, x, st).permanent # Unknown
  BY <1>1 DEF PermanentTexture, TextureRec, y
<1> QED
  BY <1>2 DEF Marked

\* A tracked texture without a permanent state or transition is returned to its
\* initialState when the list is closed.
LEMMA KeepTextureRestores ==
  ASSUME TypeOK, NEW t \in Textures \cap KeepInitialState, NEW x \in TextureRec
  PROVE  /\ KeepTexture(t, x).permanentTransition = x.permanentTransition
         /\ KeepTexture(t, x).permanent = x.permanent
         /\ (/\ KeepTexture(t, x).tracked /\ permanentState[t] = Unknown
             /\ ~x.permanentTransition)
              => \A s \in Subresources : KeepTexture(t, x).state[s] = InitialState[t]
<1>0. \A r \in Resources : InitialState[r] \in States
  OBVIOUS
<1>1. InitialState[t] \in States /\ Subresources \in SUBSET Subresources
  BY <1>0 DEF Resources
<1>2. /\ KeepTexture(t, x).permanentTransition = x.permanentTransition
      /\ KeepTexture(t, x).permanent = x.permanent
  BY <1>1, PermanentFieldsKept DEF KeepTexture
<1>3. ASSUME permanentState[t] = Unknown
      PROVE  \A s \in Subresources :
               RequireTexture(t, x, Subresources, InitialState[t]).state[s] = InitialState[t]
  <2> DEFINE y == TrackTexture(t, x)
  <2>1. y \in TextureRec
    BY TrackTextureType
  <2> HIDE DEF y
  <2> QED
    BY <1>3, <2>1 DEF RequireTexture, TextureRec, y
<1> QED
  BY <1>2, <1>3 DEF KeepTexture

\* KeptTextureInv and the chain invariant are inductive together: the chain
\* links the last recorded barrier to the tracked state, KeptTextureInv the
\* tracked state of a closed list to initialState.
KeptInv == ChainInv /\ KeptTextureInv

LEMMA NextKept == KeptInv /\ [Next]_vars => KeptTextureInv'
<1> SUFFICES ASSUME KeptInv, [Next]_vars PROVE KeptTextureInv'
  OBVIOUS
<1> DEFINE K == Textures \cap KeepInitialState
<1>0. /\ TypeOK /\ ChainInv /\ KeptTextureInv
      /\ tex \in [CommandLists -> [Textures -> TextureRec]]
      /\ phase \in [CommandLists -> {"initial", "open", "closed"}]
      /\ \A st \in Usages : st \in States /\ st # Unknown
      /\ \A c \in CommandLists, t \in K : tex[c][t] \in TextureRec /\ Marked(tex[c][t])
      /\ \A S \in SubresourceSets : S \in SUBSET Subresources
  BY DEF KeptInv, ChainInv, TypeOK, KeptTextureInv, Marked, SubresourceSets
\* a call on an open list needs only its own transitions checked
<1>1. ASSUME NEW cl \in CommandLists, phase[cl] = "open",
             UNCHANGED <<permanentState, stateInitialized, phase, gpuTex>>,
             \A c \in Others(cl) : tex'[c] = tex[c],
             \A t \in K : Marked(tex'[cl][t])
      PROVE  KeptTextureInv'
  BY <1>0, <1>1 DEF KeptTextureInv, Others, Marked
<1>2. ASSUME NEW cl \in CommandLists, Records(cl), NEW t \in Textures, NEW x,
             tex' = [tex EXCEPT ![cl][t] = x], t \in K => Marked(x)
      PROVE  KeptTextureInv'
  <2>1. \A u \in K : Marked(tex'[cl][u])
    BY <1>0, <1>2
  <2>2. \A c \in Others(cl) : tex'[c] = tex[c]
    BY <1>0, <1>2 DEF Others
  <2> QED
    BY <1>1, <1>2, <2>1, <2>2 DEF Records
<1>3. ASSUME NEW cl \in CommandLists, phase[cl] = "open",
             UNCHANGED <<permanentState, stateInitialized, phase, gpuTex>>,
             \/ tex' = tex
             \/ tex' = [tex EXCEPT ![cl] = [t \in Textures |-> CommitTexture(tex[cl][t])]]
      PROVE  KeptTextureInv'
  <2>1. \A u \in K : Marked(tex'[cl][u])
    <3>1. \A u \in K : Marked(CommitTexture(tex[cl][u]))
      BY <1>0, CommitMarked
    <3> QED
      BY <1>0, <1>3, <3>1
  <2>2. \A c \in Others(cl) : tex'[c] = tex[c]
    BY <1>0, <1>3 DEF Others
  <2> QED
    BY <1>1, <1>3, <2>1, <2>2
<1>4. ASSUME NEW cl \in CommandLists, TextureCall(cl) PROVE KeptTextureInv'
  <2>1. ASSUME NEW t \in Textures, NEW st \in Usages, SetPermanentTextureState(cl, t, st)
        PROVE  KeptTextureInv'
    <3>1. t \in K => Marked(PermanentTexture(t, tex[cl][t], st))
      BY <1>0, PermanentTextureMarked
    <3> QED
      BY <1>2, <2>1, <3>1 DEF SetPermanentTextureState, SetTexture
  <2>2. ASSUME NEW t \in Textures, NEW enable \in BOOLEAN,
               SetEnableUavBarriersForTexture(cl, t, enable)
        PROVE  KeptTextureInv'
    <3> DEFINE y == TrackTexture(t, tex[cl][t])
               z == [y EXCEPT !.enableUavBarriers = enable, !.firstUavBarrierPlaced = FALSE]
    <3>1. tex' = [tex EXCEPT ![cl][t] = z] /\ Records(cl)
      BY <2>2 DEF SetEnableUavBarriersForTexture, SetTexture
    <3>2. y \in TextureRec /\ y.permanentTransition = tex[cl][t].permanentTransition
          /\ y.permanent = tex[cl][t].permanent
      BY <1>0, TrackTextureType, PermanentFieldsKept
    <3> HIDE DEF y
    <3>3. t \in K => Marked(z)
      BY <1>0, <3>2 DEF Marked, TextureRec
    <3> HIDE DEF z
    <3> QED
      BY <1>2, <3>1, <3>3
  <2>3. ASSUME NEW t \in Textures, NEW S \in SubresourceSets, NEW st \in Usages,
               SetTextureState(cl, t, S, st)
        PROVE  KeptTextureInv'
    <3>1. t \in K => Marked(RequireTexture(t, tex[cl][t], S, st))
      BY <1>0, PermanentFieldsKept DEF Marked
    <3> QED
      BY <1>2, <2>3, <3>1 DEF SetTextureState, SetTexture
  <2>4. ASSUME NEW t \in Textures, NEW S \in SubresourceSets, NEW st \in Usages,
               UseTexture(cl, t, S, st)
        PROVE  KeptTextureInv'
    <3> DEFINE r == RequireTexture(t, tex[cl][t], S, st)
               f == [u \in Textures |->
                      IF u = t THEN AccessTexture(CommitTexture(r), S, st)
                      ELSE CommitTexture(tex[cl][u])]
    <3>1. tex' = [tex EXCEPT ![cl] = f] /\ Records(cl)
      BY <2>4 DEF UseTexture
    <3>2. r \in TextureRec /\ (t \in K => Marked(r))
      BY <1>0, RequireTextureType, PermanentFieldsKept DEF Marked
    <3> HIDE DEF r
    <3>3. t \in K => Marked(AccessTexture(CommitTexture(r), S, st))
      <4> DEFINE y == CommitTexture(r)
      <4>1. y \in TextureRec /\ (t \in K => Marked(y))
        BY <3>2, CommitTypes, CommitMarked
      <4> HIDE DEF y
      <4>2. t \in K => Marked(AccessTexture(y, S, st))
        BY <1>0, <4>1, PermanentFieldsKept DEF Marked
      <4> QED
        BY <4>2 DEF y
    <3>4. \A u \in K : Marked(f[u])
      BY <1>0, <3>3, CommitMarked
    <3> HIDE DEF f
    <3>5. /\ \A u \in K : Marked(tex'[cl][u])
          /\ \A c \in Others(cl) : tex'[c] = tex[c]
      BY <1>0, <3>1, <3>4 DEF Others
    <3> QED
      BY <1>1, <3>1, <3>5 DEF Records
  <2>5. ASSUME NEW t \in Textures, NEW S \in SubresourceSets, NEW st \in States,
               BeginTrackingTextureState(cl, t, S, st)
        PROVE  KeptTextureInv'
    <3>1. t \in K => Marked(BeginTexture(t, tex[cl][t], S, st))
      BY <1>0, PermanentFieldsKept DEF Marked
    <3> QED
      BY <1>2, <2>5, <3>1 DEF BeginTrackingTextureState, SetTexture
  <2> QED
    BY <1>4, <2>1, <2>2, <2>3, <2>4, <2>5 DEF TextureCall
<1>5. ASSUME NEW cl \in CommandLists, BufferCall(cl) PROVE KeptTextureInv'
  <2>1. \/ tex' = tex
        \/ tex' = [tex EXCEPT ![cl] = [t \in Textures |-> CommitTexture(tex[cl][t])]]
    BY <1>5 DEF BufferCall, SetEnableUavBarriersForBuffer, BeginTrackingBufferState,
                SetBufferState, SetPermanentBufferState, UseBuffer, UseBufferTwice, SetBuffer
  <2>2. Records(cl)
    BY <1>5 DEF BufferCall, SetEnableUavBarriersForBuffer, BeginTrackingBufferState,
                SetBufferState, SetPermanentBufferState, UseBuffer, UseBufferTwice
  <2> QED
    BY <1>3, <2>1, <2>2 DEF Records
<1>6. ASSUME NEW cl \in CommandLists, CommitBarriers(cl) PROVE KeptTextureInv'
  BY <1>3, <1>6 DEF CommitBarriers
<1>7. ASSUME NEW cl \in CommandLists, Open(cl) PROVE KeptTextureInv'
  <2> DEFINE z(t) == [tex[cl][t] EXCEPT !.recorded = EmptyTexture.recorded,
                                        !.uses = EmptyTexture.uses]
             f == [t \in Textures |-> z(t)]
  <2>1. ASSUME NEW t \in K PROVE Marked(f[t])
    <3> DEFINE x == tex[cl][t]
    <3>1. x \in TextureRec /\ Marked(x) /\ t \in Textures
      BY <1>0
    <3>2. f[t] = [x EXCEPT !.recorded = EmptyTexture.recorded,
                           !.uses = EmptyTexture.uses]
      BY <3>1
    <3> HIDE DEF f, x
    <3>3. /\ f[t].permanentTransition = x.permanentTransition
          /\ f[t].permanent = x.permanent
      BY <3>1, <3>2 DEF TextureRec
    <3> QED
      BY <3>1, <3>3 DEF Marked
  <2>2. tex' = [tex EXCEPT ![cl] = f] /\ phase' = [phase EXCEPT ![cl] = "open"]
        /\ UNCHANGED <<permanentState, stateInitialized, gpuTex>>
    BY <1>7 DEF Open
  <2> HIDE DEF f
  <2> QED
    BY <1>0, <2>1, <2>2 DEF KeptTextureInv, Marked
<1>8. ASSUME NEW cl \in CommandLists, Close(cl) PROVE KeptTextureInv'
  <2> DEFINE f == [t \in Textures |-> CommitTexture(KeepTexture(t, tex[cl][t]))]
  <2>1. ASSUME NEW t \in K
        PROVE  /\ Marked(f[t])
               /\ (permanentState[t] = Unknown /\ f[t].tracked /\ f[t].permanent = Unknown)
                    => \A s \in Subresources : f[t].state[s] = InitialState[t]
    <3> DEFINE y == KeepTexture(t, tex[cl][t])
    <3>1. y \in TextureRec
      BY <1>0, KeepTypes
    <3>2. /\ Marked(y)
          /\ (permanentState[t] = Unknown /\ y.tracked /\ y.permanent = Unknown)
               => \A s \in Subresources : y.state[s] = InitialState[t]
      BY <1>0, KeepTextureRestores DEF Marked
    <3> HIDE DEF y
    <3>3. f[t] = CommitTexture(y)
      BY DEF y
    <3> HIDE DEF f
    <3>4. Marked(f[t])
      BY <3>1, <3>2, <3>3, CommitMarked
    <3>5. /\ f[t].state = y.state /\ f[t].tracked = y.tracked
          /\ f[t].permanent = y.permanent
      BY <3>1, <3>3 DEF CommitTexture, TextureRec
    <3> QED
      BY <3>2, <3>4, <3>5
  <2>2. tex' = [tex EXCEPT ![cl] = f] /\ phase' = [phase EXCEPT ![cl] = "closed"]
        /\ UNCHANGED <<permanentState, stateInitialized, gpuTex>>
    BY <1>8 DEF Close
  <2> HIDE DEF f
  <2> QED
    BY <1>0, <2>1, <2>2 DEF KeptTextureInv, Marked
<1>9. ASSUME NEW cl \in CommandLists, Execute(cl) PROVE KeptTextureInv'
  <2> DEFINE f == [t \in Textures |-> EmptyTexture]
  <2>1. /\ phase[cl] = "closed"
        /\ tex' = [tex EXCEPT ![cl] = f] /\ phase' = [phase EXCEPT ![cl] = "initial"]
        /\ gpuTex' = [t \in Textures |-> [s \in Subresources |->
                         AfterBarriers(tex[cl][t].recorded[s], gpuTex[t][s])]]
    BY <1>9 DEF Execute
  <2>2. ASSUME NEW t \in K
        PROVE  /\ stateInitialized'[t]
               /\ permanentState'[t] = Unknown
                    => permanentState[t] = Unknown /\ tex[cl][t].permanent = Unknown
    <3>1. stateInitialized'[t]
      BY <1>0, <1>9 DEF Execute, KeptTextureInv
    <3> QED
      BY <1>0, <1>9, <3>1 DEF Execute, NewPermanent, DeferredPermanent, Resources
  <2>3. ASSUME NEW t \in K, permanentState'[t] = Unknown, NEW s \in Subresources
        PROVE  gpuTex'[t][s] = InitialState[t]
    <3> DEFINE x == tex[cl][t]
               rec == x.recorded[s]
    <3>1. permanentState[t] = Unknown /\ x.permanent = Unknown
      BY <2>2, <2>3
    <3>2. gpuTex[t][s] = InitialState[t]
      BY <1>0, <3>1 DEF KeptTextureInv
    <3>3. rec \in Seq(Barrier) /\ x.pending[s] = <<>>
      <4>1. x.pending[s] = <<>>
        BY <1>0, <2>1 DEF ChainInv, CommittedUnlessOpen, AnyPending
      <4>2. x \in TextureRec
        BY <1>0
      <4> QED
        BY <4>1, <4>2 DEF TextureRec
    <3>4. rec \o x.pending[s] = rec
      <4> HIDE DEF rec
      <4> QED
        BY <3>3
    <3>5. rec # <<>> => x.tracked /\ rec[Len(rec)].after = x.state[s]
      <4>1. Linked(x)
        BY <1>0 DEF ChainInv, BarriersFollowTracker
      <4> HIDE DEF x
      <4>2. LET seq == x.recorded[s] \o x.pending[s]
            IN  seq # <<>> => x.tracked /\ seq[Len(seq)].after = x.state[s]
        BY <4>1 DEF Linked
      <4> QED
        BY <3>4, <4>2
    <3>6. x.tracked => x.state[s] = InitialState[t]
      BY <1>0, <2>1, <3>1 DEF KeptTextureInv
    <3>7. gpuTex'[t][s] = AfterBarriers(rec, gpuTex[t][s])
      BY <2>1
    <3> HIDE DEF x, rec
    <3> QED
      BY <3>2, <3>5, <3>6, <3>7 DEF AfterBarriers
  <2>4. \A t \in K : Marked(EmptyTexture)
    BY DEF Marked, EmptyTexture
  <2>5. \A c \in CommandLists, t \in K :
          /\ Marked(tex'[c][t])
          /\ (phase'[c] = "closed" /\ permanentState'[t] = Unknown
              /\ tex'[c][t].tracked /\ tex'[c][t].permanent = Unknown)
               => \A s \in Subresources : tex'[c][t].state[s] = InitialState[t]
    <3> HIDE DEF f
    <3>1. \A t \in K : Marked(f[t])
      BY <2>4 DEF f
    <3> QED
      BY <1>0, <2>1, <2>2, <3>1 DEF KeptTextureInv, Marked
  <2> QED
    BY <2>2, <2>3, <2>5 DEF KeptTextureInv, Marked
<1>10. CASE UNCHANGED vars
  BY <1>0, <1>10 DEF vars, KeptTextureInv
<1> QED
  BY <1>4, <1>5, <1>6, <1>7, <1>8, <1>9, <1>10 DEF Next

\* Where textures start out in their initialState, a keepInitialState texture
\* without a permanent state is in its initialState whenever no command list is
\* executing, whatever lists were recorded and in whatever order they ran.
THEOREM KeptTexturesReturn ==
  ASSUME InitializedTextures = Textures
  PROVE  Spec => []KeptTexturesInInitialState
<1>1. Init => KeptInv
  <2> SUFFICES ASSUME Init PROVE KeptInv
    OBVIOUS
  <2>1. \A t \in Textures :
          /\ stateInitialized[t]
          /\ \A s \in Subresources : gpuTex[t][s] = InitialState[t]
    BY DEF Init
  <2>2. \A cl \in CommandLists, t \in Textures :
          /\ phase[cl] # "closed" /\ ~tex[cl][t].permanentTransition
    BY DEF Init, EmptyTexture
  <2> QED
    BY InitChainInv, <2>1, <2>2 DEF KeptInv, KeptTextureInv
<1>2. KeptInv /\ [Next]_vars => KeptInv'
  BY NextTypeOK, NextLinked, NextCommitted, NextKept DEF KeptInv, ChainInv
<1>3. KeptInv => KeptTexturesInInitialState
  BY DEF KeptInv, KeptTextureInv, KeptTexturesInInitialState
<1> QED
  BY <1>1, <1>2, <1>3, PTL DEF Spec

-----------------------------------------------------------------------------
(* The inductive invariant.  Textures and buffers are alike but for the     *)
(* subresources: what a list holds on one subresource or on one buffer is   *)
(* a state, a sequence of barriers and a sequence of accesses.              *)

\* the barriers lead from the state on the GPU to the one the tracker believes in;
\* without any, these are the same or the tracker knows none
Leads(seq, state, gpu) ==
    IF seq = <<>> THEN state \in {Unknown, gpu}
    ELSE /\ seq[1].before = gpu
         /\ state # Unknown /\ seq[Len(seq)].after = state

\* the state before the first barrier, as EntryState of a resource tracked or
\* permanent
Entry(seq, state, perm) ==
    IF seq # <<>> THEN seq[1].before ELSE IF perm # Unknown THEN perm ELSE state

\* each access finds its bits after the barriers recorded before it
Covered(uses, n, seq, entry) ==
    \A i \in DOMAIN uses : /\ uses[i].at \in 0..n
                           /\ uses[i].state \subseteq StateAt(seq, uses[i].at, entry)

GoodHistory(recorded, pending, uses, state, gpu, perm) ==
    LET seq == recorded \o pending
    IN  Leads(seq, state, gpu) /\ Covered(uses, Len(recorded), seq, Entry(seq, state, perm))

\* what holds of the record of any list on texture t
GoodTexture(t, x) ==
    /\ x.tracked => t \in app.resources /\ permanentState[t] = Unknown
    /\ ~x.tracked => x.permanent = Unknown /\ \A s \in Subresources : x.state[s] = Unknown
    /\ x.tracked /\ t \in KeepInitialState => \A s \in Subresources : x.state[s] # Unknown
    /\ x.permanentTransition <=> x.permanent # Unknown
    /\ x.permanent # Unknown => /\ "permanent" \in app.calls
                                /\ \A s \in Subresources : x.state[s] = x.permanent
    /\ \A s \in Subresources :
         GoodHistory(x.recorded[s], x.pending[s], x.uses[s], x.state[s],
                     gpuTex[t][s], permanentState[t])

\* the same of buffer b
SoundBuffer(b, x) ==
    /\ x.tracked => b \in app.resources /\ permanentState[b] = Unknown
    /\ ~x.tracked => x.permanent = Unknown /\ x.state = Unknown
    /\ x.tracked /\ b \in KeepInitialState => x.state # Unknown
    /\ x.permanent # Unknown => "permanent" \in app.calls /\ x.state = x.permanent
    /\ ~x.permanentTransition
    /\ GoodHistory(x.recorded, x.pending, x.uses, x.state, gpuBuf[b], permanentState[b])

\* between calls at most one barrier on a buffer is pending
GoodBuffer(b, x) ==
    /\ SoundBuffer(b, x)
    /\ x.pending # <<>> => /\ Len(x.pending) = 1
                           /\ "setState" \in app.calls \/ x.permanent # Unknown

\* Two lists may hold records x and y of the same texture or buffer: a permanent
\* transition excludes other users, a state declared with beginTracking... or a
\* texture that nobody has used excludes others that know a state.
KnownTexture(x) == \E s \in Subresources : x.state[s] # Unknown

ApartTexture(t, x, y) ==
    /\ x.permanent # Unknown => ~y.tracked
    /\ t \notin KeepInitialState /\ KnownTexture(x) => ~KnownTexture(y)
    /\ t \in KeepInitialState /\ ~stateInitialized[t] /\ x.tracked => ~y.tracked

ApartBuffer(b, x, y) ==
    /\ x.permanent # Unknown => ~y.tracked
    /\ b \notin KeepInitialState /\ x.state # Unknown => y.state = Unknown

\* what a keepInitialState resource is in between lists, and what a closed list
\* leaves it in unless it makes it permanent
AtRest(t) == IF stateInitialized[t] THEN InitialState[t] ELSE {Common}

KeptTextures == \A t \in Textures \cap KeepInitialState :
    /\ permanentState[t] = Unknown => \A s \in Subresources : gpuTex[t][s] = AtRest(t)
    /\ \A cl \in CommandLists :
         phase[cl] = "closed" /\ tex[cl][t].tracked /\ tex[cl][t].permanent = Unknown
           => \A s \in Subresources : tex[cl][t].state[s] = InitialState[t]

Tracked == Buffers \ UntrackedBuffers

KeptBuffers == \A b \in Tracked \cap KeepInitialState :
    /\ permanentState[b] = Unknown => gpuBuf[b] = InitialState[b]
    /\ \A cl \in CommandLists :
         phase[cl] = "closed" /\ buf[cl][b].tracked => buf[cl][b].state = InitialState[b]

\* a permanent state is on the GPU
PermanentTextures == \A t \in Textures : permanentState[t] # Unknown =>
    /\ "permanent" \in app.calls
    /\ \A s \in Subresources : gpuTex[t][s] = permanentState[t]

PermanentBuffers == \A b \in Tracked : permanentState[b] # Unknown =>
    /\ "permanent" \in app.calls
    /\ gpuBuf[b] = permanentState[b]

\* no barriers are placed on the buffers that are not tracked
UntrackedIdle == \A b \in UntrackedBuffers :
    /\ gpuBuf[b] = InitialState[b]
    /\ \A cl \in CommandLists : buf[cl][b].recorded = <<>> /\ buf[cl][b].pending = <<>>

FreshInv == \A cl \in CommandLists : phase[cl] = "initial" =>
    /\ \A t \in Textures : tex[cl][t] = EmptyTexture
    /\ \A b \in Buffers : buf[cl][b] = EmptyBuffer

TextureInv ==
    /\ \A t \in InitializedTextures : stateInitialized[t]
    /\ \A cl \in CommandLists, t \in Textures : GoodTexture(t, tex[cl][t])
    /\ \A t \in Textures, cl \in CommandLists : \A c \in Others(cl) :
         ApartTexture(t, tex[cl][t], tex[c][t])
    /\ KeptTextures /\ PermanentTextures

BufferInv ==
    /\ \A cl \in CommandLists, b \in Tracked : GoodBuffer(b, buf[cl][b])
    /\ \A b \in Tracked, cl \in CommandLists : \A c \in Others(cl) :
         ApartBuffer(b, buf[cl][b], buf[c][b])
    /\ KeptBuffers /\ PermanentBuffers /\ UntrackedIdle

StateInv == ChainInv /\ Disciplined(app) /\ FreshInv /\ TextureInv /\ BufferInv

-----------------------------------------------------------------------------
(* Sequences of barriers and of accesses.                                   *)

LEMMA AppendFacts ==
  ASSUME NEW T, NEW p \in Seq(T), NEW b \in T
  PROVE  /\ Append(p, b) # <<>> /\ Len(Append(p, b)) = Len(p) + 1
         /\ Append(p, b)[Len(p) + 1] = b
         /\ \A i \in 1..Len(p) : Append(p, b)[i] = p[i]
         /\ p = <<>> => Append(p, b)[1] = b
         /\ p # <<>> => Append(p, b)[1] = p[1]
         /\ p # <<>> <=> Len(p) \in Nat \ {0}
  OBVIOUS

\* One more barrier, from the state believed in, leads one further.
LEMMA LeadsAppend ==
  ASSUME NEW p \in Seq(Barrier), NEW state \in States, NEW st \in States, NEW gpu,
         Leads(p, state, gpu), state # Unknown, st # Unknown
  PROVE  Leads(Append(p, [before |-> state, after |-> st]), st, gpu)
<1> DEFINE b == [before |-> state, after |-> st]
           q == Append(p, b)
<1>1. b \in Barrier /\ b.before = state /\ b.after = st
  BY DEF Barrier
<1> HIDE DEF b
<1>2. /\ q # <<>> /\ q[Len(q)] = b
      /\ p = <<>> => q[1] = b
      /\ p # <<>> => q[1] = p[1]
  BY <1>1, AppendFacts
<1> HIDE DEF q
<1> QED
  BY <1>1, <1>2 DEF Leads, q, b

\* The accesses so far find what they found before.
LEMMA CoveredAppend ==
  ASSUME NEW p \in Seq(Barrier), NEW b \in Barrier, NEW st, NEW uses \in Seq(Use),
         NEW n \in 0..Len(p), NEW state, b.before = state,
         Covered(uses, n, p, Entry(p, state, Unknown))
  PROVE  Covered(uses, n, Append(p, b), Entry(Append(p, b), st, Unknown))
<1> DEFINE q == Append(p, b)
<1>1. /\ q # <<>> /\ Len(p) \in Nat
      /\ \A i \in 1..Len(p) : q[i] = p[i]
      /\ p = <<>> => q[1] = b
      /\ p # <<>> => q[1] = p[1]
  BY AppendFacts
<1> HIDE DEF q
<1>2. Entry(p, state, Unknown) = Entry(q, st, Unknown)
  BY <1>1 DEF Entry
<1>3. \A k \in 0..n : StateAt(p, k, Entry(p, state, Unknown)) = StateAt(q, k, Entry(q, st, Unknown))
  BY <1>1, <1>2 DEF StateAt
<1> QED
  BY <1>3 DEF Covered, q

\* A new access after all the barriers, in a state it finds there.
LEMMA CoveredAccess ==
  ASSUME NEW seq \in Seq(Barrier), NEW uses \in Seq(Use), NEW st \in States, NEW entry,
         Covered(uses, Len(seq), seq, entry),
         st \subseteq StateAt(seq, Len(seq), entry)
  PROVE  Covered(Append(uses, [at |-> Len(seq), state |-> st]), Len(seq), seq, entry)
<1> DEFINE u == [at |-> Len(seq), state |-> st]
           more == Append(uses, u)
<1>1. u \in Use /\ u.at = Len(seq) /\ u.state = st /\ Len(seq) \in Nat
  BY DEF Use
<1> HIDE DEF u
<1>2. /\ DOMAIN more = 1..(Len(uses) + 1) /\ DOMAIN uses = 1..Len(uses)
      /\ more[Len(uses) + 1] = u
      /\ \A i \in 1..Len(uses) : more[i] = uses[i]
  BY <1>1
<1> HIDE DEF more
<1> SUFFICES ASSUME NEW i \in DOMAIN more
             PROVE  /\ more[i].at \in 0..Len(seq)
                    /\ more[i].state \subseteq StateAt(seq, more[i].at, entry)
  BY DEF Covered, more, u
<1>3. CASE i = Len(uses) + 1
  BY <1>1, <1>2, <1>3
<1>4. CASE i # Len(uses) + 1
  <2>1. i \in DOMAIN uses /\ more[i] = uses[i]
    BY <1>2, <1>4
  <2> QED
    BY <2>1 DEF Covered
<1> QED
  BY <1>3, <1>4

LEMMA CoveredLonger ==
  ASSUME NEW uses, NEW n \in Nat, NEW m \in Nat, n <= m, NEW seq, NEW entry,
         Covered(uses, n, seq, entry)
  PROVE  Covered(uses, m, seq, entry)
  BY DEF Covered

\* What the last barrier or, without any, the entry leaves.
LEMMA LeadsTo ==
  ASSUME NEW seq \in Seq(Barrier), NEW state, NEW gpu, Leads(seq, state, gpu)
  PROVE  StateAt(seq, Len(seq), Entry(seq, state, Unknown)) = state
<1>1. seq = <<>> <=> Len(seq) = 0
  OBVIOUS
<1> QED
  BY <1>1 DEF Leads, StateAt, Entry

-----------------------------------------------------------------------------
(* What the operations make of the history of a subresource or buffer.      *)

LEMMA ConcatFacts ==
  ASSUME NEW rec \in Seq(Barrier), NEW pend \in Seq(Barrier)
  PROVE  /\ rec \o pend \in Seq(Barrier) /\ Len(rec \o pend) = Len(rec) + Len(pend)
         /\ Len(rec) \in 0..Len(rec \o pend) /\ Len(rec) \in Nat /\ Len(rec \o pend) \in Nat
         /\ \A b \in Barrier : rec \o Append(pend, b) = Append(rec \o pend, b)
         /\ (rec \o pend) \o <<>> = rec \o pend
         /\ rec \o <<>> = rec
         /\ rec \o pend = <<>> => rec = <<>> /\ pend = <<>>
  OBVIOUS

LEMMA HistoryAppend ==
  ASSUME NEW rec \in Seq(Barrier), NEW pend \in Seq(Barrier), NEW uses \in Seq(Use),
         NEW state \in States, NEW st \in States, NEW gpu,
         GoodHistory(rec, pend, uses, state, gpu, Unknown), state # Unknown, st # Unknown
  PROVE  GoodHistory(rec, Append(pend, [before |-> state, after |-> st]), uses, st, gpu, Unknown)
<1> DEFINE b == [before |-> state, after |-> st]
           seq == rec \o pend
<1>1. b \in Barrier /\ b.before = state
  BY DEF Barrier
<1>2. seq \in Seq(Barrier) /\ rec \o Append(pend, b) = Append(seq, b) /\ Len(rec) \in 0..Len(seq)
  BY <1>1, ConcatFacts
<1>3. Leads(seq, state, gpu) /\ Covered(uses, Len(rec), seq, Entry(seq, state, Unknown))
  BY DEF GoodHistory
<1> HIDE DEF seq
<1>4. Leads(Append(seq, b), st, gpu)
  BY <1>2, <1>3, LeadsAppend
<1> HIDE DEF b
<1>5. Covered(uses, Len(rec), Append(seq, b), Entry(Append(seq, b), st, Unknown))
  BY <1>1, <1>2, <1>3, CoveredAppend
<1> QED
  BY <1>2, <1>4, <1>5 DEF GoodHistory, b

LEMMA HistoryCommit ==
  ASSUME NEW rec \in Seq(Barrier), NEW pend \in Seq(Barrier), NEW uses, NEW state, NEW gpu,
         NEW perm, GoodHistory(rec, pend, uses, state, gpu, perm)
  PROVE  GoodHistory(rec \o pend, <<>>, uses, state, gpu, perm)
<1> DEFINE seq == rec \o pend
<1>1. /\ seq \o <<>> = seq /\ Len(rec) \in Nat /\ Len(seq) \in Nat /\ Len(rec) <= Len(seq)
  BY ConcatFacts
<1>2. Leads(seq, state, gpu) /\ Covered(uses, Len(rec), seq, Entry(seq, state, perm))
  BY DEF GoodHistory
<1> HIDE DEF seq
<1>3. Covered(uses, Len(seq), seq, Entry(seq, state, perm))
  BY <1>1, <1>2, CoveredLonger
<1> QED
  BY <1>1, <1>2, <1>3 DEF GoodHistory, seq

\* an access after commitBarriers, in the state tracked or in part of the permanent one
LEMMA HistoryAccess ==
  ASSUME NEW rec \in Seq(Barrier), NEW uses \in Seq(Use), NEW state, NEW gpu, NEW perm,
         NEW st \in States, GoodHistory(rec, <<>>, uses, state, gpu, perm),
         IF perm = Unknown THEN st \subseteq state ELSE rec = <<>> /\ st \subseteq perm
  PROVE  GoodHistory(rec, <<>>, Append(uses, [at |-> Len(rec), state |-> st]), state, gpu, perm)
<1>1. rec \o <<>> = rec
  BY ConcatFacts
<1>2. Leads(rec, state, gpu) /\ Covered(uses, Len(rec), rec, Entry(rec, state, perm))
  BY <1>1 DEF GoodHistory
<1>3. st \subseteq StateAt(rec, Len(rec), Entry(rec, state, perm))
  <2>1. CASE perm = Unknown
    BY <1>2, <2>1, LeadsTo
  <2>2. CASE perm # Unknown
    BY <2>2 DEF StateAt, Entry
  <2> QED
    BY <2>1, <2>2
<1>4. Covered(Append(uses, [at |-> Len(rec), state |-> st]), Len(rec), rec, Entry(rec, state, perm))
  BY <1>2, <1>3, CoveredAccess
<1> QED
  BY <1>1, <1>2, <1>4 DEF GoodHistory

\* before any barrier the state may become known, as the one on the GPU
LEMMA HistoryKnown ==
  ASSUME NEW rec \in Seq(Barrier), NEW pend \in Seq(Barrier), NEW uses \in Seq(Use),
         NEW state, NEW gpu,
         GoodHistory(rec, pend, uses, state, gpu, Unknown), rec \o pend = <<>>
  PROVE  GoodHistory(rec, pend, uses, gpu, gpu, Unknown)
<1>1. rec = <<>> /\ pend = <<>>
  BY ConcatFacts
<1>2. state \subseteq gpu
  BY DEF GoodHistory, Leads, Unknown
<1>3. \A k \in 0..Len(rec) : StateAt(<<>>, k, state) = state /\ StateAt(<<>>, k, gpu) = gpu
  BY <1>1 DEF StateAt
<1>4. Entry(<<>>, state, Unknown) = state /\ Entry(<<>>, gpu, Unknown) = gpu
  BY DEF Entry
<1>5. Covered(uses, Len(rec), <<>>, state) => Covered(uses, Len(rec), <<>>, gpu)
  BY <1>2, <1>3 DEF Covered
<1> QED
  BY <1>4, <1>5 DEF GoodHistory, Leads

\* an empty command buffer, of a list that knows nothing or what is on the GPU
LEMMA HistoryEmpty ==
  ASSUME NEW state, NEW gpu, NEW perm, state \in {Unknown, gpu}
  PROVE  GoodHistory(<<>>, <<>>, <<>>, state, gpu, perm)
  BY DEF GoodHistory, Leads, Covered

\* whoever knows no state is not concerned by what other lists do
LEMMA HistoryUnknown ==
  ASSUME NEW rec \in Seq(Barrier), NEW pend \in Seq(Barrier), NEW uses \in Seq(Use),
         NEW gpu, NEW gpu2, NEW perm,
         GoodHistory(rec, pend, uses, Unknown, gpu, Unknown)
  PROVE  GoodHistory(rec, pend, uses, Unknown, gpu2, perm)
<1>1. rec \o pend = <<>>
  BY DEF GoodHistory, Leads
<1>2. rec = <<>>
  BY <1>1, ConcatFacts
<1>3. \A e : \A k \in 0..Len(rec) : StateAt(<<>>, k, e) = e
  BY <1>2 DEF StateAt
<1>4. \A i \in DOMAIN uses : uses[i].at \in 0..Len(rec) /\ uses[i].state \subseteq {}
  BY <1>1, <1>3 DEF GoodHistory, Covered, Entry, Unknown
<1>5. Covered(uses, Len(rec), <<>>, Entry(<<>>, Unknown, perm))
  BY <1>3, <1>4 DEF Covered
<1> QED
  BY <1>1, <1>5 DEF GoodHistory, Leads

-----------------------------------------------------------------------------
(* GoodTexture, operation by operation.                                     *)

\* the facts about a texture that the operations rely on
Settled(t) ==
    /\ t \in app.resources
    /\ permanentState[t] = Unknown
    /\ t \in KeepInitialState => \A s \in Subresources : gpuTex[t][s] = AtRest(t)

LEMMA StatesKnown ==
  /\ Unknown \in States /\ {Common} \in States /\ {Common} # Unknown
  /\ \A r \in Resources : InitialState[r] \in States /\ InitialState[r] # Unknown
  /\ \A st \in Usages : st \in States /\ st # Unknown
  BY DEF States, Unknown

LEMMA TrackTextureFields ==
  ASSUME TypeOK, NEW t \in Textures, NEW x \in TextureRec
  PROVE  LET y == TrackTexture(t, x)
         IN  /\ y \in TextureRec /\ y.tracked
             /\ y.recorded = x.recorded /\ y.pending = x.pending /\ y.uses = x.uses
             /\ y.permanent = x.permanent /\ y.permanentTransition = x.permanentTransition
             /\ x.tracked => y = x
             /\ ~x.tracked => \A s \in Subresources :
                  y.state[s] = IF t \in KeepInitialState THEN AtRest(t) ELSE Unknown
<1>1. TrackTexture(t, x) \in TextureRec
  BY TrackTextureType
<1>2. CASE x.tracked
  BY <1>1, <1>2 DEF TrackTexture
<1>3. CASE ~x.tracked
  BY <1>1, <1>3 DEF TrackTexture, TextureRec, AtRest
<1> QED
  BY <1>2, <1>3

\* getTextureStateTracking makes the state on the GPU known, where it is.
LEMMA TrackTextureGood ==
  ASSUME TypeOK, NEW t \in Textures, NEW x \in TextureRec, GoodTexture(t, x), Settled(t)
  PROVE  GoodTexture(t, TrackTexture(t, x))
<1> DEFINE y == TrackTexture(t, x)
<1>1. /\ y \in TextureRec /\ y.tracked
      /\ y.recorded = x.recorded /\ y.pending = x.pending /\ y.uses = x.uses
      /\ y.permanent = x.permanent /\ y.permanentTransition = x.permanentTransition
      /\ x.tracked => y = x
      /\ ~x.tracked => \A s \in Subresources :
           y.state[s] = IF t \in KeepInitialState THEN AtRest(t) ELSE Unknown
  BY TrackTextureFields
<1> HIDE DEF y
<1>2. CASE x.tracked
  BY <1>1, <1>2 DEF y
<1>3. CASE ~x.tracked
  <2>1. x.permanent = Unknown /\ \A s \in Subresources : x.state[s] = Unknown
    BY <1>3 DEF GoodTexture
  <2>2. ASSUME NEW s \in Subresources
        PROVE  GoodHistory(y.recorded[s], y.pending[s], y.uses[s], y.state[s],
                           gpuTex[t][s], permanentState[t])
    <3>1. /\ x.recorded[s] \in Seq(Barrier) /\ x.pending[s] \in Seq(Barrier)
          /\ x.uses[s] \in Seq(Use)
      BY DEF TextureRec
    <3>2. GoodHistory(x.recorded[s], x.pending[s], x.uses[s], Unknown, gpuTex[t][s], Unknown)
      BY <2>1 DEF GoodTexture, Settled
    <3>3. x.recorded[s] \o x.pending[s] = <<>>
      BY <3>2 DEF GoodHistory, Leads
    <3>4. GoodHistory(x.recorded[s], x.pending[s], x.uses[s], gpuTex[t][s], gpuTex[t][s], Unknown)
      BY <3>1, <3>2, <3>3, HistoryKnown
    <3>5. y.state[s] \in {Unknown, gpuTex[t][s]}
      BY <1>1, <1>3 DEF Settled
    <3> QED
      BY <1>1, <3>2, <3>4, <3>5 DEF Settled
  <2>3. t \in KeepInitialState => \A s \in Subresources : y.state[s] # Unknown
    BY <1>1, <1>3, StatesKnown DEF AtRest, Resources
  <2> QED
    BY <1>1, <1>3, <2>1, <2>2, <2>3 DEF GoodTexture, Settled, y
<1> QED
  BY <1>2, <1>3

\* z is x after a require of state st on S, of which B get a barrier, with y the
\* record once the texture is tracked
TextureRequired(x, y, B, S, st, z) ==
    /\ z \in TextureRec /\ z.tracked
    /\ z.recorded = x.recorded /\ z.uses = x.uses
    /\ z.permanent = x.permanent /\ z.permanentTransition = x.permanentTransition
    /\ \A s \in Subresources :
         /\ z.state[s] = IF s \in S THEN st ELSE y.state[s]
         /\ s \in B => z.pending[s]
              = Append(x.pending[s], [before |-> y.state[s], after |-> st])
         /\ s \notin B => z.pending[s] = x.pending[s]

LEMMA RequireTextureFields ==
  ASSUME TypeOK, NEW t \in Textures, NEW x \in TextureRec, permanentState[t] = Unknown,
         NEW S \in SUBSET Subresources, NEW st \in States
  PROVE  TextureRequired(x, TrackTexture(t, x), BarrierSubresources(TrackTexture(t, x), S, st),
                         S, st, RequireTexture(t, x, S, st))
<1> DEFINE y == TrackTexture(t, x)
           z == RequireTexture(t, x, S, st)
           B == BarrierSubresources(y, S, st)
<1>1. /\ y \in TextureRec /\ y.tracked
      /\ y.recorded = x.recorded /\ y.pending = x.pending /\ y.uses = x.uses
      /\ y.permanent = x.permanent /\ y.permanentTransition = x.permanentTransition
  BY TrackTextureFields
<1>2. z \in TextureRec
  BY RequireTextureType
<1> HIDE DEF y, B
<1>3. /\ z.tracked = y.tracked /\ z.recorded = y.recorded /\ z.uses = y.uses
      /\ z.permanent = y.permanent /\ z.permanentTransition = y.permanentTransition
      /\ z.pending = [s \in Subresources |->
                        IF s \in B
                        THEN Append(y.pending[s], [before |-> y.state[s], after |-> st])
                        ELSE y.pending[s]]
      /\ z.state = [s \in Subresources |-> IF s \in S THEN st ELSE y.state[s]]
  BY <1>1 DEF RequireTexture, TextureRec, y, B
<1> HIDE DEF z
<1>4. \A s \in Subresources :
        /\ z.state[s] = IF s \in S THEN st ELSE y.state[s]
        /\ s \in B => z.pending[s]
             = Append(x.pending[s], [before |-> y.state[s], after |-> st])
        /\ s \notin B => z.pending[s] = x.pending[s]
  BY <1>1, <1>3
<1> QED
  BY <1>1, <1>2, <1>3, <1>4 DEF TextureRequired, y, z, B

\* requireTextureState of a state that is neither unknown nor in the way of a
\* permanent transition.
LEMMA RequireTextureGood ==
  ASSUME TypeOK, NEW t \in Textures, NEW x \in TextureRec, GoodTexture(t, x), Settled(t),
         NEW S \in SUBSET Subresources, NEW st \in States, st # Unknown,
         x.permanent \in {Unknown, st},
         t \in KeepInitialState \/ \A s \in S : x.state[s] # Unknown
  PROVE  GoodTexture(t, RequireTexture(t, x, S, st))
<1> DEFINE y == TrackTexture(t, x)
           z == RequireTexture(t, x, S, st)
           B == BarrierSubresources(y, S, st)
<1>0. permanentState[t] = Unknown /\ t \in app.resources
  BY DEF Settled
<1>1. /\ y \in TextureRec /\ y.tracked
      /\ y.recorded = x.recorded /\ y.pending = x.pending /\ y.uses = x.uses
      /\ y.permanent = x.permanent /\ y.permanentTransition = x.permanentTransition
      /\ x.tracked => y = x
  BY TrackTextureFields
<1>2. GoodTexture(t, y)
  BY TrackTextureGood
<1>3. TextureRequired(x, y, B, S, st, z)
  BY <1>0, RequireTextureFields
<1>4. B \subseteq S /\ \A s \in S \ B : y.state[s] = st
  BY BarrierSubresourcesCover
<1>5. \A s \in S : y.state[s] # Unknown
  <2>1. CASE t \in KeepInitialState
    BY <1>1, <1>2, <2>1 DEF GoodTexture
  <2>2. CASE \A s \in S : x.state[s] # Unknown
    BY <1>1, <2>2 DEF GoodTexture
  <2> QED
    BY <2>1, <2>2
<1> HIDE DEF y, z, B
<1>6. ASSUME NEW s \in Subresources
      PROVE  GoodHistory(z.recorded[s], z.pending[s], z.uses[s], z.state[s],
                         gpuTex[t][s], permanentState[t])
  <2>1. /\ y.recorded[s] \in Seq(Barrier) /\ y.pending[s] \in Seq(Barrier)
        /\ y.uses[s] \in Seq(Use) /\ y.state[s] \in States
    BY <1>1 DEF TextureRec
  <2>2. GoodHistory(y.recorded[s], y.pending[s], y.uses[s], y.state[s], gpuTex[t][s], Unknown)
    BY <1>2, <1>0 DEF GoodTexture
  <2>3. CASE s \in B
    <3>1. GoodHistory(y.recorded[s], Append(y.pending[s], [before |-> y.state[s], after |-> st]),
                      y.uses[s], st, gpuTex[t][s], Unknown)
      BY <1>4, <1>5, <2>1, <2>2, <2>3, HistoryAppend
    <3> QED
      BY <1>0, <1>1, <1>3, <1>4, <2>3, <3>1, ZenonT(40) DEF TextureRequired
  <2>4. CASE s \notin B
    BY <1>0, <1>1, <1>3, <1>4, <2>2, <2>4, ZenonT(40) DEF TextureRequired
  <2> QED
    BY <2>3, <2>4
<1>7. z.permanent # Unknown => \A s \in Subresources : z.state[s] = z.permanent
  BY <1>1, <1>2, <1>3 DEF GoodTexture, TextureRequired
<1>8. t \in KeepInitialState => \A s \in Subresources : z.state[s] # Unknown
  BY <1>1, <1>2, <1>3 DEF GoodTexture, TextureRequired
<1>9. /\ z.permanentTransition <=> z.permanent # Unknown
      /\ z.permanent # Unknown => "permanent" \in app.calls
  BY <1>3 DEF GoodTexture, TextureRequired
<1> QED
  BY <1>0, <1>3, <1>6, <1>7, <1>8, <1>9 DEF GoodTexture, TextureRequired, z

LEMMA CommitTextureFields ==
  ASSUME NEW x \in TextureRec
  PROVE  LET y == CommitTexture(x)
         IN  /\ y \in TextureRec
             /\ y.tracked = x.tracked /\ y.state = x.state /\ y.uses = x.uses
             /\ y.permanent = x.permanent /\ y.permanentTransition = x.permanentTransition
             /\ \A s \in Subresources :
                  y.recorded[s] = x.recorded[s] \o x.pending[s] /\ y.pending[s] = <<>>
<1>1. CommitTexture(x) \in TextureRec
  BY CommitTypes
<1> QED
  BY <1>1 DEF CommitTexture, TextureRec

\* commitBarriers moves barriers within the history.
LEMMA CommitTextureGood ==
  ASSUME NEW t \in Textures, NEW x \in TextureRec, GoodTexture(t, x)
  PROVE  GoodTexture(t, CommitTexture(x))
<1> DEFINE y == CommitTexture(x)
<1>1. /\ y.tracked = x.tracked /\ y.state = x.state /\ y.uses = x.uses
      /\ y.permanent = x.permanent /\ y.permanentTransition = x.permanentTransition
      /\ \A s \in Subresources :
           y.recorded[s] = x.recorded[s] \o x.pending[s] /\ y.pending[s] = <<>>
  BY CommitTextureFields
<1> HIDE DEF y
<1>2. ASSUME NEW s \in Subresources
      PROVE  GoodHistory(y.recorded[s], y.pending[s], y.uses[s], y.state[s],
                         gpuTex[t][s], permanentState[t])
  <2>1. x.recorded[s] \in Seq(Barrier) /\ x.pending[s] \in Seq(Barrier)
    BY DEF TextureRec
  <2>2. GoodHistory(x.recorded[s], x.pending[s], x.uses[s], x.state[s],
                    gpuTex[t][s], permanentState[t])
    BY DEF GoodTexture
  <2>3. GoodHistory(x.recorded[s] \o x.pending[s], <<>>, x.uses[s], x.state[s],
                    gpuTex[t][s], permanentState[t])
    BY <2>1, <2>2, HistoryCommit
  <2> QED
    BY <1>1, <2>3
<1> QED
  BY <1>1, <1>2 DEF GoodTexture, y

\* An access after commitBarriers finds the state tracked or the permanent state.
LEMMA AccessTextureGood ==
  ASSUME NEW t \in Textures, NEW x \in TextureRec, GoodTexture(t, x),
         NEW S \in SUBSET Subresources, NEW st \in States,
         \A s \in S : /\ x.pending[s] = <<>>
                      /\ IF permanentState[t] = Unknown THEN st \subseteq x.state[s]
                         ELSE st \subseteq permanentState[t]
  PROVE  GoodTexture(t, AccessTexture(x, S, st))
<1> DEFINE y == AccessTexture(x, S, st)
<1>1. /\ y.tracked = x.tracked /\ y.state = x.state
      /\ y.recorded = x.recorded /\ y.pending = x.pending
      /\ y.permanent = x.permanent /\ y.permanentTransition = x.permanentTransition
      /\ \A s \in Subresources : y.uses[s] =
           IF s \in S THEN Append(x.uses[s], [at |-> Len(x.recorded[s]), state |-> st])
           ELSE x.uses[s]
  BY DEF AccessTexture, TextureRec
<1> HIDE DEF y
<1>2. ASSUME NEW s \in Subresources
      PROVE  GoodHistory(y.recorded[s], y.pending[s], y.uses[s], y.state[s],
                         gpuTex[t][s], permanentState[t])
  <2>1. x.recorded[s] \in Seq(Barrier) /\ x.uses[s] \in Seq(Use)
    BY DEF TextureRec
  <2>2. GoodHistory(x.recorded[s], x.pending[s], x.uses[s], x.state[s],
                    gpuTex[t][s], permanentState[t])
    BY DEF GoodTexture
  <2>3. CASE s \in S
    <3>1. permanentState[t] # Unknown => x.recorded[s] = <<>>
      <4>1. permanentState[t] # Unknown => x.state[s] = Unknown
        BY DEF GoodTexture
      <4>2. x.recorded[s] \o <<>> = x.recorded[s]
        BY <2>1, ConcatFacts
      <4> QED
        BY <2>2, <2>3, <4>1, <4>2 DEF GoodHistory, Leads
    <3>2. GoodHistory(x.recorded[s], <<>>, Append(x.uses[s], [at |-> Len(x.recorded[s]), state |-> st]),
                      x.state[s], gpuTex[t][s], permanentState[t])
      BY <2>1, <2>2, <2>3, <3>1, HistoryAccess
    <3> QED
      BY <1>1, <2>3, <3>2
  <2>4. CASE s \notin S
    BY <1>1, <2>2, <2>4
  <2> QED
    BY <2>3, <2>4
<1> QED
  BY <1>1, <1>2 DEF GoodTexture, y

\* setPermanentTextureState of a texture without a permanent state.
LEMMA PermanentTextureGood ==
  ASSUME TypeOK, NEW t \in Textures, NEW x \in TextureRec, GoodTexture(t, x), Settled(t),
         NEW st \in States, st # Unknown, x.permanent = Unknown, "permanent" \in app.calls,
         t \in KeepInitialState \/ \A s \in Subresources : x.state[s] # Unknown
  PROVE  GoodTexture(t, PermanentTexture(t, x, st))
<1> DEFINE z == RequireTexture(t, x, Subresources, st)
           w == PermanentTexture(t, x, st)
<1>1. GoodTexture(t, z)
  BY RequireTextureGood
<1>2. TextureRequired(x, TrackTexture(t, x),
         BarrierSubresources(TrackTexture(t, x), Subresources, st), Subresources, st, z)
  BY RequireTextureFields DEF Settled
<1>3. /\ z \in TextureRec /\ z.tracked /\ z.permanent = Unknown
      /\ \A s \in Subresources : z.state[s] = st
  BY <1>2 DEF TextureRequired
<1> HIDE DEF z
<1>4. /\ w.tracked = z.tracked /\ w.state = z.state /\ w.uses = z.uses
      /\ w.recorded = z.recorded /\ w.pending = z.pending
      /\ w.permanent = st /\ w.permanentTransition = TRUE
  BY <1>3 DEF PermanentTexture, TrackTexture, TextureRec, z
<1> HIDE DEF w
<1> QED
  BY <1>1, <1>3, <1>4 DEF GoodTexture, w

\* keepTextureInitialStates.
LEMMA KeepTextureGood ==
  ASSUME TypeOK, NEW t \in Textures, NEW x \in TextureRec, GoodTexture(t, x),
         x.tracked => Settled(t)
  PROVE  GoodTexture(t, KeepTexture(t, x))
<1>1. CASE /\ x.tracked /\ t \in KeepInitialState
           /\ permanentState[t] = Unknown /\ ~x.permanentTransition
  <2>1. InitialState[t] \in States /\ InitialState[t] # Unknown
    BY StatesKnown DEF Resources
  <2>2. x.permanent = Unknown
    BY <1>1 DEF GoodTexture
  <2>3. GoodTexture(t, RequireTexture(t, x, Subresources, InitialState[t]))
    BY <1>1, <2>1, <2>2, RequireTextureGood
  <2> QED
    BY <1>1, <2>3 DEF KeepTexture
<1>2. CASE ~(/\ x.tracked /\ t \in KeepInitialState
             /\ permanentState[t] = Unknown /\ ~x.permanentTransition)
  BY <1>2 DEF KeepTexture
<1> QED
  BY <1>1, <1>2

\* beginTrackingTextureState with the state that is on the GPU.
LEMMA BeginTextureGood ==
  ASSUME TypeOK, NEW t \in Textures \ KeepInitialState, NEW x \in TextureRec,
         GoodTexture(t, x), Settled(t),
         NEW S \in SUBSET Subresources, NEW st \in States, st # Unknown,
         \A s \in S : gpuTex[t][s] = st /\ x.recorded[s] \o x.pending[s] = <<>>
  PROVE  GoodTexture(t, BeginTexture(t, x, S, st))
<1> DEFINE y == TrackTexture(t, x)
           z == BeginTexture(t, x, S, st)
<1>1. /\ y \in TextureRec /\ y.tracked
      /\ y.recorded = x.recorded /\ y.pending = x.pending
  BY TrackTextureFields
<1>2. GoodTexture(t, y)
  BY TrackTextureGood
<1> HIDE DEF y
<1>3. /\ z.tracked = y.tracked /\ z.recorded = y.recorded /\ z.pending = y.pending
      /\ z.uses = y.uses /\ z.permanent = y.permanent
      /\ z.permanentTransition = y.permanentTransition
      /\ \A s \in Subresources : z.state[s] = IF s \in S THEN st ELSE y.state[s]
  BY <1>1 DEF BeginTexture, TextureRec, y
<1> HIDE DEF z
<1>4. permanentState[t] = Unknown
  BY DEF Settled
<1>5. ASSUME NEW s \in S PROVE y.state[s] \in {Unknown, st}
  BY <1>1, <1>2, ZenonT(40) DEF GoodTexture, GoodHistory, Leads
<1>6. ASSUME NEW s \in Subresources
      PROVE  GoodHistory(z.recorded[s], z.pending[s], z.uses[s], z.state[s],
                         gpuTex[t][s], permanentState[t])
  <2>1. /\ y.recorded[s] \in Seq(Barrier) /\ y.pending[s] \in Seq(Barrier)
        /\ y.uses[s] \in Seq(Use)
    BY <1>1 DEF TextureRec
  <2>2. GoodHistory(y.recorded[s], y.pending[s], y.uses[s], y.state[s], gpuTex[t][s], Unknown)
    BY <1>2, <1>4 DEF GoodTexture
  <2>3. CASE s \in S
    <3>1. GoodHistory(y.recorded[s], y.pending[s], y.uses[s], gpuTex[t][s], gpuTex[t][s], Unknown)
      BY <1>1, <2>1, <2>2, <2>3, HistoryKnown
    <3> QED
      BY <1>3, <1>4, <2>3, <3>1
  <2>4. CASE s \notin S
    BY <1>3, <1>4, <2>2, <2>4
  <2> QED
    BY <2>3, <2>4
<1>7. z.permanent # Unknown => \A s \in Subresources : z.state[s] = z.permanent
  <2> SUFFICES ASSUME z.permanent # Unknown, NEW s \in Subresources
               PROVE  z.state[s] = z.permanent
    OBVIOUS
  <2>1. y.state[s] = z.permanent
    BY <1>2, <1>3 DEF GoodTexture
  <2> QED
    BY <1>3, <1>5, <2>1
<1> QED
  BY <1>1, <1>2, <1>3, <1>6, <1>7 DEF GoodTexture, z

-----------------------------------------------------------------------------
(* TextureInv, call by call.                                                *)

\* record z of t, held by list cl, gets along with those the other lists hold
ApartFromOthers(cl, t, z) == \A c \in Others(cl) :
    ApartTexture(t, z, tex[c][t]) /\ ApartTexture(t, tex[c][t], z)

LEMMA SettledTexture ==
  ASSUME TextureInv, NEW t \in Textures, t \in app.resources, permanentState[t] = Unknown
  PROVE  Settled(t)
  BY DEF TextureInv, KeptTextures, Settled

\* A record that claims no more of the texture than before disturbs nobody,
LEMMA ApartAsBefore ==
  ASSUME TextureInv, NEW cl \in CommandLists, NEW t \in Textures, NEW z,
         z.tracked = tex[cl][t].tracked, z.permanent = tex[cl][t].permanent,
         KnownTexture(z) => KnownTexture(tex[cl][t])
  PROVE  ApartFromOthers(cl, t, z)
<1> SUFFICES ASSUME NEW c \in Others(cl)
             PROVE  ApartTexture(t, z, tex[c][t]) /\ ApartTexture(t, tex[c][t], z)
  BY DEF ApartFromOthers
<1>1. c \in CommandLists /\ cl \in Others(c)
  BY DEF Others
<1>2. ApartTexture(t, tex[cl][t], tex[c][t]) /\ ApartTexture(t, tex[c][t], tex[cl][t])
  BY <1>1 DEF TextureInv
<1> QED
  BY <1>2 DEF ApartTexture

\* nor does one of a texture that nobody else uses.
LEMMA ApartAlone ==
  ASSUME TextureInv, NEW cl \in CommandLists, NEW t \in Textures, NEW z,
         \A c \in Others(cl) : ~Tracks(c, t)
  PROVE  ApartFromOthers(cl, t, z)
<1> SUFFICES ASSUME NEW c \in Others(cl)
             PROVE  ApartTexture(t, z, tex[c][t]) /\ ApartTexture(t, tex[c][t], z)
  BY DEF ApartFromOthers
<1>1. c \in CommandLists /\ ~tex[c][t].tracked
  BY DEF Others, Tracks
<1>2. tex[c][t].permanent = Unknown /\ ~KnownTexture(tex[c][t])
  BY <1>1 DEF TextureInv, GoodTexture, KnownTexture
<1> QED
  BY <1>1, <1>2 DEF ApartTexture

\* A step that changes the records of one list only.
LEMMA TextureRecording ==
  ASSUME TypeOK, TextureInv, NEW cl \in CommandLists, NEW f \in [Textures -> TextureRec],
         tex' = [tex EXCEPT ![cl] = f],
         UNCHANGED <<app, permanentState, stateInitialized, gpuTex>>,
         \A c \in Others(cl) : phase'[c] = phase[c],
         \A t \in Textures : GoodTexture(t, f[t]) /\ ApartFromOthers(cl, t, f[t]),
         phase'[cl] = "closed" => \A t \in Textures \cap KeepInitialState :
            f[t].tracked /\ f[t].permanent = Unknown
              => \A s \in Subresources : f[t].state[s] = InitialState[t]
  PROVE  TextureInv'
<1>1. tex'[cl] = f /\ \A c \in Others(cl) : tex'[c] = tex[c]
  BY DEF TypeOK, Others
<1>2. \A t \in InitializedTextures : stateInitialized'[t]
  BY DEF TextureInv
<1>3. ASSUME NEW c \in CommandLists, NEW t \in Textures PROVE GoodTexture(t, tex[c][t])'
  <2>1. GoodTexture(t, tex'[c][t])
    BY <1>1 DEF TextureInv, Others
  <2> QED
    BY <2>1 DEF GoodTexture
<1>4. ASSUME NEW t \in Textures, NEW c \in CommandLists, NEW d \in Others(c)
      PROVE  ApartTexture(t, tex[c][t], tex[d][t])'
  <2>1. d \in CommandLists /\ d # c
    BY DEF Others
  <2>2. ApartTexture(t, tex'[c][t], tex'[d][t])
    <3>1. CASE c = cl
      <4>1. d \in Others(cl) /\ tex'[d][t] = tex[d][t] /\ tex'[c][t] = f[t]
        BY <1>1, <3>1
      <4> QED
        BY <4>1 DEF ApartFromOthers
    <3>2. CASE d = cl
      <4>1. c \in Others(cl) /\ tex'[c][t] = tex[c][t] /\ tex'[d][t] = f[t]
        BY <1>1, <2>1, <3>2 DEF Others
      <4> QED
        BY <4>1 DEF ApartFromOthers
    <3>3. CASE c # cl /\ d # cl
      <4>1. tex'[c] = tex[c] /\ tex'[d] = tex[d]
        BY <1>1, <2>1, <3>3 DEF Others
      <4> QED
        BY <4>1 DEF TextureInv
    <3> QED
      BY <3>1, <3>2, <3>3
  <2> QED
    BY <2>2 DEF ApartTexture, KnownTexture
<1>5. KeptTextures'
  <2>1. ASSUME NEW t \in Textures \cap KeepInitialState, NEW c \in CommandLists,
               phase'[c] = "closed", tex'[c][t].tracked, tex'[c][t].permanent = Unknown,
               NEW s \in Subresources
        PROVE  tex'[c][t].state[s] = InitialState[t]
    BY <1>1, <2>1 DEF TextureInv, KeptTextures, Others
  <2>2. ASSUME NEW t \in Textures \cap KeepInitialState, permanentState'[t] = Unknown,
               NEW s \in Subresources
        PROVE  gpuTex'[t][s] = AtRest(t)'
    BY <2>2 DEF TextureInv, KeptTextures, AtRest
  <2> QED
    BY <2>1, <2>2 DEF KeptTextures
<1>6. PermanentTextures'
  BY DEF TextureInv, PermanentTextures
<1> QED
  BY <1>2, <1>3, <1>4, <1>5, <1>6 DEF TextureInv

\* A call on an open list that changes its record of one texture,
LEMMA TextureChanged ==
  ASSUME TypeOK, TextureInv, NEW cl \in CommandLists, Records(cl),
         NEW t \in Textures, NEW z \in TextureRec, GoodTexture(t, z), ApartFromOthers(cl, t, z),
         tex' = [tex EXCEPT ![cl][t] = z]
  PROVE  TextureInv'
<1> DEFINE f == [tex[cl] EXCEPT ![t] = z]
<1>1. tex[cl] \in [Textures -> TextureRec]
  BY DEF TypeOK
<1>2. /\ f \in [Textures -> TextureRec] /\ f[t] = z
      /\ \A u \in Textures : u # t => f[u] = tex[cl][u]
  BY <1>1
<1>3. tex' = [tex EXCEPT ![cl] = f]
  BY DEF TypeOK
<1> HIDE DEF f
<1>4. \A u \in Textures : GoodTexture(u, f[u]) /\ ApartFromOthers(cl, u, f[u])
  BY <1>2, ApartAsBefore DEF TextureInv
<1>5. /\ phase' = phase /\ phase[cl] = "open"
      /\ UNCHANGED <<app, permanentState, stateInitialized, gpuTex>>
  BY DEF Records
<1> QED
  BY <1>2, <1>3, <1>4, <1>5, TextureRecording

LEMMA CommittedRecord ==
  ASSUME TypeOK, TextureInv, NEW cl \in CommandLists, NEW t \in Textures
  PROVE  /\ CommitTexture(tex[cl][t]) \in TextureRec
         /\ GoodTexture(t, CommitTexture(tex[cl][t]))
         /\ ApartFromOthers(cl, t, CommitTexture(tex[cl][t]))
<1> DEFINE x == tex[cl][t]
           y == CommitTexture(x)
<1>1. x \in TextureRec /\ GoodTexture(t, x)
  BY DEF TypeOK, TextureInv
<1>2. y \in TextureRec /\ y.tracked = x.tracked /\ y.permanent = x.permanent /\ y.state = x.state
  BY <1>1, CommitTextureFields
<1>3. GoodTexture(t, y)
  BY <1>1, CommitTextureGood
<1> HIDE DEF y
<1>4. ApartFromOthers(cl, t, y)
  BY <1>2, ApartAsBefore DEF KnownTexture
<1> QED
  BY <1>2, <1>3, <1>4 DEF y

\* one that commits the barriers of all of them,
LEMMA TexturesCommitted ==
  ASSUME TypeOK, TextureInv, NEW cl \in CommandLists, phase[cl] = "open", phase' = phase,
         UNCHANGED <<app, permanentState, stateInitialized, gpuTex>>,
         tex' = [tex EXCEPT ![cl] = [t \in Textures |-> CommitTexture(tex[cl][t])]]
  PROVE  TextureInv'
<1> DEFINE f == [t \in Textures |-> CommitTexture(tex[cl][t])]
<1>1. \A t \in Textures : /\ CommitTexture(tex[cl][t]) \in TextureRec
                          /\ GoodTexture(t, CommitTexture(tex[cl][t]))
                          /\ ApartFromOthers(cl, t, CommitTexture(tex[cl][t]))
  BY CommittedRecord
<1>2. /\ f \in [Textures -> TextureRec]
      /\ \A t \in Textures : GoodTexture(t, f[t]) /\ ApartFromOthers(cl, t, f[t])
  BY <1>1
<1>3. tex' = [tex EXCEPT ![cl] = f]
  OBVIOUS
<1> HIDE DEF f
<1> QED
  BY <1>2, <1>3, TextureRecording

\* and one that does both.
LEMMA TextureUsed ==
  ASSUME TypeOK, TextureInv, NEW cl \in CommandLists, Records(cl),
         NEW t \in Textures, NEW z \in TextureRec, GoodTexture(t, z), ApartFromOthers(cl, t, z),
         tex' = [tex EXCEPT ![cl] = [u \in Textures |->
                    IF u = t THEN z ELSE CommitTexture(tex[cl][u])]]
  PROVE  TextureInv'
<1> DEFINE f == [u \in Textures |-> IF u = t THEN z ELSE CommitTexture(tex[cl][u])]
<1>1. \A u \in Textures : /\ CommitTexture(tex[cl][u]) \in TextureRec
                          /\ GoodTexture(u, CommitTexture(tex[cl][u]))
                          /\ ApartFromOthers(cl, u, CommitTexture(tex[cl][u]))
  BY CommittedRecord
<1>2. /\ f \in [Textures -> TextureRec]
      /\ \A u \in Textures : GoodTexture(u, f[u]) /\ ApartFromOthers(cl, u, f[u])
  BY <1>1
<1>3. tex' = [tex EXCEPT ![cl] = f]
  OBVIOUS
<1> HIDE DEF f
<1>4. /\ phase' = phase /\ phase[cl] = "open"
      /\ UNCHANGED <<app, permanentState, stateInitialized, gpuTex>>
  BY DEF Records
<1> QED
  BY <1>2, <1>3, <1>4, TextureRecording

\* What MayUseTexture says of the record that the list and the others hold.
LEMMA MayUseTextureFacts ==
  ASSUME TypeOK, TextureInv, Disciplined(app), NEW cl \in CommandLists, NEW t \in Textures,
         NEW S \in SubresourceSets, NEW st \in Usages, MayUseTexture(cl, t, S, st)
  PROVE  /\ permanentState[t] = Unknown => Settled(t)
         /\ permanentState[t] # Unknown => st \subseteq permanentState[t]
         /\ tex[cl][t].permanent \in {Unknown, st}
         /\ permanentState[t] = Unknown =>
              t \in KeepInitialState \/ \A s \in S : tex[cl][t].state[s] # Unknown
         /\ \A c \in Others(cl) : tex[c][t].permanent = Unknown
         /\ t \in KeepInitialState /\ ~stateInitialized[t]
              => \A c \in Others(cl) : ~tex[c][t].tracked
<1>1. "subset" \notin app.calls /\ "concurrentFirstUse" \notin app.calls
  BY DEF Disciplined
<1>2. t \in app.resources
  BY DEF MayUseTexture
<1>3. permanentState[t] = Unknown => Settled(t)
  BY <1>2, SettledTexture
<1> QED
  BY <1>1, <1>3 DEF MayUseTexture, RespectsPermanent, DeferredPermanent, Tracks

\* A require the application may make, in any of the calls that make one.
LEMMA RequiredTexture ==
  ASSUME TypeOK, TextureInv, Disciplined(app), NEW cl \in CommandLists, NEW t \in Textures,
         NEW S \in SubresourceSets, NEW st \in Usages, MayUseTexture(cl, t, S, st),
         NEW z, z = RequireTexture(t, tex[cl][t], S, st)
  PROVE  /\ z \in TextureRec /\ GoodTexture(t, z) /\ ApartFromOthers(cl, t, z)
         /\ \A s \in S : IF permanentState[t] = Unknown THEN z.state[s] = st
                         ELSE st \subseteq permanentState[t]
<1> DEFINE x == tex[cl][t]
<1>1. /\ x \in TextureRec /\ GoodTexture(t, x)
      /\ S \in SUBSET Subresources /\ S # {} /\ st \in States /\ st # Unknown
  BY StatesKnown DEF TypeOK, TextureInv, SubresourceSets
<1>2. /\ permanentState[t] = Unknown => Settled(t)
      /\ permanentState[t] # Unknown => st \subseteq permanentState[t]
      /\ x.permanent \in {Unknown, st}
      /\ permanentState[t] = Unknown =>
           t \in KeepInitialState \/ \A s \in S : x.state[s] # Unknown
      /\ \A c \in Others(cl) : tex[c][t].permanent = Unknown
      /\ t \in KeepInitialState /\ ~stateInitialized[t]
           => \A c \in Others(cl) : ~tex[c][t].tracked
  BY MayUseTextureFacts
<1>3. CASE permanentState[t] # Unknown
  <2>1. z = x
    BY <1>3 DEF RequireTexture
  <2>2. ApartFromOthers(cl, t, z)
    BY <2>1, ApartAsBefore
  <2> QED
    BY <1>1, <1>2, <1>3, <2>1, <2>2
<1>4. CASE permanentState[t] = Unknown
  <2>1. GoodTexture(t, z)
    BY <1>1, <1>2, <1>4, RequireTextureGood
  <2>2. TextureRequired(x, TrackTexture(t, x), BarrierSubresources(TrackTexture(t, x), S, st),
                        S, st, z)
    BY <1>1, <1>4, RequireTextureFields
  <2>3. /\ z \in TextureRec /\ z.permanent = x.permanent
        /\ \A s \in S : z.state[s] = st
    BY <1>1, <2>2 DEF TextureRequired
  <2> HIDE DEF x
  <2>4. t \notin KeepInitialState => KnownTexture(x)
    BY <1>1, <1>2, <1>4 DEF KnownTexture
  <2>5. ASSUME NEW c \in Others(cl)
        PROVE  ApartTexture(t, z, tex[c][t]) /\ ApartTexture(t, tex[c][t], z)
    <3>1. c \in CommandLists /\ cl \in Others(c)
      BY DEF Others
    <3>2. ApartTexture(t, x, tex[c][t]) /\ ApartTexture(t, tex[c][t], x)
      BY <3>1 DEF TextureInv, x
    <3> QED
      BY <1>2, <2>3, <2>4, <3>2 DEF ApartTexture
  <2> QED
    BY <1>4, <2>1, <2>3, <2>5 DEF ApartFromOthers
<1> QED
  BY <1>3, <1>4

LEMMA TextureCallKeeps ==
  ASSUME TypeOK, TextureInv, Disciplined(app), NEW cl \in CommandLists, TextureCall(cl)
  PROVE  TextureInv'
<1>0. /\ \A t \in Textures : tex[cl][t] \in TextureRec /\ GoodTexture(t, tex[cl][t])
      /\ \A S \in SubresourceSets : S \in SUBSET Subresources /\ S # {}
      /\ \A st \in Usages : st \in States /\ st # Unknown
  BY StatesKnown DEF TypeOK, TextureInv, SubresourceSets
<1>1. ASSUME NEW t \in Textures, NEW st \in Usages, SetPermanentTextureState(cl, t, st)
      PROVE  TextureInv'
  <2> DEFINE x == tex[cl][t]
             z == PermanentTexture(t, x, st)
  <2>1. /\ MayUseTexture(cl, t, Subresources, st) /\ MayMakePermanent(cl, t, st)
        /\ Records(cl) /\ tex' = [tex EXCEPT ![cl][t] = z]
    BY <1>1 DEF SetPermanentTextureState, SetTexture
  <2>2. /\ "permanent" \in app.calls /\ permanentState[t] = Unknown /\ x.permanent = Unknown
        /\ \A c \in Others(cl) : ~Tracks(c, t)
    BY <2>1 DEF MayMakePermanent, DeferredPermanent
  <2>3. Subresources \in SubresourceSets
    BY DEF SubresourceSets
  <2>4. /\ Settled(t)
        /\ t \in KeepInitialState \/ \A s \in Subresources : x.state[s] # Unknown
    BY <2>1, <2>2, <2>3, MayUseTextureFacts
  <2>5. GoodTexture(t, z)
    BY <1>0, <2>2, <2>4, PermanentTextureGood
  <2>6. z \in TextureRec
    BY <1>0, PermanentTextureType
  <2> HIDE DEF z
  <2>7. ApartFromOthers(cl, t, z)
    BY <2>2, ApartAlone
  <2> QED
    BY <2>1, <2>5, <2>6, <2>7, TextureChanged
<1>2. ASSUME NEW t \in Textures, NEW enable \in BOOLEAN,
             SetEnableUavBarriersForTexture(cl, t, enable)
      PROVE  TextureInv'
  <2> DEFINE x == tex[cl][t]
             y == TrackTexture(t, x)
             z == [y EXCEPT !.enableUavBarriers = enable, !.firstUavBarrierPlaced = FALSE]
  <2>1. /\ "uavToggle" \in app.calls /\ t \in app.resources
        /\ Records(cl) /\ tex' = [tex EXCEPT ![cl][t] = z]
    BY <1>2 DEF SetEnableUavBarriersForTexture, SetTexture
  <2>2. "permanent" \notin app.calls /\ (t \in KeepInitialState => t \in InitializedTextures)
    BY <2>1 DEF Disciplined
  <2>3. permanentState[t] = Unknown /\ x.permanent = Unknown
    BY <2>2 DEF TextureInv, PermanentTextures, GoodTexture
  <2>4. Settled(t)
    BY <2>1, <2>3, SettledTexture
  <2>5. /\ y \in TextureRec /\ y.permanent = Unknown /\ GoodTexture(t, y)
        /\ x.tracked => y = x
        /\ ~x.tracked => \A s \in Subresources :
             y.state[s] = IF t \in KeepInitialState THEN AtRest(t) ELSE Unknown
    BY <1>0, <2>3, <2>4, TrackTextureFields, TrackTextureGood
  <2> HIDE DEF y
  <2>6. /\ z \in TextureRec /\ z.tracked = y.tracked /\ z.permanent = y.permanent
        /\ z.permanentTransition = y.permanentTransition /\ z.state = y.state
        /\ z.recorded = y.recorded /\ z.pending = y.pending /\ z.uses = y.uses
    BY <2>5 DEF TextureRec
  <2> HIDE DEF z
  <2>7. GoodTexture(t, z)
    BY <2>5, <2>6 DEF GoodTexture
  <2>8. ApartFromOthers(cl, t, z)
    <3>1. ASSUME NEW c \in Others(cl)
          PROVE  ApartTexture(t, z, tex[c][t]) /\ ApartTexture(t, tex[c][t], z)
      <4>1. c \in CommandLists /\ cl \in Others(c)
        BY DEF Others
      <4>2. /\ ApartTexture(t, x, tex[c][t]) /\ ApartTexture(t, tex[c][t], x)
            /\ tex[c][t].permanent = Unknown
        BY <2>2, <4>1 DEF TextureInv, GoodTexture
      <4>3. t \in KeepInitialState => stateInitialized[t]
        BY <2>2 DEF TextureInv
      <4>4. t \notin KeepInitialState => (KnownTexture(z) => KnownTexture(x))
        BY <2>5, <2>6 DEF KnownTexture
      <4> QED
        BY <2>3, <2>5, <2>6, <4>2, <4>3, <4>4 DEF ApartTexture
    <3> QED
      BY <3>1 DEF ApartFromOthers
  <2> QED
    BY <2>1, <2>6, <2>7, <2>8, TextureChanged
<1>3. ASSUME NEW t \in Textures, NEW S \in SubresourceSets, NEW st \in Usages,
             SetTextureState(cl, t, S, st)
      PROVE  TextureInv'
  <2> DEFINE z == RequireTexture(t, tex[cl][t], S, st)
  <2>1. MayUseTexture(cl, t, S, st) /\ Records(cl) /\ tex' = [tex EXCEPT ![cl][t] = z]
    BY <1>3 DEF SetTextureState, SetTexture
  <2>2. z \in TextureRec /\ GoodTexture(t, z) /\ ApartFromOthers(cl, t, z)
    BY <2>1, RequiredTexture
  <2> QED
    BY <2>1, <2>2, TextureChanged
<1>4. ASSUME NEW t \in Textures, NEW S \in SubresourceSets, NEW st \in Usages,
             UseTexture(cl, t, S, st)
      PROVE  TextureInv'
  <2> DEFINE r == RequireTexture(t, tex[cl][t], S, st)
             y == CommitTexture(r)
             z == AccessTexture(y, S, st)
  <2>1. /\ MayUseTexture(cl, t, S, st) /\ Records(cl)
        /\ tex' = [tex EXCEPT ![cl] = [u \in Textures |->
                     IF u = t THEN z ELSE CommitTexture(tex[cl][u])]]
    BY <1>4 DEF UseTexture
  <2>2. /\ r \in TextureRec /\ GoodTexture(t, r) /\ ApartFromOthers(cl, t, r)
        /\ \A s \in S : IF permanentState[t] = Unknown THEN r.state[s] = st
                        ELSE st \subseteq permanentState[t]
    BY <2>1, RequiredTexture
  <2> HIDE DEF r
  <2>3. /\ y \in TextureRec /\ GoodTexture(t, y)
        /\ y.tracked = r.tracked /\ y.state = r.state /\ y.permanent = r.permanent
        /\ \A s \in Subresources : y.pending[s] = <<>>
    BY <2>2, CommitTextureFields, CommitTextureGood
  <2> HIDE DEF y
  <2>4. \A s \in S : /\ y.pending[s] = <<>>
                     /\ IF permanentState[t] = Unknown THEN st \subseteq y.state[s]
                        ELSE st \subseteq permanentState[t]
    BY <1>0, <2>2, <2>3
  <2>5. GoodTexture(t, z)
    BY <1>0, <2>3, <2>4, AccessTextureGood
  <2>6. z \in TextureRec
    BY <1>0, <2>3, AccessTypes
  <2>7. z.tracked = r.tracked /\ z.state = r.state /\ z.permanent = r.permanent
    BY <2>3 DEF AccessTexture, TextureRec
  <2> HIDE DEF z
  <2>8. ApartFromOthers(cl, t, z)
    BY <2>2, <2>7 DEF ApartFromOthers, ApartTexture, KnownTexture
  <2> QED
    BY <2>1, <2>5, <2>6, <2>8, TextureUsed
<1>5. ASSUME NEW t \in Textures, NEW S \in SubresourceSets, NEW st \in States \ {Unknown},
             BeginTrackingTextureState(cl, t, S, st)
      PROVE  TextureInv'
  <2> DEFINE x == tex[cl][t]
             z == BeginTexture(t, x, S, st)
  <2>1. /\ MayDeclareState(cl, t) /\ Records(cl) /\ tex' = [tex EXCEPT ![cl][t] = z]
        /\ \A s \in S : gpuTex[t][s] = st /\ x.recorded[s] \o x.pending[s] = <<>>
    BY <1>5 DEF BeginTrackingTextureState, SetTexture
  <2>2. /\ t \in Textures \ KeepInitialState /\ t \in app.resources
        /\ permanentState[t] = Unknown /\ \A c \in Others(cl) : ~Tracks(c, t)
    BY <2>1 DEF MayDeclareState
  <2>3. Settled(t)
    BY <2>2, SettledTexture
  <2>4. GoodTexture(t, z)
    BY <1>0, <2>1, <2>2, <2>3, BeginTextureGood
  <2>5. z \in TextureRec
    BY <1>0, BeginTextureType
  <2> HIDE DEF z
  <2>6. ApartFromOthers(cl, t, z)
    BY <2>2, ApartAlone
  <2> QED
    BY <2>1, <2>4, <2>5, <2>6, TextureChanged
<1> QED
  BY <1>1, <1>2, <1>3, <1>4, <1>5 DEF TextureCall

\* open() discards a command buffer that leads nowhere: the list is new, or its
\* barriers return every texture to where they took it from.
LEMMA OpenKeepsTextures ==
  ASSUME TypeOK, TypeOK', ChainInv, FreshInv, TextureInv, Disciplined(app),
         NEW cl \in CommandLists, Open(cl)
  PROVE  TextureInv'
<1> DEFINE z(t) == [tex[cl][t] EXCEPT !.recorded = EmptyTexture.recorded,
                                      !.uses = EmptyTexture.uses]
           f == [t \in Textures |-> z(t)]
<1>1. /\ tex' = [tex EXCEPT ![cl] = f] /\ phase' = [phase EXCEPT ![cl] = "open"]
      /\ UNCHANGED <<app, permanentState, stateInitialized, gpuTex>>
      /\ phase[cl] = "initial" \/ (phase[cl] = "closed" /\ "reopen" \in app.calls)
  BY DEF Open
<1>2. ASSUME NEW t \in Textures PROVE GoodTexture(t, z(t)) /\ ApartFromOthers(cl, t, z(t))
  <2> DEFINE x == tex[cl][t]
             y == z(t)
  <2>1. x \in TextureRec /\ GoodTexture(t, x)
    BY DEF TypeOK, TextureInv
  <2>2. /\ y.tracked = x.tracked /\ y.state = x.state /\ y.pending = x.pending
        /\ y.permanent = x.permanent /\ y.permanentTransition = x.permanentTransition
        /\ \A s \in Subresources : y.recorded[s] = <<>> /\ y.uses[s] = <<>>
    BY <2>1 DEF TextureRec, EmptyTexture
  <2>3. ApartFromOthers(cl, t, y)
    <3> HIDE DEF z
    <3> QED
      BY <2>2, ApartAsBefore DEF KnownTexture
  <2>4. ASSUME NEW s \in Subresources
        PROVE  x.pending[s] = <<>> /\ x.state[s] \in {Unknown, gpuTex[t][s]}
    <3>1. CASE phase[cl] = "initial"
      BY <3>1 DEF FreshInv, EmptyTexture
    <3>2. CASE phase[cl] = "closed" /\ "reopen" \in app.calls
      <4>1. x.pending[s] = <<>>
        BY <3>2 DEF ChainInv, CommittedUnlessOpen, AnyPending
      <4>2. ~x.tracked => x.state[s] = Unknown
        BY <2>1 DEF GoodTexture
      <4>3. ASSUME x.tracked PROVE x.state[s] = gpuTex[t][s]
        <5>1. t \in app.resources /\ permanentState[t] = Unknown
          BY <2>1, <4>3 DEF GoodTexture
        <5>2. /\ t \in KeepInitialState /\ t \in InitializedTextures
              /\ "permanent" \notin app.calls
          BY <3>2, <5>1 DEF Disciplined
        <5>3. x.permanent = Unknown /\ stateInitialized[t]
          BY <2>1, <5>2 DEF GoodTexture, TextureInv
        <5>4. gpuTex[t][s] = InitialState[t]
          BY <5>1, <5>2, <5>3 DEF TextureInv, KeptTextures, AtRest
        <5> QED
          BY <3>2, <4>3, <5>2, <5>3, <5>4 DEF TextureInv, KeptTextures
      <4> QED
        BY <4>1, <4>2, <4>3
    <3> QED
      BY <1>1, <3>1, <3>2
  <2>5. ASSUME NEW s \in Subresources
        PROVE  GoodHistory(y.recorded[s], y.pending[s], y.uses[s], y.state[s],
                           gpuTex[t][s], permanentState[t])
    <3>1. /\ y.recorded[s] = <<>> /\ y.uses[s] = <<>> /\ y.pending[s] = <<>>
          /\ y.state[s] \in {Unknown, gpuTex[t][s]}
      BY <2>2, <2>4
    <3> QED
      BY <3>1, HistoryEmpty
  <2> HIDE DEF z
  <2> QED
    BY <2>1, <2>2, <2>3, <2>5 DEF GoodTexture
<1>3. f \in [Textures -> TextureRec]
  BY <1>1 DEF TypeOK
<1>4. \A t \in Textures : GoodTexture(t, f[t]) /\ ApartFromOthers(cl, t, f[t])
  BY <1>2
<1> HIDE DEF f
<1>5. phase'[cl] = "open" /\ \A c \in Others(cl) : phase'[c] = phase[c]
  BY <1>1 DEF TypeOK, Others
<1> QED
  BY <1>1, <1>3, <1>4, <1>5, TextureRecording

\* close() returns the textures to their initialState.
LEMMA CloseKeepsTextures ==
  ASSUME TypeOK, TypeOK', TextureInv, NEW cl \in CommandLists, Close(cl)
  PROVE  TextureInv'
<1> DEFINE f == [t \in Textures |-> CommitTexture(KeepTexture(t, tex[cl][t]))]
<1>1. /\ tex' = [tex EXCEPT ![cl] = f] /\ phase' = [phase EXCEPT ![cl] = "closed"]
      /\ UNCHANGED <<app, permanentState, stateInitialized, gpuTex>>
  BY DEF Close
<1>2. ASSUME NEW t \in Textures
      PROVE  /\ f[t] \in TextureRec /\ GoodTexture(t, f[t]) /\ ApartFromOthers(cl, t, f[t])
             /\ (t \in KeepInitialState /\ f[t].tracked /\ f[t].permanent = Unknown)
                   => \A s \in Subresources : f[t].state[s] = InitialState[t]
  <2> DEFINE x == tex[cl][t]
             y == KeepTexture(t, x)
  <2>1. x \in TextureRec /\ GoodTexture(t, x)
    BY DEF TypeOK, TextureInv
  <2>2. y \in TextureRec
    BY <2>1, KeepTypes
  <2>3. GoodTexture(t, y)
    <3>1. x.tracked => Settled(t)
      BY <2>1, SettledTexture DEF GoodTexture
    <3> QED
      BY <2>1, <3>1, KeepTextureGood
  <2>4. /\ y.tracked = x.tracked /\ y.permanent = x.permanent
        /\ y = x \/ t \in KeepInitialState
    <3>1. InitialState[t] \in States /\ Subresources \in SUBSET Subresources
      BY StatesKnown DEF Resources
    <3>2. permanentState[t] = Unknown =>
            TextureRequired(x, TrackTexture(t, x),
              BarrierSubresources(TrackTexture(t, x), Subresources, InitialState[t]),
              Subresources, InitialState[t],
              RequireTexture(t, x, Subresources, InitialState[t]))
      BY <2>1, <3>1, RequireTextureFields
    <3> QED
      BY <2>1, <3>2 DEF KeepTexture, TextureRequired
  <2>5. (t \in KeepInitialState /\ y.tracked /\ y.permanent = Unknown)
           => \A s \in Subresources : y.state[s] = InitialState[t]
    <3> SUFFICES ASSUME t \in KeepInitialState, y.tracked, y.permanent = Unknown
                 PROVE  \A s \in Subresources : y.state[s] = InitialState[t]
      OBVIOUS
    <3>1. ~x.permanentTransition /\ permanentState[t] = Unknown
      BY <2>1, <2>4 DEF GoodTexture
    <3> QED
      BY <2>1, <3>1, KeepTextureRestores
  <2>6. ApartFromOthers(cl, t, y)
    <3>1. x.tracked /\ t \in KeepInitialState => KnownTexture(x)
      BY <2>1 DEF GoodTexture, KnownTexture
    <3>2. KnownTexture(y) => y.tracked
      BY <2>3 DEF GoodTexture, KnownTexture
    <3> HIDE DEF y
    <3>3. KnownTexture(y) => KnownTexture(x)
      BY <2>4, <3>1, <3>2
    <3> QED
      BY <2>4, <3>3, ApartAsBefore
  <2> HIDE DEF y
  <2>7. f[t] = CommitTexture(y)
    BY DEF y
  <2>8. /\ f[t] \in TextureRec /\ GoodTexture(t, f[t])
        /\ f[t].tracked = y.tracked /\ f[t].state = y.state /\ f[t].permanent = y.permanent
    BY <2>2, <2>3, <2>7, CommitTextureFields, CommitTextureGood
  <2> HIDE DEF f
  <2>9. ApartFromOthers(cl, t, f[t])
    BY <2>6, <2>8 DEF ApartFromOthers, ApartTexture, KnownTexture
  <2> QED
    BY <2>5, <2>8, <2>9
<1>3. f \in [Textures -> TextureRec]
  BY <1>2
<1> HIDE DEF f
<1>4. \A c \in Others(cl) : phase'[c] = phase[c]
  BY <1>1 DEF TypeOK, Others
<1> QED
  BY <1>1, <1>2, <1>3, <1>4, TextureRecording

\* What executing a list makes of the state of a subresource or buffer: the one
\* the list believes in, if it knows one.
LEMMA AfterLeads ==
  ASSUME NEW rec \in Seq(Barrier), NEW state, NEW gpu, Leads(rec \o <<>>, state, gpu)
  PROVE  AfterBarriers(rec, gpu) = IF state = Unknown THEN gpu ELSE state
<1>1. rec \o <<>> = rec
  BY ConcatFacts
<1> QED
  BY <1>1 DEF Leads, AfterBarriers

\* executeCommandLists: every other list that relies on the state of a texture
\* still finds it.
LEMMA ExecuteKeepsTextures ==
  ASSUME TypeOK, ChainInv, TextureInv, NEW cl \in CommandLists, Execute(cl)
  PROVE  TextureInv'
<1> DEFINE x(t) == tex[cl][t]
<1>1. /\ phase[cl] = "closed" /\ phase' = [phase EXCEPT ![cl] = "initial"]
      /\ tex' = [tex EXCEPT ![cl] = [t \in Textures |-> EmptyTexture]]
      /\ app' = app
  BY DEF Execute
<1>2. \A t \in Textures : /\ x(t) \in TextureRec /\ GoodTexture(t, x(t))
                          /\ \A s \in Subresources : x(t).pending[s] = <<>>
  <2>1. \A t \in Textures : x(t) \in TextureRec /\ GoodTexture(t, x(t))
    BY DEF TypeOK, TextureInv
  <2>2. ~AnyPending(cl)
    BY <1>1 DEF ChainInv, CommittedUnlessOpen
  <2>3. \A t \in Textures, s \in Subresources : x(t).pending[s] = <<>>
    BY <2>2 DEF AnyPending
  <2> QED
    BY <2>1, <2>3
<1>3. ASSUME NEW t \in Textures
      PROVE  /\ permanentState'[t] = IF permanentState[t] = Unknown THEN x(t).permanent
                                     ELSE permanentState[t]
             /\ stateInitialized'[t] <=>
                  stateInitialized[t] \/ (x(t).tracked /\ t \in KeepInitialState)
  BY DEF Execute, NewPermanent, DeferredPermanent, Resources
<1>4. ASSUME NEW t \in Textures, NEW s \in Subresources
      PROVE  gpuTex'[t][s] = IF x(t).state[s] = Unknown THEN gpuTex[t][s] ELSE x(t).state[s]
  <2>1. gpuTex'[t][s] = AfterBarriers(x(t).recorded[s], gpuTex[t][s])
    BY DEF Execute
  <2>2. x(t).recorded[s] \in Seq(Barrier)
    BY <1>2 DEF TextureRec
  <2>3. Leads(x(t).recorded[s] \o <<>>, x(t).state[s], gpuTex[t][s])
    BY <1>2 DEF GoodTexture, GoodHistory
  <2> HIDE DEF x
  <2> QED
    BY <2>1, <2>2, <2>3, AfterLeads
\* what the list leaves the textures in
<1>5. ASSUME NEW t \in Textures, permanentState[t] # Unknown
      PROVE  /\ x(t).permanent = Unknown /\ ~x(t).tracked
             /\ \A s \in Subresources : gpuTex'[t][s] = gpuTex[t][s]
  BY <1>2, <1>4, <1>5 DEF GoodTexture
<1>6. PermanentTextures'
  <2> SUFFICES ASSUME NEW t \in Textures, permanentState'[t] # Unknown
               PROVE  /\ "permanent" \in app.calls
                      /\ \A s \in Subresources : gpuTex'[t][s] = permanentState'[t]
    BY <1>1 DEF PermanentTextures
  <2>1. CASE permanentState[t] # Unknown
    BY <1>3, <1>5, <2>1 DEF TextureInv, PermanentTextures
  <2>2. CASE permanentState[t] = Unknown
    BY <1>2, <1>3, <1>4, <2>2 DEF GoodTexture
  <2> QED
    BY <2>1, <2>2
<1>7. ASSUME NEW t \in Textures \cap KeepInitialState, permanentState'[t] = Unknown,
             NEW s \in Subresources
      PROVE  gpuTex'[t][s] = IF stateInitialized'[t] THEN InitialState[t] ELSE {Common}
  <2>1. permanentState[t] = Unknown /\ x(t).permanent = Unknown
    BY <1>3, <1>7
  <2>2. gpuTex[t][s] = AtRest(t)
    BY <2>1 DEF TextureInv, KeptTextures
  <2>3. x(t).tracked => x(t).state[s] = InitialState[t]
    BY <1>1, <2>1 DEF TextureInv, KeptTextures
  <2>4. ~x(t).tracked => x(t).state[s] = Unknown
    BY <1>2 DEF GoodTexture
  <2>5. InitialState[t] # Unknown
    BY StatesKnown DEF Resources
  <2> QED
    BY <1>3, <1>4, <2>2, <2>3, <2>4, <2>5 DEF AtRest
<1>8. ASSUME NEW c \in CommandLists
      PROVE  /\ c = cl => phase'[c] = "initial" /\ \A t \in Textures : tex'[c][t] = EmptyTexture
             /\ c # cl => phase'[c] = phase[c] /\ tex'[c] = tex[c]
  BY <1>1 DEF TypeOK
<1>9. KeptTextures'
  <2>1. ASSUME NEW t \in Textures \cap KeepInitialState, NEW c \in CommandLists,
               phase'[c] = "closed", tex'[c][t].tracked, tex'[c][t].permanent = Unknown,
               NEW s \in Subresources
        PROVE  tex'[c][t].state[s] = InitialState[t]
    BY <1>8, <2>1 DEF TextureInv, KeptTextures
  <2> QED
    BY <1>7, <2>1 DEF KeptTextures, AtRest
\* what the other lists rely on
<1>10. ASSUME NEW c \in CommandLists, c # cl, NEW t \in Textures
       PROVE  /\ tex[c][t].tracked => permanentState'[t] = Unknown
              /\ \A s \in Subresources :
                   GoodHistory(tex[c][t].recorded[s], tex[c][t].pending[s], tex[c][t].uses[s],
                               tex[c][t].state[s], gpuTex'[t][s], permanentState'[t])
  <2> DEFINE y == tex[c][t]
  <2>1. y \in TextureRec /\ GoodTexture(t, y)
    BY DEF TypeOK, TextureInv
  <2>2. /\ ApartTexture(t, x(t), y) /\ c \in Others(cl)
        /\ x(t) \in TextureRec /\ GoodTexture(t, x(t))
    BY <1>2, <1>10 DEF TextureInv, Others
  <2>3. y.tracked => permanentState[t] = Unknown /\ permanentState'[t] = Unknown
    BY <1>3, <2>1, <2>2 DEF GoodTexture, ApartTexture
  <2> SUFFICES ASSUME NEW s \in Subresources
               PROVE  GoodHistory(y.recorded[s], y.pending[s], y.uses[s], y.state[s],
                                  gpuTex'[t][s], permanentState'[t])
    BY <2>3
  <2>4. /\ GoodHistory(y.recorded[s], y.pending[s], y.uses[s], y.state[s],
                       gpuTex[t][s], permanentState[t])
        /\ y.recorded[s] \in Seq(Barrier) /\ y.pending[s] \in Seq(Barrier)
        /\ y.uses[s] \in Seq(Use)
    BY <2>1 DEF GoodTexture, TextureRec
  <2>5. CASE permanentState[t] # Unknown
    BY <1>3, <1>5, <2>4, <2>5
  <2>6. CASE permanentState[t] = Unknown /\ y.state[s] = Unknown
    BY <2>4, <2>6, HistoryUnknown
  <2>7. CASE permanentState[t] = Unknown /\ y.state[s] # Unknown
    <3>1. y.tracked
      BY <2>1, <2>7 DEF GoodTexture
    <3>2. gpuTex'[t][s] = gpuTex[t][s]
      <4>1. CASE x(t).state[s] = Unknown
        BY <1>4, <4>1
      <4>2. CASE x(t).state[s] # Unknown
        <5>1. x(t).tracked
          BY <2>2, <4>2 DEF GoodTexture
        <5>2. t \in KeepInitialState
          BY <2>2, <2>7, <4>2 DEF ApartTexture, KnownTexture
        <5>3. stateInitialized[t] /\ x(t).permanent = Unknown
          BY <2>2, <3>1, <5>1, <5>2 DEF ApartTexture
        <5>4. gpuTex[t][s] = InitialState[t]
          BY <2>7, <5>2, <5>3 DEF TextureInv, KeptTextures, AtRest
        <5>5. x(t).state[s] = InitialState[t]
          BY <1>1, <5>1, <5>2, <5>3 DEF TextureInv, KeptTextures
        <5> QED
          BY <1>4, <5>4, <5>5
      <4> QED
        BY <4>1, <4>2
    <3> QED
      BY <2>3, <2>4, <2>7, <3>1, <3>2
  <2> QED
    BY <2>5, <2>6, <2>7
<1>11. ASSUME NEW c \in CommandLists, NEW t \in Textures PROVE GoodTexture(t, tex[c][t])'
  <2>1. CASE c = cl
    <3>1. /\ ~EmptyTexture.tracked /\ EmptyTexture.permanent = Unknown
          /\ ~EmptyTexture.permanentTransition
          /\ \A s \in Subresources :
               /\ EmptyTexture.state[s] = Unknown /\ EmptyTexture.recorded[s] = <<>>
               /\ EmptyTexture.pending[s] = <<>> /\ EmptyTexture.uses[s] = <<>>
      BY DEF EmptyTexture
    <3>2. \A gpu, perm : GoodHistory(<<>>, <<>>, <<>>, Unknown, gpu, perm)
      BY HistoryEmpty
    <3> QED
      BY <1>8, <2>1, <3>1, <3>2 DEF GoodTexture
  <2>2. CASE c # cl
    <3>1. GoodTexture(t, tex[c][t]) /\ tex'[c][t] = tex[c][t]
      BY <1>8, <2>2 DEF TextureInv
    <3> QED
      BY <1>1, <1>10, <2>2, <3>1 DEF GoodTexture
  <2> QED
    BY <2>1, <2>2
<1>12. ASSUME NEW t \in Textures, NEW c \in CommandLists, NEW d \in Others(c)
       PROVE  ApartTexture(t, tex[c][t], tex[d][t])'
  <2>1. d \in CommandLists /\ d # c
    BY DEF Others
  <2>2. /\ ~EmptyTexture.tracked /\ EmptyTexture.permanent = Unknown
        /\ ~KnownTexture(EmptyTexture)
    BY DEF EmptyTexture, KnownTexture
  <2>3. ApartTexture(t, tex[c][t], tex[d][t])
    BY DEF TextureInv
  <2>4. ~stateInitialized'[t] => ~stateInitialized[t]
    BY <1>3
  <2>5. CASE c = cl \/ d = cl
    BY <1>8, <2>1, <2>2, <2>5 DEF ApartTexture, KnownTexture
  <2>6. CASE c # cl /\ d # cl
    BY <1>8, <2>1, <2>3, <2>4, <2>6 DEF ApartTexture, KnownTexture
  <2> QED
    BY <2>5, <2>6
<1>13. \A t \in InitializedTextures : stateInitialized'[t]
  BY <1>3 DEF TextureInv
<1> QED
  BY <1>6, <1>9, <1>11, <1>12, <1>13 DEF TextureInv

-----------------------------------------------------------------------------
(* SoundBuffer, operation by operation.                                     *)

\* the facts about a buffer that the operations rely on
SettledBuffer(b) ==
    /\ b \in app.resources
    /\ permanentState[b] = Unknown
    /\ b \in KeepInitialState => gpuBuf[b] = InitialState[b]

\* The only pending barrier may be made to lead to another state.
LEMMA HistoryMerge ==
  ASSUME NEW rec \in Seq(Barrier), NEW p \in Barrier, NEW uses \in Seq(Use),
         NEW state, NEW gpu, NEW m \in States, m # Unknown,
         GoodHistory(rec, <<p>>, uses, state, gpu, Unknown)
  PROVE  GoodHistory(rec, <<[p EXCEPT !.after = m]>>, uses, m, gpu, Unknown)
<1> DEFINE q == [p EXCEPT !.after = m]
           n == Len(rec)
           seq == rec \o <<p>>
           wide == rec \o <<q>>
<1>1. q \in Barrier /\ q.before = p.before /\ q.after = m
  BY DEF Barrier
<1> HIDE DEF q
<1>2. /\ n \in Nat /\ seq # <<>> /\ wide # <<>> /\ Len(wide) = n + 1
      /\ wide[n + 1] = q /\ seq[n + 1] = p
      /\ \A i \in 1..n : wide[i] = rec[i] /\ seq[i] = rec[i]
  BY <1>1
<1>3. Leads(seq, state, gpu) /\ Covered(uses, n, seq, Entry(seq, state, Unknown))
  BY DEF GoodHistory
<1> HIDE DEF seq, wide, n
<1>4. wide[1].before = seq[1].before
  <2>1. CASE n = 0
    BY <1>1, <1>2, <2>1
  <2>2. CASE n # 0
    BY <1>2, <2>2
  <2> QED
    BY <2>1, <2>2
<1>5. Leads(wide, m, gpu)
  BY <1>1, <1>2, <1>3, <1>4 DEF Leads
<1>6. Entry(wide, m, Unknown) = Entry(seq, state, Unknown)
  BY <1>2, <1>4 DEF Entry
<1>7. \A k \in 0..n : StateAt(wide, k, Entry(wide, m, Unknown))
                        = StateAt(seq, k, Entry(seq, state, Unknown))
  BY <1>2, <1>6 DEF StateAt
<1>8. Covered(uses, n, wide, Entry(wide, m, Unknown))
  BY <1>3, <1>7 DEF Covered
<1> QED
  BY <1>5, <1>8 DEF GoodHistory, wide, n, q

LEMMA TrackBufferFields ==
  ASSUME NEW b \in Buffers, NEW x \in BufferRec
  PROVE  LET y == TrackBuffer(b, x)
         IN  /\ y \in BufferRec /\ y.tracked
             /\ y.recorded = x.recorded /\ y.pending = x.pending /\ y.uses = x.uses
             /\ y.permanent = x.permanent /\ y.permanentTransition = x.permanentTransition
             /\ x.tracked => y = x
             /\ ~x.tracked => y.state = IF b \in KeepInitialState THEN InitialState[b] ELSE Unknown
<1>1. TrackBuffer(b, x) \in BufferRec
  BY TrackBufferType
<1>2. CASE x.tracked
  BY <1>1, <1>2 DEF TrackBuffer
<1>3. CASE ~x.tracked
  BY <1>1, <1>3 DEF TrackBuffer, BufferRec
<1> QED
  BY <1>2, <1>3

\* getBufferStateTracking
LEMMA TrackBufferSound ==
  ASSUME NEW b \in Buffers, NEW x \in BufferRec, SoundBuffer(b, x), SettledBuffer(b)
  PROVE  SoundBuffer(b, TrackBuffer(b, x))
<1> DEFINE y == TrackBuffer(b, x)
<1>1. /\ y \in BufferRec /\ y.tracked
      /\ y.recorded = x.recorded /\ y.pending = x.pending /\ y.uses = x.uses
      /\ y.permanent = x.permanent /\ y.permanentTransition = x.permanentTransition
      /\ x.tracked => y = x
      /\ ~x.tracked => y.state = IF b \in KeepInitialState THEN InitialState[b] ELSE Unknown
  BY TrackBufferFields
<1> HIDE DEF y
<1>2. CASE x.tracked
  BY <1>1, <1>2 DEF y
<1>3. CASE ~x.tracked
  <2>1. x.permanent = Unknown /\ x.state = Unknown
    BY <1>3 DEF SoundBuffer
  <2>2. x.recorded \in Seq(Barrier) /\ x.pending \in Seq(Barrier) /\ x.uses \in Seq(Use)
    BY DEF BufferRec
  <2>3. GoodHistory(x.recorded, x.pending, x.uses, Unknown, gpuBuf[b], Unknown)
    BY <2>1 DEF SoundBuffer, SettledBuffer
  <2>4. x.recorded \o x.pending = <<>>
    BY <2>3 DEF GoodHistory, Leads
  <2>5. GoodHistory(x.recorded, x.pending, x.uses, gpuBuf[b], gpuBuf[b], Unknown)
    BY <2>2, <2>3, <2>4, HistoryKnown
  <2>6. y.state \in {Unknown, gpuBuf[b]}
    BY <1>1, <1>3 DEF SettledBuffer
  <2>7. GoodHistory(y.recorded, y.pending, y.uses, y.state, gpuBuf[b], permanentState[b])
    BY <1>1, <2>3, <2>5, <2>6 DEF SettledBuffer
  <2>8. b \in KeepInitialState => y.state # Unknown
    BY <1>1, <1>3, StatesKnown DEF Resources
  <2> QED
    BY <1>1, <1>3, <2>1, <2>7, <2>8 DEF SoundBuffer, SettledBuffer, y
<1> QED
  BY <1>2, <1>3

\* z is x after a require of state st, with y the record once the buffer is tracked
BufferRequired(x, y, st, z) ==
    /\ z \in BufferRec /\ z.tracked
    /\ z.recorded = x.recorded /\ z.uses = x.uses
    /\ z.permanent = x.permanent /\ z.permanentTransition = x.permanentTransition
    /\ IF y.state # st /\ x.pending # <<>>
       THEN /\ z.state = x.pending[1].after \cup st
            /\ z.pending = [x.pending EXCEPT ![1] = [x.pending[1] EXCEPT !.after = z.state]]
       ELSE /\ z.state = st
            /\ z.pending = IF y.state # st \/ UavBarrierDue(y, st)
                           THEN Append(x.pending, [before |-> y.state, after |-> st])
                           ELSE x.pending

LEMMA RequireBufferFields ==
  ASSUME TypeOK, NEW b \in Tracked, NEW x \in BufferRec, permanentState[b] = Unknown,
         NEW st \in States
  PROVE  BufferRequired(x, TrackBuffer(b, x), st, RequireBuffer(b, x, st))
<1> DEFINE y == TrackBuffer(b, x)
           z == RequireBuffer(b, x, st)
<1>0. b \in Buffers /\ b \notin UntrackedBuffers
  BY DEF Tracked
<1>1. /\ y \in BufferRec /\ y.tracked
      /\ y.recorded = x.recorded /\ y.pending = x.pending /\ y.uses = x.uses
      /\ y.permanent = x.permanent /\ y.permanentTransition = x.permanentTransition
  BY <1>0, TrackBufferFields
<1>2. z \in BufferRec
  BY <1>0, RequireBufferType
<1> HIDE DEF y
<1>3. CASE y.state # st /\ y.pending # <<>>
  <2> DEFINE merged == y.pending[1].after \cup st
  <2>1. z = [y EXCEPT !.pending[1].after = merged, !.state = merged]
    BY <1>0, <1>3 DEF RequireBuffer, y
  <2> HIDE DEF merged, z
  <2>2. /\ z.tracked = y.tracked /\ z.recorded = y.recorded /\ z.uses = y.uses
        /\ z.permanent = y.permanent /\ z.permanentTransition = y.permanentTransition
        /\ z.state = merged
        /\ z.pending = [y.pending EXCEPT ![1] = [y.pending[1] EXCEPT !.after = merged]]
    BY <1>1, <2>1 DEF BufferRec
  <2> QED
    BY <1>1, <1>2, <1>3, <2>2 DEF BufferRequired, merged, y, z
<1>4. CASE ~(y.state # st /\ y.pending # <<>>)
  <2> DEFINE more == IF y.state # st \/ UavBarrierDue(y, st)
                     THEN Append(y.pending, [before |-> y.state, after |-> st])
                     ELSE y.pending
             placed == y.firstUavBarrierPlaced \/ (UavBarrierDue(y, st) /\ ~(y.state # st))
  <2>1. z = [y EXCEPT !.pending = more, !.firstUavBarrierPlaced = placed, !.state = st]
    BY <1>0, <1>4 DEF RequireBuffer, y
  <2> HIDE DEF more, placed, z
  <2>2. /\ z.tracked = y.tracked /\ z.recorded = y.recorded /\ z.uses = y.uses
        /\ z.permanent = y.permanent /\ z.permanentTransition = y.permanentTransition
        /\ z.state = st /\ z.pending = more
    BY <1>1, <2>1 DEF BufferRec
  <2> QED
    BY <1>1, <1>2, <1>4, <2>2 DEF BufferRequired, more, y, z
<1> QED
  BY <1>3, <1>4

LEMMA ConcatLast ==
  ASSUME NEW rec \in Seq(Barrier), NEW pend \in Seq(Barrier), pend # <<>>
  PROVE  rec \o pend # <<>> /\ (rec \o pend)[Len(rec \o pend)] = pend[Len(pend)]
<1>1. Len(rec) \in Nat /\ Len(pend) \in Nat \ {0} /\ Len(rec \o pend) = Len(rec) + Len(pend)
  OBVIOUS
<1>2. Len(rec) + Len(pend) > Len(rec) /\ Len(rec) + Len(pend) \in 1..(Len(rec) + Len(pend))
  BY <1>1
<1>3. (rec \o pend)[Len(rec) + Len(pend)] = pend[Len(pend)]
  BY <1>1, <1>2
<1> QED
  BY <1>1, <1>3

LEMMA PendingTracked ==
  ASSUME NEW b \in Buffers, NEW x \in BufferRec, SoundBuffer(b, x), x.pending # <<>>
  PROVE  x.tracked /\ x.state = x.pending[Len(x.pending)].after /\ x.state # Unknown
<1> DEFINE seq == x.recorded \o x.pending
<1>1. x.recorded \in Seq(Barrier) /\ x.pending \in Seq(Barrier)
  BY DEF BufferRec
<1>2. seq # <<>> /\ seq[Len(seq)] = x.pending[Len(x.pending)]
  BY <1>1, ConcatLast
<1>3. Leads(seq, x.state, gpuBuf[b])
  BY DEF SoundBuffer, GoodHistory
<1> HIDE DEF seq
<1> QED
  BY <1>2, <1>3 DEF Leads, SoundBuffer

\* requireBufferState of a state that is neither unknown nor in the way of a
\* permanent transition.
LEMMA RequireBufferSound ==
  ASSUME TypeOK, NEW b \in Tracked, NEW x \in BufferRec, SoundBuffer(b, x), SettledBuffer(b),
         NEW st \in States, st # Unknown, x.permanent \in {Unknown, st},
         b \in KeepInitialState \/ x.state # Unknown,
         x.pending # <<>> /\ x.state # st => Len(x.pending) = 1,
         NEW y, y = TrackBuffer(b, x), NEW z, z = RequireBuffer(b, x, st)
  PROVE  /\ z \in BufferRec /\ SoundBuffer(b, z) /\ z.tracked /\ z.permanent = x.permanent
         /\ x.pending = <<>> \/ x.state = st => z.state = st
         /\ x.pending # <<>> /\ x.state # st =>
              z.state = x.state \cup st /\ Len(z.pending) = 1 /\ z.pending # <<>>
         /\ x.pending = <<>> => /\ z.pending = <<>> \/ Len(z.pending) = 1
                                /\ y.state # st \/ UavBarrierDue(y, st) => z.pending # <<>>
         /\ x.pending # <<>> /\ x.state = st /\ ~UavBarrierDue(x, st) => z.pending = x.pending
<1>0. b \in Buffers /\ permanentState[b] = Unknown /\ b \in app.resources
  BY DEF Tracked, SettledBuffer
<1>1. /\ y \in BufferRec /\ y.tracked
      /\ y.recorded = x.recorded /\ y.pending = x.pending /\ y.uses = x.uses
      /\ y.permanent = x.permanent /\ y.permanentTransition = x.permanentTransition
      /\ x.tracked => y = x
  BY <1>0, TrackBufferFields
<1>2. SoundBuffer(b, y)
  BY <1>0, TrackBufferSound
<1>3. BufferRequired(x, y, st, z)
  BY <1>0, RequireBufferFields
<1>4. y.state # Unknown /\ y.state \in States
  BY <1>1, <1>2 DEF SoundBuffer, BufferRec
<1>5. x.pending # <<>> => y = x
  BY <1>0, <1>1, PendingTracked
<1>6. /\ x.recorded \in Seq(Barrier) /\ x.pending \in Seq(Barrier) /\ x.uses \in Seq(Use)
  BY DEF BufferRec
<1>7. GoodHistory(x.recorded, x.pending, x.uses, y.state, gpuBuf[b], Unknown)
  BY <1>0, <1>1, <1>2 DEF SoundBuffer
<1>8. y.permanent # Unknown => y.state = y.permanent /\ "permanent" \in app.calls
  BY <1>2 DEF SoundBuffer
<1>9. ~y.permanentTransition
  BY <1>2 DEF SoundBuffer
<1>10. /\ z \in BufferRec /\ z.tracked /\ z.permanent = x.permanent /\ ~z.permanentTransition
       /\ z.recorded = x.recorded /\ z.uses = x.uses
  BY <1>1, <1>3, <1>9 DEF BufferRequired
<1>11. CASE y.state # st /\ x.pending # <<>>
  <2> DEFINE p == x.pending[1]
  <2>1. y = x /\ Len(x.pending) = 1
    BY <1>5, <1>11
  <2>2. /\ z.state = p.after \cup st
        /\ z.pending = [x.pending EXCEPT ![1] = [p EXCEPT !.after = z.state]]
    BY <1>3, <1>11 DEF BufferRequired
  <2>3. p \in Barrier /\ x.pending = <<p>> /\ x.state = p.after
    BY <1>0, <1>6, <1>11, <2>1, PendingTracked
  <2> HIDE DEF p
  <2>4. z.pending = <<[p EXCEPT !.after = z.state]>>
    <3> DEFINE q == [p EXCEPT !.after = z.state]
    <3> HIDE DEF q
    <3>1. [<<p>> EXCEPT ![1] = q] = <<q>>
      OBVIOUS
    <3> QED
      BY <2>2, <2>3, <3>1 DEF q
  <2>5. z.state \in States /\ z.state # Unknown
    BY <1>10, <2>2 DEF BufferRec, Unknown
  <2>6. GoodHistory(x.recorded, <<p>>, x.uses, y.state, gpuBuf[b], Unknown)
    BY <1>7, <2>3
  <2>7. GoodHistory(x.recorded, <<[p EXCEPT !.after = z.state]>>, x.uses, z.state, gpuBuf[b], Unknown)
    BY <1>6, <2>3, <2>5, <2>6, HistoryMerge
  <2>8. x.permanent = Unknown
    BY <1>8, <1>11, <2>1
  <2>9. SoundBuffer(b, z)
    BY <1>0, <1>10, <2>4, <2>5, <2>7, <2>8 DEF SoundBuffer
  <2>10. z.pending # <<>> /\ Len(z.pending) = 1
    BY <2>4
  <2> QED
    BY <1>10, <1>11, <2>1, <2>2, <2>3, <2>9, <2>10
<1>12. CASE ~(y.state # st /\ x.pending # <<>>)
  <2>1. /\ z.state = st
        /\ z.pending = IF y.state # st \/ UavBarrierDue(y, st)
                       THEN Append(x.pending, [before |-> y.state, after |-> st])
                       ELSE x.pending
    BY <1>3, <1>12 DEF BufferRequired
  <2>2. GoodHistory(z.recorded, z.pending, z.uses, z.state, gpuBuf[b], permanentState[b])
    <3>1. CASE y.state # st \/ UavBarrierDue(y, st)
      <4>1. GoodHistory(x.recorded, Append(x.pending, [before |-> y.state, after |-> st]),
                        x.uses, st, gpuBuf[b], Unknown)
        BY <1>4, <1>6, <1>7, HistoryAppend
      <4> QED
        BY <1>0, <1>10, <2>1, <3>1, <4>1
    <3>2. CASE ~(y.state # st \/ UavBarrierDue(y, st))
      BY <1>0, <1>7, <1>10, <2>1, <3>2
    <3> QED
      BY <3>1, <3>2
  <2>3. SoundBuffer(b, z)
    BY <1>0, <1>1, <1>8, <1>10, <2>1, <2>2 DEF SoundBuffer
  <2>4. x.pending = <<>> => /\ z.pending = <<>> \/ Len(z.pending) = 1
                            /\ y.state # st \/ UavBarrierDue(y, st) => z.pending # <<>>
    <3>1. [before |-> y.state, after |-> st] \in Barrier
      BY <1>4 DEF Barrier
    <3> DEFINE e == [before |-> y.state, after |-> st]
    <3> HIDE DEF e
    <3>2. Len(Append(<<>>, e)) = 1 /\ Append(<<>>, e) # <<>>
      OBVIOUS
    <3> QED
      BY <2>1, <3>2 DEF e
  <2> QED
    BY <1>5, <1>10, <1>12, <2>1, <2>3, <2>4
<1> QED
  BY <1>11, <1>12

LEMMA CommitBufferFields ==
  ASSUME NEW x \in BufferRec
  PROVE  LET y == CommitBuffer(x)
         IN  /\ y \in BufferRec
             /\ y.tracked = x.tracked /\ y.state = x.state /\ y.uses = x.uses
             /\ y.permanent = x.permanent /\ y.permanentTransition = x.permanentTransition
             /\ y.recorded = x.recorded \o x.pending /\ y.pending = <<>>
<1>1. CommitBuffer(x) \in BufferRec
  BY CommitTypes
<1> QED
  BY <1>1 DEF CommitBuffer, BufferRec

LEMMA CommitBufferGood ==
  ASSUME NEW b \in Buffers, NEW x \in BufferRec, SoundBuffer(b, x)
  PROVE  GoodBuffer(b, CommitBuffer(x))
<1> DEFINE y == CommitBuffer(x)
<1>1. /\ y.tracked = x.tracked /\ y.state = x.state /\ y.uses = x.uses
      /\ y.permanent = x.permanent /\ y.permanentTransition = x.permanentTransition
      /\ y.recorded = x.recorded \o x.pending /\ y.pending = <<>>
  BY CommitBufferFields
<1> HIDE DEF y
<1>2. GoodHistory(y.recorded, y.pending, y.uses, y.state, gpuBuf[b], permanentState[b])
  <2>1. x.recorded \in Seq(Barrier) /\ x.pending \in Seq(Barrier)
    BY DEF BufferRec
  <2>2. GoodHistory(x.recorded, x.pending, x.uses, x.state, gpuBuf[b], permanentState[b])
    BY DEF SoundBuffer
  <2>3. GoodHistory(x.recorded \o x.pending, <<>>, x.uses, x.state, gpuBuf[b], permanentState[b])
    BY <2>1, <2>2, HistoryCommit
  <2> QED
    BY <1>1, <2>3
<1> QED
  BY <1>1, <1>2 DEF SoundBuffer, GoodBuffer, y

LEMMA AccessBufferGood ==
  ASSUME NEW b \in Buffers, NEW x \in BufferRec, GoodBuffer(b, x), x.pending = <<>>,
         NEW st \in States,
         IF permanentState[b] = Unknown THEN st \subseteq x.state ELSE st \subseteq permanentState[b]
  PROVE  GoodBuffer(b, AccessBuffer(x, st))
<1> DEFINE y == AccessBuffer(x, st)
<1>1. /\ y.tracked = x.tracked /\ y.state = x.state
      /\ y.recorded = x.recorded /\ y.pending = <<>>
      /\ y.permanent = x.permanent /\ y.permanentTransition = x.permanentTransition
      /\ y.uses = Append(x.uses, [at |-> Len(x.recorded), state |-> st])
  BY DEF AccessBuffer, BufferRec
<1> HIDE DEF y
<1>2. x.recorded \in Seq(Barrier) /\ x.uses \in Seq(Use)
  BY DEF BufferRec
<1>3. GoodHistory(x.recorded, <<>>, x.uses, x.state, gpuBuf[b], permanentState[b])
  BY DEF GoodBuffer, SoundBuffer
<1>4. permanentState[b] # Unknown => x.recorded = <<>>
  <2>1. permanentState[b] # Unknown => x.state = Unknown
    BY DEF GoodBuffer, SoundBuffer
  <2>2. x.recorded \o <<>> = x.recorded
    BY <1>2, ConcatFacts
  <2> QED
    BY <1>3, <2>1, <2>2 DEF GoodHistory, Leads
<1>5. GoodHistory(x.recorded, <<>>, Append(x.uses, [at |-> Len(x.recorded), state |-> st]),
                  x.state, gpuBuf[b], permanentState[b])
  BY <1>2, <1>3, <1>4, HistoryAccess
<1> QED
  BY <1>1, <1>5 DEF GoodBuffer, SoundBuffer, y

-----------------------------------------------------------------------------
(* BufferInv, call by call.                                                 *)

BufferApartFromOthers(cl, b, z) == \A c \in Others(cl) :
    ApartBuffer(b, z, buf[c][b]) /\ ApartBuffer(b, buf[c][b], z)

Idle(x) == x.recorded = <<>> /\ x.pending = <<>>

\* list cl may hold record z of buffer b
BufferFits(cl, b, z) ==
    IF b \in UntrackedBuffers THEN Idle(z)
    ELSE GoodBuffer(b, z) /\ BufferApartFromOthers(cl, b, z)

LEMMA BuffersSplit == \A b : b \in Buffers <=> b \in Tracked \/ b \in UntrackedBuffers
  BY DEF Tracked

LEMMA SettledBufferFacts ==
  ASSUME BufferInv, NEW b \in Tracked, b \in app.resources, permanentState[b] = Unknown
  PROVE  SettledBuffer(b)
  BY DEF BufferInv, KeptBuffers, SettledBuffer

LEMMA BufferApartAsBefore ==
  ASSUME BufferInv, NEW cl \in CommandLists, NEW b \in Tracked, NEW z,
         z.tracked = buf[cl][b].tracked, z.permanent = buf[cl][b].permanent,
         z.state # Unknown => buf[cl][b].state # Unknown
  PROVE  BufferApartFromOthers(cl, b, z)
<1> SUFFICES ASSUME NEW c \in Others(cl)
             PROVE  ApartBuffer(b, z, buf[c][b]) /\ ApartBuffer(b, buf[c][b], z)
  BY DEF BufferApartFromOthers
<1>1. c \in CommandLists /\ cl \in Others(c)
  BY DEF Others
<1>2. ApartBuffer(b, buf[cl][b], buf[c][b]) /\ ApartBuffer(b, buf[c][b], buf[cl][b])
  BY <1>1 DEF BufferInv
<1> QED
  BY <1>2 DEF ApartBuffer

LEMMA BufferNotTexture == \A b \in Buffers : b \notin Textures
  OBVIOUS

LEMMA BufferApartAlone ==
  ASSUME BufferInv, NEW cl \in CommandLists, NEW b \in Tracked, NEW z,
         \A c \in Others(cl) : ~Tracks(c, b)
  PROVE  BufferApartFromOthers(cl, b, z)
<1> SUFFICES ASSUME NEW c \in Others(cl)
             PROVE  ApartBuffer(b, z, buf[c][b]) /\ ApartBuffer(b, buf[c][b], z)
  BY DEF BufferApartFromOthers
<1>0. b \notin Textures
  BY BuffersSplit, BufferNotTexture
<1>1. c \in CommandLists /\ ~buf[c][b].tracked
  BY <1>0 DEF Others, Tracks
<1>2. buf[c][b].permanent = Unknown /\ buf[c][b].state = Unknown
  BY <1>1 DEF BufferInv, GoodBuffer, SoundBuffer
<1> QED
  BY <1>1, <1>2 DEF ApartBuffer

\* A step that changes the records of one list only.
LEMMA BufferRecording ==
  ASSUME TypeOK, BufferInv, NEW cl \in CommandLists, NEW f \in [Buffers -> BufferRec],
         buf' = [buf EXCEPT ![cl] = f],
         UNCHANGED <<app, permanentState, gpuBuf>>,
         \A c \in Others(cl) : phase'[c] = phase[c],
         \A b \in Buffers : BufferFits(cl, b, f[b]),
         phase'[cl] = "closed" => \A b \in Tracked \cap KeepInitialState :
            f[b].tracked => f[b].state = InitialState[b]
  PROVE  BufferInv'
<1>1. buf'[cl] = f /\ \A c \in Others(cl) : buf'[c] = buf[c]
  BY DEF TypeOK, Others
<1>2. /\ \A b \in Tracked : b \in Buffers /\ GoodBuffer(b, f[b]) /\ BufferApartFromOthers(cl, b, f[b])
      /\ \A b \in UntrackedBuffers : Idle(f[b])
  BY DEF BufferFits, Tracked
<1>3. ASSUME NEW c \in CommandLists, NEW b \in Tracked PROVE GoodBuffer(b, buf[c][b])'
  <2>1. GoodBuffer(b, buf'[c][b])
    BY <1>1, <1>2 DEF BufferInv, Others
  <2> QED
    BY <2>1 DEF GoodBuffer, SoundBuffer
<1>4. ASSUME NEW b \in Tracked, NEW c \in CommandLists, NEW d \in Others(c)
      PROVE  ApartBuffer(b, buf[c][b], buf[d][b])'
  <2>1. d \in CommandLists /\ d # c
    BY DEF Others
  <2>2. ApartBuffer(b, buf'[c][b], buf'[d][b])
    <3>1. CASE c = cl
      <4>1. d \in Others(cl) /\ buf'[d][b] = buf[d][b] /\ buf'[c][b] = f[b]
        BY <1>1, <3>1
      <4> QED
        BY <1>2, <4>1 DEF BufferApartFromOthers
    <3>2. CASE d = cl
      <4>1. c \in Others(cl) /\ buf'[c][b] = buf[c][b] /\ buf'[d][b] = f[b]
        BY <1>1, <2>1, <3>2 DEF Others
      <4> QED
        BY <1>2, <4>1 DEF BufferApartFromOthers
    <3>3. CASE c # cl /\ d # cl
      <4>1. buf'[c] = buf[c] /\ buf'[d] = buf[d]
        BY <1>1, <2>1, <3>3 DEF Others
      <4> QED
        BY <4>1 DEF BufferInv
    <3> QED
      BY <3>1, <3>2, <3>3
  <2> QED
    BY <2>2 DEF ApartBuffer
<1>5. KeptBuffers'
  <2>1. ASSUME NEW b \in Tracked \cap KeepInitialState, NEW c \in CommandLists,
               phase'[c] = "closed", buf'[c][b].tracked
        PROVE  buf'[c][b].state = InitialState[b]
    BY <1>1, <2>1 DEF BufferInv, KeptBuffers, Others
  <2>2. ASSUME NEW b \in Tracked \cap KeepInitialState, permanentState'[b] = Unknown
        PROVE  gpuBuf'[b] = InitialState[b]
    BY <2>2 DEF BufferInv, KeptBuffers
  <2> QED
    BY <2>1, <2>2 DEF KeptBuffers
<1>6. PermanentBuffers'
  BY DEF BufferInv, PermanentBuffers
<1>7. UntrackedIdle'
  BY <1>1, <1>2 DEF BufferInv, UntrackedIdle, Idle, Others
<1> QED
  BY <1>3, <1>4, <1>5, <1>6, <1>7 DEF BufferInv

LEMMA BufferAsBefore ==
  ASSUME TypeOK, BufferInv, NEW cl \in CommandLists, NEW b \in Buffers
  PROVE  buf[cl][b] \in BufferRec /\ BufferFits(cl, b, buf[cl][b])
<1>1. buf[cl][b] \in BufferRec
  BY DEF TypeOK
<1>2. b \in UntrackedBuffers => Idle(buf[cl][b])
  BY DEF BufferInv, UntrackedIdle, Idle
<1>3. ASSUME b \in Tracked PROVE GoodBuffer(b, buf[cl][b]) /\ BufferApartFromOthers(cl, b, buf[cl][b])
  BY <1>3, BufferApartAsBefore DEF BufferInv
<1> QED
  BY <1>1, <1>2, <1>3, BuffersSplit DEF BufferFits

LEMMA BufferChanged ==
  ASSUME TypeOK, BufferInv, NEW cl \in CommandLists, Records(cl),
         NEW b \in Buffers, NEW z \in BufferRec, BufferFits(cl, b, z),
         buf' = [buf EXCEPT ![cl][b] = z]
  PROVE  BufferInv'
<1> DEFINE f == [buf[cl] EXCEPT ![b] = z]
<1>1. buf[cl] \in [Buffers -> BufferRec]
  BY DEF TypeOK
<1>2. /\ f \in [Buffers -> BufferRec] /\ f[b] = z
      /\ \A u \in Buffers : u # b => f[u] = buf[cl][u]
  BY <1>1
<1>3. buf' = [buf EXCEPT ![cl] = f]
  BY DEF TypeOK
<1> HIDE DEF f
<1>4. \A u \in Buffers : BufferFits(cl, u, f[u])
  BY <1>2, BufferAsBefore
<1>5. phase' = phase /\ phase[cl] = "open" /\ UNCHANGED <<app, permanentState, gpuBuf>>
  BY DEF Records
<1> QED
  BY <1>2, <1>3, <1>4, <1>5, BufferRecording

LEMMA CommittedBuffer ==
  ASSUME TypeOK, BufferInv, NEW cl \in CommandLists, NEW b \in Buffers
  PROVE  /\ CommitBuffer(buf[cl][b]) \in BufferRec
         /\ BufferFits(cl, b, CommitBuffer(buf[cl][b]))
<1> DEFINE x == buf[cl][b]
           y == CommitBuffer(x)
<1>1. x \in BufferRec /\ BufferFits(cl, b, x)
  BY BufferAsBefore
<1>2. /\ y \in BufferRec /\ y.tracked = x.tracked /\ y.permanent = x.permanent
      /\ y.state = x.state /\ y.recorded = x.recorded \o x.pending /\ y.pending = <<>>
  BY <1>1, CommitBufferFields
<1>3. CASE b \in UntrackedBuffers
  <2>1. x.recorded = <<>> /\ x.pending = <<>>
    BY <1>1, <1>3 DEF BufferFits, Idle
  <2>2. <<>> \o <<>> = <<>>
    OBVIOUS
  <2> QED
    BY <1>2, <1>3, <2>1, <2>2 DEF BufferFits, Idle
<1>4. CASE b \in Tracked
  <2>0. b \notin UntrackedBuffers
    BY <1>4 DEF Tracked
  <2>1. SoundBuffer(b, x)
    BY <1>1, <2>0 DEF BufferFits, GoodBuffer
  <2>2. GoodBuffer(b, y)
    BY <1>1, <2>1, CommitBufferGood
  <2> HIDE DEF y
  <2>3. BufferApartFromOthers(cl, b, y)
    BY <1>2, <1>4, BufferApartAsBefore
  <2> QED
    BY <1>2, <2>0, <2>2, <2>3 DEF BufferFits, y
<1> QED
  BY <1>3, <1>4, BuffersSplit

LEMMA BuffersCommitted ==
  ASSUME TypeOK, BufferInv, NEW cl \in CommandLists, phase[cl] = "open", phase' = phase,
         UNCHANGED <<app, permanentState, gpuBuf>>,
         buf' = [buf EXCEPT ![cl] = [b \in Buffers |-> CommitBuffer(buf[cl][b])]]
  PROVE  BufferInv'
<1> DEFINE f == [b \in Buffers |-> CommitBuffer(buf[cl][b])]
<1>1. \A b \in Buffers : CommitBuffer(buf[cl][b]) \in BufferRec
                         /\ BufferFits(cl, b, CommitBuffer(buf[cl][b]))
  BY CommittedBuffer
<1>2. f \in [Buffers -> BufferRec] /\ \A b \in Buffers : BufferFits(cl, b, f[b])
  BY <1>1
<1>3. buf' = [buf EXCEPT ![cl] = f]
  OBVIOUS
<1> HIDE DEF f
<1> QED
  BY <1>2, <1>3, BufferRecording

LEMMA BufferUsed ==
  ASSUME TypeOK, BufferInv, NEW cl \in CommandLists, Records(cl),
         NEW b \in Buffers, NEW z \in BufferRec, BufferFits(cl, b, z),
         buf' = [buf EXCEPT ![cl] = [c \in Buffers |->
                    IF c = b THEN z ELSE CommitBuffer(buf[cl][c])]]
  PROVE  BufferInv'
<1> DEFINE f == [c \in Buffers |-> IF c = b THEN z ELSE CommitBuffer(buf[cl][c])]
<1>1. \A c \in Buffers : CommitBuffer(buf[cl][c]) \in BufferRec
                         /\ BufferFits(cl, c, CommitBuffer(buf[cl][c]))
  BY CommittedBuffer
<1>2. f \in [Buffers -> BufferRec] /\ \A c \in Buffers : BufferFits(cl, c, f[c])
  BY <1>1
<1>3. buf' = [buf EXCEPT ![cl] = f]
  OBVIOUS
<1> HIDE DEF f
<1>4. phase' = phase /\ phase[cl] = "open" /\ UNCHANGED <<app, permanentState, gpuBuf>>
  BY DEF Records
<1> QED
  BY <1>2, <1>3, <1>4, BufferRecording

\* What MayUseBuffer says of the record that the list and the others hold.
LEMMA MayUseBufferFacts ==
  ASSUME BufferInv, Disciplined(app), NEW cl \in CommandLists, NEW b \in Tracked,
         NEW st \in Usages, MayUseBuffer(cl, b, st)
  PROVE  /\ b \in app.resources
         /\ permanentState[b] = Unknown => SettledBuffer(b)
         /\ permanentState[b] # Unknown => st \subseteq permanentState[b]
         /\ buf[cl][b].permanent \in {Unknown, st}
         /\ permanentState[b] = Unknown => b \in KeepInitialState \/ buf[cl][b].state # Unknown
         /\ \A c \in Others(cl) : buf[c][b].permanent = Unknown
<1>0. b \notin Textures
  BY BuffersSplit, BufferNotTexture
<1>1. "subset" \notin app.calls
  BY DEF Disciplined
<1>2. b \in app.resources
  BY DEF MayUseBuffer
<1>3. permanentState[b] = Unknown => SettledBuffer(b)
  BY <1>2, SettledBufferFacts
<1> QED
  BY <1>0, <1>1, <1>2, <1>3 DEF MayUseBuffer, RespectsPermanent, DeferredPermanent

\* A record that still only knows what the list may know.
LEMMA BufferApartUsed ==
  ASSUME BufferInv, NEW cl \in CommandLists, NEW b \in Tracked, NEW z,
         z.permanent = buf[cl][b].permanent,
         b \in KeepInitialState \/ buf[cl][b].state # Unknown,
         \A c \in Others(cl) : buf[c][b].permanent = Unknown
  PROVE  BufferApartFromOthers(cl, b, z)
<1> SUFFICES ASSUME NEW c \in Others(cl)
             PROVE  ApartBuffer(b, z, buf[c][b]) /\ ApartBuffer(b, buf[c][b], z)
  BY DEF BufferApartFromOthers
<1>1. c \in CommandLists /\ cl \in Others(c)
  BY DEF Others
<1>2. ApartBuffer(b, buf[cl][b], buf[c][b]) /\ ApartBuffer(b, buf[c][b], buf[cl][b])
  BY <1>1 DEF BufferInv
<1> QED
  BY <1>2 DEF ApartBuffer

\* no list uses a keepInitialState buffer and leaves barriers on it pending
LEMMA PendingCalls ==
  ASSUME Disciplined(app), NEW b \in Tracked, NEW x \in BufferRec, GoodBuffer(b, x),
         x.pending # <<>>
  PROVE  /\ b \in app.resources /\ b \notin KeepInitialState
         /\ "setState" \notin app.calls => x.permanent # Unknown
<1>1. b \in Buffers
  BY BuffersSplit
<1>2. x.tracked
  BY <1>1, PendingTracked DEF GoodBuffer
<1>3. b \in app.resources
  BY <1>2 DEF GoodBuffer, SoundBuffer
<1>4. "setState" \in app.calls \/ (x.permanent # Unknown /\ "permanent" \in app.calls)
  BY DEF GoodBuffer, SoundBuffer
<1> QED
  BY <1>1, <1>3, <1>4 DEF Disciplined

LEMMA SetBufferStateFits ==
  ASSUME TypeOK, BufferInv, Disciplined(app), NEW cl \in CommandLists, NEW b \in Buffers,
         NEW st \in Usages, SetBufferState(cl, b, st)
  PROVE  BufferFits(cl, b, RequireBuffer(b, buf[cl][b], st))
<1> DEFINE x == buf[cl][b]
           y == TrackBuffer(b, x)
           z == RequireBuffer(b, x, st)
<1>1. x \in BufferRec /\ BufferFits(cl, b, x) /\ st \in States /\ st # Unknown
  BY BufferAsBefore, StatesKnown
<1>2. CASE b \in UntrackedBuffers \/ permanentState[b] # Unknown
  BY <1>1, <1>2 DEF RequireBuffer
<1>3. CASE b \notin UntrackedBuffers /\ permanentState[b] = Unknown
  <2>1. b \in Tracked /\ GoodBuffer(b, x) /\ SoundBuffer(b, x)
    BY <1>1, <1>3 DEF BufferFits, Tracked, GoodBuffer
  <2>2. MayUseBuffer(cl, b, st) /\ "setState" \in app.calls /\ ~StacksUav(cl, b, st)
    BY DEF SetBufferState, Disciplined
  <2>3. /\ SettledBuffer(b) /\ x.permanent \in {Unknown, st}
        /\ b \in KeepInitialState \/ x.state # Unknown
        /\ \A c \in Others(cl) : buf[c][b].permanent = Unknown
    BY <1>3, <2>1, <2>2, MayUseBufferFacts
  <2>4. x.pending # <<>> => Len(x.pending) = 1
    BY <2>1 DEF GoodBuffer
  <2>5. /\ SoundBuffer(b, z) /\ z.permanent = x.permanent
        /\ x.pending # <<>> /\ x.state # st => Len(z.pending) = 1
        /\ x.pending = <<>> => z.pending = <<>> \/ Len(z.pending) = 1
        /\ x.pending # <<>> /\ x.state = st /\ ~UavBarrierDue(x, st) => z.pending = x.pending
    BY <1>1, <2>1, <2>3, <2>4, RequireBufferSound
  <2>6. x.pending # <<>> /\ x.state = st => ~UavBarrierDue(x, st)
    BY <2>2 DEF StacksUav
  <2> HIDE DEF z
  <2>7. z.pending # <<>> => Len(z.pending) = 1
    BY <2>4, <2>5, <2>6
  <2>8. BufferApartFromOthers(cl, b, z)
    BY <2>1, <2>3, <2>5, BufferApartUsed
  <2> QED
    BY <1>3, <2>2, <2>5, <2>7, <2>8 DEF BufferFits, GoodBuffer, z
<1> QED
  BY <1>2, <1>3

LEMMA SetPermanentBufferStateFits ==
  ASSUME TypeOK, BufferInv, Disciplined(app), NEW cl \in CommandLists, NEW b \in Buffers,
         NEW st \in Usages, SetPermanentBufferState(cl, b, st)
  PROVE  BufferFits(cl, b, PermanentBuffer(b, buf[cl][b], st))
<1> DEFINE x == buf[cl][b]
           r == RequireBuffer(b, x, st)
           z == PermanentBuffer(b, x, st)
<1>0. b \notin Textures
  BY BufferNotTexture
<1>1. x \in BufferRec /\ BufferFits(cl, b, x) /\ st \in States /\ st # Unknown
  BY BufferAsBefore, StatesKnown
<1>2. /\ MayUseBuffer(cl, b, st) /\ "permanent" \in app.calls /\ b \in app.resources
      /\ permanentState[b] = Unknown /\ x.permanent = Unknown
      /\ \A c \in Others(cl) : ~Tracks(c, b)
  BY <1>0 DEF SetPermanentBufferState, MayMakePermanent, DeferredPermanent
<1>3. r \in BufferRec
  BY <1>1, RequireBufferType
<1> HIDE DEF r
<1>4. /\ z.tracked = r.tracked /\ z.state = r.state /\ z.uses = r.uses
      /\ z.recorded = r.recorded /\ z.pending = r.pending
      /\ z.permanentTransition = r.permanentTransition
      /\ z.permanent = IF r.permanent = Unknown THEN st ELSE r.permanent
  BY <1>3 DEF PermanentBuffer, BufferRec, r
<1> HIDE DEF z
<1>5. CASE b \in UntrackedBuffers
  <2>1. r = x
    BY <1>5 DEF RequireBuffer, r
  <2> QED
    BY <1>1, <1>4, <1>5, <2>1 DEF BufferFits, Idle, z
<1>6. CASE b \in Tracked
  <2>0. b \notin UntrackedBuffers
    BY <1>6 DEF Tracked
  <2>1. GoodBuffer(b, x) /\ SoundBuffer(b, x)
    BY <1>1, <2>0 DEF BufferFits, GoodBuffer
  <2>2. "setState" \notin app.calls
    BY <1>2 DEF Disciplined
  <2>3. x.pending = <<>>
    BY <1>1, <1>2, <1>6, <2>1, <2>2, PendingCalls
  <2>4. SettledBuffer(b) /\ (b \in KeepInitialState \/ x.state # Unknown)
    BY <1>2, <1>6, MayUseBufferFacts
  <2>5. /\ SoundBuffer(b, r) /\ r.permanent = Unknown /\ r.state = st /\ r.tracked
        /\ r.pending = <<>> \/ Len(r.pending) = 1
    BY <1>1, <1>2, <1>6, <2>1, <2>3, <2>4, RequireBufferSound DEF r
  <2>6. z.permanent = st /\ SoundBuffer(b, z)
    BY <1>1, <1>2, <1>4, <2>5 DEF SoundBuffer
  <2>7. GoodBuffer(b, z)
    BY <1>1, <1>4, <2>5, <2>6 DEF GoodBuffer
  <2>8. BufferApartFromOthers(cl, b, z)
    BY <1>2, <1>6, BufferApartAlone
  <2> QED
    BY <2>0, <2>7, <2>8 DEF BufferFits, z
<1> QED
  BY <1>5, <1>6, BuffersSplit

LEMMA SetEnableUavBarriersFits ==
  ASSUME TypeOK, BufferInv, Disciplined(app), NEW cl \in CommandLists, NEW b \in Buffers,
         NEW enable \in BOOLEAN, SetEnableUavBarriersForBuffer(cl, b, enable),
         NEW z, z = [TrackBuffer(b, buf[cl][b]) EXCEPT
                       !.enableUavBarriers = enable, !.firstUavBarrierPlaced = FALSE]
  PROVE  z \in BufferRec /\ BufferFits(cl, b, z)
<1> DEFINE x == buf[cl][b]
           y == TrackBuffer(b, x)
<1>0. z = [y EXCEPT !.enableUavBarriers = enable, !.firstUavBarrierPlaced = FALSE]
  OBVIOUS
<1>1. x \in BufferRec /\ BufferFits(cl, b, x)
  BY BufferAsBefore
<1>2. "uavToggle" \in app.calls /\ b \in app.resources
  BY DEF SetEnableUavBarriersForBuffer
<1>3. /\ y \in BufferRec /\ y.tracked /\ y.permanent = x.permanent
      /\ y.recorded = x.recorded /\ y.pending = x.pending
      /\ x.tracked => y = x
      /\ ~x.tracked => y.state = IF b \in KeepInitialState THEN InitialState[b] ELSE Unknown
  BY <1>1, TrackBufferFields
<1>4. b \in Tracked => "permanent" \notin app.calls
  BY <1>2, BuffersSplit DEF Disciplined
<1>5. ASSUME b \in Tracked
      PROVE  SoundBuffer(b, x) /\ GoodBuffer(b, x) /\ SoundBuffer(b, y) /\ x.permanent = Unknown
  <2>1. SoundBuffer(b, x) /\ GoodBuffer(b, x)
    BY <1>1, <1>5 DEF BufferFits, Tracked, GoodBuffer
  <2>2. permanentState[b] = Unknown /\ x.permanent = Unknown
    BY <1>4, <1>5, <2>1 DEF BufferInv, PermanentBuffers, SoundBuffer
  <2>3. SettledBuffer(b)
    BY <1>2, <1>5, <2>2, SettledBufferFacts
  <2> QED
    BY <1>1, <2>1, <2>2, <2>3, TrackBufferSound
<1> HIDE DEF y
<1>6. /\ z \in BufferRec /\ z.tracked = y.tracked /\ z.permanent = y.permanent
      /\ z.permanentTransition = y.permanentTransition /\ z.state = y.state
      /\ z.recorded = y.recorded /\ z.pending = y.pending /\ z.uses = y.uses
  BY <1>0, <1>3 DEF BufferRec
<1>7. CASE b \in UntrackedBuffers
  BY <1>1, <1>3, <1>6, <1>7 DEF BufferFits, Idle
<1>8. CASE b \in Tracked
  <2>0. b \notin UntrackedBuffers
    BY <1>8 DEF Tracked
  <2>1. GoodBuffer(b, z)
    BY <1>3, <1>5, <1>6, <1>8 DEF GoodBuffer, SoundBuffer
  <2>2. ASSUME NEW c \in Others(cl)
        PROVE  ApartBuffer(b, z, buf[c][b]) /\ ApartBuffer(b, buf[c][b], z)
    <3>1. c \in CommandLists /\ cl \in Others(c)
      BY DEF Others
    <3>2. /\ ApartBuffer(b, x, buf[c][b]) /\ ApartBuffer(b, buf[c][b], x)
          /\ buf[c][b].permanent = Unknown
      BY <1>4, <1>8, <3>1 DEF BufferInv, GoodBuffer, SoundBuffer
    <3>3. b \notin KeepInitialState => (z.state # Unknown => x.state # Unknown)
      BY <1>3, <1>6
    <3> QED
      BY <1>3, <1>5, <1>6, <1>8, <3>2, <3>3 DEF ApartBuffer
  <2> QED
    BY <1>6, <2>0, <2>1, <2>2 DEF BufferFits, BufferApartFromOthers
<1> QED
  BY <1>6, <1>7, <1>8, BuffersSplit

LEMMA BeginTrackingBufferFits ==
  ASSUME TypeOK, BufferInv, NEW cl \in CommandLists, NEW b \in Buffers,
         NEW st \in States \ {Unknown}, BeginTrackingBufferState(cl, b, st),
         NEW z, z = [TrackBuffer(b, buf[cl][b]) EXCEPT !.state = st]
  PROVE  z \in BufferRec /\ BufferFits(cl, b, z)
<1> DEFINE x == buf[cl][b]
           y == TrackBuffer(b, x)
<1>0. z = [y EXCEPT !.state = st]
  OBVIOUS
<1>1. x \in BufferRec /\ BufferFits(cl, b, x)
  BY BufferAsBefore
<1>2. /\ b \in app.resources /\ b \notin KeepInitialState /\ permanentState[b] = Unknown
      /\ \A c \in Others(cl) : ~Tracks(c, b)
      /\ gpuBuf[b] = st /\ x.recorded \o x.pending = <<>>
  BY DEF BeginTrackingBufferState, MayDeclareState
<1>3. /\ y \in BufferRec /\ y.tracked /\ y.permanent = x.permanent
      /\ y.recorded = x.recorded /\ y.pending = x.pending
  BY <1>1, TrackBufferFields
<1>4. ASSUME b \in Tracked PROVE GoodBuffer(b, x) /\ SoundBuffer(b, y)
  <2>1. SoundBuffer(b, x) /\ GoodBuffer(b, x)
    BY <1>1, <1>4 DEF BufferFits, Tracked, GoodBuffer
  <2>2. SettledBuffer(b)
    BY <1>2, <1>4, SettledBufferFacts
  <2> QED
    BY <1>1, <2>1, <2>2, TrackBufferSound
<1> HIDE DEF y
<1>5. /\ z \in BufferRec /\ z.tracked = y.tracked /\ z.permanent = y.permanent
      /\ z.permanentTransition = y.permanentTransition /\ z.state = st
      /\ z.recorded = y.recorded /\ z.pending = y.pending /\ z.uses = y.uses
  BY <1>0, <1>3 DEF BufferRec
<1>6. CASE b \in UntrackedBuffers
  BY <1>1, <1>3, <1>5, <1>6 DEF BufferFits, Idle
<1>7. CASE b \in Tracked
  <2>0. b \notin UntrackedBuffers
    BY <1>7 DEF Tracked
  <2>1. /\ y.recorded \in Seq(Barrier) /\ y.pending \in Seq(Barrier) /\ y.uses \in Seq(Use)
        /\ y.recorded \o y.pending = <<>>
    BY <1>2, <1>3 DEF BufferRec
  <2>2. GoodHistory(y.recorded, y.pending, y.uses, y.state, gpuBuf[b], Unknown)
    BY <1>2, <1>4, <1>7 DEF SoundBuffer
  <2>3. GoodHistory(y.recorded, y.pending, y.uses, st, gpuBuf[b], Unknown)
    BY <1>2, <2>1, <2>2, HistoryKnown
  <2>4. y.state \in {Unknown, st}
    BY <1>2, <2>1, <2>2 DEF GoodHistory, Leads
  <2>5. z.pending = <<>>
    BY <1>5, <2>1, ConcatFacts
  <2>6. GoodBuffer(b, z)
    BY <1>2, <1>3, <1>4, <1>5, <1>7, <2>3, <2>4, <2>5 DEF GoodBuffer, SoundBuffer
  <2>7. BufferApartFromOthers(cl, b, z)
    BY <1>2, <1>7, BufferApartAlone
  <2> QED
    BY <1>5, <2>0, <2>6, <2>7 DEF BufferFits
<1> QED
  BY <1>5, <1>6, <1>7, BuffersSplit

\* An access of st after the barriers for it, in a record r that has placed them.
LEMMA AccessedBufferFits ==
  ASSUME BufferInv, NEW cl \in CommandLists, NEW b \in Buffers,
         NEW r \in BufferRec, NEW st \in States,
         IF b \in UntrackedBuffers THEN Idle(r)
         ELSE /\ SoundBuffer(b, r) /\ BufferApartFromOthers(cl, b, r)
              /\ IF permanentState[b] = Unknown THEN st \subseteq r.state
                 ELSE st \subseteq permanentState[b],
         NEW z, z = AccessBuffer(CommitBuffer(r), st)
  PROVE  z \in BufferRec /\ BufferFits(cl, b, z)
<1> DEFINE y == CommitBuffer(r)
<1>0. z = AccessBuffer(y, st)
  OBVIOUS
<1>1. /\ y \in BufferRec /\ y.tracked = r.tracked /\ y.state = r.state
      /\ y.permanent = r.permanent
      /\ y.recorded = r.recorded \o r.pending /\ y.pending = <<>>
  BY CommitBufferFields
<1>2. b \notin UntrackedBuffers => GoodBuffer(b, y)
  BY CommitBufferGood
<1> HIDE DEF y
<1>3. z \in BufferRec
  BY <1>0, <1>1, AccessTypes
<1>4. /\ z.tracked = y.tracked /\ z.state = y.state /\ z.permanent = y.permanent
      /\ z.recorded = y.recorded /\ z.pending = y.pending
  BY <1>0, <1>1 DEF AccessBuffer, BufferRec
<1>5. CASE b \in UntrackedBuffers
  <2>1. <<>> \o <<>> = <<>>
    OBVIOUS
  <2> QED
    BY <1>1, <1>3, <1>4, <1>5, <2>1 DEF BufferFits, Idle
<1>6. CASE b \notin UntrackedBuffers
  <2>1. GoodBuffer(b, z)
    BY <1>0, <1>1, <1>2, <1>6, AccessBufferGood
  <2>2. BufferApartFromOthers(cl, b, z)
    BY <1>1, <1>4, <1>6 DEF BufferApartFromOthers, ApartBuffer
  <2> QED
    BY <1>3, <1>6, <2>1, <2>2 DEF BufferFits
<1> QED
  BY <1>5, <1>6

LEMMA UseBufferFits ==
  ASSUME TypeOK, BufferInv, Disciplined(app), NEW cl \in CommandLists, NEW b \in Buffers,
         NEW st \in Usages, UseBuffer(cl, b, st),
         NEW z, z = AccessBuffer(CommitBuffer(RequireBuffer(b, buf[cl][b], st)), st)
  PROVE  z \in BufferRec /\ BufferFits(cl, b, z)
<1> DEFINE x == buf[cl][b]
           r == RequireBuffer(b, x, st)
<1>1. x \in BufferRec /\ BufferFits(cl, b, x) /\ st \in States /\ st # Unknown
  BY BufferAsBefore, StatesKnown
<1>2. MayUseBuffer(cl, b, st)
  BY DEF UseBuffer
<1>3. r \in BufferRec
  BY <1>1, RequireBufferType
<1>4. CASE b \in UntrackedBuffers
  <2>1. r = x
    BY <1>4 DEF RequireBuffer
  <2>2. Idle(r)
    BY <1>1, <1>4, <2>1 DEF BufferFits
  <2> QED
    BY <1>1, <1>3, <1>4, <2>2, AccessedBufferFits
<1>5. CASE b \notin UntrackedBuffers
  <2>1. b \in Tracked /\ GoodBuffer(b, x) /\ SoundBuffer(b, x) /\ BufferApartFromOthers(cl, b, x)
    BY <1>1, <1>5 DEF BufferFits, Tracked, GoodBuffer
  <2>2. CASE permanentState[b] # Unknown
    <3>1. r = x
      BY <2>2 DEF RequireBuffer
    <3>2. st \subseteq permanentState[b]
      BY <1>2, <2>1, <2>2, MayUseBufferFacts
    <3> QED
      BY <1>1, <1>3, <1>5, <2>1, <2>2, <3>1, <3>2, AccessedBufferFits
  <2>3. CASE permanentState[b] = Unknown
    <3>1. /\ SettledBuffer(b) /\ x.permanent \in {Unknown, st}
          /\ b \in KeepInitialState \/ x.state # Unknown
          /\ \A c \in Others(cl) : buf[c][b].permanent = Unknown
      BY <1>2, <2>1, <2>3, MayUseBufferFacts
    <3>2. x.pending # <<>> => Len(x.pending) = 1
      BY <2>1 DEF GoodBuffer
    <3>3. /\ SoundBuffer(b, r) /\ r.permanent = x.permanent
          /\ x.pending = <<>> \/ x.state = st => r.state = st
          /\ x.pending # <<>> /\ x.state # st => r.state = x.state \cup st
      BY <1>1, <2>1, <3>1, <3>2, RequireBufferSound
    <3> HIDE DEF r
    <3>4. st \subseteq r.state
      BY <3>3
    <3>5. BufferApartFromOthers(cl, b, r)
      BY <2>1, <3>1, <3>3, BufferApartUsed
    <3>6. z = AccessBuffer(CommitBuffer(r), st)
      BY DEF r
    <3> QED
      BY <1>1, <1>3, <1>5, <2>3, <3>3, <3>4, <3>5, <3>6, AccessedBufferFits
  <2> QED
    BY <2>2, <2>3
<1> QED
  BY <1>4, <1>5

\* The two ways in which one draw uses a buffer end up in the same barrier.
LEMMA UseBufferTwiceFits ==
  ASSUME TypeOK, BufferInv, Disciplined(app), NEW cl \in CommandLists, NEW b \in Buffers,
         NEW st1 \in Usages, NEW st2 \in Usages, UseBufferTwice(cl, b, st1, st2),
         NEW r, r = RequireBuffer(b, buf[cl][b], st1),
         NEW q, q = RequireBuffer(b, r, st2),
         NEW z, z = AccessBuffer(CommitBuffer(q), st1 \cup st2)
  PROVE  z \in BufferRec /\ BufferFits(cl, b, z)
<1> DEFINE x == buf[cl][b]
           both == st1 \cup st2
<1>1. /\ x \in BufferRec /\ BufferFits(cl, b, x)
      /\ st1 \in States /\ st1 # Unknown /\ st2 \in States /\ st2 # Unknown
      /\ both \in States
  BY BufferAsBefore, StatesKnown DEF States
<1>2. /\ MayUseBuffer(cl, b, st1) /\ MayUseBuffer(cl, b, st2)
      /\ "multiUse" \in app.calls /\ Combines(cl, b, st1, st2)
  BY DEF UseBufferTwice, Disciplined
<1>3. r \in BufferRec /\ q \in BufferRec
  BY <1>1, RequireBufferType
<1> HIDE DEF both
<1>4. z = AccessBuffer(CommitBuffer(q), both)
  BY DEF both
<1>5. CASE b \in UntrackedBuffers
  <2>1. q = x
    BY <1>5 DEF RequireBuffer
  <2>2. Idle(q)
    BY <1>1, <1>5, <2>1 DEF BufferFits
  <2> QED
    BY <1>1, <1>3, <1>4, <1>5, <2>2, AccessedBufferFits
<1>6. CASE b \notin UntrackedBuffers
  <2>1. b \in Tracked /\ GoodBuffer(b, x) /\ SoundBuffer(b, x) /\ BufferApartFromOthers(cl, b, x)
    BY <1>1, <1>6 DEF BufferFits, Tracked, GoodBuffer
  <2>2. CASE permanentState[b] # Unknown
    <3>1. q = x
      BY <2>2 DEF RequireBuffer
    <3>2. both \subseteq permanentState[b]
      BY <1>2, <2>1, <2>2, MayUseBufferFacts DEF both
    <3> QED
      BY <1>1, <1>3, <1>4, <1>6, <2>1, <2>2, <3>1, <3>2, AccessedBufferFits
  <2>3. CASE permanentState[b] = Unknown
    <3> DEFINE y == TrackBuffer(b, x)
    <3>1. /\ SettledBuffer(b) /\ b \in app.resources
          /\ x.permanent \in {Unknown, st1} /\ x.permanent \in {Unknown, st2}
          /\ b \in KeepInitialState \/ x.state # Unknown
          /\ \A c \in Others(cl) : buf[c][b].permanent = Unknown
      BY <1>2, <2>1, <2>3, MayUseBufferFacts
    <3>2. "setState" \notin app.calls
      BY <1>2, <2>1, <3>1, BuffersSplit DEF Disciplined
    <3>3. x.pending # <<>> => x.permanent # Unknown /\ x.state = x.permanent
      BY <1>1, <2>1, <3>2, PendingCalls DEF SoundBuffer
    <3>4. x.pending # <<>> => x.state = st1 /\ st1 = st2
      BY <3>1, <3>3
    <3>5. /\ SoundBuffer(b, r) /\ r.permanent = x.permanent /\ r.state = st1
          /\ x.pending = <<>> =>
               /\ r.pending = <<>> \/ Len(r.pending) = 1
               /\ y.state # st1 \/ UavBarrierDue(y, st1) => r.pending # <<>>
      BY <1>1, <2>1, <3>1, <3>4, RequireBufferSound
    <3>6. st1 # st2 => r.pending # <<>> /\ Len(r.pending) = 1
      BY <1>2, <3>4, <3>5 DEF Combines
    <3>7. /\ SoundBuffer(b, q) /\ q.permanent = r.permanent
          /\ r.state = st2 => q.state = st2
          /\ r.pending # <<>> /\ r.state # st2 => q.state = r.state \cup st2
      <4>1. b \in KeepInitialState \/ r.state # Unknown
        BY <1>1, <3>5
      <4>2. r.pending # <<>> /\ r.state # st2 => Len(r.pending) = 1
        BY <3>5, <3>6
      <4>3. r.permanent \in {Unknown, st2}
        BY <3>1, <3>5
      <4> QED
        BY <1>1, <1>3, <2>1, <3>1, <3>5, <4>1, <4>2, <4>3, RequireBufferSound
    <3>8. q.state = both
      BY <3>5, <3>6, <3>7 DEF both
    <3>9. BufferApartFromOthers(cl, b, q)
      BY <2>1, <3>1, <3>5, <3>7, BufferApartUsed
    <3> QED
      BY <1>1, <1>3, <1>4, <1>6, <2>3, <3>7, <3>8, <3>9, AccessedBufferFits
  <2> QED
    BY <2>2, <2>3
<1> QED
  BY <1>5, <1>6

LEMMA BufferCallKeeps ==
  ASSUME TypeOK, BufferInv, Disciplined(app), NEW cl \in CommandLists, BufferCall(cl)
  PROVE  BufferInv'
<1>0. /\ \A b \in Buffers : buf[cl][b] \in BufferRec
      /\ \A st \in Usages : st \in States
  BY StatesKnown DEF TypeOK
<1>1. ASSUME NEW b \in Buffers, NEW enable \in BOOLEAN,
             SetEnableUavBarriersForBuffer(cl, b, enable)
      PROVE  BufferInv'
  <2> DEFINE z == [TrackBuffer(b, buf[cl][b]) EXCEPT
                     !.enableUavBarriers = enable, !.firstUavBarrierPlaced = FALSE]
  <2>1. Records(cl) /\ buf' = [buf EXCEPT ![cl][b] = z]
    BY <1>1 DEF SetEnableUavBarriersForBuffer, SetBuffer
  <2>2. z \in BufferRec /\ BufferFits(cl, b, z)
    BY <1>1, SetEnableUavBarriersFits
  <2> HIDE DEF z
  <2> QED
    BY <2>1, <2>2, BufferChanged
<1>2. ASSUME NEW b \in Buffers, NEW st \in States \ {Unknown},
             BeginTrackingBufferState(cl, b, st)
      PROVE  BufferInv'
  <2> DEFINE z == [TrackBuffer(b, buf[cl][b]) EXCEPT !.state = st]
  <2>1. Records(cl) /\ buf' = [buf EXCEPT ![cl][b] = z]
    BY <1>2 DEF BeginTrackingBufferState, SetBuffer
  <2>2. z \in BufferRec /\ BufferFits(cl, b, z)
    BY <1>2, BeginTrackingBufferFits
  <2> HIDE DEF z
  <2> QED
    BY <2>1, <2>2, BufferChanged
<1>3. ASSUME NEW b \in Buffers, NEW st \in Usages, SetBufferState(cl, b, st)
      PROVE  BufferInv'
  <2> DEFINE z == RequireBuffer(b, buf[cl][b], st)
  <2>1. Records(cl) /\ buf' = [buf EXCEPT ![cl][b] = z]
    BY <1>3 DEF SetBufferState, SetBuffer
  <2>2. z \in BufferRec /\ BufferFits(cl, b, z)
    BY <1>0, <1>3, SetBufferStateFits, RequireBufferType
  <2> HIDE DEF z
  <2> QED
    BY <2>1, <2>2, BufferChanged
<1>4. ASSUME NEW b \in Buffers, NEW st \in Usages, SetPermanentBufferState(cl, b, st)
      PROVE  BufferInv'
  <2> DEFINE z == PermanentBuffer(b, buf[cl][b], st)
  <2>1. Records(cl) /\ buf' = [buf EXCEPT ![cl][b] = z]
    BY <1>4 DEF SetPermanentBufferState, SetBuffer
  <2>2. z \in BufferRec /\ BufferFits(cl, b, z)
    BY <1>0, <1>4, SetPermanentBufferStateFits, PermanentBufferType
  <2> HIDE DEF z
  <2> QED
    BY <2>1, <2>2, BufferChanged
<1>5. ASSUME NEW b \in Buffers, NEW st \in Usages, UseBuffer(cl, b, st)
      PROVE  BufferInv'
  <2> DEFINE z == AccessBuffer(CommitBuffer(RequireBuffer(b, buf[cl][b], st)), st)
  <2>1. /\ Records(cl)
        /\ buf' = [buf EXCEPT ![cl] = [c \in Buffers |->
                     IF c = b THEN z ELSE CommitBuffer(buf[cl][c])]]
    BY <1>5 DEF UseBuffer
  <2>2. z \in BufferRec /\ BufferFits(cl, b, z)
    BY <1>5, UseBufferFits
  <2> HIDE DEF z
  <2> QED
    BY <2>1, <2>2, BufferUsed
<1>6. ASSUME NEW b \in Buffers, NEW st1 \in Usages, NEW st2 \in Usages,
             UseBufferTwice(cl, b, st1, st2)
      PROVE  BufferInv'
  <2> DEFINE r == RequireBuffer(b, buf[cl][b], st1)
             q == RequireBuffer(b, r, st2)
             z == AccessBuffer(CommitBuffer(q), st1 \cup st2)
  <2>1. /\ Records(cl)
        /\ buf' = [buf EXCEPT ![cl] = [c \in Buffers |->
                     IF c = b THEN z ELSE CommitBuffer(buf[cl][c])]]
    BY <1>6 DEF UseBufferTwice
  <2>2. z \in BufferRec /\ BufferFits(cl, b, z)
    BY <1>6, UseBufferTwiceFits
  <2> HIDE DEF z
  <2> QED
    BY <2>1, <2>2, BufferUsed
<1> QED
  BY <1>1, <1>2, <1>3, <1>4, <1>5, <1>6 DEF BufferCall

LEMMA OpenKeepsBuffers ==
  ASSUME TypeOK, TypeOK', ChainInv, FreshInv, BufferInv, Disciplined(app),
         NEW cl \in CommandLists, Open(cl)
  PROVE  BufferInv'
<1> DEFINE z(b) == [buf[cl][b] EXCEPT !.recorded = <<>>, !.uses = <<>>]
           f == [b \in Buffers |-> z(b)]
<1>1. /\ buf' = [buf EXCEPT ![cl] = f] /\ phase' = [phase EXCEPT ![cl] = "open"]
      /\ UNCHANGED <<app, permanentState, gpuBuf>>
      /\ phase[cl] = "initial" \/ (phase[cl] = "closed" /\ "reopen" \in app.calls)
  BY DEF Open
<1>2. ASSUME NEW b \in Buffers PROVE BufferFits(cl, b, z(b))
  <2> DEFINE x == buf[cl][b]
             y == z(b)
  <2>1. x \in BufferRec /\ BufferFits(cl, b, x)
    BY BufferAsBefore
  <2>2. /\ y.tracked = x.tracked /\ y.state = x.state /\ y.pending = x.pending
        /\ y.permanent = x.permanent /\ y.permanentTransition = x.permanentTransition
        /\ y.recorded = <<>> /\ y.uses = <<>>
    BY <2>1 DEF BufferRec
  <2> HIDE DEF z
  <2>3. CASE b \in UntrackedBuffers
    BY <2>1, <2>2, <2>3 DEF BufferFits, Idle
  <2>4. CASE b \in Tracked
    <3>0. b \notin UntrackedBuffers
      BY <2>4 DEF Tracked
    <3>1. GoodBuffer(b, x) /\ SoundBuffer(b, x)
      BY <2>1, <3>0 DEF BufferFits, GoodBuffer
    <3>2. x.pending = <<>> /\ x.state \in {Unknown, gpuBuf[b]}
      <4>1. CASE phase[cl] = "initial"
        BY <4>1 DEF FreshInv, EmptyBuffer
      <4>2. CASE phase[cl] = "closed" /\ "reopen" \in app.calls
        <5>1. x.pending = <<>>
          BY <4>2 DEF ChainInv, CommittedUnlessOpen, AnyPending
        <5>2. ~x.tracked => x.state = Unknown
          BY <3>1 DEF SoundBuffer
        <5>3. ASSUME x.tracked PROVE x.state = gpuBuf[b]
          <6>1. b \in app.resources /\ permanentState[b] = Unknown
            BY <3>1, <5>3 DEF SoundBuffer
          <6>2. b \in KeepInitialState
            BY <4>2, <6>1 DEF Disciplined
          <6> QED
            BY <2>4, <4>2, <5>3, <6>1, <6>2 DEF BufferInv, KeptBuffers
        <5> QED
          BY <5>1, <5>2, <5>3
      <4> QED
        BY <1>1, <4>1, <4>2
    <3>3. GoodHistory(<<>>, <<>>, <<>>, x.state, gpuBuf[b], permanentState[b])
      BY <3>2, HistoryEmpty
    <3>4. GoodBuffer(b, y)
      BY <2>2, <3>1, <3>2, <3>3 DEF GoodBuffer, SoundBuffer
    <3>5. BufferApartFromOthers(cl, b, y)
      BY <2>2, <2>4, BufferApartAsBefore
    <3> QED
      BY <3>0, <3>4, <3>5 DEF BufferFits
  <2> QED
    BY <2>3, <2>4, BuffersSplit
<1>3. f \in [Buffers -> BufferRec]
  BY <1>1 DEF TypeOK
<1>4. \A b \in Buffers : BufferFits(cl, b, f[b])
  BY <1>2
<1> HIDE DEF f
<1>5. phase'[cl] = "open" /\ \A c \in Others(cl) : phase'[c] = phase[c]
  BY <1>1 DEF TypeOK, Others
<1> QED
  BY <1>1, <1>3, <1>4, <1>5, BufferRecording

\* close() returns the buffers to their initialState: none has a barrier pending.
LEMMA CloseKeepsBuffers ==
  ASSUME TypeOK, BufferInv, Disciplined(app), NEW cl \in CommandLists, Close(cl)
  PROVE  BufferInv'
<1> DEFINE f == [b \in Buffers |-> CommitBuffer(KeepBuffer(b, buf[cl][b]))]
<1>1. /\ buf' = [buf EXCEPT ![cl] = f] /\ phase' = [phase EXCEPT ![cl] = "closed"]
      /\ UNCHANGED <<app, permanentState, gpuBuf>>
  BY DEF Close
<1>2. ASSUME NEW b \in Buffers
      PROVE  /\ f[b] \in BufferRec /\ BufferFits(cl, b, f[b])
             /\ (b \in Tracked \cap KeepInitialState /\ f[b].tracked) => f[b].state = InitialState[b]
  <2> DEFINE x == buf[cl][b]
             y == KeepBuffer(b, x)
  <2>1. x \in BufferRec /\ BufferFits(cl, b, x)
    BY BufferAsBefore
  <2>2. y \in BufferRec
    BY <2>1, KeepTypes
  <2>3. CASE b \in UntrackedBuffers
    <3>1. y = x
      BY <2>3 DEF KeepBuffer, RequireBuffer
    <3>2. CommitBuffer(x) \in BufferRec /\ BufferFits(cl, b, CommitBuffer(x))
      BY CommittedBuffer
    <3> QED
      BY <2>3, <3>1, <3>2 DEF Tracked
  <2>4. CASE b \in Tracked
    <3>0. b \notin UntrackedBuffers
      BY <2>4 DEF Tracked
    <3>1. GoodBuffer(b, x) /\ SoundBuffer(b, x)
      BY <2>1, <3>0 DEF BufferFits, GoodBuffer
    <3>2. /\ SoundBuffer(b, y) /\ y.tracked = x.tracked /\ y.permanent = x.permanent
          /\ y.state # Unknown => x.state # Unknown
          /\ b \in KeepInitialState /\ y.tracked => y.state = InitialState[b]
      <4>1. CASE x.tracked /\ b \in KeepInitialState
        <5>1. b \in app.resources /\ permanentState[b] = Unknown /\ ~x.permanentTransition
          BY <3>1, <4>1 DEF SoundBuffer
        <5>2. x.permanent = Unknown /\ x.pending = <<>>
          <6>1. "permanent" \notin app.calls
            BY <4>1, <5>1 DEF Disciplined
          <6>2. x.permanent = Unknown
            BY <3>1, <6>1 DEF SoundBuffer
          <6> QED
            BY <2>1, <2>4, <3>1, <4>1, <6>2, PendingCalls
        <5>3. SettledBuffer(b)
          BY <2>4, <5>1, SettledBufferFacts
        <5>4. InitialState[b] \in States /\ InitialState[b] # Unknown
          BY StatesKnown DEF Resources
        <5>5. y = RequireBuffer(b, x, InitialState[b])
          BY <4>1, <5>1 DEF KeepBuffer
        <5>6. /\ SoundBuffer(b, y) /\ y.tracked /\ y.permanent = x.permanent
              /\ y.state = InitialState[b]
          BY <2>1, <2>4, <3>1, <4>1, <5>2, <5>3, <5>4, <5>5, RequireBufferSound
        <5>7. x.state # Unknown
          BY <3>1, <4>1 DEF SoundBuffer
        <5> QED
          BY <4>1, <5>6, <5>7
      <4>2. CASE ~(x.tracked /\ b \in KeepInitialState)
        <5>1. y = x
          BY <4>2 DEF KeepBuffer
        <5> QED
          BY <3>1, <4>2, <5>1
      <4> QED
        BY <4>1, <4>2
    <3> HIDE DEF y
    <3>3. f[b] = CommitBuffer(y)
      BY DEF y
    <3>4. /\ f[b] \in BufferRec /\ GoodBuffer(b, f[b])
          /\ f[b].tracked = y.tracked /\ f[b].state = y.state /\ f[b].permanent = y.permanent
      BY <2>2, <3>2, <3>3, CommitBufferFields, CommitBufferGood, ZenonT(40)
    <3> HIDE DEF f
    <3>5. BufferApartFromOthers(cl, b, f[b])
      BY <2>4, <3>2, <3>4, BufferApartAsBefore
    <3> QED
      BY <3>0, <3>2, <3>4, <3>5 DEF BufferFits
  <2> QED
    BY <2>3, <2>4, BuffersSplit
<1>3. f \in [Buffers -> BufferRec]
  BY <1>2
<1> HIDE DEF f
<1>4. \A c \in Others(cl) : phase'[c] = phase[c]
  BY <1>1 DEF TypeOK, Others
<1>5. \A b \in Tracked \cap KeepInitialState : f[b].tracked => f[b].state = InitialState[b]
  BY <1>2, BuffersSplit
<1> QED
  BY <1>1, <1>2, <1>3, <1>4, <1>5, BufferRecording

LEMMA ExecuteKeepsBuffers ==
  ASSUME TypeOK, ChainInv, BufferInv, Disciplined(app), NEW cl \in CommandLists, Execute(cl)
  PROVE  BufferInv'
<1> DEFINE x(b) == buf[cl][b]
<1>1. /\ phase[cl] = "closed" /\ phase' = [phase EXCEPT ![cl] = "initial"]
      /\ buf' = [buf EXCEPT ![cl] = [b \in Buffers |-> EmptyBuffer]]
      /\ app' = app
  BY DEF Execute
<1>2. \A b \in Tracked : /\ b \in Buffers /\ b \notin Textures
                         /\ x(b) \in BufferRec /\ SoundBuffer(b, x(b))
                         /\ x(b).pending = <<>>
  <2>1. \A b \in Tracked : /\ b \in Buffers /\ b \notin Textures
                           /\ x(b) \in BufferRec /\ SoundBuffer(b, x(b))
    BY BuffersSplit, BufferNotTexture DEF TypeOK, BufferInv, GoodBuffer
  <2>2. ~AnyPending(cl)
    BY <1>1 DEF ChainInv, CommittedUnlessOpen
  <2>3. \A b \in Buffers : x(b).pending = <<>>
    BY <2>2 DEF AnyPending
  <2> QED
    BY <2>1, <2>3
<1>3. ASSUME NEW b \in Tracked
      PROVE  permanentState'[b] = IF permanentState[b] = Unknown THEN x(b).permanent
                                  ELSE permanentState[b]
  BY <1>2 DEF Execute, NewPermanent, DeferredPermanent, Resources
<1>4. ASSUME NEW b \in Tracked
      PROVE  gpuBuf'[b] = IF x(b).state = Unknown THEN gpuBuf[b] ELSE x(b).state
  <2>1. gpuBuf'[b] = AfterBarriers(x(b).recorded, gpuBuf[b])
    BY <1>2 DEF Execute
  <2>2. x(b).recorded \in Seq(Barrier)
    BY <1>2 DEF BufferRec
  <2>3. Leads(x(b).recorded \o <<>>, x(b).state, gpuBuf[b])
    BY <1>2 DEF SoundBuffer, GoodHistory
  <2> HIDE DEF x
  <2> QED
    BY <2>1, <2>2, <2>3, AfterLeads
<1>5. ASSUME NEW b \in Tracked, permanentState[b] # Unknown
      PROVE  x(b).permanent = Unknown /\ ~x(b).tracked /\ gpuBuf'[b] = gpuBuf[b]
  BY <1>2, <1>4, <1>5 DEF SoundBuffer
<1>6. PermanentBuffers'
  <2> SUFFICES ASSUME NEW b \in Tracked, permanentState'[b] # Unknown
               PROVE  "permanent" \in app.calls /\ gpuBuf'[b] = permanentState'[b]
    BY <1>1 DEF PermanentBuffers
  <2>1. CASE permanentState[b] # Unknown
    BY <1>3, <1>5, <2>1 DEF BufferInv, PermanentBuffers
  <2>2. CASE permanentState[b] = Unknown
    BY <1>2, <1>3, <1>4, <2>2 DEF SoundBuffer
  <2> QED
    BY <2>1, <2>2
<1>7. ASSUME NEW b \in Tracked \cap KeepInitialState, permanentState'[b] = Unknown
      PROVE  gpuBuf'[b] = InitialState[b]
  <2>1. permanentState[b] = Unknown
    BY <1>3, <1>7
  <2>2. gpuBuf[b] = InitialState[b]
    BY <2>1 DEF BufferInv, KeptBuffers
  <2>3. x(b).tracked => x(b).state = InitialState[b]
    BY <1>1 DEF BufferInv, KeptBuffers
  <2>4. ~x(b).tracked => x(b).state = Unknown
    BY <1>2 DEF SoundBuffer
  <2> QED
    BY <1>4, <2>2, <2>3, <2>4
<1>8. ASSUME NEW c \in CommandLists
      PROVE  /\ c = cl => phase'[c] = "initial" /\ \A b \in Buffers : buf'[c][b] = EmptyBuffer
             /\ c # cl => phase'[c] = phase[c] /\ buf'[c] = buf[c]
  BY <1>1 DEF TypeOK
<1>9. KeptBuffers'
  <2>1. ASSUME NEW b \in Tracked \cap KeepInitialState, NEW c \in CommandLists,
               phase'[c] = "closed", buf'[c][b].tracked
        PROVE  buf'[c][b].state = InitialState[b]
    BY <1>8, <2>1 DEF BufferInv, KeptBuffers
  <2> QED
    BY <1>7, <2>1 DEF KeptBuffers
<1>10. ASSUME NEW c \in CommandLists, c # cl, NEW b \in Tracked
       PROVE  /\ buf[c][b].tracked => permanentState'[b] = Unknown
              /\ GoodHistory(buf[c][b].recorded, buf[c][b].pending, buf[c][b].uses,
                             buf[c][b].state, gpuBuf'[b], permanentState'[b])
  <2> DEFINE y == buf[c][b]
  <2>1. y \in BufferRec /\ SoundBuffer(b, y)
    BY <1>2 DEF TypeOK, BufferInv, GoodBuffer
  <2>2. ApartBuffer(b, x(b), y) /\ x(b) \in BufferRec /\ SoundBuffer(b, x(b))
    BY <1>2, <1>10 DEF BufferInv, Others
  <2>3. y.tracked => permanentState[b] = Unknown /\ permanentState'[b] = Unknown
    BY <1>3, <2>1, <2>2 DEF SoundBuffer, ApartBuffer
  <2>4. /\ GoodHistory(y.recorded, y.pending, y.uses, y.state, gpuBuf[b], permanentState[b])
        /\ y.recorded \in Seq(Barrier) /\ y.pending \in Seq(Barrier) /\ y.uses \in Seq(Use)
    BY <2>1 DEF SoundBuffer, BufferRec
  <2>5. CASE permanentState[b] # Unknown
    BY <1>3, <1>5, <2>3, <2>4, <2>5
  <2>6. CASE permanentState[b] = Unknown /\ y.state = Unknown
    BY <2>3, <2>4, <2>6, HistoryUnknown
  <2>7. CASE permanentState[b] = Unknown /\ y.state # Unknown
    <3>1. y.tracked
      BY <2>1, <2>7 DEF SoundBuffer
    <3>2. gpuBuf'[b] = gpuBuf[b]
      <4>1. CASE x(b).state = Unknown
        BY <1>4, <4>1
      <4>2. CASE x(b).state # Unknown
        <5>1. x(b).tracked
          BY <2>2, <4>2 DEF SoundBuffer
        <5>2. b \in KeepInitialState
          BY <2>2, <2>7, <4>2 DEF ApartBuffer
        <5>3. gpuBuf[b] = InitialState[b] /\ x(b).state = InitialState[b]
          BY <1>1, <2>7, <5>1, <5>2 DEF BufferInv, KeptBuffers
        <5> QED
          BY <1>4, <5>3
      <4> QED
        BY <4>1, <4>2
    <3> QED
      BY <2>3, <2>4, <2>7, <3>1, <3>2
  <2> QED
    BY <2>5, <2>6, <2>7
<1>11. ASSUME NEW c \in CommandLists, NEW b \in Tracked PROVE GoodBuffer(b, buf[c][b])'
  <2>1. CASE c = cl
    <3>1. GoodHistory(<<>>, <<>>, <<>>, Unknown, gpuBuf'[b], permanentState'[b])
      BY HistoryEmpty
    <3> QED
      BY <1>2, <1>8, <2>1, <3>1 DEF GoodBuffer, SoundBuffer, EmptyBuffer
  <2>2. CASE c # cl
    <3>1. GoodBuffer(b, buf[c][b]) /\ buf'[c][b] = buf[c][b]
      BY <1>8, <2>2 DEF BufferInv
    <3> QED
      BY <1>1, <1>10, <2>2, <3>1 DEF GoodBuffer, SoundBuffer
  <2> QED
    BY <2>1, <2>2
<1>12. ASSUME NEW b \in Tracked, NEW c \in CommandLists, NEW d \in Others(c)
       PROVE  ApartBuffer(b, buf[c][b], buf[d][b])'
  <2>1. d \in CommandLists /\ d # c /\ b \in Buffers
    BY <1>2 DEF Others
  <2>2. ~EmptyBuffer.tracked /\ EmptyBuffer.permanent = Unknown /\ EmptyBuffer.state = Unknown
    BY DEF EmptyBuffer
  <2>3. ApartBuffer(b, buf[c][b], buf[d][b])
    BY DEF BufferInv
  <2>4. CASE c = cl \/ d = cl
    BY <1>8, <2>1, <2>2, <2>4 DEF ApartBuffer
  <2>5. CASE c # cl /\ d # cl
    BY <1>8, <2>1, <2>3, <2>5 DEF ApartBuffer
  <2> QED
    BY <2>4, <2>5
<1>13. UntrackedIdle'
  <2>1. ASSUME NEW b \in UntrackedBuffers PROVE gpuBuf'[b] = InitialState[b]
    BY DEF Execute, AfterBarriers, BufferInv, UntrackedIdle
  <2>2. ASSUME NEW b \in UntrackedBuffers, NEW c \in CommandLists
        PROVE  buf'[c][b].recorded = <<>> /\ buf'[c][b].pending = <<>>
    BY <1>8 DEF BufferInv, UntrackedIdle, EmptyBuffer
  <2> QED
    BY <2>1, <2>2 DEF UntrackedIdle
<1> QED
  BY <1>6, <1>9, <1>11, <1>12, <1>13 DEF BufferInv

-----------------------------------------------------------------------------
(* StateInv, step by step.                                                  *)

LEMMA TexturesUntouched ==
  ASSUME TextureInv, UNCHANGED <<app, permanentState, stateInitialized, phase, tex, gpuTex>>
  PROVE  TextureInv'
<1>1. ASSUME NEW cl \in CommandLists, NEW t \in Textures
      PROVE  GoodTexture(t, tex[cl][t])'
  <2>1. GoodTexture(t, tex[cl][t])
    BY DEF TextureInv
  <2> QED
    BY <2>1 DEF GoodTexture
<1>2. ASSUME NEW t \in Textures, NEW cl \in CommandLists, NEW c \in Others(cl)
      PROVE  ApartTexture(t, tex[cl][t], tex[c][t])'
  <2>1. ApartTexture(t, tex[cl][t], tex[c][t])
    BY DEF TextureInv
  <2> QED
    BY <2>1 DEF ApartTexture
<1>3. KeptTextures'
  <2>1. \A t \in Textures : AtRest(t)' = AtRest(t)
    BY DEF AtRest
  <2> QED
    BY <2>1 DEF TextureInv, KeptTextures
<1>4. PermanentTextures' /\ \A t \in InitializedTextures : stateInitialized'[t]
  BY DEF TextureInv, PermanentTextures
<1> QED
  BY <1>1, <1>2, <1>3, <1>4 DEF TextureInv

LEMMA BuffersUntouched ==
  ASSUME BufferInv, UNCHANGED <<app, permanentState, phase, buf, gpuBuf>>
  PROVE  BufferInv'
<1>1. ASSUME NEW cl \in CommandLists, NEW b \in Tracked
      PROVE  GoodBuffer(b, buf[cl][b])'
  <2>1. GoodBuffer(b, buf[cl][b])
    BY DEF BufferInv
  <2> QED
    BY <2>1 DEF GoodBuffer, SoundBuffer
<1>2. ASSUME NEW b \in Tracked, NEW cl \in CommandLists, NEW c \in Others(cl)
      PROVE  ApartBuffer(b, buf[cl][b], buf[c][b])'
  <2>1. ApartBuffer(b, buf[cl][b], buf[c][b])
    BY DEF BufferInv
  <2> QED
    BY <2>1 DEF ApartBuffer
<1>3. KeptBuffers' /\ PermanentBuffers' /\ UntrackedIdle'
  BY DEF BufferInv, KeptBuffers, PermanentBuffers, UntrackedIdle
<1> QED
  BY <1>1, <1>2, <1>3 DEF BufferInv

\* What a call on a texture does to the buffers: nothing, or it commits them all.
LEMMA TextureCallOnBuffers ==
  ASSUME TypeOK, NEW cl \in CommandLists, TextureCall(cl)
  PROVE  /\ Records(cl)
         /\ \A c \in Others(cl) : tex'[c] = tex[c]
         /\ \/ UNCHANGED buf
            \/ buf' = [buf EXCEPT ![cl] = [b \in Buffers |-> CommitBuffer(buf[cl][b])]]
<1>1. PICK t \in Textures :
        \/ \E st \in Usages : SetPermanentTextureState(cl, t, st)
        \/ \E enable \in BOOLEAN : SetEnableUavBarriersForTexture(cl, t, enable)
        \/ \E S \in SubresourceSets, st \in Usages :
             SetTextureState(cl, t, S, st) \/ UseTexture(cl, t, S, st)
        \/ \E S \in SubresourceSets, st \in States \ {Unknown} :
             BeginTrackingTextureState(cl, t, S, st)
  BY DEF TextureCall
<1> QED
  BY <1>1 DEF SetPermanentTextureState, SetEnableUavBarriersForTexture, SetTextureState,
              UseTexture, BeginTrackingTextureState, SetTexture, TypeOK, Others

LEMMA BufferCallOnTextures ==
  ASSUME TypeOK, NEW cl \in CommandLists, BufferCall(cl)
  PROVE  /\ Records(cl)
         /\ \A c \in Others(cl) : buf'[c] = buf[c]
         /\ \/ UNCHANGED tex
            \/ tex' = [tex EXCEPT ![cl] = [t \in Textures |-> CommitTexture(tex[cl][t])]]
<1>1. PICK b \in Buffers :
        \/ \E enable \in BOOLEAN : SetEnableUavBarriersForBuffer(cl, b, enable)
        \/ \E st \in States \ {Unknown} : BeginTrackingBufferState(cl, b, st)
        \/ \E st \in Usages :
             \/ SetBufferState(cl, b, st)
             \/ SetPermanentBufferState(cl, b, st)
             \/ UseBuffer(cl, b, st)
             \/ \E st2 \in Usages : UseBufferTwice(cl, b, st, st2)
  BY DEF BufferCall
<1> QED
  BY <1>1 DEF SetEnableUavBarriersForBuffer, BeginTrackingBufferState, SetBufferState,
              SetPermanentBufferState, UseBuffer, UseBufferTwice, SetBuffer, TypeOK, Others

\* Every step keeps what the lists hold on textures,
LEMMA NextTextures == StateInv /\ [Next]_vars => TextureInv'
<1> SUFFICES ASSUME StateInv, [Next]_vars PROVE TextureInv'
  OBVIOUS
<1>1. TypeOK /\ ChainInv /\ Disciplined(app) /\ FreshInv /\ TextureInv
  BY DEF StateInv, ChainInv
<1>2. TypeOK'
  BY <1>1, NextTypeOK
<1>3. CASE UNCHANGED vars
  BY <1>1, <1>3, TexturesUntouched DEF vars
<1>4. ASSUME NEW cl \in CommandLists,
             \/ Open(cl) \/ Close(cl) \/ Execute(cl) \/ CommitBarriers(cl)
             \/ TextureCall(cl) \/ BufferCall(cl)
      PROVE  TextureInv'
  <2>1. CASE Open(cl)
    BY <1>1, <1>2, <2>1, OpenKeepsTextures
  <2>2. CASE Close(cl)
    BY <1>1, <1>2, <2>2, CloseKeepsTextures
  <2>3. CASE Execute(cl)
    BY <1>1, <2>3, ExecuteKeepsTextures
  <2>4. CASE CommitBarriers(cl)
    <3>1. /\ phase[cl] = "open"
          /\ UNCHANGED <<app, permanentState, stateInitialized, phase, gpuTex>>
          /\ tex' = [tex EXCEPT ![cl] = [t \in Textures |-> CommitTexture(tex[cl][t])]]
      BY <2>4 DEF CommitBarriers
    <3> QED
      BY <1>1, <3>1, TexturesCommitted
  <2>5. CASE TextureCall(cl)
    BY <1>1, <2>5, TextureCallKeeps
  <2>6. CASE BufferCall(cl)
    <3>1. /\ phase[cl] = "open"
          /\ UNCHANGED <<app, permanentState, stateInitialized, phase, gpuTex>>
      BY <1>1, <2>6, BufferCallOnTextures DEF Records
    <3>2. CASE UNCHANGED tex
      BY <1>1, <3>1, <3>2, TexturesUntouched
    <3>3. CASE tex' = [tex EXCEPT ![cl] = [t \in Textures |-> CommitTexture(tex[cl][t])]]
      BY <1>1, <3>1, <3>3, TexturesCommitted
    <3> QED
      BY <1>1, <2>6, <3>2, <3>3, BufferCallOnTextures
  <2> QED
    BY <1>4, <2>1, <2>2, <2>3, <2>4, <2>5, <2>6
<1> QED
  BY <1>3, <1>4 DEF Next

\* and on buffers.
LEMMA NextBuffers == StateInv /\ [Next]_vars => BufferInv'
<1> SUFFICES ASSUME StateInv, [Next]_vars PROVE BufferInv'
  OBVIOUS
<1>1. TypeOK /\ ChainInv /\ Disciplined(app) /\ FreshInv /\ BufferInv
  BY DEF StateInv, ChainInv
<1>2. TypeOK'
  BY <1>1, NextTypeOK
<1>3. CASE UNCHANGED vars
  BY <1>1, <1>3, BuffersUntouched DEF vars
<1>4. ASSUME NEW cl \in CommandLists,
             \/ Open(cl) \/ Close(cl) \/ Execute(cl) \/ CommitBarriers(cl)
             \/ TextureCall(cl) \/ BufferCall(cl)
      PROVE  BufferInv'
  <2>1. CASE Open(cl)
    BY <1>1, <1>2, <2>1, OpenKeepsBuffers
  <2>2. CASE Close(cl)
    BY <1>1, <2>2, CloseKeepsBuffers
  <2>3. CASE Execute(cl)
    BY <1>1, <2>3, ExecuteKeepsBuffers
  <2>4. CASE CommitBarriers(cl)
    <3>1. /\ phase[cl] = "open" /\ UNCHANGED <<app, permanentState, phase, gpuBuf>>
          /\ buf' = [buf EXCEPT ![cl] = [b \in Buffers |-> CommitBuffer(buf[cl][b])]]
      BY <2>4 DEF CommitBarriers
    <3> QED
      BY <1>1, <3>1, BuffersCommitted
  <2>5. CASE BufferCall(cl)
    BY <1>1, <2>5, BufferCallKeeps
  <2>6. CASE TextureCall(cl)
    <3>1. phase[cl] = "open" /\ UNCHANGED <<app, permanentState, phase, gpuBuf>>
      BY <1>1, <2>6, TextureCallOnBuffers DEF Records
    <3>2. CASE UNCHANGED buf
      BY <1>1, <3>1, <3>2, BuffersUntouched
    <3>3. CASE buf' = [buf EXCEPT ![cl] = [b \in Buffers |-> CommitBuffer(buf[cl][b])]]
      BY <1>1, <3>1, <3>3, BuffersCommitted
    <3> QED
      BY <1>1, <2>6, <3>2, <3>3, TextureCallOnBuffers
  <2> QED
    BY <1>4, <2>1, <2>2, <2>3, <2>4, <2>5, <2>6
<1> QED
  BY <1>3, <1>4 DEF Next

LEMMA NextFresh == TypeOK /\ FreshInv /\ [Next]_vars => FreshInv'
<1> SUFFICES ASSUME TypeOK, FreshInv, [Next]_vars PROVE FreshInv'
  OBVIOUS
<1>1. CASE UNCHANGED vars
  BY <1>1 DEF vars, FreshInv
<1>2. ASSUME NEW cl \in CommandLists,
             \A c \in Others(cl) : UNCHANGED <<phase[c], tex[c], buf[c]>>,
             phase'[cl] = "initial" => /\ \A t \in Textures : tex'[cl][t] = EmptyTexture
                                       /\ \A b \in Buffers : buf'[cl][b] = EmptyBuffer
      PROVE  FreshInv'
  BY <1>2 DEF FreshInv, Others
<1>3. ASSUME NEW cl \in CommandLists, Open(cl) \/ Close(cl) \/ Execute(cl) PROVE FreshInv'
  <2>1. CASE Open(cl)
    <3>1. /\ \A c \in Others(cl) : UNCHANGED <<phase[c], tex[c], buf[c]>>
          /\ phase'[cl] = "open"
      BY <2>1 DEF Open, TypeOK, Others
    <3> QED
      BY <1>2, <3>1
  <2>2. CASE Close(cl)
    <3>1. /\ \A c \in Others(cl) : UNCHANGED <<phase[c], tex[c], buf[c]>>
          /\ phase'[cl] = "closed"
      BY <2>2 DEF Close, TypeOK, Others
    <3> QED
      BY <1>2, <3>1
  <2>3. CASE Execute(cl)
    <3>1. /\ \A c \in Others(cl) : UNCHANGED <<phase[c], tex[c], buf[c]>>
          /\ tex'[cl] = [t \in Textures |-> EmptyTexture]
          /\ buf'[cl] = [b \in Buffers |-> EmptyBuffer]
      BY <2>3 DEF Execute, TypeOK, Others
    <3> QED
      BY <1>2, <3>1
  <2> QED
    BY <1>3, <2>1, <2>2, <2>3
<1>4. ASSUME NEW cl \in CommandLists,
             CommitBarriers(cl) \/ TextureCall(cl) \/ BufferCall(cl)
      PROVE  FreshInv'
  <2>1. phase[cl] = "open" /\ phase' = phase
    BY <1>4, TextureCallOnBuffers, BufferCallOnTextures DEF CommitBarriers, Records
  <2>2. \A c \in Others(cl) : tex'[c] = tex[c] /\ buf'[c] = buf[c]
    <3>1. CASE CommitBarriers(cl)
      BY <3>1 DEF CommitBarriers, TypeOK, Others
    <3>2. CASE TextureCall(cl)
      BY <3>2, TextureCallOnBuffers DEF TypeOK, Others
    <3>3. CASE BufferCall(cl)
      BY <3>3, BufferCallOnTextures DEF TypeOK, Others
    <3> QED
      BY <1>4, <3>1, <3>2, <3>3
  <2> QED
    BY <1>2, <2>1, <2>2
<1> QED
  BY <1>1, <1>3, <1>4 DEF Next

LEMMA InitStateInv ==
  ASSUME \A a \in Applications : Disciplined(a)
  PROVE  Init => StateInv
<1> SUFFICES ASSUME Init PROVE StateInv
  OBVIOUS
<1>1. ChainInv /\ Disciplined(app)
  BY InitChainInv DEF Init
<1>2. FreshInv
  BY DEF Init, FreshInv
<1>3. /\ ~EmptyTexture.tracked /\ EmptyTexture.permanent = Unknown
      /\ ~EmptyTexture.permanentTransition
      /\ \A s \in Subresources :
           /\ EmptyTexture.state[s] = Unknown /\ EmptyTexture.uses[s] = <<>>
           /\ EmptyTexture.recorded[s] = <<>> /\ EmptyTexture.pending[s] = <<>>
  BY DEF EmptyTexture
<1>4. /\ ~EmptyBuffer.tracked /\ EmptyBuffer.permanent = Unknown
      /\ ~EmptyBuffer.permanentTransition
      /\ EmptyBuffer.state = Unknown /\ EmptyBuffer.uses = <<>>
      /\ EmptyBuffer.recorded = <<>> /\ EmptyBuffer.pending = <<>>
  BY DEF EmptyBuffer
<1>5. /\ \A cl \in CommandLists, t \in Textures : tex[cl][t] = EmptyTexture
      /\ \A cl \in CommandLists, b \in Buffers : buf[cl][b] = EmptyBuffer
      /\ \A cl \in CommandLists : phase[cl] # "closed"
      /\ \A r \in Resources : permanentState[r] = Unknown
      /\ \A b \in Buffers : gpuBuf[b] = InitialState[b]
      /\ \A t \in Textures : stateInitialized[t] <=> t \in InitializedTextures
      /\ \A t \in Textures, s \in Subresources :
           gpuTex[t][s] = IF t \in InitializedTextures THEN InitialState[t] ELSE {Common}
  BY DEF Init
<1>6. TextureInv
  <2>1. ASSUME NEW t \in Textures PROVE GoodTexture(t, EmptyTexture)
    BY <1>3, HistoryEmpty DEF GoodTexture
  <2>2. ASSUME NEW t \in Textures PROVE ApartTexture(t, EmptyTexture, EmptyTexture)
    BY <1>3 DEF ApartTexture, KnownTexture
  <2>3. KeptTextures /\ PermanentTextures
    BY <1>5 DEF KeptTextures, PermanentTextures, AtRest, Resources
  <2> QED
    BY <1>5, <2>1, <2>2, <2>3 DEF TextureInv, Others
<1>7. BufferInv
  <2>1. ASSUME NEW b \in Tracked PROVE GoodBuffer(b, EmptyBuffer)
    BY <1>4, HistoryEmpty DEF GoodBuffer, SoundBuffer
  <2>2. ASSUME NEW b \in Tracked PROVE ApartBuffer(b, EmptyBuffer, EmptyBuffer)
    BY <1>4 DEF ApartBuffer
  <2>3. KeptBuffers /\ PermanentBuffers
    BY <1>5, BuffersSplit DEF KeptBuffers, PermanentBuffers, Resources
  <2>4. UntrackedIdle
    BY <1>4, <1>5, BuffersSplit DEF UntrackedIdle
  <2> QED
    BY <1>5, <2>1, <2>2, <2>3, <2>4, BuffersSplit DEF BufferInv, Others
<1> QED
  BY <1>1, <1>2, <1>6, <1>7 DEF StateInv

LEMMA NextStateInv == StateInv /\ [Next]_vars => StateInv'
<1> SUFFICES ASSUME StateInv, [Next]_vars PROVE StateInv'
  OBVIOUS
<1>1. TypeOK /\ ChainInv /\ FreshInv
  BY DEF StateInv, ChainInv
<1>2. app' = app
  <2>1. \A cl \in CommandLists : TextureCall(cl) \/ BufferCall(cl) => app' = app
    BY <1>1, TextureCallOnBuffers, BufferCallOnTextures DEF Records
  <2> QED
    BY <2>1 DEF Next, vars, Open, Close, Execute, CommitBarriers
<1>3. Disciplined(app)'
  BY <1>2 DEF StateInv, Disciplined
<1>4. ChainInv'
  BY <1>1, NextTypeOK, NextLinked, NextCommitted DEF ChainInv
<1> QED
  BY <1>1, <1>3, <1>4, NextFresh, NextTextures, NextBuffers DEF StateInv

LEMMA StateInvariant ==
  ASSUME \A a \in Applications : Disciplined(a)
  PROVE  Spec => []StateInv
<1>1. Init => StateInv
  BY InitStateInv
<1> QED
  BY <1>1, NextStateInv, PTL DEF Spec

-----------------------------------------------------------------------------
(* What follows.                                                            *)

\* Whatever the lists of a disciplined application record, each access finds its
\* texture subresource or buffer in a state with all the bits it needs.
THEOREM AccessesAlwaysCovered ==
  ASSUME \A a \in Applications : Disciplined(a)
  PROVE  Spec => []AccessesCovered
<1>1. ASSUME StateInv PROVE TextureAccessesCovered
  <2>1. ASSUME NEW cl \in CommandLists, NEW t \in Textures, NEW s \in Subresources
        PROVE  LET x == tex[cl][t]
                   seq == TextureBarriers(cl, t, s)
               IN  \A i \in DOMAIN x.uses[s] :
                     x.uses[s][i].state \subseteq
                       StateAt(seq, x.uses[s][i].at,
                               EntryState(seq, x, x.state[s], permanentState[t]))
    <3> DEFINE x == tex[cl][t]
               seq == x.recorded[s] \o x.pending[s]
    <3>1. GoodTexture(t, x)
      BY <1>1 DEF StateInv, TextureInv
    <3>2. Covered(x.uses[s], Len(x.recorded[s]), seq, Entry(seq, x.state[s], permanentState[t]))
      BY <3>1 DEF GoodTexture, GoodHistory
    <3>3. Entry(seq, x.state[s], permanentState[t])
            = EntryState(seq, x, x.state[s], permanentState[t])
      BY <3>1 DEF GoodTexture, Entry, EntryState
    <3> QED
      BY <3>2, <3>3 DEF Covered, TextureBarriers
  <2> QED
    BY <2>1 DEF TextureAccessesCovered
<1>2. ASSUME StateInv PROVE BufferAccessesCovered
  <2>1. ASSUME NEW cl \in CommandLists, NEW b \in Buffers \ UntrackedBuffers
        PROVE  LET x == buf[cl][b]
               IN  \A i \in DOMAIN x.uses :
                     x.uses[i].state \subseteq
                       StateAt(BufferBarriers(cl, b), x.uses[i].at,
                               EntryState(BufferBarriers(cl, b), x, x.state, permanentState[b]))
    <3> DEFINE x == buf[cl][b]
               seq == x.recorded \o x.pending
    <3>1. SoundBuffer(b, x)
      BY <1>2 DEF StateInv, BufferInv, GoodBuffer, Tracked
    <3>2. Covered(x.uses, Len(x.recorded), seq, Entry(seq, x.state, permanentState[b]))
      BY <3>1 DEF SoundBuffer, GoodHistory
    <3>3. Entry(seq, x.state, permanentState[b]) = EntryState(seq, x, x.state, permanentState[b])
      BY <3>1 DEF SoundBuffer, Entry, EntryState
    <3> QED
      BY <3>2, <3>3 DEF Covered, BufferBarriers
  <2> QED
    BY <2>1 DEF BufferAccessesCovered
<1>3. StateInv => AccessesCovered
  BY <1>1, <1>2 DEF AccessesCovered
<1>4. Spec => []StateInv
  BY StateInvariant
<1> QED
  BY <1>3, <1>4, PTL

\* In whatever order the lists of a disciplined application are executed, each
\* finds every resource in the state its first barrier leaves from, and an
\* access before any barrier finds its bits.
THEOREM ListsEnterAsExpected ==
  ASSUME \A a \in Applications : Disciplined(a)
  PROVE  Spec => EntersAsExpected
<1>1. ASSUME NEW rec \in Seq(Barrier), NEW uses, NEW state, NEW gpu, NEW perm,
             GoodHistory(rec, <<>>, uses, state, gpu, perm), perm # Unknown => gpu = perm
      PROVE  EntryHolds(rec, uses, gpu)
  <2>1. Leads(rec, state, gpu) /\ Covered(uses, Len(rec), rec, Entry(rec, state, perm))
    BY <1>1, ConcatFacts DEF GoodHistory
  <2>2. rec # <<>> => rec[1].before = gpu
    BY <2>1 DEF Leads
  <2>3. Entry(rec, state, perm) \subseteq gpu
    BY <1>1, <2>1, <2>2 DEF Entry, Leads, Unknown
  <2>4. ASSUME NEW i \in DOMAIN uses, uses[i].at = 0 PROVE uses[i].state \subseteq gpu
    <3>1. StateAt(rec, uses[i].at, Entry(rec, state, perm)) = Entry(rec, state, perm)
      BY <2>4 DEF StateAt
    <3> QED
      BY <2>1, <2>3, <3>1 DEF Covered
  <2> QED
    BY <2>2, <2>4 DEF EntryHolds
<1>2. ASSUME StateInv, NEW cl \in CommandLists, Executes(cl) PROVE TexturesHold(cl)
  <2>1. ASSUME NEW t \in Textures, NEW s \in Subresources
        PROVE  EntryHolds(tex[cl][t].recorded[s], tex[cl][t].uses[s], gpuTex[t][s])
    <3> DEFINE x == tex[cl][t]
    <3>1. x \in TextureRec /\ GoodTexture(t, x)
      BY <1>2 DEF StateInv, ChainInv, TypeOK, TextureInv
    <3>2. x.recorded[s] \in Seq(Barrier)
      BY <3>1 DEF TextureRec
    <3>3. x.pending[s] = <<>>
      BY <1>2 DEF Executes, StateInv, ChainInv, CommittedUnlessOpen, AnyPending
    <3>4. permanentState[t] # Unknown => gpuTex[t][s] = permanentState[t]
      BY <1>2 DEF StateInv, TextureInv, PermanentTextures
    <3>5. GoodHistory(x.recorded[s], <<>>, x.uses[s], x.state[s], gpuTex[t][s], permanentState[t])
      BY <3>1, <3>3 DEF GoodTexture
    <3> HIDE DEF x
    <3>6. EntryHolds(x.recorded[s], x.uses[s], gpuTex[t][s])
      BY <1>1, <3>2, <3>4, <3>5
    <3> QED
      BY <3>6 DEF x
  <2> QED
    BY <2>1 DEF TexturesHold
<1>3. ASSUME StateInv, NEW cl \in CommandLists, Executes(cl) PROVE BuffersHold(cl)
  <2>1. ASSUME NEW b \in Buffers \ UntrackedBuffers
        PROVE  EntryHolds(buf[cl][b].recorded, buf[cl][b].uses, gpuBuf[b])
    <3> DEFINE x == buf[cl][b]
    <3>1. x \in BufferRec /\ SoundBuffer(b, x)
      BY <1>3 DEF StateInv, ChainInv, TypeOK, BufferInv, GoodBuffer, Tracked
    <3>2. x.recorded \in Seq(Barrier)
      BY <3>1 DEF BufferRec
    <3>3. x.pending = <<>>
      BY <1>3 DEF Executes, StateInv, ChainInv, CommittedUnlessOpen, AnyPending
    <3>4. permanentState[b] # Unknown => gpuBuf[b] = permanentState[b]
      BY <1>3 DEF StateInv, BufferInv, PermanentBuffers, Tracked
    <3>5. GoodHistory(x.recorded, <<>>, x.uses, x.state, gpuBuf[b], permanentState[b])
      BY <3>1, <3>3 DEF SoundBuffer
    <3> HIDE DEF x
    <3>6. EntryHolds(x.recorded, x.uses, gpuBuf[b])
      BY <1>1, <3>2, <3>4, <3>5
    <3> QED
      BY <3>6 DEF x
  <2> QED
    BY <2>1 DEF BuffersHold
<1>4. StateInv /\ [Next]_vars =>
        [\A cl \in CommandLists : Executes(cl) => TexturesHold(cl) /\ BuffersHold(cl)]_vars
  BY <1>2, <1>3
<1>5. Spec => []StateInv
  BY StateInvariant
<1> QED
  BY <1>4, <1>5, PTL DEF Spec, EntersAsExpected

\* Between lists, a keepInitialState texture without a permanent state that some
\* list has used is in its initialState, on either backend,
THEOREM DisciplinedTexturesReturn ==
  ASSUME \A a \in Applications : Disciplined(a)
  PROVE  Spec => []KeptTexturesInInitialState
<1>1. StateInv => KeptTexturesInInitialState
  BY DEF StateInv, TextureInv, KeptTextures, KeptTexturesInInitialState, AtRest
<1>2. Spec => []StateInv
  BY StateInvariant
<1> QED
  BY <1>1, <1>2, PTL

\* and so is every keepInitialState buffer.
THEOREM KeptBuffersReturn ==
  ASSUME \A a \in Applications : Disciplined(a)
  PROVE  Spec => []KeptBuffersInInitialState
<1>1. StateInv => KeptBuffersInInitialState
  BY BuffersSplit DEF StateInv, BufferInv, KeptBuffers, UntrackedIdle, KeptBuffersInInitialState
<1>2. Spec => []StateInv
  BY StateInvariant
<1> QED
  BY <1>1, <1>2, PTL

\* A resource with a permanent state is in that state, though the lists that
\* rely on it place no barrier.
THEOREM PermanentStatesHold ==
  ASSUME \A a \in Applications : Disciplined(a)
  PROVE  Spec => []PermanentInState
<1>1. StateInv => PermanentInState
  BY DEF StateInv, TextureInv, BufferInv, PermanentTextures, PermanentBuffers, Tracked,
         PermanentInState
<1>2. Spec => []StateInv
  BY StateInvariant
<1> QED
  BY <1>1, <1>2, PTL

-----------------------------------------------------------------------------
(* The order of unordered accesses, for every application that leaves UAV   *)
(* barriers enabled.                                                        *)

\* the accesses come after at most n barriers, the unordered ones after ever more
OrderedUpTo(uses, n) == Ordered(uses) /\ \A i \in DOMAIN uses : uses[i].at <= n

UavTexture(x) ==
    /\ x.enableUavBarriers /\ UnorderedAccess \notin x.permanent
    /\ \A s \in Subresources :
         (\A r \in Subresources : s <= r) => OrderedUpTo(x.uses[s], Len(x.recorded[s]))

UavBuffer(b, x) ==
    /\ x.enableUavBarriers /\ UnorderedAccess \notin x.permanent
    /\ b \in Tracked => OrderedUpTo(x.uses, Len(x.recorded))

\* No permanent state has the bit, so that whoever requires it gets a barrier.
UavInv == "uavToggle" \notin app.calls =>
    /\ \A r \in Resources : UnorderedAccess \notin permanentState[r]
    /\ \A cl \in CommandLists, t \in Textures : UavTexture(tex[cl][t])
    /\ \A cl \in CommandLists, b \in Buffers : UavBuffer(b, buf[cl][b])

LEMMA OrderedLonger ==
  ASSUME NEW uses \in Seq(Use), NEW n \in Nat, NEW m \in Nat, n <= m, OrderedUpTo(uses, n)
  PROVE  OrderedUpTo(uses, m)
<1>1. \A i \in DOMAIN uses : uses[i] \in Use
  OBVIOUS
<1>2. \A i \in DOMAIN uses : uses[i].at \in Nat
  BY <1>1 DEF Use
<1> QED
  BY <1>2 DEF OrderedUpTo

LEMMA OrderedAccess ==
  ASSUME NEW uses \in Seq(Use), NEW n \in Nat, NEW m \in Nat, n <= m, OrderedUpTo(uses, n),
         NEW st \in States, UnorderedAccess \in st => n < m
  PROVE  OrderedUpTo(Append(uses, [at |-> m, state |-> st]), m)
<1> DEFINE u == [at |-> m, state |-> st]
           more == Append(uses, u)
<1>1. u \in Use /\ u.at = m /\ u.state = st
  BY DEF Use
<1> HIDE DEF u
<1>2. /\ Len(more) = Len(uses) + 1 /\ Len(uses) \in Nat
      /\ DOMAIN more = 1..(Len(uses) + 1) /\ DOMAIN uses = 1..Len(uses)
      /\ more[Len(uses) + 1] = u
      /\ \A i \in 1..Len(uses) : more[i] = uses[i] /\ uses[i] \in Use
  BY <1>1
<1> HIDE DEF more
<1>3. \A i \in 1..Len(uses) : uses[i].at <= n /\ uses[i].at \in Nat
  BY <1>2 DEF OrderedUpTo, Use
<1>4. \A i \in DOMAIN more : more[i].at <= m
  BY <1>1, <1>2, <1>3
<1>5. ASSUME NEW i \in 1..(Len(more) - 1),
             UnorderedAccess \in more[i].state \cap more[i + 1].state
      PROVE  more[i].at < more[i + 1].at
  <2>1. CASE i = Len(uses)
    BY <1>1, <1>2, <1>3, <1>5, <2>1
  <2>2. CASE i # Len(uses)
    <3>1. Len(more) - 1 = Len(uses)
      BY <1>2
    <3>2. i \in 1..(Len(uses) - 1) /\ i \in 1..Len(uses) /\ i + 1 \in 1..Len(uses)
      BY <1>2, <2>2, <3>1
    <3>3. more[i] = uses[i] /\ more[i + 1] = uses[i + 1]
      BY <1>2, <3>2
    <3> QED
      BY <1>5, <3>2, <3>3 DEF OrderedUpTo, Ordered
  <2> QED
    BY <2>1, <2>2
<1> QED
  BY <1>4, <1>5 DEF OrderedUpTo, Ordered, more, u

LEMMA ConcatLonger ==
  ASSUME NEW rec \in Seq(Barrier), NEW pend \in Seq(Barrier)
  PROVE  /\ Len(rec) \in Nat /\ Len(rec \o pend) \in Nat
         /\ Len(rec) <= Len(rec \o pend)
         /\ pend # <<>> => Len(rec) < Len(rec \o pend)
<1>1. pend # <<>> => Len(pend) \in Nat \ {0}
  OBVIOUS
<1> QED
  BY <1>1

\* A require leaves the accesses alone, and one of UnorderedAccess has a barrier
\* pending on the first subresource.
UavRequired(t, x, S, st, z) ==
    /\ z \in TextureRec /\ z.enableUavBarriers /\ z.permanent = x.permanent
    /\ z.recorded = x.recorded /\ z.uses = x.uses
    /\ UnorderedAccess \in st /\ permanentState[t] = Unknown =>
         \A s \in S : (\A r \in Subresources : s <= r) => z.pending[s] # <<>>

LEMMA RequireTextureUav ==
  ASSUME TypeOK, NEW t \in Textures, NEW x \in TextureRec, UavTexture(x),
         NEW S \in SUBSET Subresources, NEW st \in States
  PROVE  UavRequired(t, x, S, st, RequireTexture(t, x, S, st))
<1> DEFINE z == RequireTexture(t, x, S, st)
<1>1. CASE permanentState[t] # Unknown
  BY <1>1 DEF RequireTexture, UavTexture, UavRequired
<1>2. CASE permanentState[t] = Unknown
  <2> DEFINE y == TrackTexture(t, x)
             B == BarrierSubresources(y, S, st)
  <2>1. /\ y \in TextureRec
        /\ y.recorded = x.recorded /\ y.uses = x.uses /\ y.permanent = x.permanent
        /\ y.enableUavBarriers = x.enableUavBarriers
    <3>1. y \in TextureRec
      BY TrackTextureType
    <3> QED
      BY <3>1 DEF TrackTexture, TextureRec
  <2>2. z \in TextureRec
    BY RequireTextureType
  <2> HIDE DEF y, B, z
  <2>3. /\ z.recorded = y.recorded /\ z.uses = y.uses /\ z.permanent = y.permanent
        /\ z.enableUavBarriers = y.enableUavBarriers
        /\ z.pending = [s \in Subresources |->
                          IF s \in B
                          THEN Append(y.pending[s], [before |-> y.state[s], after |-> st])
                          ELSE y.pending[s]]
    BY <1>2, <2>1 DEF RequireTexture, TextureRec, y, B, z
  <2>4. ASSUME UnorderedAccess \in st, NEW s \in S, \A r \in Subresources : s <= r
        PROVE  z.pending[s] # <<>>
    <3>1. UavBarrierDue(y, st)
      BY <2>1, <2>4 DEF UavBarrierDue, UavTexture
    <3>2. s \in B
      BY <2>4, <3>1 DEF B, BarrierSubresources, UavSubresource
    <3>3. y.pending[s] \in Seq(Barrier) /\ s \in Subresources
      BY <2>1 DEF TextureRec
    <3>4. [before |-> y.state[s], after |-> st] \in Barrier
      BY <2>1, <3>3 DEF TextureRec, Barrier
    <3>5. z.pending[s] = Append(y.pending[s], [before |-> y.state[s], after |-> st])
      BY <2>3, <3>2, <3>3
    <3> QED
      BY <3>3, <3>4, <3>5, AppendFacts
  <2> QED
    BY <2>1, <2>2, <2>3, <2>4 DEF UavTexture, UavRequired, z
<1> QED
  BY <1>1, <1>2

LEMMA CommitTextureUav ==
  ASSUME NEW x \in TextureRec, UavTexture(x)
  PROVE  CommitTexture(x) \in TextureRec /\ UavTexture(CommitTexture(x))
<1> DEFINE z == CommitTexture(x)
<1>1. /\ z \in TextureRec /\ z.uses = x.uses /\ z.permanent = x.permanent
      /\ \A s \in Subresources : z.recorded[s] = x.recorded[s] \o x.pending[s]
  BY CommitTextureFields
<1>2. z.enableUavBarriers = x.enableUavBarriers
  BY DEF CommitTexture, TextureRec
<1> HIDE DEF z
<1>3. ASSUME NEW s \in Subresources, \A r \in Subresources : s <= r
      PROVE  OrderedUpTo(z.uses[s], Len(z.recorded[s]))
  <2>1. x.uses[s] \in Seq(Use) /\ x.recorded[s] \in Seq(Barrier) /\ x.pending[s] \in Seq(Barrier)
    BY DEF TextureRec
  <2>2. /\ Len(x.recorded[s]) \in Nat /\ Len(z.recorded[s]) \in Nat
        /\ Len(x.recorded[s]) <= Len(z.recorded[s])
    <3>1. z.recorded[s] = x.recorded[s] \o x.pending[s]
      BY <1>1
    <3> QED
      BY <2>1, <3>1, ConcatLonger
  <2>3. OrderedUpTo(x.uses[s], Len(x.recorded[s]))
    BY <1>3 DEF UavTexture
  <2> QED
    BY <1>1, <2>1, <2>2, <2>3, OrderedLonger
<1> QED
  BY <1>1, <1>2, <1>3 DEF UavTexture, z

\* require, commit, access
LEMMA UseTextureUav ==
  ASSUME TypeOK, NEW t \in Textures, NEW x \in TextureRec, UavTexture(x),
         NEW S \in SUBSET Subresources, NEW st \in States,
         UnorderedAccess \in st => permanentState[t] = Unknown
  PROVE  UavTexture(AccessTexture(CommitTexture(RequireTexture(t, x, S, st)), S, st))
<1> DEFINE z == RequireTexture(t, x, S, st)
           c == CommitTexture(z)
           a == AccessTexture(c, S, st)
<1>0. UavRequired(t, x, S, st, z)
  BY RequireTextureUav
<1> HIDE DEF z
<1>1. /\ z \in TextureRec /\ z.enableUavBarriers /\ z.permanent = x.permanent
      /\ z.recorded = x.recorded /\ z.uses = x.uses
      /\ UnorderedAccess \in st =>
           \A s \in S : (\A r \in Subresources : s <= r) => z.pending[s] # <<>>
  BY <1>0 DEF UavRequired
<1>2. /\ c \in TextureRec /\ c.uses = x.uses /\ c.permanent = x.permanent
      /\ \A s \in Subresources : c.recorded[s] = x.recorded[s] \o z.pending[s]
  <2>1. /\ c \in TextureRec /\ c.uses = z.uses /\ c.permanent = z.permanent
        /\ \A s \in Subresources : c.recorded[s] = z.recorded[s] \o z.pending[s]
    BY <1>1, CommitTextureFields
  <2> QED
    BY <1>1, <2>1
<1>3. c.enableUavBarriers
  BY <1>1 DEF CommitTexture, TextureRec
<1> HIDE DEF c
<1>4. /\ a.enableUavBarriers = c.enableUavBarriers /\ a.permanent = c.permanent
      /\ a.recorded = c.recorded
      /\ \A s \in Subresources : a.uses[s] =
           IF s \in S THEN Append(c.uses[s], [at |-> Len(c.recorded[s]), state |-> st])
           ELSE c.uses[s]
  BY <1>2 DEF AccessTexture, TextureRec
<1> HIDE DEF a
<1>5. ASSUME NEW s \in Subresources, \A r \in Subresources : s <= r
      PROVE  OrderedUpTo(a.uses[s], Len(a.recorded[s]))
  <2>1. x.uses[s] \in Seq(Use) /\ x.recorded[s] \in Seq(Barrier) /\ z.pending[s] \in Seq(Barrier)
    BY <1>1 DEF TextureRec
  <2> DEFINE n == Len(x.recorded[s])
             m == Len(c.recorded[s])
  <2>2. /\ n \in Nat /\ m \in Nat /\ n <= m
        /\ z.pending[s] # <<>> => n < m
    <3>1. c.recorded[s] = x.recorded[s] \o z.pending[s]
      BY <1>2
    <3> QED
      BY <2>1, <3>1, ConcatLonger
  <2>3. OrderedUpTo(x.uses[s], n)
    BY <1>5 DEF UavTexture
  <2>4. s \in S /\ UnorderedAccess \in st => n < m
    BY <1>1, <1>5, <2>2
  <2> HIDE DEF n, m
  <2>5. OrderedUpTo(x.uses[s], m)
    BY <2>1, <2>2, <2>3, OrderedLonger
  <2>6. s \in S => OrderedUpTo(Append(x.uses[s], [at |-> m, state |-> st]), m)
    BY <2>1, <2>2, <2>3, <2>4, OrderedAccess
  <2> QED
    BY <1>2, <1>4, <2>5, <2>6 DEF m
<1> QED
  BY <1>2, <1>3, <1>4, <1>5 DEF UavTexture, a, c, z

\* The same of buffers: what is pending is widened or another barrier placed.
UavBufferRequired(b, x, st, z) ==
    /\ z \in BufferRec /\ z.enableUavBarriers /\ z.permanent = x.permanent
    /\ z.recorded = x.recorded /\ z.uses = x.uses
    /\ x.pending # <<>> => z.pending # <<>>
    /\ UnorderedAccess \in st /\ permanentState[b] = Unknown /\ b \in Tracked
         => z.pending # <<>>

LEMMA RequireBufferUav ==
  ASSUME TypeOK, NEW b \in Buffers, NEW x \in BufferRec, x.enableUavBarriers, NEW st \in States
  PROVE  UavBufferRequired(b, x, st, RequireBuffer(b, x, st))
<1> DEFINE z == RequireBuffer(b, x, st)
<1>1. CASE b \in UntrackedBuffers \/ permanentState[b] # Unknown
  <2>1. z = x
    BY <1>1 DEF RequireBuffer
  <2> QED
    BY <1>1, <2>1, BuffersSplit DEF UavBufferRequired, Tracked
<1>2. CASE ~(b \in UntrackedBuffers \/ permanentState[b] # Unknown)
  <2>0. b \in Tracked /\ permanentState[b] = Unknown
    BY <1>2 DEF Tracked
  <2>1. BufferRequired(x, TrackBuffer(b, x), st, z)
    BY <2>0, RequireBufferFields
  <2> DEFINE y == TrackBuffer(b, x)
  <2>2. /\ y \in BufferRec /\ y.pending = x.pending
        /\ y.enableUavBarriers = x.enableUavBarriers
    <3>1. y \in BufferRec
      BY TrackBufferType
    <3> QED
      BY <3>1 DEF TrackBuffer, BufferRec
  <2>3. z.enableUavBarriers = y.enableUavBarriers
    BY <1>2, <2>2 DEF RequireBuffer, BufferRec
  <2>4. x.pending # <<>> => z.pending # <<>>
    <3>1. x.pending \in Seq(Barrier) /\ y.state \in States
      BY <2>2 DEF BufferRec
    <3>2. [before |-> y.state, after |-> st] \in Barrier
      BY <3>1 DEF Barrier
    <3>3. CASE y.state # st /\ x.pending # <<>>
      <4>1. z.pending = [x.pending EXCEPT ![1] = [x.pending[1] EXCEPT !.after = z.state]]
        BY <2>1, <3>3 DEF BufferRequired
      <4>2. DOMAIN z.pending = DOMAIN x.pending /\ 1 \in DOMAIN x.pending
        BY <3>1, <3>3, <4>1
      <4> QED
        BY <4>2
    <3>4. CASE ~(y.state # st /\ x.pending # <<>>)
      <4>1. \/ z.pending = Append(x.pending, [before |-> y.state, after |-> st])
            \/ z.pending = x.pending
        BY <2>1, <3>4 DEF BufferRequired
      <4> QED
        BY <3>1, <3>2, <4>1, AppendFacts
    <3> QED
      BY <3>3, <3>4
  <2>5. UnorderedAccess \in st /\ x.pending = <<>> => z.pending # <<>>
    <3>1. x.pending \in Seq(Barrier) /\ y.state \in States
      BY <2>2 DEF BufferRec
    <3>2. [before |-> y.state, after |-> st] \in Barrier
      BY <3>1 DEF Barrier
    <3>3. UnorderedAccess \in st => UavBarrierDue(y, st)
      BY <2>2 DEF UavBarrierDue
    <3>4. UnorderedAccess \in st /\ x.pending = <<>> =>
            z.pending = Append(x.pending, [before |-> y.state, after |-> st])
      BY <2>1, <3>3 DEF BufferRequired
    <3>5. Append(x.pending, [before |-> y.state, after |-> st]) # <<>>
      BY <3>1, <3>2, AppendFacts
    <3> QED
      BY <3>4, <3>5
  <2>6. /\ z \in BufferRec /\ z.permanent = x.permanent
        /\ z.recorded = x.recorded /\ z.uses = x.uses
    BY <2>1 DEF BufferRequired
  <2> HIDE DEF y, z
  <2>7. UavBufferRequired(b, x, st, z)
    BY <2>2, <2>3, <2>4, <2>5, <2>6 DEF UavBufferRequired
  <2> QED
    BY <2>7 DEF z
<1> QED
  BY <1>1, <1>2

LEMMA CommitBufferUav ==
  ASSUME NEW b \in Buffers, NEW x \in BufferRec, UavBuffer(b, x)
  PROVE  UavBuffer(b, CommitBuffer(x))
<1> DEFINE z == CommitBuffer(x)
<1>1. /\ z \in BufferRec /\ z.uses = x.uses /\ z.permanent = x.permanent
      /\ z.recorded = x.recorded \o x.pending
  BY CommitBufferFields
<1>2. z.enableUavBarriers = x.enableUavBarriers
  BY DEF CommitBuffer, BufferRec
<1> HIDE DEF z
<1>3. x.uses \in Seq(Use) /\ x.recorded \in Seq(Barrier) /\ x.pending \in Seq(Barrier)
  BY DEF BufferRec
<1>4. /\ Len(x.recorded) \in Nat /\ Len(z.recorded) \in Nat
      /\ Len(x.recorded) <= Len(z.recorded)
  BY <1>1, <1>3, ConcatLonger
<1>5. b \in Tracked => OrderedUpTo(x.uses, Len(z.recorded))
  BY <1>3, <1>4, OrderedLonger DEF UavBuffer
<1> QED
  BY <1>1, <1>2, <1>5 DEF UavBuffer, z

\* commit and access, after one or two requires
LEMMA UseBufferUav ==
  ASSUME NEW b \in Buffers, NEW x \in BufferRec, UavBuffer(b, x),
         NEW z \in BufferRec, NEW st \in States,
         z.enableUavBarriers, z.permanent = x.permanent,
         z.recorded = x.recorded, z.uses = x.uses,
         UnorderedAccess \in st /\ b \in Tracked => z.pending # <<>>
  PROVE  UavBuffer(b, AccessBuffer(CommitBuffer(z), st))
<1> DEFINE c == CommitBuffer(z)
           a == AccessBuffer(c, st)
<1>1. /\ c \in BufferRec /\ c.uses = x.uses /\ c.permanent = x.permanent
      /\ c.recorded = x.recorded \o z.pending
  BY CommitBufferFields
<1>2. c.enableUavBarriers
  BY DEF CommitBuffer, BufferRec
<1> HIDE DEF c
<1>3. /\ a.enableUavBarriers = c.enableUavBarriers /\ a.permanent = c.permanent
      /\ a.recorded = c.recorded
      /\ a.uses = Append(c.uses, [at |-> Len(c.recorded), state |-> st])
  BY <1>1 DEF AccessBuffer, BufferRec
<1> HIDE DEF a
<1>4. x.uses \in Seq(Use) /\ x.recorded \in Seq(Barrier) /\ z.pending \in Seq(Barrier)
  BY DEF BufferRec
<1> DEFINE n == Len(x.recorded)
           m == Len(c.recorded)
<1>5. n \in Nat /\ m \in Nat /\ n <= m /\ (z.pending # <<>> => n < m)
  BY <1>1, <1>4, ConcatLonger
<1>6. b \in Tracked => OrderedUpTo(x.uses, n)
  BY DEF UavBuffer
<1> HIDE DEF n, m
<1>7. b \in Tracked => OrderedUpTo(Append(x.uses, [at |-> m, state |-> st]), m)
  BY <1>4, <1>5, <1>6, OrderedAccess
<1> QED
  BY <1>1, <1>2, <1>3, <1>7 DEF UavBuffer, a, c, m

\* what RespectsPermanent and MayMakePermanent leave to ask for
LEMMA UavAsked ==
  ASSUME NEW r \in Resources, NEW st \in States, NEW cl \in CommandLists,
         UnorderedAccess \notin permanentState[r], RespectsPermanent(cl, r, st)
  PROVE  UnorderedAccess \in st => permanentState[r] = Unknown
  BY DEF RespectsPermanent

LEMMA TextureCallUav ==
  ASSUME TypeOK, UavInv, "uavToggle" \notin app.calls, NEW cl \in CommandLists, TextureCall(cl)
  PROVE  /\ \A u \in Textures : UavTexture(tex'[cl][u])
         /\ \A b \in Buffers : UavBuffer(b, buf'[cl][b])
<1>0. /\ \A u \in Textures : tex[cl][u] \in TextureRec /\ UavTexture(tex[cl][u])
      /\ \A b \in Buffers : buf[cl][b] \in BufferRec /\ UavBuffer(b, buf[cl][b])
      /\ \A S \in SubresourceSets : S \in SUBSET Subresources
      /\ \A st \in Usages : st \in States
      /\ \A r \in Resources : UnorderedAccess \notin permanentState[r]
  BY StatesKnown DEF TypeOK, UavInv, SubresourceSets
<1>1. \A b \in Buffers : UavBuffer(b, buf'[cl][b])
  <2>1. CASE UNCHANGED buf
    BY <1>0, <2>1
  <2>2. CASE buf' = [buf EXCEPT ![cl] = [b \in Buffers |-> CommitBuffer(buf[cl][b])]]
    BY <1>0, <2>2, CommitBufferUav DEF TypeOK
  <2> QED
    BY <2>1, <2>2, TextureCallOnBuffers
<1>2. ASSUME NEW t \in Textures, NEW z, UavTexture(z), tex' = [tex EXCEPT ![cl][t] = z]
      PROVE  \A u \in Textures : UavTexture(tex'[cl][u])
  BY <1>0, <1>2 DEF TypeOK
<1>3. ASSUME NEW t \in Textures, NEW st \in Usages, SetPermanentTextureState(cl, t, st)
      PROVE  \A u \in Textures : UavTexture(tex'[cl][u])
  <2> DEFINE x == tex[cl][t]
             y == RequireTexture(t, x, Subresources, st)
             z == PermanentTexture(t, x, st)
  <2>1. UnorderedAccess \notin st /\ tex' = [tex EXCEPT ![cl][t] = z]
    BY <1>3 DEF SetPermanentTextureState, SetTexture, MayMakePermanent
  <2>2. UavRequired(t, x, Subresources, st, y)
    BY <1>0, RequireTextureUav
  <2> HIDE DEF x, y
  <2>3. /\ y \in TextureRec /\ y.enableUavBarriers /\ y.permanent = x.permanent
        /\ y.recorded = x.recorded /\ y.uses = x.uses
    BY <2>2 DEF UavRequired
  <2>4. /\ z.enableUavBarriers = y.enableUavBarriers
        /\ z.recorded = y.recorded /\ z.uses = y.uses
        /\ z.permanent = IF y.permanent = Unknown THEN st ELSE y.permanent
    <3>1. TrackTexture(t, y) \in TextureRec
      BY <2>3, TrackTextureType
    <3>2. /\ TrackTexture(t, y).enableUavBarriers = y.enableUavBarriers
          /\ TrackTexture(t, y).recorded = y.recorded /\ TrackTexture(t, y).uses = y.uses
          /\ TrackTexture(t, y).permanent = y.permanent
      BY <2>3, <3>1 DEF TrackTexture, TextureRec
    <3> QED
      BY <3>1, <3>2 DEF PermanentTexture, TextureRec, y
  <2>5. UavTexture(x)
    BY <1>0 DEF x
  <2> HIDE DEF z
  <2>6. UavTexture(z)
    BY <2>1, <2>3, <2>4, <2>5 DEF UavTexture
  <2> QED
    BY <1>2, <2>1, <2>6
<1>4. ASSUME NEW t \in Textures, NEW S \in SubresourceSets, NEW st \in Usages,
             SetTextureState(cl, t, S, st)
      PROVE  \A u \in Textures : UavTexture(tex'[cl][u])
  <2> DEFINE x == tex[cl][t]
             z == RequireTexture(t, x, S, st)
  <2>1. tex' = [tex EXCEPT ![cl][t] = z]
    BY <1>4 DEF SetTextureState, SetTexture
  <2>2. UavRequired(t, x, S, st, z) /\ UavTexture(x)
    BY <1>0, RequireTextureUav
  <2> HIDE DEF x, z
  <2>3. UavTexture(z)
    BY <2>2 DEF UavRequired, UavTexture
  <2> QED
    BY <1>2, <2>1, <2>3
<1>5. ASSUME NEW t \in Textures, NEW S \in SubresourceSets, NEW st \in Usages,
             UseTexture(cl, t, S, st)
      PROVE  \A u \in Textures : UavTexture(tex'[cl][u])
  <2> DEFINE z == AccessTexture(CommitTexture(RequireTexture(t, tex[cl][t], S, st)), S, st)
  <2>1. /\ RespectsPermanent(cl, t, st)
        /\ tex' = [tex EXCEPT ![cl] = [u \in Textures |->
                     IF u = t THEN z ELSE CommitTexture(tex[cl][u])]]
    BY <1>5 DEF UseTexture, MayUseTexture
  <2>2. UnorderedAccess \in st => permanentState[t] = Unknown
    BY <1>0, <2>1, UavAsked DEF Resources
  <2>3. UavTexture(z)
    BY <1>0, <2>2, UseTextureUav
  <2>4. \A u \in Textures : UavTexture(CommitTexture(tex[cl][u]))
    BY <1>0, CommitTextureUav
  <2> HIDE DEF z
  <2>5. \A u \in Textures : tex'[cl][u] = IF u = t THEN z ELSE CommitTexture(tex[cl][u])
    BY <2>1 DEF TypeOK
  <2> QED
    BY <2>3, <2>4, <2>5
<1>6. ASSUME NEW t \in Textures, NEW S \in SubresourceSets, NEW st \in States \ {Unknown},
             BeginTrackingTextureState(cl, t, S, st)
      PROVE  \A u \in Textures : UavTexture(tex'[cl][u])
  <2> DEFINE x == tex[cl][t]
             y == TrackTexture(t, x)
             z == BeginTexture(t, x, S, st)
  <2>1. tex' = [tex EXCEPT ![cl][t] = z]
    BY <1>6 DEF BeginTrackingTextureState, SetTexture
  <2>2. x \in TextureRec /\ UavTexture(x)
    BY <1>0
  <2>3. y \in TextureRec
    BY <2>2, TrackTextureType
  <2> HIDE DEF x
  <2>4. /\ y.enableUavBarriers = x.enableUavBarriers /\ y.permanent = x.permanent
        /\ y.recorded = x.recorded /\ y.uses = x.uses
    BY <2>2, <2>3 DEF TrackTexture, TextureRec
  <2> HIDE DEF y
  <2>5. /\ z.enableUavBarriers = y.enableUavBarriers /\ z.permanent = y.permanent
        /\ z.recorded = y.recorded /\ z.uses = y.uses
    BY <2>3 DEF BeginTexture, TextureRec, y
  <2> HIDE DEF z
  <2>6. UavTexture(z)
    BY <2>2, <2>4, <2>5 DEF UavTexture
  <2> QED
    BY <1>2, <2>1, <2>6
<1>7. \A t \in Textures, enable \in BOOLEAN : ~SetEnableUavBarriersForTexture(cl, t, enable)
  BY DEF SetEnableUavBarriersForTexture
<1>8. \A u \in Textures : UavTexture(tex'[cl][u])
  BY <1>3, <1>4, <1>5, <1>6, <1>7 DEF TextureCall
<1> QED
  BY <1>1, <1>8

LEMMA BufferCallUav ==
  ASSUME TypeOK, UavInv, "uavToggle" \notin app.calls, NEW cl \in CommandLists, BufferCall(cl)
  PROVE  /\ \A u \in Textures : UavTexture(tex'[cl][u])
         /\ \A b \in Buffers : UavBuffer(b, buf'[cl][b])
<1>0. /\ \A u \in Textures : tex[cl][u] \in TextureRec /\ UavTexture(tex[cl][u])
      /\ \A b \in Buffers : buf[cl][b] \in BufferRec /\ UavBuffer(b, buf[cl][b])
      /\ \A st \in Usages : st \in States
      /\ \A r \in Resources : UnorderedAccess \notin permanentState[r]
  BY StatesKnown DEF TypeOK, UavInv
<1>1. \A u \in Textures : UavTexture(tex'[cl][u])
  <2>1. CASE UNCHANGED tex
    BY <1>0, <2>1
  <2>2. CASE tex' = [tex EXCEPT ![cl] = [t \in Textures |-> CommitTexture(tex[cl][t])]]
    BY <1>0, <2>2, CommitTextureUav DEF TypeOK
  <2> QED
    BY <2>1, <2>2, BufferCallOnTextures
<1>2. ASSUME NEW b \in Buffers, NEW z, UavBuffer(b, z), buf' = [buf EXCEPT ![cl][b] = z]
      PROVE  \A c \in Buffers : UavBuffer(c, buf'[cl][c])
  BY <1>0, <1>2 DEF TypeOK
<1>3. ASSUME NEW b \in Buffers, NEW z, UavBuffer(b, z),
             buf' = [buf EXCEPT ![cl] = [c \in Buffers |->
                       IF c = b THEN z ELSE CommitBuffer(buf[cl][c])]]
      PROVE  \A c \in Buffers : UavBuffer(c, buf'[cl][c])
  <2>1. \A c \in Buffers : UavBuffer(c, CommitBuffer(buf[cl][c]))
    BY <1>0, CommitBufferUav
  <2>2. \A c \in Buffers : buf'[cl][c] = IF c = b THEN z ELSE CommitBuffer(buf[cl][c])
    BY <1>3 DEF TypeOK
  <2> QED
    BY <1>3, <2>1, <2>2
<1>4. ASSUME NEW b \in Buffers, NEW st \in States, RespectsPermanent(cl, b, st)
      PROVE  UnorderedAccess \in st => permanentState[b] = Unknown
  BY <1>0, <1>4, UavAsked DEF Resources
<1>5. ASSUME NEW b \in Buffers, NEW st \in Usages, SetBufferState(cl, b, st)
      PROVE  \A c \in Buffers : UavBuffer(c, buf'[cl][c])
  <2> DEFINE x == buf[cl][b]
             z == RequireBuffer(b, x, st)
  <2>1. buf' = [buf EXCEPT ![cl][b] = z]
    BY <1>5 DEF SetBufferState, SetBuffer
  <2>2. UavBufferRequired(b, x, st, z) /\ UavBuffer(b, x)
    BY <1>0, RequireBufferUav DEF UavBuffer
  <2> HIDE DEF x, z
  <2>3. UavBuffer(b, z)
    BY <2>2 DEF UavBufferRequired, UavBuffer
  <2> QED
    BY <1>2, <2>1, <2>3
<1>6. ASSUME NEW b \in Buffers, NEW st \in Usages, SetPermanentBufferState(cl, b, st)
      PROVE  \A c \in Buffers : UavBuffer(c, buf'[cl][c])
  <2> DEFINE x == buf[cl][b]
             y == RequireBuffer(b, x, st)
             z == PermanentBuffer(b, x, st)
  <2>1. UnorderedAccess \notin st /\ buf' = [buf EXCEPT ![cl][b] = z]
    BY <1>6 DEF SetPermanentBufferState, SetBuffer, MayMakePermanent
  <2>2. UavBufferRequired(b, x, st, y) /\ UavBuffer(b, x)
    BY <1>0, RequireBufferUav DEF UavBuffer
  <2> HIDE DEF x, y
  <2>3. /\ y \in BufferRec /\ y.enableUavBarriers /\ y.permanent = x.permanent
        /\ y.recorded = x.recorded /\ y.uses = x.uses
    BY <2>2 DEF UavBufferRequired
  <2>4. /\ z.enableUavBarriers = y.enableUavBarriers
        /\ z.recorded = y.recorded /\ z.uses = y.uses
        /\ z.permanent = IF y.permanent = Unknown THEN st ELSE y.permanent
    BY <2>3 DEF PermanentBuffer, BufferRec, y
  <2> HIDE DEF z
  <2>5. UavBuffer(b, z)
    BY <2>1, <2>2, <2>3, <2>4 DEF UavBuffer
  <2> QED
    BY <1>2, <2>1, <2>5
<1>7. ASSUME NEW b \in Buffers, NEW st \in Usages, UseBuffer(cl, b, st)
      PROVE  \A c \in Buffers : UavBuffer(c, buf'[cl][c])
  <2> DEFINE x == buf[cl][b]
             y == RequireBuffer(b, x, st)
             z == AccessBuffer(CommitBuffer(y), st)
  <2>1. /\ RespectsPermanent(cl, b, st)
        /\ buf' = [buf EXCEPT ![cl] = [c \in Buffers |->
                     IF c = b THEN z ELSE CommitBuffer(buf[cl][c])]]
    BY <1>7 DEF UseBuffer, MayUseBuffer
  <2>2. UavBufferRequired(b, x, st, y) /\ UavBuffer(b, x) /\ x \in BufferRec
    BY <1>0, RequireBufferUav DEF UavBuffer
  <2>3. UnorderedAccess \in st => permanentState[b] = Unknown
    BY <1>0, <1>4, <2>1
  <2>4. st \in States
    BY <1>0
  <2> HIDE DEF x, y
  <2>5. UavBuffer(b, z)
    BY <2>2, <2>3, <2>4, UseBufferUav DEF UavBufferRequired
  <2> HIDE DEF z
  <2> QED
    BY <1>3, <2>1, <2>5
<1>8. ASSUME NEW b \in Buffers, NEW st1 \in Usages, NEW st2 \in Usages,
             UseBufferTwice(cl, b, st1, st2)
      PROVE  \A c \in Buffers : UavBuffer(c, buf'[cl][c])
  <2> DEFINE x == buf[cl][b]
             v == RequireBuffer(b, x, st1)
             y == RequireBuffer(b, v, st2)
             z == AccessBuffer(CommitBuffer(y), st1 \cup st2)
  <2>1. /\ RespectsPermanent(cl, b, st1) /\ RespectsPermanent(cl, b, st2)
        /\ buf' = [buf EXCEPT ![cl] = [c \in Buffers |->
                     IF c = b THEN z ELSE CommitBuffer(buf[cl][c])]]
    BY <1>8 DEF UseBufferTwice, MayUseBuffer
  <2>2. UavBufferRequired(b, x, st1, v) /\ UavBuffer(b, x) /\ x \in BufferRec
    BY <1>0, RequireBufferUav DEF UavBuffer
  <2>3. st1 \in States /\ st2 \in States /\ st1 \cup st2 \in States
    BY <1>0 DEF States
  <2>4. /\ UnorderedAccess \in st1 => permanentState[b] = Unknown
        /\ UnorderedAccess \in st2 => permanentState[b] = Unknown
    BY <1>4, <2>1, <2>3
  <2> HIDE DEF x, v
  <2>5. UavBufferRequired(b, v, st2, y)
    BY <2>2, <2>3, RequireBufferUav DEF UavBufferRequired
  <2> HIDE DEF y
  <2>6. /\ y \in BufferRec /\ y.enableUavBarriers /\ y.permanent = x.permanent
        /\ y.recorded = x.recorded /\ y.uses = x.uses
        /\ UnorderedAccess \in st1 \cup st2 /\ b \in Tracked => y.pending # <<>>
    BY <2>2, <2>4, <2>5 DEF UavBufferRequired
  <2>7. UavBuffer(b, z)
    BY <2>2, <2>3, <2>6, UseBufferUav
  <2> HIDE DEF z
  <2> QED
    BY <1>3, <2>1, <2>7
<1>9. ASSUME NEW b \in Buffers, NEW st \in States \ {Unknown},
             BeginTrackingBufferState(cl, b, st)
      PROVE  \A c \in Buffers : UavBuffer(c, buf'[cl][c])
  <2> DEFINE x == buf[cl][b]
             y == TrackBuffer(b, x)
             z == [y EXCEPT !.state = st]
  <2>1. buf' = [buf EXCEPT ![cl][b] = z]
    BY <1>9 DEF BeginTrackingBufferState, SetBuffer
  <2>2. x \in BufferRec /\ UavBuffer(b, x)
    BY <1>0
  <2>3. y \in BufferRec
    BY <2>2, TrackBufferType
  <2> HIDE DEF x
  <2>4. /\ y.enableUavBarriers = x.enableUavBarriers /\ y.permanent = x.permanent
        /\ y.recorded = x.recorded /\ y.uses = x.uses
    BY <2>2, <2>3 DEF TrackBuffer, BufferRec
  <2> HIDE DEF y
  <2>5. /\ z.enableUavBarriers = y.enableUavBarriers /\ z.permanent = y.permanent
        /\ z.recorded = y.recorded /\ z.uses = y.uses
    BY <2>3 DEF BufferRec
  <2> HIDE DEF z
  <2>6. UavBuffer(b, z)
    BY <2>2, <2>4, <2>5 DEF UavBuffer
  <2> QED
    BY <1>2, <2>1, <2>6
<1>10. \A b \in Buffers, enable \in BOOLEAN : ~SetEnableUavBarriersForBuffer(cl, b, enable)
  BY DEF SetEnableUavBarriersForBuffer
<1>11. \A c \in Buffers : UavBuffer(c, buf'[cl][c])
  BY <1>5, <1>6, <1>7, <1>8, <1>9, <1>10 DEF BufferCall
<1> QED
  BY <1>1, <1>11

LEMMA NextUav == TypeOK /\ UavInv /\ [Next]_vars => UavInv'
<1> SUFFICES ASSUME TypeOK, UavInv, [Next]_vars, "uavToggle" \notin app'.calls
             PROVE  /\ \A r \in Resources : UnorderedAccess \notin permanentState'[r]
                    /\ \A c \in CommandLists, t \in Textures : UavTexture(tex'[c][t])
                    /\ \A c \in CommandLists, b \in Buffers : UavBuffer(b, buf'[c][b])
  BY DEF UavInv, UavTexture, UavBuffer
<1>1. app' = app
  <2>1. \A cl \in CommandLists : TextureCall(cl) \/ BufferCall(cl) => app' = app
    BY TextureCallOnBuffers, BufferCallOnTextures DEF Records
  <2> QED
    BY <2>1 DEF Next, vars, Open, Close, Execute, CommitBarriers
<1>2. /\ \A r \in Resources : UnorderedAccess \notin permanentState[r]
      /\ \A c \in CommandLists, t \in Textures : /\ tex[c][t] \in TextureRec
                                                 /\ UavTexture(tex[c][t])
      /\ \A c \in CommandLists, b \in Buffers : /\ buf[c][b] \in BufferRec
                                                /\ UavBuffer(b, buf[c][b])
  BY <1>1 DEF UavInv, TypeOK
<1>3. CASE UNCHANGED vars
  BY <1>2, <1>3 DEF vars
<1>4. ASSUME NEW cl \in CommandLists,
             \A t \in Textures : UavTexture(tex'[cl][t]),
             \A b \in Buffers : UavBuffer(b, buf'[cl][b]),
             \A c \in Others(cl) : tex'[c] = tex[c] /\ buf'[c] = buf[c]
      PROVE  /\ \A c \in CommandLists, t \in Textures : UavTexture(tex'[c][t])
             /\ \A c \in CommandLists, b \in Buffers : UavBuffer(b, buf'[c][b])
  <2>1. \A c \in CommandLists : c = cl \/ c \in Others(cl)
    BY DEF Others
  <2> QED
    BY <1>2, <1>4, <2>1
<1>5. ASSUME NEW cl \in CommandLists, TextureCall(cl) \/ BufferCall(cl)
      PROVE  /\ UNCHANGED permanentState
             /\ \A c \in CommandLists, t \in Textures : UavTexture(tex'[c][t])
             /\ \A c \in CommandLists, b \in Buffers : UavBuffer(b, buf'[c][b])
  <2>1. /\ \A t \in Textures : UavTexture(tex'[cl][t])
        /\ \A b \in Buffers : UavBuffer(b, buf'[cl][b])
    BY <1>1, <1>5, TextureCallUav, BufferCallUav
  <2>2. UNCHANGED permanentState
    BY <1>5, TextureCallOnBuffers, BufferCallOnTextures DEF Records
  <2>3. \A c \in Others(cl) : tex'[c] = tex[c] /\ buf'[c] = buf[c]
    <3>1. CASE TextureCall(cl)
      BY <3>1, TextureCallOnBuffers DEF TypeOK, Others
    <3>2. CASE BufferCall(cl)
      BY <3>2, BufferCallOnTextures DEF TypeOK, Others
    <3> QED
      BY <1>5, <3>1, <3>2
  <2> QED
    BY <1>4, <2>1, <2>2, <2>3
<1>6. ASSUME NEW cl \in CommandLists, CommitBarriers(cl)
      PROVE  /\ UNCHANGED permanentState
             /\ \A c \in CommandLists, t \in Textures : UavTexture(tex'[c][t])
             /\ \A c \in CommandLists, b \in Buffers : UavBuffer(b, buf'[c][b])
  <2>1. /\ \A t \in Textures : tex'[cl][t] = CommitTexture(tex[cl][t])
        /\ \A b \in Buffers : buf'[cl][b] = CommitBuffer(buf[cl][b])
        /\ \A c \in Others(cl) : tex'[c] = tex[c] /\ buf'[c] = buf[c]
        /\ UNCHANGED permanentState
    BY <1>6 DEF CommitBarriers, TypeOK, Others
  <2> QED
    BY <1>2, <1>4, <2>1, CommitTextureUav, CommitBufferUav
<1>7. ASSUME NEW cl \in CommandLists, Open(cl)
      PROVE  /\ UNCHANGED permanentState
             /\ \A c \in CommandLists, t \in Textures : UavTexture(tex'[c][t])
             /\ \A c \in CommandLists, b \in Buffers : UavBuffer(b, buf'[c][b])
  <2>1. /\ \A t \in Textures : tex'[cl][t] =
             [tex[cl][t] EXCEPT !.recorded = EmptyTexture.recorded, !.uses = EmptyTexture.uses]
        /\ \A b \in Buffers : buf'[cl][b] =
             [buf[cl][b] EXCEPT !.recorded = <<>>, !.uses = <<>>]
        /\ \A c \in Others(cl) : tex'[c] = tex[c] /\ buf'[c] = buf[c]
        /\ UNCHANGED permanentState
    BY <1>7 DEF Open, TypeOK, Others
  <2>2. OrderedUpTo(<<>>, 0)
    BY DEF OrderedUpTo, Ordered
  <2>3. ASSUME NEW t \in Textures PROVE UavTexture(tex'[cl][t])
    <3> DEFINE x == tex[cl][t]
               z == [x EXCEPT !.recorded = EmptyTexture.recorded, !.uses = EmptyTexture.uses]
    <3>1. x \in TextureRec /\ UavTexture(x)
      BY <1>2
    <3>2. tex'[cl][t] = z
      BY <2>1
    <3> HIDE DEF x
    <3>3. /\ z.enableUavBarriers = x.enableUavBarriers /\ z.permanent = x.permanent
          /\ \A s \in Subresources : z.recorded[s] = <<>> /\ z.uses[s] = <<>>
      BY <3>1 DEF TextureRec, EmptyTexture
    <3> HIDE DEF z
    <3>4. UavTexture(z)
      BY <2>2, <3>1, <3>3 DEF UavTexture
    <3> QED
      BY <3>2, <3>4
  <2>4. ASSUME NEW b \in Buffers PROVE UavBuffer(b, buf'[cl][b])
    <3> DEFINE x == buf[cl][b]
               z == buf'[cl][b]
    <3>1. x \in BufferRec /\ UavBuffer(b, x)
      BY <1>2
    <3>2. /\ z.enableUavBarriers = x.enableUavBarriers /\ z.permanent = x.permanent
          /\ z.recorded = <<>> /\ z.uses = <<>>
      BY <2>1, <3>1, ZenonT(40) DEF BufferRec
    <3> HIDE DEF x, z
    <3>3. UavBuffer(b, z)
      BY <2>2, <3>1, <3>2 DEF UavBuffer
    <3> QED
      BY <3>3 DEF z
  <2> QED
    BY <1>4, <2>1, <2>3, <2>4
<1>8. ASSUME NEW cl \in CommandLists, Close(cl)
      PROVE  /\ UNCHANGED permanentState
             /\ \A c \in CommandLists, t \in Textures : UavTexture(tex'[c][t])
             /\ \A c \in CommandLists, b \in Buffers : UavBuffer(b, buf'[c][b])
  <2>1. /\ \A t \in Textures : tex'[cl][t] = CommitTexture(KeepTexture(t, tex[cl][t]))
        /\ \A b \in Buffers : buf'[cl][b] = CommitBuffer(KeepBuffer(b, buf[cl][b]))
        /\ \A c \in Others(cl) : tex'[c] = tex[c] /\ buf'[c] = buf[c]
        /\ UNCHANGED permanentState
    BY <1>8 DEF Close, TypeOK, Others
  <2>2. ASSUME NEW t \in Textures
        PROVE  KeepTexture(t, tex[cl][t]) \in TextureRec /\ UavTexture(KeepTexture(t, tex[cl][t]))
    <3> DEFINE x == tex[cl][t]
               z == RequireTexture(t, x, Subresources, InitialState[t])
    <3>1. x \in TextureRec /\ UavTexture(x)
      BY <1>2
    <3>2. InitialState[t] \in States
      BY StatesKnown DEF Resources
    <3>3. UavRequired(t, x, Subresources, InitialState[t], z)
      BY <3>1, <3>2, RequireTextureUav
    <3>4. KeepTexture(t, x) = x \/ KeepTexture(t, x) = z
      BY DEF KeepTexture
    <3> HIDE DEF x, z
    <3>5. z \in TextureRec /\ UavTexture(z)
      BY <3>1, <3>3 DEF UavRequired, UavTexture
    <3>6. KeepTexture(t, x) \in TextureRec /\ UavTexture(KeepTexture(t, x))
      BY <3>1, <3>4, <3>5
    <3> QED
      BY <3>6 DEF x
  <2>3. ASSUME NEW b \in Buffers
        PROVE  KeepBuffer(b, buf[cl][b]) \in BufferRec /\ UavBuffer(b, KeepBuffer(b, buf[cl][b]))
    <3> DEFINE x == buf[cl][b]
               z == RequireBuffer(b, x, InitialState[b])
    <3>1. x \in BufferRec /\ UavBuffer(b, x)
      BY <1>2
    <3>2. InitialState[b] \in States
      BY StatesKnown DEF Resources
    <3>3. UavBufferRequired(b, x, InitialState[b], z)
      BY <3>1, <3>2, RequireBufferUav DEF UavBuffer
    <3>4. KeepBuffer(b, x) = x \/ KeepBuffer(b, x) = z
      BY DEF KeepBuffer
    <3> HIDE DEF x, z
    <3>5. z \in BufferRec /\ UavBuffer(b, z)
      BY <3>1, <3>3 DEF UavBufferRequired, UavBuffer
    <3>6. KeepBuffer(b, x) \in BufferRec /\ UavBuffer(b, KeepBuffer(b, x))
      BY <3>1, <3>4, <3>5
    <3> QED
      BY <3>6 DEF x
  <2>4. /\ \A t \in Textures : UavTexture(tex'[cl][t])
        /\ \A b \in Buffers : UavBuffer(b, buf'[cl][b])
    BY <2>1, <2>2, <2>3, CommitTextureUav, CommitBufferUav
  <2> QED
    BY <1>4, <2>1, <2>4
<1>9. UavTexture(EmptyTexture) /\ \A b \in Buffers : UavBuffer(b, EmptyBuffer)
  <2>1. OrderedUpTo(<<>>, 0)
    BY DEF OrderedUpTo, Ordered
  <2> QED
    BY <2>1 DEF UavTexture, UavBuffer, EmptyTexture, EmptyBuffer, Unknown
<1>10. ASSUME NEW cl \in CommandLists, Execute(cl)
       PROVE  /\ \A r \in Resources : UnorderedAccess \notin permanentState'[r]
              /\ \A c \in CommandLists, t \in Textures : UavTexture(tex'[c][t])
              /\ \A c \in CommandLists, b \in Buffers : UavBuffer(b, buf'[c][b])
  <2>1. /\ \A t \in Textures : tex'[cl][t] = EmptyTexture
        /\ \A b \in Buffers : buf'[cl][b] = EmptyBuffer
        /\ \A c \in Others(cl) : tex'[c] = tex[c] /\ buf'[c] = buf[c]
    BY <1>10 DEF Execute, TypeOK, Others
  <2>2. ASSUME NEW r \in Resources PROVE UnorderedAccess \notin permanentState'[r]
    <3>1. UnorderedAccess \notin DeferredPermanent(cl, r)
      BY <1>2 DEF DeferredPermanent, Resources, UavTexture, UavBuffer
    <3>2. permanentState'[r] = NewPermanent(permanentState[r], DeferredPermanent(cl, r))
      BY <1>10 DEF Execute
    <3> QED
      BY <1>2, <3>1, <3>2 DEF NewPermanent
  <2> QED
    BY <1>4, <1>9, <2>1, <2>2
<1> QED
  BY <1>2, <1>3, <1>5, <1>6, <1>7, <1>8, <1>10 DEF Next

\* Unless the application disables UAV barriers, two successive unordered
\* accesses of a list to a buffer, or to the first subresource of a texture, have
\* a barrier on it between them.
THEOREM UnorderedAccessesOrdered == Spec => []UavOrdered
<1>1. Init => TypeOK /\ UavInv
  <2> SUFFICES ASSUME Init PROVE UavInv
    BY InitTypeOK
  <2>1. OrderedUpTo(<<>>, 0)
    BY DEF OrderedUpTo, Ordered
  <2>2. UavTexture(EmptyTexture) /\ \A b \in Buffers : UavBuffer(b, EmptyBuffer)
    BY <2>1 DEF UavTexture, UavBuffer, EmptyTexture, EmptyBuffer, Unknown
  <2> QED
    BY <2>2 DEF UavInv, Init, Unknown
<1>2. TypeOK /\ UavInv /\ [Next]_vars => (TypeOK /\ UavInv)'
  BY NextTypeOK, NextUav
<1>3. UavInv => UavOrdered
  BY DEF UavInv, UavTexture, UavBuffer, OrderedUpTo, Tracked, UavOrdered, TextureUavOrdered,
         BufferUavOrdered
<1> QED
  BY <1>1, <1>2, <1>3, PTL DEF Spec
=============================================================================
