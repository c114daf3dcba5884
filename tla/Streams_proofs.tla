--------------------------- MODULE Streams_proofs ---------------------------
(***************************************************************************)
(* Proofs about RedisStream and about Revoker, whose revocations arrive as *)
(* entries of two fanout streams.                                          *)
(*                                                                         *)
(* RedisStream: replay and delivery are complete and not doubled, for any  *)
(* streams, any start positions, batch sizes and pools, whatever is        *)
(* published, trimmed or fails meanwhile and wherever the server crashes.  *)
(*                                                                         *)
(* Revoker: for any strings, any insertions and any number of buckets, the *)
(* tries answer as a plain list of the prefixes stored in them would.      *)
(***************************************************************************)
EXTENDS RedisStream, Revoker, FiniteSetTheorems, WellFoundedInduction, TLAPS

Booting == phase \in {"init", "replay", "create", "recreate"}
Replaying == phase \in {"replay", "create", "recreate"}
Reading == phase \in {"listen", "stopping"}

\* The second loop has dealt with st.
Visited(st) == Reading \/ (Booting /\ st \notin todo)

\* The first loop has looked at st.
Inspected(st) == (phase = "inspect" /\ st \notin todo) \/ Booting

\* A stream with no error of Redis passed over, whose group must follow its replay.
Known(st) == st \notin unseen /\ JobMode[st] = "replayall"

(***************************************************************************)
(* The inductive invariant                                                 *)
(***************************************************************************)
\* Where the loops are.
Loops ==
    /\ IsFiniteSet(running)
    /\ Replaying => cur \in todo /\ cur \in inited
    /\ phase = "replay" => start[cur] # Latest
    /\ phase = "recreate" => JobMode[cur] = "replayall"
    /\ ~Reading => fetched = {}
    /\ \A st \in Stream, e \in Entry : <<st, e>> \in fetched => e <= group[st]
    /\ batch # {} => phase = "replay"
    /\ \A b \in batch : b > current

\* Redis: what exists, and how far a group or a remembered id can be ahead.
Bounds ==
    \A st \in Stream :
        /\ lastGenerated[st] > 0 \/ group[st] # Absent \/ st \in inited => st \in exists
        /\ lastId[st] <= lastGenerated[st]
        /\ group[st] <= lastGenerated[st] \/ group[st] <= start[st]
        /\ phase = "replay" /\ st = cur =>
              /\ current <= lastGenerated[st] \/ current = start[st]
              /\ \A b \in batch : b <= lastGenerated[st]

\* A stream the second loop has dealt with has its group, and so has one with a consumer.
Grouped == \A st \in Stream : st \in consumer \/ Visited(st) => group[st] # Absent

\* How often an entry can have been handed over: once by the replay, once by the group.
Counts ==
    \A st \in Stream, e \in Entry :
        /\ phase = "inspect" => count[st][e] = 0
        /\ Booting => count[st][e] <= 1
        /\ Booting /\ st \in todo /\ ~(Replaying /\ st = cur) => count[st][e] = 0
        /\ phase = "replay" /\ st = cur /\ e > current => count[st][e] = 0
        /\ Reading /\ (e > group[st] \/ <<st, e>> \in fetched) => count[st][e] <= 1

\* What the first loop concluded: a stream it did not find had no entry and no group.
Seen ==
    /\ \A st \in Stream : st \notin unseen \cup inited /\ (Inspected(st) \/ Reading)
                            => lastId[st] = 0
    /\ \A st \in Stream : st \notin unseen \cup inited /\ Inspected(st)
                            /\ (phase = "inspect" \/ st \in todo) => group[st] = Absent
    /\ phase = "recreate" /\ cur \notin unseen => group[cur] = Absent

\* What the replay under way has handed over: all up to its position; then all it must.
Replayed ==
    /\ phase = "replay" =>
         /\ \A e \in Live(cur) : start[cur] < e /\ e <= current => count[cur][e] > 0
         /\ \A b \in batch, e \in Live(cur) : current < e /\ e < b => e \in batch
    /\ phase \in {"create", "recreate"} /\ start[cur] # Latest =>
         \A e \in Live(cur) : start[cur] < e /\ e <= lastId[cur] => count[cur][e] > 0

\* The group of a replayed stream goes on where the replay ended, without a gap.
Seamless ==
    \A st \in Stream : Known(st) /\ Visited(st) =>
        /\ group[st] >= lastId[st]
        /\ \A e \in Entry : <<st, e>> \in fetched => e > lastId[st]
        /\ start[st] # Latest =>
             \A e \in Live(st) : start[st] < e /\ e <= group[st]
                => count[st][e] > 0 \/ <<st, e>> \in fetched

\* The group of a fanout or replay stream starts at base and only moves on.
Based ==
    \A st \in Stream : JobMode[st] # "replayall" =>
        /\ group[st] = Absent <=> base[st] = Absent
        /\ base[st] <= group[st]
        /\ group[st] <= lastGenerated[st] \/ group[st] = base[st]

\* What the group has moved past was handled to the end or is still pending.
Kept ==
    \A st \in Stream : JobMode[st] # "replayall" /\ group[st] # Absent =>
        \A e \in Entry : base[st] < e /\ e <= group[st] /\ e \in Live(st) =>
            e \in ever[st] \cup pel[st]

Inv == TypeOK /\ Loops /\ Bounds /\ Counts /\ Seen /\ Replayed /\ Seamless /\ OldOnce
       /\ Based /\ Kept /\ Grouped

-----------------------------------------------------------------------------
\* The types of the positions, one by one.
LEMMA Typed ==
    ASSUME TypeOK
    PROVE  /\ current \in Nat /\ batch \subseteq Nat
           /\ \A s \in Stream :
                /\ lastGenerated[s] \in Nat /\ low[s] \in Nat /\ lastId[s] \in Nat
                /\ group[s] \in Int /\ base[s] \in Int /\ start[s] \in Int
                /\ Live(s) \subseteq Entry /\ Live(s) \subseteq Nat
                /\ \A e \in Entry : count[s][e] \in 0 .. 2
  <1>1. \A s \in Stream : \A e \in Entry : count[s][e] \in 0 .. 2
    BY DEF TypeOK
  <1>2. current \in Nat /\ batch \subseteq Nat
    BY StreamAssumption DEF TypeOK, Id, Entry
  <1>3. \A s \in Stream :
           /\ lastGenerated[s] \in 0 .. MaxEntry /\ low[s] \in 0 .. MaxEntry
           /\ lastId[s] \in 0 .. MaxEntry
           /\ group[s] \in Int /\ base[s] \in Int /\ start[s] \in Int
    BY StreamAssumption DEF TypeOK, Id, Latest, Absent
  <1>4. \A s \in Stream : Live(s) \subseteq Entry /\ Live(s) \subseteq Nat
    BY <1>3, StreamAssumption DEF Live, Entry
  <1> QED BY <1>1, <1>2, <1>3, <1>4

\* The second loop is done with a stream: it has its group, where group'[st] says.
LEMMA Visit ==
    ASSUME Inv, NEW st \in todo, phase \in {"init", "create", "recreate"},
           phase # "init" => cur = st,
           UNCHANGED <<types, lastGenerated, low, consumer, pel, inited, lastId, batch, fetched,
                       running, starts, count, ever, unseen, current>>,
           NextStream(st), phase' = Listening(todo \ {st}),
           group' \in [Stream -> Id \cup {Absent}],
           base' \in [Stream -> Id \cup {Absent}],
           exists \subseteq exists', exists' \subseteq Stream, st \in exists',
           \A s \in Stream : s # st => group'[s] = group[s] /\ base'[s] = base[s],
           group'[st] # Absent,
           group'[st] <= lastGenerated[st] \/ group'[st] <= start[st],
           JobMode[st] # "replayall" =>
              \/ group'[st] = group[st] /\ base'[st] = base[st]
              \/ group[st] = Absent /\ group'[st] # Absent /\ base'[st] = group'[st],
           Known(st) =>
              /\ group'[st] >= lastId[st]
              /\ start[st] # Latest =>
                   \A e \in Live(st) : start[st] < e /\ e <= group'[st] => count[st][e] > 0
    PROVE  Inv'
  <1> USE StreamAssumption DEF Inv, TypeOK, Id, Entry, Latest, Absent, types, redis, boot
  <1>1. TypeOK'
    BY DEF NextStream, Listening
  <1>c. fetched = {} /\ batch = {} /\ st \in Stream
    BY DEF Loops, Reading
  <1>a. /\ fetched = {} /\ batch = {} /\ st \in Stream
        /\ phase' \in {"listen", "init"} /\ (phase' = "listen" => todo = {st})
        /\ todo' = todo \ {st}
    <2> HIDE DEF TypeOK, Inv
    <2> QED BY <1>c DEF Listening, NextStream
  <1>b. \A s \in Stream : Live(s)' = Live(s)
    BY DEF Live
  <1>2. Loops'
    BY <1>a DEF Loops, Replaying, Reading
  <1>3. Bounds'
    <2>1. \A s \in Stream : group'[s] # Absent /\ s # st => s \in exists'
      BY DEF Bounds
    <2> QED BY <2>1, <1>a DEF Bounds
  <1>4. Counts'
    <2>1. \A s \in Stream, e \in Entry : count[s][e] <= 1
      BY DEF Counts, Booting
    <2>2. \A s \in todo \ {st}, e \in Entry : count[s][e] = 0
      BY DEF Counts, Booting, Replaying
    <2> HIDE DEF TypeOK
    <2> QED BY <1>a, <2>1, <2>2 DEF Counts, Booting, Replaying, Reading
  <1>5. Seen'
    BY <1>a DEF Seen, Inspected, Booting, Reading
  <1>6. Replayed'
    BY <1>a DEF Replayed
  <1>7. Seamless'
    <2> SUFFICES ASSUME NEW s \in Stream, Known(s), Visited(s)'
                 PROVE  /\ group'[s] >= lastId[s]
                        /\ start[s] # Latest =>
                             \A e \in Live(s) : start[s] < e /\ e <= group'[s] => count[s][e] > 0
      BY <1>a, <1>b DEF Seamless, Known
    <2>1. CASE s = st
      BY <2>1
    <2>2. CASE s # st
      <3>1. Visited(s)
        BY <2>2, <1>a DEF Visited, Reading, Booting
      <3> QED BY <2>2, <3>1, <1>a DEF Seamless
    <2> QED BY <2>1, <2>2
  <1>8. OldOnce'
    BY <1>a DEF OldOnce
  <1>9. Based'
    <2>1. ASSUME NEW s \in Stream, JobMode[s] # "replayall"
          PROVE  /\ group'[s] = Absent <=> base'[s] = Absent
                 /\ base'[s] <= group'[s]
                 /\ group'[s] <= lastGenerated[s] \/ group'[s] = base'[s]
      <3>1. CASE group'[s] = group[s] /\ base'[s] = base[s]
        BY <3>1, <2>1 DEF Based
      <3>2. CASE group'[s] # Absent /\ base'[s] = group'[s]
        BY <3>2
      <3> QED BY <2>1, <3>1, <3>2
    <2> QED BY <2>1 DEF Based
  <1>10. Kept'
    <2> SUFFICES ASSUME NEW s \in Stream, JobMode[s] # "replayall", group'[s] # Absent,
                        NEW e \in Entry, base'[s] < e, e <= group'[s], e \in Live(s)
                 PROVE  e \in ever[s] \cup pel[s]
      BY <1>b DEF Kept
    <2>1. base'[s] # group'[s]
      OBVIOUS
    <2>2. group'[s] = group[s] /\ base'[s] = base[s]
      BY <2>1
    <2> QED BY <2>2 DEF Kept
  <1>11. Grouped'
    BY <1>a DEF Grouped, Visited, Reading, Booting
  <1> QED BY <1>1, <1>2, <1>3, <1>4, <1>5, <1>6, <1>7, <1>8, <1>9, <1>10, <1>11 DEF Inv

\* XGROUP CREATE leaves a group where it is, or puts a new one at the position asked for.
LEMMA Created ==
    ASSUME Inv, NEW st \in Stream, NEW at \in Id \cup {Latest}, XGroupCreate(st, at)
    PROVE  /\ group' \in [Stream -> Id \cup {Absent}]
           /\ base' \in [Stream -> Id \cup {Absent}]
           /\ exists' = exists \cup {st} /\ group'[st] # Absent
           /\ \A s \in Stream : s # st => group'[s] = group[s] /\ base'[s] = base[s]
           /\ group[st] # Absent => group'[st] = group[st]
           /\ group[st] = Absent => group'[st] = IF at = Latest THEN lastGenerated[st] ELSE at
           /\ JobMode[st] # "replayall" =>
                 \/ group'[st] = group[st] /\ base'[st] = base[st]
                 \/ group[st] = Absent /\ group'[st] # Absent /\ base'[st] = group'[st]
  <1> USE StreamAssumption DEF Inv, TypeOK, Id, Latest, Absent
  <1>1. group' \in [Stream -> Id \cup {Absent}]
    BY DEF XGroupCreate
  <1>2. \A s \in Stream : s # st => group'[s] = group[s]
    BY DEF XGroupCreate
  <1>3. /\ group[st] # Absent => group'[st] = group[st]
        /\ group[st] = Absent => group'[st] = IF at = Latest THEN lastGenerated[st] ELSE at
    BY DEF XGroupCreate
  <1>4. /\ base' \in [Stream -> Id \cup {Absent}]
        /\ \A s \in Stream : s # st => base'[s] = base[s]
        /\ base'[st] = IF base[st] = Absent THEN group'[st] ELSE base[st]
    BY <1>1 DEF XGroupCreate
  <1>5. JobMode[st] # "replayall" => (group[st] = Absent <=> base[st] = Absent)
    BY DEF Based
  <1>6. group'[st] # Absent
    BY <1>3
  <1> QED BY <1>1, <1>2, <1>3, <1>4, <1>5, <1>6 DEF XGroupCreate

\* The least element of a set of numbers: XREADGROUP with COUNT 1, and the order of a replay.
LEMMA MinIsLeast ==
    ASSUME NEW S \in SUBSET Nat, S # {}
    PROVE  Min(S) \in S /\ \A y \in S : Min(S) <= y
  <1>1. PICK x \in S : \A y \in S : ~ (<<y, x>> \in OpToRel(<, Nat))
    BY NatLessThanWellFounded, WFMin, Zenon
  <1>2. \A y \in S : ~ (y < x)
    BY <1>1, Zenon DEF OpToRel
  <1>3. \A y \in S : x <= y
    BY <1>2
  <1> QED BY <1>3 DEF Min

\* An entry is handed over: its count goes up, the others stay.
LEMMA CountUp ==
    ASSUME NEW c \in [Stream -> [Entry -> 0 .. 2]], NEW s \in Stream, NEW e \in Entry,
           c[s][e] <= 1, NEW d, d = [c EXCEPT ![s][e] = @ + 1]
    PROVE  /\ d \in [Stream -> [Entry -> 0 .. 2]]
           /\ d[s][e] = c[s][e] + 1
           /\ \A t \in Stream, x \in Entry : ~(t = s /\ x = e) => d[t][x] = c[t][x]
  <1> DEFINE f == [c[s] EXCEPT ![e] = @ + 1]
  <1>1. c[s] \in [Entry -> 0 .. 2] /\ c[s][e] + 1 \in 0 .. 2
    OBVIOUS
  <1>2. /\ f \in [Entry -> 0 .. 2]
        /\ f[e] = c[s][e] + 1
        /\ \A x \in Entry : x # e => f[x] = c[s][x]
    BY <1>1
  <1>3. d = [c EXCEPT ![s] = f]
    OBVIOUS
  <1> HIDE DEF f
  <1> QED BY <1>2, <1>3

\* The pool takes a listener when it has room, and lets go of it.
LEMMA PoolTakes ==
    ASSUME NEW S, IsFiniteSet(S), Cardinality(S) < Concurrency, NEW t
    PROVE  IsFiniteSet(S \cup {t}) /\ Cardinality(S \cup {t}) <= Concurrency
  <1>1. Cardinality(S) \in Nat /\ Concurrency \in Nat
    BY FS_CardinalityType, StreamAssumption
  <1>2. IsFiniteSet(S \cup {t})
        /\ Cardinality(S \cup {t}) = IF t \in S THEN Cardinality(S) ELSE Cardinality(S) + 1
    BY FS_AddElement
  <1> QED BY <1>1, <1>2

\* A listener that returns makes room.
LEMMA PoolGives ==
    ASSUME NEW S, IsFiniteSet(S), Cardinality(S) <= Concurrency, NEW t
    PROVE  IsFiniteSet(S \ {t}) /\ Cardinality(S \ {t}) <= Concurrency
  <1>1. Cardinality(S) \in Nat /\ Concurrency \in Nat
    BY FS_CardinalityType, StreamAssumption
  <1> QED BY <1>1, FS_RemoveElement

\* A new entry lies above every position, except a start that is still ahead of the stream.
LEMMA CallStreamStep ==
    ASSUME Inv, UNCHANGED types, NEW st \in Stream, call_stream(st)
    PROVE  Inv'
  <1> USE StreamAssumption
      DEF Inv, TypeOK, Id, Entry, Latest, Absent, types, redis, boot, Live, After
  <1> DEFINE new == lastGenerated[st] + 1
  <1>a. \A s \in Stream, e \in Entry : e \in Live(s)' => e \in Live(s) \/ (s = st /\ e = new)
    BY DEF call_stream
  <1>b. \A s \in Stream : Live(s)' \subseteq Entry
    BY DEF call_stream
  <1>1. TypeOK'
    <2>1. lastGenerated' \in [Stream -> Id]
      BY DEF call_stream
    <2> QED BY <2>1 DEF call_stream
  <1>2. Loops'
    BY DEF call_stream, Loops, Replaying, Reading
  <1>3. Bounds'
    <2>1. \A s \in Stream : /\ lastGenerated'[s] \in Nat /\ lastGenerated[s] \in Nat
                            /\ lastGenerated'[s] >= lastGenerated[s]
                            /\ s # st => lastGenerated'[s] = lastGenerated[s]
      BY DEF call_stream
    <2>2. UNCHANGED <<phase, group, start, inited, lastId, cur, current, batch>>
          /\ exists' = exists \cup {st}
      BY DEF call_stream
    <2>3. /\ current \in Int /\ batch \subseteq Int
          /\ \A s \in Stream : group[s] \in Int /\ lastId[s] \in Int /\ start[s] \in Int
      <3>1. TypeOK
        OBVIOUS
      <3> HIDE DEF Inv, TypeOK, Live, After, Id, Entry, Latest, Absent
      <3> QED BY <3>1, Typed
    <2>4. Bounds
      OBVIOUS
    <2> HIDE DEF TypeOK, Inv, Live, After, Id, Entry
    <2> SUFFICES ASSUME NEW s \in Stream
                 PROVE  /\ lastGenerated'[s] > 0 \/ group[s] # Absent \/ s \in inited
                              => s \in exists'
                        /\ lastId[s] <= lastGenerated'[s]
                        /\ group[s] <= lastGenerated'[s] \/ group[s] <= start[s]
                        /\ phase = "replay" /\ s = cur =>
                              /\ current <= lastGenerated'[s] \/ current = start[s]
                              /\ \A b \in batch : b <= lastGenerated'[s]
      BY <2>2 DEF Bounds
    <2>5. lastGenerated'[s] > 0 \/ group[s] # Absent \/ s \in inited => s \in exists'
      BY <2>1, <2>2, <2>4 DEF Bounds
    <2>6. /\ lastId[s] <= lastGenerated'[s]
          /\ group[s] <= lastGenerated'[s] \/ group[s] <= start[s]
      BY <2>1, <2>3, <2>4 DEF Bounds
    <2>7. phase = "replay" /\ s = cur =>
             /\ current <= lastGenerated'[s] \/ current = start[s]
             /\ \A b \in batch : b <= lastGenerated'[s]
      BY <2>1, <2>3, <2>4 DEF Bounds
    <2> QED BY <2>5, <2>6, <2>7
  <1>4. Counts'
    BY DEF call_stream, Counts, Booting, Replaying, Reading
  <1>5. Seen'
    BY DEF call_stream, Seen, Inspected, Booting, Reading
  <1>6. Replayed'
    <2>1. UNCHANGED <<phase, boot, count, start>>
      BY DEF call_stream
    <2>2. phase \in {"replay", "create", "recreate"} => cur \in Stream
      BY DEF Loops, Replaying
    <2>3. TypeOK /\ Bounds /\ Replayed
      OBVIOUS
    <2> HIDE DEF Live, TypeOK, Entry, Inv
    <2>4. ASSUME NEW s \in Stream, s = cur, NEW x \in Live(s)', x # lastGenerated[s] + 1
          PROVE  x \in Live(s)
      BY <1>a, <1>b, <2>4
    <2>5. ASSUME NEW s \in Stream, s = cur, phase = "replay",
                 NEW x \in Live(s)', start[s] < x, x <= current
          PROVE  count[s][x] > 0
      <3>1. x \in Nat
        BY <1>b, StreamAssumption DEF Entry
      <3>2. x # lastGenerated[s] + 1
        BY <2>3, <2>5, <3>1, Typed DEF Bounds
      <3> QED BY <2>3, <2>4, <2>5, <3>2 DEF Replayed
    <2>6. ASSUME NEW s \in Stream, s = cur, phase = "replay",
                 NEW x \in Live(s)', NEW b \in batch, current < x, x < b
          PROVE  x \in batch
      <3>1. b <= lastGenerated[s] /\ b \in Nat
        BY <2>3, <2>6, Typed DEF Bounds
      <3>2. x # lastGenerated[s] + 1
        BY <2>3, <2>6, <3>1, Typed
      <3> QED BY <2>3, <2>4, <2>6, <3>2 DEF Replayed
    <2>7. ASSUME NEW s \in Stream, s = cur, phase \in {"create", "recreate"},
                 start[s] # Latest, NEW x \in Live(s)', start[s] < x, x <= lastId[s]
          PROVE  count[s][x] > 0
      <3>1. x # lastGenerated[s] + 1
        BY <2>3, <2>7, Typed DEF Bounds
      <3> QED BY <2>3, <2>4, <2>7, <3>1 DEF Replayed
    <2> QED BY <2>1, <2>2, <2>5, <2>6, <2>7 DEF Replayed
  <1>7. Seamless'
    <2> HIDE DEF Live
    <2> SUFFICES ASSUME NEW s \in Stream, Known(s), Visited(s), start[s] # Latest,
                        NEW x \in Live(s)', start[s] < x, x <= group[s]
                 PROVE  count[s][x] > 0 \/ <<s, x>> \in fetched
      BY DEF Seamless, Known, Visited, Reading, Booting, call_stream
    <2>1. x \in Entry /\ (x \in Live(s) \/ (s = st /\ x = new))
      BY <1>a, <1>b
    <2>2. x # lastGenerated[s] + 1
      <3> HIDE DEF TypeOK
      <3> QED BY Typed DEF Bounds
    <2> QED BY <2>1, <2>2 DEF Seamless
  <1>8. OldOnce'
    BY DEF call_stream, OldOnce
  <1>9. Based'
    BY DEF call_stream, Based
  <1>10. Kept'
    <2> HIDE DEF Live
    <2> SUFFICES ASSUME NEW s \in Stream, JobMode[s] # "replayall", group[s] # Absent,
                        NEW x \in Entry, base[s] < x, x <= group[s], x \in Live(s)'
                 PROVE  x \in ever[s] \cup pel[s]
      BY DEF Kept, call_stream
    <2>a. base[s] \in Int /\ group[s] \in Int /\ lastGenerated[s] \in Nat /\ x \in Nat
      BY Typed
    <2>b. group[s] <= lastGenerated[s]
      <3>1. group[s] <= lastGenerated[s] \/ group[s] = base[s]
        BY DEF Based
      <3> QED BY <2>a, <3>1
    <2>c. x <= lastGenerated[s]
      BY <2>a, <2>b
    <2>1. x \in Live(s)
      BY <1>a, <2>a, <2>c
    <2> QED BY <2>1 DEF Kept
  <1>11. Grouped'
    BY DEF call_stream, Grouped, Visited, Reading, Booting
  <1> QED BY <1>1, <1>2, <1>3, <1>4, <1>5, <1>6, <1>7, <1>8, <1>9, <1>10, <1>11 DEF Inv

\* Trimming only takes entries away.
LEMMA TrimStep ==
    ASSUME Inv, UNCHANGED types, NEW st \in Stream, TrimElsewhere(st)
    PROVE  Inv'
  <1> USE StreamAssumption
      DEF Inv, TypeOK, Id, Entry, Latest, Absent, types, redis, boot, Live, After
  <1>a. \A s \in Stream : Live(s)' \subseteq Live(s)
    BY DEF TrimElsewhere
  <1>1. TypeOK'
    <2>1. low' \in [Stream -> Id]
      BY DEF TrimElsewhere
    <2> QED BY <2>1 DEF TrimElsewhere
  <1>2. Loops'
    BY DEF TrimElsewhere, Loops, Replaying, Reading
  <1>3. Bounds'
    BY DEF TrimElsewhere, Bounds
  <1>4. Counts'
    BY DEF TrimElsewhere, Counts, Booting, Replaying, Reading
  <1>5. Seen'
    BY DEF TrimElsewhere, Seen, Inspected, Booting, Reading
  <1>6. Replayed'
    <2>1. UNCHANGED <<phase, boot, count, start>>
      BY DEF TrimElsewhere
    <2>2. phase \in {"replay", "create", "recreate"} => cur \in Stream
      BY DEF Loops, Replaying
    <2> HIDE DEF Live, TypeOK
    <2> QED BY <1>a, <2>1, <2>2 DEF Replayed
  <1>7. Seamless'
    <2>1. UNCHANGED <<phase, boot, count, start, JobMode, unseen, group, fetched>>
      BY DEF TrimElsewhere
    <2> HIDE DEF Live, TypeOK
    <2> QED BY <1>a, <2>1 DEF Seamless, Known, Visited, Reading, Booting
  <1>8. OldOnce'
    BY DEF TrimElsewhere, OldOnce
  <1>9. Based'
    BY DEF TrimElsewhere, Based
  <1>10. Kept'
    BY DEF TrimElsewhere, Kept
  <1>11. Grouped'
    BY DEF TrimElsewhere, Grouped, Visited, Reading, Booting
  <1> QED BY <1>1, <1>2, <1>3, <1>4, <1>5, <1>6, <1>7, <1>8, <1>9, <1>10, <1>11 DEF Inv

\* A start forgets what the last one counted.
LEMMA StartStep ==
    ASSUME Inv, UNCHANGED types, Start
    PROVE  Inv'
  <1> USE StreamAssumption
      DEF Inv, TypeOK, Id, Entry, Latest, Absent, types, redis, boot, Live, After
  <1>1. TypeOK'
    <2>1. count' \in [Stream -> [Entry -> 0 .. 2]]
      BY DEF Start
    <2>2. starts' \in 0 .. MaxStart
      BY DEF Start
    <2> QED BY <2>1, <2>2 DEF Start
  <1>2. Loops'
    BY DEF Start, Loops, Replaying, Reading
  <1>3. Bounds'
    BY DEF Start, Bounds
  <1>4. Counts'
    BY DEF Start, Counts, Booting, Replaying, Reading
  <1>5. Seen'
    BY DEF Start, Seen, Inspected, Booting, Reading
  <1>6. Replayed'
    BY DEF Start, Replayed
  <1>7. Seamless'
    BY DEF Start, Seamless, Known, Visited, Reading, Booting
  <1>8. OldOnce'
    BY DEF Start, OldOnce
  <1>9. Based'
    BY DEF Start, Based
  <1>10. Kept'
    BY DEF Start, Kept
  <1>11. Grouped'
    BY DEF Start, Grouped, Visited, Reading, Booting
  <1> QED BY <1>1, <1>2, <1>3, <1>4, <1>5, <1>6, <1>7, <1>8, <1>9, <1>10, <1>11 DEF Inv

\* The first loop: a stream that is not there has no entry and no group.
LEMMA InspectStep ==
    ASSUME Inv, UNCHANGED types, NEW st \in Stream, InspectStream(st)
    PROVE  Inv'
  <1> USE StreamAssumption
      DEF Inv, TypeOK, Id, Entry, Latest, Absent, types, redis, boot, Live, After
  <1>a. /\ UNCHANGED <<lastGenerated, group, exists, cur, current, batch, fetched, running, count,
                       base, ever, pel, start, JobMode>>
        /\ phase = "inspect" /\ phase' \in {"inspect", "init"}
        /\ unseen \subseteq unseen' /\ st \in todo
        /\ phase' = "inspect" => todo' = todo \ {st}
        /\ phase' = "init" => todo = {st} /\ todo' = Stream
    BY DEF InspectStream
  <1>b. \A s \in Stream : Live(s)' \subseteq Live(s)
    BY DEF InspectStream
  <1>1. TypeOK'
    <2>1. low' \in [Stream -> Id]
      BY DEF InspectStream
    <2>2. lastId' \in [Stream -> Id] /\ inited' \subseteq Stream /\ unseen' \subseteq Stream
      BY DEF InspectStream
    <2>3. todo' \subseteq Stream
      BY <1>a
    <2>4. UNCHANGED <<consumer, starts>>
      BY DEF InspectStream
    <2> QED BY <2>1, <2>2, <2>3, <2>4, <1>a
  <1>2. Loops'
    BY DEF InspectStream, Loops, Replaying, Reading
  <1>3. Bounds'
    BY DEF InspectStream, Bounds
  <1>4. Counts'
    <2> HIDE DEF TypeOK
    <2> QED BY <1>a DEF Counts, Booting, Replaying, Reading
  <1>5. Seen'
    <2>1. PICK seen \in BOOLEAN : 
            /\ unseen' = IF seen THEN unseen ELSE unseen \cup {st}
            /\ inited' = IF seen /\ st \in exists THEN inited \cup {st} ELSE inited
            /\ lastId' = [lastId EXCEPT ![st] = IF seen THEN lastGenerated[st] ELSE 0]
      BY DEF InspectStream
    <2>2. st \notin unseen' \cup inited' => lastId'[st] = 0 /\ group[st] = Absent
      BY <2>1 DEF Bounds
    <2>3. ASSUME NEW s \in Stream, s # st, s \notin unseen' \cup inited', s \notin todo
          PROVE  lastId'[s] = 0 /\ group[s] = Absent
      <3>1. s \notin unseen \cup inited /\ lastId'[s] = lastId[s]
        BY <2>1, <2>3
      <3> QED BY <3>1, <1>a, <2>3 DEF Seen, Inspected
    <2>4. ASSUME NEW s \in Stream, s \notin unseen' \cup inited', Inspected(s)'
          PROVE  lastId'[s] = 0 /\ group[s] = Absent
      <3>1. s = st \/ s \notin todo
        BY <1>a, <2>4 DEF Inspected, Booting
      <3> QED BY <3>1, <2>2, <2>3, <2>4
    <2> HIDE DEF TypeOK
    <2> QED BY <1>a, <2>4 DEF Seen, Reading
  <1>6. Replayed'
    BY DEF InspectStream, Replayed
  <1>7. Seamless'
    BY DEF InspectStream, Seamless, Known, Visited, Reading, Booting
  <1>8. OldOnce'
    <2>1. \A s \in Stream, x \in Entry : count[s][x] <= 1
      <3>1. \A s \in Stream, x \in Entry : count[s][x] = 0
        BY <1>a DEF Counts
      <3> QED BY <3>1
    <2> HIDE DEF TypeOK
    <2> QED BY <1>a, <2>1 DEF OldOnce
  <1>9. Based'
    BY DEF InspectStream, Based
  <1>10. Kept'
    BY DEF InspectStream, Kept
  <1>11. Grouped'
    BY DEF InspectStream, Grouped, Visited, Reading, Booting
  <1> QED BY <1>1, <1>2, <1>3, <1>4, <1>5, <1>6, <1>7, <1>8, <1>9, <1>10, <1>11 DEF Inv

\* The second loop turns to a stream: a replay begins, or its group is left or created.
LEMMA InitStreamStep ==
    ASSUME Inv, UNCHANGED types, NEW st \in Stream, InitStream(st)
    PROVE  Inv'
  <1> USE StreamAssumption
      DEF Inv, TypeOK, Id, Entry, Latest, Absent, types, redis, boot, Live, After
  <1>a. /\ UNCHANGED <<lastGenerated, low, consumer, pel, inited, lastId, batch, fetched, running,
                      starts, count, ever, unseen, start, JobMode>>
        /\ phase = "init" /\ st \in todo
    BY DEF InitStream
  <1>b. CASE /\ st \in inited /\ JobMode[st] \in {"replay", "replayall"}
             /\ cur' = st
             /\ phase' = IF start[st] = Latest THEN "create" ELSE "replay"
             /\ current' = IF start[st] = Latest THEN current ELSE start[st]
             /\ UNCHANGED <<group, exists, base, todo>>
    <2>1. TypeOK'
      BY <1>a, <1>b
    <2>2. Loops'
      BY <1>a, <1>b DEF Loops, Replaying, Reading
    <2>3. Bounds'
      BY <1>a, <1>b DEF Bounds, Loops, Replaying
    <2>4. Counts'
      BY <1>a, <1>b DEF Counts, Loops, Booting, Replaying, Reading
    <2>5. Seen'
      BY <1>a, <1>b DEF Seen, Inspected, Booting, Reading, Bounds, Loops, Replaying
    <2>6. Replayed'
      BY <1>a, <1>b DEF Replayed, Loops
    <2>7. Seamless'
      BY <1>a, <1>b DEF Seamless, Known, Visited, Reading, Booting
    <2>8. OldOnce'
      BY <1>a, <1>b DEF OldOnce
    <2>9. Based'
      BY <1>a, <1>b DEF Based
    <2>10. Kept'
      BY <1>a, <1>b DEF Kept
    <2>11. Grouped'
      BY <1>a, <1>b DEF Grouped, Visited, Reading, Booting
    <2> QED BY <2>1, <2>2, <2>3, <2>4, <2>5, <2>6, <2>7, <2>8, <2>9, <2>10, <2>11
  <1>c. CASE /\ JobMode[st] # "replayall"
             /\ NextStream(st) /\ phase' = Listening(todo \ {st})
             /\ st \in inited /\ UNCHANGED <<group, exists, base, current>>
             /\ st \in consumer
    <2>1. st \in exists /\ group[st] # Absent
      BY <1>a, <1>c DEF Bounds, Grouped
    <2> QED BY <1>a, <1>c, <2>1, Visit DEF Bounds, Known
  <1>d. CASE /\ st \in inited => JobMode[st] # "replayall"
             /\ NextStream(st) /\ phase' = Listening(todo \ {st})
             /\ XGroupCreate(st, start[st]) /\ UNCHANGED current
    <2>1. start[st] \in Id \cup {Latest} /\ st \in Stream
      BY <1>a
    <2>2. Known(st) => group[st] = Absent /\ lastId[st] = 0
      BY <1>a, <1>d DEF Known, Seen, Inspected, Booting
    <2>3. /\ group' \in [Stream -> Id \cup {Absent}]
          /\ base' \in [Stream -> Id \cup {Absent}]
          /\ exists' = exists \cup {st} /\ group'[st] # Absent
          /\ \A s \in Stream : s # st => group'[s] = group[s] /\ base'[s] = base[s]
          /\ group[st] # Absent => group'[st] = group[st]
          /\ group[st] = Absent =>
                group'[st] = IF start[st] = Latest THEN lastGenerated[st] ELSE start[st]
          /\ JobMode[st] # "replayall" =>
                \/ group'[st] = group[st] /\ base'[st] = base[st]
                \/ group[st] = Absent /\ group'[st] # Absent /\ base'[st] = group'[st]
      <3> HIDE DEF TypeOK, Inv, Absent, Latest, Id
      <3> QED BY <1>d, <2>1, Created
    <2>4. group'[st] <= lastGenerated[st] \/ group'[st] <= start[st]
      BY <2>1, <2>3 DEF Bounds
    <2>5. Known(st) =>
              /\ group'[st] >= lastId[st]
              /\ start[st] # Latest =>
                   \A e \in Live(st) : start[st] < e /\ e <= group'[st] => count[st][e] > 0
      BY <2>1, <2>2, <2>3
    <2>6. exists \subseteq exists' /\ exists' \subseteq Stream /\ st \in exists'
      BY <2>1, <2>3
    <2> HIDE DEF TypeOK, Inv, Absent, Latest, Id, Live
    <2> QED BY <1>a, <1>d, <2>1, <2>3, <2>4, <2>5, <2>6, Visit
  <1> HIDE DEF TypeOK, Inv
  <1> QED BY <1>b, <1>c, <1>d, <1>a DEF InitStream

\* A batch of a replay is the next part of the stream, without a gap.
LEMMA ReplayReadStep ==
    ASSUME Inv, UNCHANGED types, ReplayRead
    PROVE  Inv'
  <1> USE StreamAssumption
      DEF Inv, TypeOK, Id, Entry, Latest, Absent, types, redis, boot, Live, After
  <1> DEFINE new == After(cur, current)
  <1>a. /\ phase = "replay" /\ batch = {} /\ cur \in Stream
        /\ UNCHANGED <<redis, todo, cur, inited, lastId, current, fetched, running, starts, count,
                       ever, base, unseen>>
        /\ batch' = {e \in new : Cardinality({f \in new : f < e}) < BatchSize}
        /\ phase' = IF new = {} THEN "create" ELSE "replay"
    BY DEF ReplayRead, Loops, Replaying
  <1>b. new \subseteq Entry /\ batch' \subseteq new
    BY <1>a
  <1>1. TypeOK'
    BY <1>a, <1>b
  <1>2. Loops'
    BY <1>a, <1>b DEF Loops, Replaying, Reading
  <1>3. Bounds'
    BY <1>a, <1>b DEF Bounds
  <1>4. Counts'
    BY <1>a, <1>b DEF Counts, Loops, Booting, Replaying, Reading
  <1>5. Seen'
    BY <1>a, <1>b DEF Seen, Inspected, Booting, Reading, Loops
  <1>6. Replayed'
    <2>1. \A e \in Live(cur) : start[cur] < e /\ e <= current => count[cur][e] > 0
      BY <1>a DEF Replayed
    <2>2. ASSUME NEW b \in batch', NEW e \in Live(cur), current < e, e < b
          PROVE  e \in batch'
      <3> DEFINE B == {f \in new : f < b}  E == {f \in new : f < e}
      <3>1. E \subseteq B /\ e \in new /\ E \subseteq 1 .. MaxEntry /\ B \subseteq 1 .. MaxEntry
        BY <1>b, <2>2
      <3>2. IsFiniteSet(E) /\ IsFiniteSet(B)
        <4>1. 1 \in Int /\ MaxEntry \in Int
          OBVIOUS
        <4>2. IsFiniteSet(1 .. MaxEntry)
          <5> HIDE DEF TypeOK, Inv
          <5> QED BY <4>1, FS_Interval
        <4> HIDE DEF E, B
        <4> QED BY <3>1, <4>2, FS_Subset
      <3>3. Cardinality(E) <= Cardinality(B) /\ Cardinality(E) \in Nat /\ Cardinality(B) \in Nat
        BY <3>1, <3>2, FS_Subset, FS_CardinalityType
      <3>4. Cardinality(B) < BatchSize
        BY <1>a
      <3> HIDE DEF B, TypeOK, Inv
      <3>5. Cardinality(E) < BatchSize
        BY <3>3, <3>4
      <3> QED BY <1>a, <3>1, <3>5
    <2>3. ASSUME new = {}
          PROVE  \A e \in Live(cur) : start[cur] < e => count[cur][e] > 0
      BY <2>1, <2>3
    <2>4. UNCHANGED <<Live(cur), start[cur], cur, current, count, lastId>>
      BY <1>a
    <2> HIDE DEF Live, TypeOK, Inv, new
    <2> QED BY <1>a, <2>1, <2>2, <2>3, <2>4 DEF Replayed
  <1>7. Seamless'
    BY <1>a, <1>b DEF Seamless, Known, Visited, Reading, Booting, Loops, Replaying
  <1>8. OldOnce'
    BY <1>a, <1>b DEF OldOnce
  <1>9. Based'
    BY <1>a, <1>b DEF Based
  <1>10. Kept'
    BY <1>a, <1>b DEF Kept
  <1>11. Grouped'
    BY <1>a DEF Grouped, Visited, Reading, Booting
  <1> QED BY <1>1, <1>2, <1>3, <1>4, <1>5, <1>6, <1>7, <1>8, <1>9, <1>10, <1>11 DEF Inv

\* The replay hands over the least entry of its batch, which was not handed over before.
LEMMA ReplayHandStep ==
    ASSUME Inv, UNCHANGED types, ReplayHand
    PROVE  Inv'
  <1> USE StreamAssumption
      DEF Inv, TypeOK, Id, Entry, Latest, Absent, types, redis, boot, Live, After
  <1> DEFINE e == Min(batch)
  <1>a. cur \in Stream /\ cur \in todo /\ phase = "replay" /\ start[cur] # Latest /\ fetched = {}
    BY DEF ReplayHand, Loops, Replaying, Reading
  <1>b. e \in batch /\ e \in Entry /\ \A b \in batch : e <= b
    <2>1. batch \in SUBSET Nat /\ batch # {}
      BY DEF ReplayHand
    <2> QED BY <2>1, MinIsLeast
  <1>c. e > current /\ count[cur][e] = 0
    BY <1>a, <1>b DEF Loops, Counts
  <1>d. /\ running' = running \cup {<<cur, e, "replay">>}
        /\ count' = [count EXCEPT ![cur][e] = @ + 1]
        /\ current' = e
        /\ batch' = IF Reached(e) THEN {} ELSE batch \ {e}
        /\ phase' = IF Reached(e) THEN "create" ELSE "replay"
        /\ UNCHANGED <<redis, todo, cur, inited, lastId, fetched, starts, ever, base, unseen>>
    BY DEF ReplayHand
  <1>e. /\ count' \in [Stream -> [Entry -> 0 .. 2]]
        /\ count'[cur][e] = 1
        /\ \A s \in Stream, x \in Entry : ~(s = cur /\ x = e) => count'[s][x] = count[s][x]
    <2>1. count \in [Stream -> [Entry -> 0 .. 2]] /\ count[cur][e] <= 1
      BY <1>c
    <2> HIDE DEF e, TypeOK, Inv, Entry, Id, Live, After
    <2> QED BY <1>a, <1>b, <1>c, <1>d, <2>1, CountUp
  <1>f. IsFiniteSet(running') /\ Cardinality(running') <= Concurrency
    <2>1. IsFiniteSet(running) /\ Cardinality(running) < Concurrency
      BY DEF ReplayHand, Loops
    <2> HIDE DEF TypeOK, Inv
    <2> QED BY <1>d, <2>1, PoolTakes
  <1>g. \A s \in Stream, x \in Entry : count'[s][x] <= 1
    <2>1. \A s \in Stream, x \in Entry : count[s][x] <= 1
      BY <1>a DEF Counts, Booting
    <2> HIDE DEF TypeOK, Inv
    <2> QED BY <1>e, <2>1
  <1> HIDE DEF e
  <1>1. TypeOK'
    <2>1. current' \in Id /\ batch' \subseteq Entry
      <3>1. e \in Id /\ batch \subseteq Entry
        BY <1>b
      <3> HIDE DEF TypeOK, Inv, Id, Entry
      <3> QED BY <1>d, <3>1
    <2>2. running' \subseteq Stream \X Entry \X {"replay", "group"}
      BY <1>a, <1>b, <1>d
    <2> QED BY <1>d, <1>e, <1>f, <2>1, <2>2
  <1>2. Loops'
    <2>1. \A b \in batch' : b > current'
      <3>1. batch \subseteq Nat /\ e \in Nat
        BY <1>b
      <3> HIDE DEF TypeOK, Inv
      <3> QED BY <1>b, <1>d, <3>1
    <2> HIDE DEF TypeOK
    <2> QED BY <1>a, <1>d, <1>f, <2>1 DEF Loops, Replaying, Reading
  <1>3. Bounds'
    BY <1>a, <1>b, <1>d DEF Bounds
  <1>4. Counts'
    <2>2. \A s \in Stream, x \in Entry : s \in todo /\ s # cur => count'[s][x] = 0
      BY <1>a, <1>e DEF Counts, Booting
    <2>3. \A x \in Entry : x > current' => count'[cur][x] = 0
      <3>1. e > current /\ current \in Nat /\ e \in Nat
        BY <1>b, <1>c
      <3>2. \A x \in Entry : x > current => count[cur][x] = 0
        BY <1>a DEF Counts
      <3>3. \A x \in Entry : x \in Nat
        OBVIOUS
      <3> HIDE DEF TypeOK, Inv, Entry
      <3> QED BY <1>a, <1>d, <1>e, <3>1, <3>2, <3>3
    <2>4. UNCHANGED <<cur, todo, group, fetched>> /\ phase' \in {"create", "replay"}
      BY <1>d
    <2> HIDE DEF TypeOK
    <2> QED BY <1>a, <1>g, <2>2, <2>3, <2>4 DEF Counts, Booting, Replaying, Reading
  <1>5. Seen'
    BY <1>a, <1>d DEF Seen, Inspected, Booting, Reading
  <1>6. Replayed'
    <2>1. ASSUME NEW x \in Live(cur), start[cur] < x, x <= e
          PROVE  count'[cur][x] > 0
      <3>1. x \in Entry
        BY <1>a
      <3>2. CASE x = e
        BY <1>e, <3>2
      <3>3. CASE x # e
        <4>1. x <= current
          BY <1>a, <1>b, <2>1, <3>1, <3>3 DEF Replayed
        <4> QED BY <1>a, <1>e, <2>1, <3>1, <3>3, <4>1 DEF Replayed
      <3> QED BY <3>2, <3>3
    <2>2. ASSUME NEW b \in batch', NEW x \in Live(cur), e < x, x < b
          PROVE  x \in batch'
      <3>1. b \in batch /\ current < x
        BY <1>a, <1>b, <1>c, <1>d, <2>2
      <3>2. x \in batch
        BY <1>a, <2>2, <3>1 DEF Replayed
      <3>3. x # e
        BY <1>b, <2>2
      <3> QED BY <1>d, <3>2, <3>3
    <2>3. Live(cur)' = Live(cur) /\ UNCHANGED <<cur, lastId, start>>
      BY <1>d
    <2>4. phase' = "create" => e = lastId[cur]
      BY <1>d DEF Reached
    <2>5. phase' # "recreate" /\ current' = e
      BY <1>d
    <2> HIDE DEF TypeOK, Inv, Live
    <2> QED BY <2>1, <2>2, <2>3, <2>4, <2>5 DEF Replayed
  <1>7. Seamless'
    <2>1. \A s \in Stream : Visited(s)' => Visited(s) /\ s # cur
      BY <1>a, <1>d DEF Visited, Reading, Booting
    <2>2. \A s \in Stream : Live(s)' = Live(s) /\ Known(s)' = Known(s) /\ Live(s) \subseteq Entry
      BY <1>d DEF Known
    <2>3. UNCHANGED <<group, lastId, start, fetched>>
      BY <1>d
    <2> HIDE DEF TypeOK, Inv, Live
    <2> QED BY <1>e, <2>1, <2>2, <2>3 DEF Inv, Seamless
  <1>8. OldOnce'
    <2> HIDE DEF TypeOK
    <2> QED BY <1>d, <1>g DEF OldOnce
  <1>9. Based'
    BY <1>d DEF Based
  <1>10. Kept'
    BY <1>d DEF Kept
  <1>11. Grouped'
    BY <1>a, <1>d DEF Grouped, Visited, Reading, Booting
  <1> QED BY <1>1, <1>2, <1>3, <1>4, <1>5, <1>6, <1>7, <1>8, <1>9, <1>10, <1>11 DEF Inv

\* The group that is destroyed belongs to the stream being visited.
LEMMA DestroyStep ==
    ASSUME Inv, UNCHANGED types, DestroyGroup
    PROVE  Inv'
  <1> USE StreamAssumption
      DEF Inv, TypeOK, Id, Entry, Latest, Absent, types, redis, boot, Live, After
  <1>1. TypeOK'
    <2>1. cur \in Stream
      BY DEF DestroyGroup, Loops, Replaying
    <2>2. group' \in [Stream -> Id \cup {Absent}]
      BY <2>1 DEF DestroyGroup
    <2>3. pel' \in [Stream -> SUBSET Entry]
      BY <2>1 DEF DestroyGroup
    <2>4. consumer' \subseteq Stream /\ unseen' \subseteq Stream
      BY <2>1 DEF DestroyGroup
    <2> QED BY <2>2, <2>3, <2>4 DEF DestroyGroup
  <1>2. Loops'
    BY DEF DestroyGroup, Loops, Replaying, Reading
  <1>3. Bounds'
    BY DEF DestroyGroup, Bounds
  <1>4. Counts'
    BY DEF DestroyGroup, Counts, Booting, Replaying, Reading
  <1>5. Seen'
    BY DEF DestroyGroup, Seen, Inspected, Booting, Reading, Loops, Replaying
  <1>6. Replayed'
    BY DEF DestroyGroup, Replayed
  <1>7. Seamless'
    <2>1. /\ phase = "create" /\ phase' = "recreate" /\ cur \in todo
          /\ UNCHANGED <<JobMode, start, lastGenerated, low, boot, fetched, count>>
          /\ unseen \subseteq unseen'
          /\ \A s \in Stream : s # cur => group'[s] = group[s]
      BY DEF DestroyGroup, Loops, Replaying
    <2> HIDE DEF TypeOK
    <2>2. \A s \in Stream : Live(s)' = Live(s) /\ (Known(s)' => Known(s))
      BY <2>1 DEF Known
    <2>3. \A s \in Stream : Visited(s)' => Visited(s) /\ s # cur
      BY <2>1 DEF Visited, Reading, Booting
    <2> HIDE DEF Live
    <2> QED BY <2>1, <2>2, <2>3 DEF Seamless
  <1>8. OldOnce'
    BY DEF DestroyGroup, OldOnce
  <1>9. Based'
    BY DEF DestroyGroup, Based
  <1>10. Kept'
    BY DEF DestroyGroup, Kept
  <1>11. Grouped'
    <2>1. /\ phase = "create" /\ phase' = "recreate" /\ cur \in todo /\ todo' = todo
          /\ consumer' \subseteq consumer
          /\ \A s \in Stream : s # cur \/ s \in consumer' => group'[s] = group[s]
      BY DEF DestroyGroup, Loops, Replaying
    <2> QED BY <2>1 DEF Grouped, Visited, Reading, Booting
  <1> QED BY <1>1, <1>2, <1>3, <1>4, <1>5, <1>6, <1>7, <1>8, <1>9, <1>10, <1>11 DEF Inv

\* The group of a replayed stream goes on from the last entry of the replay.
LEMMA CreateStep ==
    ASSUME Inv, UNCHANGED types, CreateGroup
    PROVE  Inv'
  <1> USE StreamAssumption
      DEF Inv, TypeOK, Id, Entry, Latest, Absent, types, redis, boot, Live, After
  <1>1. PICK st \in todo : st = cur
    BY DEF CreateGroup, Loops, Replaying
  <1>2. st \in Stream /\ AfterReplay(st) \in Id \cup {Latest}
    BY DEF AfterReplay
  <1>3. phase \in {"create", "recreate"} /\ (phase = "create" => JobMode[st] # "replayall")
    BY <1>1 DEF CreateGroup
  <1>4. /\ XGroupCreate(st, AfterReplay(st))
        /\ NextStream(st) /\ phase' = Listening(todo \ {st})
        /\ UNCHANGED <<types, lastGenerated, low, consumer, pel, inited, lastId, batch, fetched,
                       running, starts, count, ever, unseen, current>>
    BY <1>1 DEF CreateGroup
  <1>5. /\ group' \in [Stream -> Id \cup {Absent}]
        /\ base' \in [Stream -> Id \cup {Absent}]
        /\ exists' = exists \cup {st} /\ group'[st] # Absent
        /\ \A s \in Stream : s # st => group'[s] = group[s] /\ base'[s] = base[s]
        /\ group[st] # Absent => group'[st] = group[st]
        /\ group[st] = Absent =>
              group'[st] = IF AfterReplay(st) = Latest THEN lastGenerated[st] ELSE AfterReplay(st)
        /\ JobMode[st] # "replayall" =>
              \/ group'[st] = group[st] /\ base'[st] = base[st]
              \/ group[st] = Absent /\ group'[st] # Absent /\ base'[st] = group'[st]
    <2> HIDE DEF TypeOK, Inv, Absent, Latest, Id
    <2> QED BY <1>2, <1>4, Created
  <1>6. group'[st] <= lastGenerated[st] \/ group'[st] <= start[st]
    BY <1>2, <1>5 DEF Bounds, AfterReplay
  <1>7. Known(st) =>
           /\ group'[st] >= lastId[st]
           /\ start[st] # Latest =>
                \A e \in Live(st) : start[st] < e /\ e <= group'[st] => count[st][e] > 0
    <2> SUFFICES ASSUME Known(st)
                 PROVE  /\ group'[st] >= lastId[st]
                        /\ start[st] # Latest =>
                             \A e \in Live(st) : start[st] < e /\ e <= group'[st]
                                                  => count[st][e] > 0
      OBVIOUS
    <2>1. phase = "recreate" /\ group[st] = Absent
      BY <1>1, <1>3 DEF Known, Seen
    <2>2. group'[st] = lastId[st] /\ lastId[st] \in Nat
      BY <2>1, <1>2, <1>5 DEF AfterReplay, Known
    <2>3. start[st] # Latest =>
             \A e \in Live(st) : start[st] < e /\ e <= lastId[st] => count[st][e] > 0
      BY <1>1, <2>1 DEF Replayed
    <2> HIDE DEF TypeOK, Inv, Live, Latest
    <2> QED BY <2>2, <2>3
  <1>8. exists \subseteq exists' /\ exists' \subseteq Stream /\ st \in exists'
    BY <1>2, <1>5
  <1> HIDE DEF TypeOK, Inv, Absent, Latest, Id, Live
  <1> QED BY <1>1, <1>2, <1>3, <1>4, <1>5, <1>6, <1>7, <1>8, Visit

\* A start that fails listens to nothing.
LEMMA FailsStep ==
    ASSUME Inv, UNCHANGED types, StartFails
    PROVE  Inv'
  <1> USE StreamAssumption
      DEF Inv, TypeOK, Id, Entry, Latest, Absent, types, redis, boot, Live, After
  <1>1. TypeOK'
    BY DEF StartFails
  <1>2. Loops'
    BY DEF StartFails, Loops, Replaying, Reading
  <1>3. Bounds'
    BY DEF StartFails, Bounds
  <1>4. Counts'
    BY DEF StartFails, Counts, Booting, Replaying, Reading
  <1>5. Seen'
    BY DEF StartFails, Seen, Inspected, Booting, Reading
  <1>6. Replayed'
    BY DEF StartFails, Replayed
  <1>7. Seamless'
    BY DEF StartFails, Seamless, Known, Visited, Reading, Booting
  <1>8. OldOnce'
    <2>1. phase' = "deaf" /\ UNCHANGED <<count, lastId, unseen, JobMode>>
      BY DEF StartFails
    <2>2. \A s \in Stream, x \in Entry : phase = "inspect" => count[s][x] <= 1
      <3> HIDE DEF TypeOK
      <3>1. \A s \in Stream, x \in Entry : phase = "inspect" => count[s][x] = 0
        BY DEF Counts
      <3> QED BY <3>1
    <2> HIDE DEF TypeOK
    <2> QED BY <2>1, <2>2 DEF OldOnce
  <1>9. Based'
    BY DEF StartFails, Based
  <1>10. Kept'
    BY DEF StartFails, Kept
  <1>11. Grouped'
    BY DEF StartFails, Grouped, Visited, Reading, Booting
  <1> QED BY <1>1, <1>2, <1>3, <1>4, <1>5, <1>6, <1>7, <1>8, <1>9, <1>10, <1>11 DEF Inv

\* Every group moves to its next entry, which becomes pending.
LEMMA ReadGroupStep ==
    ASSUME Inv, UNCHANGED types, ReadGroup
    PROVE  Inv'
  <1> USE StreamAssumption
      DEF Inv, TypeOK, Id, Entry, Latest, Absent, types, redis, boot, Live, After
  <1> DEFINE ready == {s \in Stream : NextOf(s) # {}}
  <1>a. /\ phase = "listen" /\ fetched = {}
        /\ UNCHANGED <<lastGenerated, low, exists, phase, boot, running, starts, count, ever,
                       base, unseen, start, JobMode>>
        /\ fetched' = {<<s, Delivered(s)>> : s \in ready}
        /\ group' = [s \in Stream |-> IF s \in ready THEN Delivered(s) ELSE group[s]]
        /\ pel' = [s \in Stream |-> IF s \in ready THEN pel[s] \cup {Delivered(s)} ELSE pel[s]]
        /\ consumer' = consumer \cup ready
    BY DEF ReadGroup
  <1>b. ASSUME NEW s \in ready
        PROVE  /\ Delivered(s) \in Live(s) /\ Delivered(s) > group[s] /\ Delivered(s) \in Entry
               /\ \A x \in Live(s) : x > group[s] => Delivered(s) <= x
    <2>1. NextOf(s) \in SUBSET Nat /\ NextOf(s) # {}
      BY DEF NextOf
    <2>2. Delivered(s) \in NextOf(s) /\ \A y \in NextOf(s) : Delivered(s) <= y
      BY <2>1, MinIsLeast DEF Delivered
    <2> QED BY <2>2 DEF NextOf
  <1>c. \A s \in Stream : group[s] # Absent
    BY <1>a DEF Grouped, Visited, Reading
  <1>d. ASSUME NEW s \in Stream
        PROVE  \/ /\ group'[s] = group[s] /\ pel'[s] = pel[s]
                  /\ \A x \in Entry : <<s, x>> \notin fetched'
               \/ \E d \in Live(s) :
                    /\ group'[s] = d /\ d > group[s]
                    /\ \A x \in Live(s) : x > group[s] => d <= x
                    /\ pel'[s] = pel[s] \cup {d}
                    /\ \A x \in Entry : <<s, x>> \in fetched' <=> x = d
    <2> HIDE DEF ready, TypeOK, Inv, Live
    <2>1. CASE s \in ready
      <3>1. \A x \in Entry : <<s, x>> \in fetched' <=> x = Delivered(s)
        BY <1>a, <2>1
      <3> QED BY <1>a, <1>b, <2>1, <3>1
    <2>2. CASE s \notin ready
      BY <1>a, <2>2
    <2> QED BY <2>1, <2>2
  <1>e. \A s \in Stream : Live(s)' = Live(s) /\ Live(s) \subseteq Entry
    BY <1>a
  <1>1. TypeOK'
    <2>1. fetched' \subseteq Stream \X Entry /\ consumer' \subseteq Stream
      BY <1>a, <1>b
    <2>2. group' \in [Stream -> Id \cup {Absent}]
      <3>1. \A s \in ready : Delivered(s) \in Id
        BY <1>b
      <3> QED BY <1>a, <3>1
    <2>3. pel' \in [Stream -> SUBSET Entry]
      BY <1>a, <1>b
    <2> QED BY <1>a, <2>1, <2>2, <2>3
  <1>2. Loops'
    <2>1. \A s \in Stream, x \in Entry : <<s, x>> \in fetched' => x <= group'[s]
      <3>1. \A x \in Entry : x \in Int
        OBVIOUS
      <3> HIDE DEF TypeOK, Inv, Live, Entry
      <3> QED BY <1>d, <3>1
    <2> QED BY <1>a, <2>1 DEF Loops, Replaying, Reading
  <1>3. Bounds'
    <2>1. \A s \in Stream : group'[s] = group[s] \/ group'[s] <= lastGenerated[s]
      BY <1>d
    <2> QED BY <1>a, <1>c, <2>1 DEF Bounds
  <1>4. Counts'
    <2>1. ASSUME NEW s \in Stream, NEW x \in Entry, x > group'[s] \/ <<s, x>> \in fetched'
          PROVE  x > group[s]
      <3>1. group[s] \in Int /\ x \in Int /\ Live(s) \subseteq Int
        OBVIOUS
      <3> HIDE DEF TypeOK, Inv, Live, Entry
      <3> QED BY <1>d, <2>1, <3>1
    <2>2. ASSUME NEW s \in Stream, NEW x \in Entry, x > group[s]
          PROVE  count[s][x] <= 1
      BY <1>a, <2>2 DEF Counts, Reading
    <2> HIDE DEF TypeOK
    <2> QED BY <1>a, <2>1, <2>2 DEF Counts, Booting, Replaying, Reading
  <1>5. Seen'
    BY <1>a DEF Seen, Inspected, Booting, Reading
  <1>6. Replayed'
    BY <1>a DEF Replayed
  <1>7. Seamless'
    <2> SUFFICES ASSUME NEW s \in Stream, Known(s)
                 PROVE  /\ group'[s] >= lastId[s]
                        /\ \A x \in Entry : <<s, x>> \in fetched' => x > lastId[s]
                        /\ start[s] # Latest =>
                             \A x \in Live(s) : start[s] < x /\ x <= group'[s]
                                => count[s][x] > 0 \/ <<s, x>> \in fetched'
      BY <1>a, <1>e DEF Seamless, Known
    <2>1. /\ group[s] >= lastId[s]
          /\ start[s] # Latest =>
               \A x \in Live(s) : start[s] < x /\ x <= group[s] => count[s][x] > 0
      BY <1>a DEF Seamless, Visited, Reading
    <2>2. group[s] \in Int /\ lastId[s] \in Nat /\ Live(s) \subseteq Nat
      OBVIOUS
    <2> HIDE DEF TypeOK, Inv, Live, Entry
    <2>3. \A x \in Entry : x \in Nat
      BY DEF Entry
    <2> QED BY <1>d, <1>e, <2>1, <2>2, <2>3
  <1>8. OldOnce'
    BY <1>a DEF OldOnce
  <1>9. Based'
    <2>1. \A s \in Stream : \/ group'[s] = group[s]
                            \/ /\ group'[s] > group[s] /\ group'[s] # Absent
                               /\ group'[s] <= lastGenerated[s]
      BY <1>d
    <2>2. ASSUME NEW s \in Stream, JobMode[s] # "replayall"
          PROVE  /\ base[s] # Absent /\ group'[s] # Absent /\ base[s] <= group'[s]
                 /\ group'[s] <= lastGenerated[s] \/ group'[s] = base[s]
      <3>1. /\ base[s] # Absent /\ base[s] <= group[s]
            /\ group[s] <= lastGenerated[s] \/ group[s] = base[s]
        BY <1>c, <2>2 DEF Based
      <3>2. group[s] \in Int /\ base[s] \in Int /\ lastGenerated[s] \in Int
        OBVIOUS
      <3>3. group'[s] \in Int
        <4> HIDE DEF Live, TypeOK, Inv
        <4>1. Live(s) \subseteq Int
          BY <1>e
        <4> QED BY <1>d, <3>2, <4>1
      <3> HIDE DEF TypeOK, Inv, Absent
      <3> QED BY <1>c, <2>1, <3>1, <3>2, <3>3
    <2> HIDE DEF TypeOK
    <2> QED BY <1>a, <2>2 DEF Based
  <1>10. Kept'
    <2> SUFFICES ASSUME NEW s \in Stream, JobMode[s] # "replayall",
                        NEW x \in Entry, base[s] < x, x <= group'[s], x \in Live(s)
                 PROVE  x \in ever[s] \cup pel'[s]
      BY <1>a, <1>e DEF Kept
    <2>1. x <= group[s] => x \in ever[s] \cup pel[s]
      BY <1>c DEF Kept
    <2>2. group[s] \in Int /\ x \in Nat /\ Live(s) \subseteq Nat
      OBVIOUS
    <2> HIDE DEF TypeOK, Inv, Live, Entry
    <2> QED BY <1>d, <2>1, <2>2
  <1>11. Grouped'
    <2>1. \A s \in Stream : group'[s] # Absent
      BY <1>c, <1>d
    <2> QED BY <2>1 DEF Grouped
  <1> QED BY <1>1, <1>2, <1>3, <1>4, <1>5, <1>6, <1>7, <1>8, <1>9, <1>10, <1>11 DEF Inv

\* An empty read makes the consumer known.
LEMMA ReadNothingStep ==
    ASSUME Inv, UNCHANGED types, ReadNothing
    PROVE  Inv'
  <1> USE StreamAssumption
      DEF Inv, TypeOK, Id, Entry, Latest, Absent, types, redis, boot, Live, After
  <1>1. TypeOK'
    BY DEF ReadNothing
  <1>2. Loops'
    BY DEF ReadNothing, Loops, Replaying, Reading
  <1>3. Bounds'
    BY DEF ReadNothing, Bounds
  <1>4. Counts'
    BY DEF ReadNothing, Counts, Booting, Replaying, Reading
  <1>5. Seen'
    BY DEF ReadNothing, Seen, Inspected, Booting, Reading
  <1>6. Replayed'
    BY DEF ReadNothing, Replayed
  <1>7. Seamless'
    BY DEF ReadNothing, Seamless, Known, Visited, Reading, Booting
  <1>8. OldOnce'
    BY DEF ReadNothing, OldOnce
  <1>9. Based'
    BY DEF ReadNothing, Based
  <1>10. Kept'
    BY DEF ReadNothing, Kept
  <1>11. Grouped'
    <2>1. \A s \in Stream : group'[s] # Absent
      BY DEF ReadNothing, Grouped, Visited, Reading
    <2> QED BY <2>1 DEF Grouped
  <1> QED BY <1>1, <1>2, <1>3, <1>4, <1>5, <1>6, <1>7, <1>8, <1>9, <1>10, <1>11 DEF Inv

\* A delivered entry is handed over; it lies above what was replayed.
LEMMA ReceivedStep ==
    ASSUME Inv, UNCHANGED types, NEW st \in Stream, NEW e \in Entry, Received(st, e)
    PROVE  Inv'
  <1> USE StreamAssumption
      DEF Inv, TypeOK, Id, Entry, Latest, Absent, types, redis, boot, Live, After
  <1>a. /\ phase \in {"listen", "stopping"} /\ <<st, e>> \in fetched
        /\ fetched' = fetched \ {<<st, e>>}
        /\ running' = running \cup {<<st, e, "group">>}
        /\ count' = [count EXCEPT ![st][e] = @ + 1]
        /\ UNCHANGED <<redis, phase, boot, starts, ever, base, unseen, start, JobMode>>
    BY DEF Received
  <1>b. count[st][e] <= 1 /\ e <= group[st]
    BY <1>a DEF Counts, Reading, Loops
  <1>c. /\ count' \in [Stream -> [Entry -> 0 .. 2]]
        /\ count'[st][e] = count[st][e] + 1
        /\ \A s \in Stream, x \in Entry : ~(s = st /\ x = e) => count'[s][x] = count[s][x]
    <2>1. count \in [Stream -> [Entry -> 0 .. 2]]
      OBVIOUS
    <2>2. count' = [count EXCEPT ![st][e] = @ + 1] /\ count[st][e] <= 1
      BY <1>a, <1>b
    <2> HIDE DEF TypeOK, Inv, Entry, Id, Live, After
    <2> QED BY <2>1, <2>2, CountUp
  <1>d. IsFiniteSet(running') /\ Cardinality(running') <= Concurrency
    <2>1. IsFiniteSet(running) /\ Cardinality(running) < Concurrency
      BY DEF Received, Loops
    <2> HIDE DEF TypeOK, Inv
    <2> QED BY <1>a, <2>1, PoolTakes
  <1>e. \A s \in Stream : Live(s)' = Live(s) /\ Live(s) \subseteq Entry
    BY <1>a
  <1>f. count[st][e] \in 0 .. 2
    BY Typed
  <1>1. TypeOK'
    <2>1. /\ running' \subseteq Stream \X Entry \X {"replay", "group"}
          /\ fetched' \subseteq Stream \X Entry
      BY <1>a
    <2> QED BY <1>a, <1>c, <1>d, <2>1
  <1>2. Loops'
    BY <1>a, <1>d DEF Loops, Replaying, Reading
  <1>3. Bounds'
    BY <1>a DEF Bounds
  <1>4. Counts'
    <2> SUFFICES ASSUME NEW s \in Stream, NEW x \in Entry,
                        x > group[s] \/ <<s, x>> \in fetched'
                 PROVE  count'[s][x] <= 1
      BY <1>a DEF Counts, Booting, Replaying, Reading
    <2>1. ~(s = st /\ x = e)
      <3>1. e \in Int /\ group[st] \in Int
        OBVIOUS
      <3> HIDE DEF TypeOK, Inv
      <3> QED BY <1>a, <1>b, <3>1
    <2>2. count[s][x] <= 1
      BY <1>a DEF Counts, Reading
    <2> QED BY <1>c, <2>1, <2>2
  <1>5. Seen'
    BY <1>a DEF Seen, Inspected, Booting, Reading
  <1>6. Replayed'
    BY <1>a DEF Replayed
  <1>7. Seamless'
    <2> SUFFICES ASSUME NEW s \in Stream, Known(s)
                 PROVE  /\ group[s] >= lastId[s]
                        /\ \A x \in Entry : <<s, x>> \in fetched' => x > lastId[s]
                        /\ start[s] # Latest =>
                             \A x \in Live(s) : start[s] < x /\ x <= group[s]
                                => count'[s][x] > 0 \/ <<s, x>> \in fetched'
      BY <1>a, <1>e DEF Seamless, Known
    <2>1. /\ group[s] >= lastId[s]
          /\ \A x \in Entry : <<s, x>> \in fetched => x > lastId[s]
          /\ start[s] # Latest =>
               \A x \in Live(s) : start[s] < x /\ x <= group[s]
                  => count[s][x] > 0 \/ <<s, x>> \in fetched
      BY <1>a DEF Seamless, Visited, Reading
    <2>2. count'[st][e] > 0
      BY <1>c, <1>f
    <2> HIDE DEF TypeOK, Inv, Live, Entry
    <2> QED BY <1>a, <1>c, <1>e, <2>1, <2>2
  <1>8. OldOnce'
    <2> SUFFICES ASSUME NEW s \in Stream \ unseen, JobMode[s] = "replayall",
                        NEW x \in Entry, x <= lastId[s]
                 PROVE  count'[s][x] <= 1
      BY <1>a DEF OldOnce
    <2>1. ~(s = st /\ x = e)
      BY <1>a DEF Seamless, Known, Visited, Reading
    <2>2. count[s][x] <= 1
      BY <1>a DEF OldOnce
    <2> QED BY <1>c, <2>1, <2>2
  <1>9. Based'
    BY <1>a DEF Based
  <1>10. Kept'
    BY <1>a DEF Kept
  <1>11. Grouped'
    BY <1>a DEF Grouped, Visited, Reading, Booting
  <1> QED BY <1>1, <1>2, <1>3, <1>4, <1>5, <1>6, <1>7, <1>8, <1>9, <1>10, <1>11 DEF Inv

\* An entry leaves the pending list only once it was handled.
LEMMA FinishStep ==
    ASSUME Inv, UNCHANGED types, NEW t \in running, Finish(t)
    PROVE  Inv'
  <1> USE StreamAssumption
      DEF Inv, TypeOK, Id, Entry, Latest, Absent, types, redis, boot, Live, After
  <1>a. /\ running' = running \ {t}
        /\ ever' = [ever EXCEPT ![t[1]] = @ \cup {t[2]}]
        /\ pel' = pel \/ pel' = [pel EXCEPT ![t[1]] = @ \ {t[2]}]
        /\ UNCHANGED <<lastGenerated, low, exists, group, consumer, phase, boot, fetched, starts,
                       count, base, unseen, start, JobMode>>
    BY DEF Finish
  <1>b. t[1] \in Stream /\ t[2] \in Entry
    OBVIOUS
  <1>c. IsFiniteSet(running') /\ Cardinality(running') <= Concurrency
    <2>1. IsFiniteSet(running) /\ Cardinality(running) <= Concurrency
      BY DEF Loops
    <2> HIDE DEF TypeOK, Inv
    <2> QED BY <1>a, <2>1, PoolGives
  <1>1. TypeOK'
    <2>1. pel' \in [Stream -> SUBSET Entry]
      <3>1. pel[t[1]] \ {t[2]} \in SUBSET Entry
        BY <1>b
      <3>2. CASE pel' = [pel EXCEPT ![t[1]] = @ \ {t[2]}]
        BY <1>b, <3>1, <3>2
      <3> QED BY <1>a, <3>2
    <2>2. ever' \in [Stream -> SUBSET Entry]
      BY <1>a, <1>b
    <2>3. running' \subseteq Stream \X Entry \X {"replay", "group"}
      BY <1>a
    <2> QED BY <1>a, <1>c, <2>1, <2>2, <2>3
  <1>2. Loops'
    BY <1>a, <1>c DEF Loops, Replaying, Reading
  <1>3. Bounds'
    BY DEF Finish, Bounds
  <1>4. Counts'
    BY DEF Finish, Counts, Booting, Replaying, Reading
  <1>5. Seen'
    BY DEF Finish, Seen, Inspected, Booting, Reading
  <1>6. Replayed'
    BY DEF Finish, Replayed
  <1>7. Seamless'
    BY DEF Finish, Seamless, Known, Visited, Reading, Booting
  <1>8. OldOnce'
    BY DEF Finish, OldOnce
  <1>9. Based'
    BY DEF Finish, Based
  <1>10. Kept'
    <2>1. \A s \in Stream : ever[s] \cup pel[s] \subseteq ever'[s] \cup pel'[s]
      BY <1>a, <1>b
    <2>2. \A s \in Stream : Live(s)' = Live(s)
      BY <1>a
    <2> HIDE DEF TypeOK, Live
    <2> QED BY <1>a, <2>1, <2>2 DEF Kept
  <1>11. Grouped'
    BY DEF Finish, Grouped, Visited, Reading, Booting
  <1> QED BY <1>1, <1>2, <1>3, <1>4, <1>5, <1>6, <1>7, <1>8, <1>9, <1>10, <1>11 DEF Inv

\* Stopping keeps what was fetched.
LEMMA StopStep ==
    ASSUME Inv, UNCHANGED types, Stop
    PROVE  Inv'
  <1> USE StreamAssumption
      DEF Inv, TypeOK, Id, Entry, Latest, Absent, types, redis, boot, Live, After
  <1>1. TypeOK'
    BY DEF Stop
  <1>2. Loops'
    BY DEF Stop, Loops, Replaying, Reading
  <1>3. Bounds'
    BY DEF Stop, Bounds
  <1>4. Counts'
    BY DEF Stop, Counts, Booting, Replaying, Reading
  <1>5. Seen'
    BY DEF Stop, Seen, Inspected, Booting, Reading
  <1>6. Replayed'
    BY DEF Stop, Replayed
  <1>7. Seamless'
    BY DEF Stop, Seamless, Known, Visited, Reading, Booting
  <1>8. OldOnce'
    BY DEF Stop, OldOnce
  <1>9. Based'
    BY DEF Stop, Based
  <1>10. Kept'
    BY DEF Stop, Kept
  <1>11. Grouped'
    BY DEF Stop, Grouped, Visited, Reading, Booting
  <1> QED BY <1>1, <1>2, <1>3, <1>4, <1>5, <1>6, <1>7, <1>8, <1>9, <1>10, <1>11 DEF Inv

\* A crash leaves Redis as it is.
LEMMA CrashStep ==
    ASSUME Inv, UNCHANGED types, Crash
    PROVE  Inv'
  <1> USE StreamAssumption
      DEF Inv, TypeOK, Id, Entry, Latest, Absent, types, redis, boot, Live, After
  <1>a. IsFiniteSet(running') /\ Cardinality(running') <= Concurrency
    BY FS_EmptySet DEF Crash
  <1>1. TypeOK'
    BY <1>a DEF Crash
  <1>2. Loops'
    BY <1>a DEF Crash, Loops, Replaying, Reading
  <1>3. Bounds'
    BY DEF Crash, Bounds
  <1>4. Counts'
    BY DEF Crash, Counts, Booting, Replaying, Reading
  <1>5. Seen'
    BY DEF Crash, Seen, Inspected, Booting, Reading
  <1>6. Replayed'
    BY DEF Crash, Replayed
  <1>7. Seamless'
    BY DEF Crash, Seamless, Known, Visited, Reading, Booting
  <1>8. OldOnce'
    <2>1. phase' = "down" /\ UNCHANGED <<count, lastId, unseen, JobMode>>
      BY DEF Crash
    <2>2. \A s \in Stream, x \in Entry : phase = "inspect" => count[s][x] <= 1
      <3> HIDE DEF TypeOK
      <3>1. \A s \in Stream, x \in Entry : phase = "inspect" => count[s][x] = 0
        BY DEF Counts
      <3> QED BY <3>1
    <2> HIDE DEF TypeOK
    <2> QED BY <2>1, <2>2 DEF OldOnce
  <1>9. Based'
    BY DEF Crash, Based
  <1>10. Kept'
    BY DEF Crash, Kept
  <1>11. Grouped'
    BY DEF Crash, Grouped, Visited, Reading, Booting
  <1> QED BY <1>1, <1>2, <1>3, <1>4, <1>5, <1>6, <1>7, <1>8, <1>9, <1>10, <1>11 DEF Inv

-----------------------------------------------------------------------------
\* Nothing is in Redis and the server is down.
LEMMA InvInit ==
    ASSUME Init
    PROVE  Inv
  <1> USE StreamAssumption DEF Init, callRedisInit, Id, Entry, Latest, Absent
  <1>1. TypeOK
    <2>1. start \in [Stream -> Id \cup {Latest}]
      OBVIOUS
    <2>2. Cardinality(running) <= Concurrency
      BY FS_EmptySet
    <2> QED BY <2>1, <2>2 DEF TypeOK
  <1>2. Loops
    BY FS_EmptySet DEF Loops, Replaying, Reading
  <1>3. Bounds /\ Grouped
    BY DEF Bounds, Grouped, Visited, Reading, Booting
  <1>4. Counts /\ OldOnce
    BY DEF Counts, OldOnce, Booting, Replaying, Reading
  <1>5. Seen /\ Replayed /\ Seamless
    BY DEF Seen, Replayed, Seamless, Inspected, Visited, Reading, Booting
  <1>6. Based /\ Kept
    BY DEF Based, Kept
  <1> QED BY <1>1, <1>2, <1>3, <1>4, <1>5, <1>6 DEF Inv

\* A step that changes nothing.
LEMMA InvStutter ==
    ASSUME Inv, UNCHANGED vars
    PROVE  Inv'
  BY DEF Inv, vars, types, moving, redis, boot, TypeOK, Loops, Bounds, Grouped, Counts, OldOnce,
         Seen, Replayed, Seamless, Based, Kept, Known, Inspected, Visited, Reading,
         Booting, Replaying, Live

\* Every step, of this server or of another, preserves the invariant.
LEMMA InvStep ==
    ASSUME Inv, [Next]_vars
    PROVE  Inv'
  <1>1. CASE Next
    <2>1. UNCHANGED types
      BY <1>1 DEF Next
    <2>2. CASE \E st \in Stream : call_stream(st) \/ TrimElsewhere(st)
      BY <2>1, <2>2, CallStreamStep, TrimStep
    <2>3. CASE Start \/ StartFails \/ Stop \/ Crash
      BY <2>1, <2>3, StartStep, FailsStep, StopStep, CrashStep
    <2>4. CASE Boot
      BY <2>1, <2>4, InspectStep, InitStreamStep, ReplayReadStep, ReplayHandStep, DestroyStep,
         CreateStep DEF Boot
    <2>5. CASE Loop
      BY <2>1, <2>5, ReadGroupStep, ReadNothingStep, ReceivedStep DEF Loop
    <2>6. CASE Pool
      BY <2>1, <2>6, FinishStep DEF Pool
    <2> QED BY <1>1, <2>2, <2>3, <2>4, <2>5, <2>6 DEF Next
  <1> QED BY <1>1, InvStutter

\* The inductive invariant holds in every reachable state.
THEOREM Invariance == Spec => []Inv
  <1>1. Init => Inv
    BY InvInit
  <1>2. Inv /\ [Next]_vars => Inv'
    BY InvStep
  <1> QED BY <1>1, <1>2, PTL DEF Spec

\* Type correctness; with it the pool never runs more listeners than it has goroutines, and no
\* entry is handed over more than twice in the life of a server.
THEOREM TypeCorrect == Spec => []TypeOK
  <1>1. Inv => TypeOK
    BY DEF Inv
  <1> QED BY <1>1, Invariance, PTL

\* A listening server has replayed every entry between the start of a replayall stream and
\* the position of its group: StartListen leaves no gap at the seam, whatever is published,
\* trimmed or fails in between.
THEOREM ReplayIsComplete == Spec => []ReplayComplete
  <1>1. Inv => ReplayComplete
    BY DEF Inv, ReplayComplete, Seamless, Known, Visited, Reading
  <1> QED BY <1>1, Invariance, PTL

\* An entry that was in a replayall stream when the server started is handed over at most
\* once: the group created after the replay does not deliver it again.
THEOREM OldHandedOnce == Spec => []OldOnce
  <1>1. Inv => OldOnce
    BY DEF Inv
  <1> QED BY <1>1, Invariance, PTL

-----------------------------------------------------------------------------
\* NothingVanishes, entry by entry.
Passed(st, e) ==
    /\ JobMode[st] # "replayall" /\ group[st] # Absent
    /\ base[st] < e /\ e <= group[st] /\ e \in Live(st)

Traced(st, e) ==
    \/ e \in ever[st] \cup InHand(st)
    \/ e \in pel[st] /\ (phase = "down" \/ (starts > 1 /\ count[st][e] = 0))

\* A server that never started has no group.
Unstarted == starts = 0 => phase = "down" /\ \A st \in Stream : group[st] = Absent

AllTraced == \A st \in Stream, e \in Entry : Passed(st, e) => Traced(st, e)

TraceInv == AllTraced /\ Unstarted

\* A step of a server that is up, or goes down, which forgets nothing it had in hand.
LEMMA StillTraced ==
    ASSUME NEW st \in Stream, NEW e \in Entry, Traced(st, e),
           starts' = starts, phase # "down" \/ phase' = "down",
           e \in ever[st] \cup InHand(st) => e \in ever'[st] \cup InHand(st)',
           e \in pel[st] => e \in pel'[st] \cup ever'[st],
           count'[st][e] = count[st][e] \/ e \in InHand(st)'
    PROVE  Traced(st, e)'
  BY DEF Traced

\* The position of the group and what is left of the stream do not change, or less is left.
LEMMA SamePassed ==
    ASSUME UNCHANGED <<JobMode, group, base>>, NEW st \in Stream, NEW e \in Entry,
           Live(st)' \subseteq Live(st), Passed(st, e)'
    PROVE  Passed(st, e)
  BY DEF Passed

\* Nothing that the trace looks at changes.
LEMMA SameTrace ==
    ASSUME Inv, TraceInv, UNCHANGED <<JobMode, group, base, starts, pel, ever, fetched, running, count>>,
           \A st \in Stream : Live(st)' \subseteq Live(st),
           phase # "down" \/ phase' = "down", phase' = "down" => phase = "down"
    PROVE  TraceInv'
  <1>1. \A st \in Stream : InHand(st)' = InHand(st)
    BY DEF InHand
  <1>2. ASSUME NEW st \in Stream, NEW e \in Entry, Passed(st, e)' PROVE Traced(st, e)'
    <2>1. Traced(st, e)
      BY <1>2, SamePassed DEF TraceInv, AllTraced
    <2> QED BY <1>1, <2>1, StillTraced
  <1>3. Unstarted'
    BY DEF TraceInv, Unstarted
  <1> QED BY <1>2, <1>3 DEF TraceInv, AllTraced

\* An entry is appended beyond the group.
LEMMA CallTrace ==
    ASSUME Inv, TraceInv, UNCHANGED types, NEW st \in Stream, call_stream(st)
    PROVE  TraceInv'
  <1>1. /\ UNCHANGED <<JobMode, low, group, base, starts, pel, ever, fetched, running, count, phase>>
        /\ lastGenerated' = [lastGenerated EXCEPT ![st] = @ + 1]
    BY DEF call_stream, types, boot
  <1>2. ASSUME NEW s \in Stream, NEW e \in Entry, Passed(s, e)' PROVE Passed(s, e)
    <2>1. base[s] \in Int /\ group[s] \in Int /\ lastGenerated[s] \in Nat /\ low[s] \in Nat /\ e \in Int
      BY Typed, StreamAssumption DEF Inv, Entry
    <2>2. group[s] <= lastGenerated[s] \/ group[s] = base[s]
      BY <1>1, <1>2 DEF Inv, Based, Passed
    <2>3. base[s] < e /\ e <= group[s]
      BY <1>1, <1>2 DEF Passed
    <2>4. e <= lastGenerated[s]
      BY <2>1, <2>2, <2>3
    <2>5. e \in low[s] + 1 .. lastGenerated'[s] /\ lastGenerated'[s] \in Int
      <3>1. lastGenerated'[s] \in Int
        BY <1>1, <2>1 DEF Inv, TypeOK
      <3> QED BY <1>1, <1>2, <3>1 DEF Passed, Live
    <2>6. e \in Live(s)
      BY <2>1, <2>4, <2>5 DEF Live
    <2> QED BY <1>1, <1>2, <2>6 DEF Passed
  <1>3. \A s \in Stream : InHand(s)' = InHand(s)
    BY <1>1 DEF InHand
  <1>4. \A s \in Stream, e \in Entry : Traced(s, e) => Traced(s, e)'
    BY <1>1, <1>3 DEF Traced
  <1> QED BY <1>1, <1>2, <1>4 DEF TraceInv, AllTraced, Unstarted

\* A server that starts has been given nothing yet: all that was passed is handled or pending.
LEMMA StartTrace ==
    ASSUME Inv, TraceInv, UNCHANGED types, Start
    PROVE  TraceInv'
  <1>1. /\ UNCHANGED <<JobMode, lastGenerated, low, group, base, pel, ever, fetched, running>>
        /\ starts' = starts + 1 /\ phase' = "inspect" /\ starts \in Nat
        /\ \A st \in Stream, e \in Entry : count'[st][e] = 0
    BY StreamAssumption DEF Start, types, redis, Inv, TypeOK
  <1>2. ASSUME NEW st \in Stream, NEW e \in Entry, Passed(st, e)' PROVE Traced(st, e)'
    <2>1. Passed(st, e)
      BY <1>1, <1>2 DEF Passed, Live
    <2>2. e \in ever[st] \cup pel[st]
      BY <2>1 DEF Inv, Kept, Passed
    <2>3. starts # 0
      BY <2>1 DEF TraceInv, Unstarted, Passed
    <2>4. starts' > 1
      BY <1>1, <2>3
    <2> QED BY <1>1, <2>2, <2>4 DEF Traced
  <1>3. Unstarted'
    BY <1>1 DEF Unstarted
  <1> QED BY <1>2, <1>3 DEF TraceInv, AllTraced

\* The second loop is done with a stream: its group is where it was, or is new.
LEMMA VisitTrace ==
    ASSUME Inv, TraceInv, NEW st \in Stream, NEW at \in Id \cup {Latest}, XGroupCreate(st, at),
           UNCHANGED <<JobMode, lastGenerated, low, starts, pel, ever, fetched, running, count>>,
           phase # "down", phase' # "down"
    PROVE  TraceInv'
  <1>1. /\ group' \in [Stream -> Id \cup {Absent}]
        /\ \A s \in Stream : s # st => group'[s] = group[s] /\ base'[s] = base[s]
        /\ JobMode[st] # "replayall" =>
              \/ group'[st] = group[st] /\ base'[st] = base[st]
              \/ group[st] = Absent /\ group'[st] # Absent /\ base'[st] = group'[st]
    BY Created
  <1>2. \A s \in Stream : group'[s] \in Int
    BY <1>1, StreamAssumption DEF Id, Absent
  <1>3. ASSUME NEW s \in Stream, NEW e \in Entry, Passed(s, e)' PROVE Passed(s, e)
    <2>1. e \in Int /\ base'[s] # group'[s]
      BY <1>2, <1>3, StreamAssumption DEF Passed, Entry
    <2>2. group'[s] = group[s] /\ base'[s] = base[s]
      BY <1>1, <1>3, <2>1 DEF Passed
    <2> QED BY <1>3, <2>2 DEF Passed, Live
  <1>4. \A s \in Stream : InHand(s)' = InHand(s)
    BY DEF InHand
  <1>5. \A s \in Stream, e \in Entry : Traced(s, e) => Traced(s, e)'
    BY <1>4 DEF Traced
  <1>6. Unstarted'
    BY DEF TraceInv, Unstarted
  <1> QED BY <1>3, <1>5, <1>6 DEF TraceInv, AllTraced

LEMMA InitTrace ==
    ASSUME Inv, TraceInv, UNCHANGED types, NEW st \in Stream, InitStream(st)
    PROVE  TraceInv'
  <1>1. /\ UNCHANGED <<JobMode, lastGenerated, low, starts, pel, ever, fetched, running, count>>
        /\ phase # "down" /\ phase' # "down"
        /\ UNCHANGED <<group, base>> \/ XGroupCreate(st, start[st])
    BY DEF InitStream, Listening, types
  <1>2. CASE UNCHANGED <<group, base>>
    <2>1. \A s \in Stream : Live(s)' \subseteq Live(s)
      BY <1>1 DEF Live
    <2> QED BY <1>1, <1>2, <2>1, SameTrace
  <1>3. CASE XGroupCreate(st, start[st])
    <2>1. start[st] \in Id \cup {Latest}
      BY DEF Inv, TypeOK
    <2> QED BY <1>1, <1>3, <2>1, VisitTrace
  <1> QED BY <1>1, <1>2, <1>3

LEMMA CreateTrace ==
    ASSUME Inv, TraceInv, UNCHANGED types, CreateGroup
    PROVE  TraceInv'
  <1>1. PICK st \in Stream : st = cur
    BY DEF Inv, TypeOK, CreateGroup, Loops, Replaying
  <1>2. AfterReplay(st) \in Id \cup {Latest}
    BY DEF AfterReplay, Inv, TypeOK
  <1>3. /\ UNCHANGED <<JobMode, lastGenerated, low, starts, pel, ever, fetched, running, count>>
        /\ phase # "down" /\ phase' # "down" /\ XGroupCreate(st, AfterReplay(st))
    BY <1>1 DEF CreateGroup, Listening, types
  <1> QED BY <1>2, <1>3, VisitTrace

\* A replayed entry is in the pool.
LEMMA ReplayTrace ==
    ASSUME Inv, TraceInv, UNCHANGED types, ReplayHand
    PROVE  TraceInv'
  <1>1. PICK st \in Stream, b \in Entry : st = cur /\ b = Min(batch)
    <2>1. batch \in SUBSET Nat /\ batch # {} /\ batch \subseteq Entry
      BY Typed DEF Inv, TypeOK, ReplayHand
    <2>2. Min(batch) \in Entry
      BY <2>1, MinIsLeast
    <2>3. cur \in Stream
      BY DEF Inv, TypeOK, Loops, Replaying, ReplayHand
    <2> QED BY <2>2, <2>3
  <1>2. /\ UNCHANGED <<JobMode, lastGenerated, low, group, base, starts, pel, ever, fetched>>
        /\ phase # "down" /\ phase' # "down"
        /\ running' = running \cup {<<st, b, "replay">>}
        /\ count' = [count EXCEPT ![st][b] = @ + 1]
    BY <1>1 DEF ReplayHand, types, redis
  <1>3. \A s \in Stream : InHand(s) \subseteq InHand(s)'
    BY <1>2 DEF InHand
  <1>4. b \in InHand(st)'
    BY <1>2 DEF InHand
  <1>5. \A s \in Stream, e \in Entry : count'[s][e] = count[s][e] \/ (s = st /\ e = b)
    BY <1>2 DEF Inv, TypeOK
  <1>6. ASSUME NEW s \in Stream, NEW e \in Entry, Passed(s, e)' PROVE Traced(s, e)'
    <2>1. Traced(s, e)
      BY <1>2, <1>6 DEF TraceInv, AllTraced, Passed, Live
    <2> QED BY <1>2, <1>3, <1>4, <1>5, <2>1, StillTraced
  <1> QED BY <1>2, <1>6 DEF TraceInv, AllTraced, Unstarted

\* Only a replayall group is destroyed.
LEMMA DestroyTrace ==
    ASSUME Inv, TraceInv, UNCHANGED types, DestroyGroup
    PROVE  TraceInv'
  <1>1. /\ UNCHANGED <<JobMode, lastGenerated, low, base, starts, ever, fetched, running, count>>
        /\ phase # "down" /\ phase' # "down" /\ JobMode[cur] = "replayall"
        /\ \A s \in Stream : s # cur => group'[s] = group[s] /\ pel'[s] = pel[s]
    BY DEF DestroyGroup, types, boot, Inv, TypeOK
  <1>2. \A s \in Stream : InHand(s)' = InHand(s)
    BY <1>1 DEF InHand
  <1>3. ASSUME NEW s \in Stream, NEW e \in Entry, Passed(s, e)' PROVE Traced(s, e)'
    <2>1. s # cur
      BY <1>1, <1>3 DEF Passed
    <2>2. Passed(s, e)
      BY <1>1, <1>3, <2>1 DEF Passed, Live
    <2> QED BY <1>1, <1>2, <2>1, <2>2 DEF TraceInv, AllTraced, Traced
  <1> QED BY <1>1, <1>3 DEF TraceInv, AllTraced, Unstarted

\* The group moves to the next entry of the stream, which is fetched.
LEMMA ReadTrace ==
    ASSUME Inv, TraceInv, UNCHANGED types, ReadGroup
    PROVE  TraceInv'
  <1> DEFINE ready == {s \in Stream : NextOf(s) # {}}
  <1>1. /\ UNCHANGED <<JobMode, lastGenerated, low, base, starts, ever, running, count, phase>>
        /\ phase = "listen" /\ fetched = {}
        /\ fetched' = {<<s, Delivered(s)>> : s \in ready}
        /\ group' = [s \in Stream |-> IF s \in ready THEN Delivered(s) ELSE group[s]]
        /\ pel' = [s \in Stream |-> IF s \in ready THEN pel[s] \cup {Delivered(s)} ELSE pel[s]]
    BY DEF ReadGroup, types, boot
  <1>2. ASSUME NEW s \in ready
        PROVE  \A x \in Live(s) : x > group[s] => Delivered(s) <= x
    <2>1. NextOf(s) \in SUBSET Nat /\ NextOf(s) # {}
      BY Typed DEF NextOf, After, Inv
    <2>2. \A y \in NextOf(s) : Delivered(s) <= y
      BY <2>1, MinIsLeast DEF Delivered
    <2> QED BY <2>2 DEF NextOf, After
  <1>3. \A s \in Stream : InHand(s) \subseteq InHand(s)' /\ pel[s] \subseteq pel'[s]
    BY <1>1 DEF InHand
  <1>4. \A s \in Stream : group[s] # Absent
    BY <1>1 DEF Inv, Grouped, Visited, Reading
  <1>5. ASSUME NEW s \in Stream, NEW e \in Entry, Passed(s, e)' PROVE Traced(s, e)'
    <2>1. e \in Live(s) /\ base[s] < e /\ e <= group'[s]
      BY <1>1, <1>5 DEF Passed, Live
    <2>2. CASE e <= group[s]
      <3>1. Traced(s, e)
        BY <1>1, <1>4, <1>5, <2>1, <2>2 DEF TraceInv, AllTraced, Passed
      <3> QED BY <1>1, <1>3, <3>1, StillTraced
    <2>3. CASE ~(e <= group[s])
      <3>1. e \in Int /\ group[s] \in Int /\ Live(s) \subseteq Int
        BY Typed, StreamAssumption DEF Inv, Entry
      <3>2. e > group[s]
        BY <2>3, <3>1
      <3>3. s \in ready /\ group'[s] = Delivered(s)
        <4>1. s \in ready
          BY <2>1, <3>2 DEF NextOf, After
        <4> QED BY <1>1, <4>1
      <3>4. Delivered(s) <= e
        BY <1>2, <2>1, <3>2, <3>3
      <3>5. Delivered(s) \in Int
        <4>1. NextOf(s) \in SUBSET Nat /\ NextOf(s) # {}
          BY <3>3, Typed DEF NextOf, After, Inv
        <4> QED BY <4>1, MinIsLeast DEF Delivered
      <3>6. e = Delivered(s)
        BY <2>1, <3>1, <3>3, <3>4, <3>5
      <3>7. <<s, e>> \in fetched'
        BY <1>1, <3>3, <3>6
      <3> QED BY <3>7 DEF Traced, InHand
    <2> QED BY <2>2, <2>3
  <1> QED BY <1>1, <1>5 DEF TraceInv, AllTraced, Unstarted

\* What the pool takes was fetched.
LEMMA ReceivedTrace ==
    ASSUME Inv, TraceInv, UNCHANGED types, NEW st \in Stream, NEW x \in Entry, Received(st, x)
    PROVE  TraceInv'
  <1>1. /\ UNCHANGED <<JobMode, lastGenerated, low, group, base, starts, pel, ever, phase>>
        /\ phase # "down"
        /\ fetched' = fetched \ {<<st, x>>} /\ running' = running \cup {<<st, x, "group">>}
        /\ count' = [count EXCEPT ![st][x] = @ + 1]
    BY DEF Received, types, redis
  <1>2. x \in InHand(st)'
    BY <1>1 DEF InHand
  <1>3. \A s \in Stream : InHand(s) \subseteq InHand(s)'
    BY <1>1 DEF InHand
  <1>4. \A s \in Stream, e \in Entry : count'[s][e] = count[s][e] \/ (s = st /\ e = x)
    BY <1>1 DEF Inv, TypeOK
  <1>5. ASSUME NEW s \in Stream, NEW e \in Entry, Passed(s, e)' PROVE Traced(s, e)'
    <2>1. Traced(s, e)
      BY <1>1, <1>5 DEF TraceInv, AllTraced, Passed, Live
    <2> QED BY <1>1, <1>2, <1>3, <1>4, <2>1, StillTraced
  <1> QED BY <1>1, <1>5 DEF TraceInv, AllTraced, Unstarted

\* What leaves the pool was handled.
LEMMA FinishTrace ==
    ASSUME Inv, TraceInv, UNCHANGED types, NEW t \in running, Finish(t)
    PROVE  TraceInv'
  <1>1. /\ UNCHANGED <<JobMode, lastGenerated, low, group, base, starts, phase, fetched, count>>
        /\ running' = running \ {t}
        /\ ever' = [ever EXCEPT ![t[1]] = @ \cup {t[2]}]
        /\ pel' = pel \/ pel' = [pel EXCEPT ![t[1]] = @ \ {t[2]}]
    BY DEF Finish, types, boot
  <1>2. t[1] \in Stream /\ t[2] \in Entry /\ t = <<t[1], t[2], t[3]>>
    BY DEF Inv, TypeOK
  <1>3. \A s \in Stream : ever[s] \subseteq ever'[s] /\ pel[s] \subseteq pel'[s] \cup ever'[s]
    BY <1>1, <1>2 DEF Inv, TypeOK
  <1>4. t[2] \in ever'[t[1]]
    BY <1>1, <1>2 DEF Inv, TypeOK
  <1>5. ASSUME NEW s \in Stream, NEW e \in InHand(s) PROVE e \in ever'[s] \cup InHand(s)'
    <2>1. CASE <<s, e>> \in fetched
      BY <1>1, <2>1 DEF InHand
    <2>2. CASE \E how \in {"replay", "group"} : <<s, e, how>> \in running
      <3>1. PICK how \in {"replay", "group"} : <<s, e, how>> \in running
        BY <2>2
      <3>2. CASE <<s, e, how>> = t
        BY <1>4, <3>2
      <3>3. CASE <<s, e, how>> # t
        BY <1>1, <3>1, <3>3 DEF InHand
      <3> QED BY <3>2, <3>3
    <2> QED BY <2>1, <2>2 DEF InHand
  <1>6. ASSUME NEW s \in Stream, NEW e \in Entry, Passed(s, e)' PROVE Traced(s, e)'
    <2>1. Traced(s, e)
      BY <1>1, <1>6 DEF TraceInv, AllTraced, Passed, Live
    <2>2. e \in ever[s] \cup InHand(s) => e \in ever'[s] \cup InHand(s)'
      BY <1>3, <1>5
    <2> QED BY <1>1, <1>3, <2>1, <2>2 DEF Traced
  <1> QED BY <1>1, <1>6 DEF TraceInv, AllTraced, Unstarted

\* What was in hand when the server ends is still pending.
LEMMA CrashTrace ==
    ASSUME Inv, TraceInv, UNCHANGED types, Crash
    PROVE  TraceInv'
  <1>1. /\ UNCHANGED <<JobMode, lastGenerated, low, group, base, starts, pel, ever>>
        /\ phase' = "down"
    BY DEF Crash, types, redis
  <1>2. ASSUME NEW s \in Stream, NEW e \in Entry, Passed(s, e)' PROVE Traced(s, e)'
    <2>1. Passed(s, e)
      BY <1>1, <1>2 DEF Passed, Live
    <2>2. e \in ever[s] \cup pel[s]
      BY <2>1 DEF Inv, Kept, Passed
    <2> QED BY <1>1, <2>2 DEF Traced
  <1> QED BY <1>1, <1>2 DEF TraceInv, AllTraced, Unstarted

LEMMA TraceStep == ASSUME Inv, TraceInv, [Next]_vars PROVE TraceInv'
  <1>1. CASE UNCHANGED vars
    <2>1. /\ UNCHANGED <<JobMode, lastGenerated, low, group, base, starts, pel, ever, fetched, running,
                         count, phase>>
      BY <1>1 DEF vars, types, moving, redis
    <2> QED BY <2>1 DEF TraceInv, AllTraced, Unstarted, Passed, Traced, InHand, Live
  <1>2. CASE Next
    <2>1. UNCHANGED types
      BY <1>2 DEF Next
    <2>2. CASE \E st \in Stream : call_stream(st)
      BY <2>1, <2>2, CallTrace
    <2>3. CASE (\E st \in Stream : TrimElsewhere(st)) \/ (\E st \in Stream : InspectStream(st))
               \/ ReplayRead \/ StartFails \/ ReadNothing \/ Stop
      <3>1. /\ UNCHANGED <<JobMode, lastGenerated, group, base, starts, pel, ever, fetched, running, count>>
            /\ phase' = phase \/ (phase # "down" /\ phase' # "down")
        BY <2>1, <2>3 DEF TrimElsewhere, InspectStream, ReplayRead, StartFails, ReadNothing, Stop,
                          types, redis, boot
      <3>2. low' = low \/ \E st \in Stream, i \in 0 .. 1 : low' = [low EXCEPT ![st] = @ + i]
        BY <2>3 DEF TrimElsewhere, InspectStream, ReplayRead, StartFails, ReadNothing, Stop, redis
      <3>3. \A s \in Stream : Live(s)' \subseteq Live(s)
        <4>1. \A s \in Stream : low[s] \in Nat /\ lastGenerated[s] \in Nat /\ low'[s] \in Nat /\ low[s] <= low'[s]
          BY <3>2, Typed DEF Inv, TypeOK
        <4> QED BY <3>1, <4>1 DEF Live
      <3>4. CASE phase = "down"
        <4>1. phase' = phase
          BY <3>1, <3>4
        <4> QED BY <3>1, <3>3, <3>4, <4>1, SameTrace
      <3> QED BY <3>1, <3>3, <3>4, SameTrace
    <2>4. CASE Start \/ Crash
      BY <2>1, <2>4, StartTrace, CrashTrace
    <2>5. CASE (\E st \in Stream : InitStream(st)) \/ ReplayHand \/ DestroyGroup \/ CreateGroup
      BY <2>1, <2>5, InitTrace, ReplayTrace, DestroyTrace, CreateTrace
    <2>6. CASE ReadGroup \/ (\E st \in Stream, e \in Entry : Received(st, e))
      BY <2>1, <2>6, ReadTrace, ReceivedTrace
    <2>7. CASE Pool
      BY <2>1, <2>7, FinishTrace DEF Pool
    <2> QED BY <1>2, <2>2, <2>3, <2>4, <2>5, <2>6, <2>7, Zenon DEF Next, Boot, Loop
  <1> QED BY <1>1, <1>2

\* What the group of a fanout or replay handler has moved past was handled to the end or is in
\* hand, or was left pending by an incarnation of the server that crashed and is not handed
\* over again by the read loop, across any number of crashes.
THEOREM NoEntryVanishes == Spec => []NothingVanishes
  <1>1. Init => TraceInv
    BY DEF Init, TraceInv, AllTraced, Unstarted, Passed
  <1>2. Inv /\ TraceInv /\ [Next]_vars => TraceInv'
    BY TraceStep
  <1>3. TraceInv => NothingVanishes
    BY DEF TraceInv, AllTraced, Passed, Traced, NothingVanishes
  <1> QED BY <1>1, <1>2, <1>3, Invariance, PTL DEF Spec

(***************************************************************************)
(* Strings and their prefixes                                              *)
(***************************************************************************)
String == Seq(Char)

\* A set of numbers with an upper bound has a greatest one.
LEMMA MaxIsGreatest ==
    ASSUME NEW b \in Nat, NEW S \in SUBSET (0 .. b), S # {}
    PROVE  Max(S) \in S /\ \A y \in S : y <= Max(S)
  <1> DEFINE R == {b - x : x \in S}
  <1>1. R \in SUBSET Nat /\ R # {}
    <2>1. \A x \in S : b - x \in Nat
      OBVIOUS
    <2>2. PICK x \in S : TRUE
      OBVIOUS
    <2> QED BY <2>1, <2>2
  <1>2. Min(R) \in R /\ \A y \in R : Min(R) <= y
    BY <1>1, MinIsLeast
  <1>3. PICK x \in S : Min(R) = b - x
    BY <1>2
  <1>4. \A y \in S : b - x <= b - y
    BY <1>2, <1>3
  <1>5. \A y \in S : x >= y
    BY <1>4
  <1> QED BY <1>5 DEF Max

\* A set of strings of bounded length has a longest one.
LEMMA LongestExists ==
    ASSUME NEW b \in Nat, NEW S \in SUBSET String, S # {}, \A k \in S : Len(k) <= b
    PROVE  \E m \in S : \A k \in S : Len(k) <= Len(m)
  <1> DEFINE R == {Len(k) : k \in S}
  <1>1. R \in SUBSET (0 .. b) /\ R # {}
    <2>1. \A k \in S : Len(k) \in 0 .. b
      BY DEF String
    <2>2. PICK k \in S : TRUE
      OBVIOUS
    <2> QED BY <2>1, <2>2
  <1>2. Max(R) \in R /\ \A y \in R : y <= Max(R)
    BY <1>1, MaxIsGreatest
  <1> QED BY <1>2

\* The first i characters.
LEMMA SubSeqChars ==
    ASSUME NEW s \in String, NEW i \in 0 .. Len(s)
    PROVE  /\ SubSeq(s, 1, i) \in String
           /\ Len(SubSeq(s, 1, i)) = i
           /\ \A j \in 1 .. i : SubSeq(s, 1, i)[j] = s[j]
  BY DEF String

\* Strings are equal when their characters are.
LEMMA SameString ==
    ASSUME NEW a \in String, NEW b \in String, Len(a) = Len(b),
           \A j \in 1 .. Len(a) : a[j] = b[j]
    PROVE  a = b
  BY DEF String

\* hasPrefix compares characters.
LEMMA PrefixChars ==
    ASSUME NEW s \in String, NEW p \in String
    PROVE  hasPrefix(s, p) <=> Len(p) <= Len(s) /\ \A j \in 1 .. Len(p) : s[j] = p[j]
  <1>1. Len(p) \in Nat /\ Len(s) \in Nat
    BY DEF String
  <1>2. CASE Len(p) <= Len(s)
    <2>1. Len(p) \in 0 .. Len(s)
      BY <1>1, <1>2
    <2>2. /\ SubSeq(s, 1, Len(p)) \in String /\ Len(SubSeq(s, 1, Len(p))) = Len(p)
          /\ \A j \in 1 .. Len(p) : SubSeq(s, 1, Len(p))[j] = s[j]
      BY <2>1, SubSeqChars
    <2>3. SubSeq(s, 1, Len(p)) = p <=> \A j \in 1 .. Len(p) : s[j] = p[j]
      <3>1. ASSUME \A j \in 1 .. Len(p) : s[j] = p[j]
            PROVE  SubSeq(s, 1, Len(p)) = p
        BY <2>2, <3>1, SameString
      <3> QED BY <2>2, <3>1
    <2> QED BY <1>2, <2>3 DEF hasPrefix
  <1>3. CASE ~ (Len(p) <= Len(s))
    BY <1>3 DEF hasPrefix
  <1> QED BY <1>2, <1>3

\* The empty string and the string itself are prefixes.
LEMMA EmptyIsPrefix ==
    /\ <<>> \in String /\ Len(<<>>) = 0
    /\ \A s \in String : hasPrefix(s, <<>>) /\ hasPrefix(s, s)
    /\ \A s \in String : Len(s) \in Nat /\ (Len(s) = 0 => s = <<>>)
  <1>1. <<>> \in String /\ Len(<<>>) = 0
    BY DEF String
  <1>2. \A s \in String : Len(s) \in Nat /\ (Len(s) = 0 => s = <<>>)
    BY DEF String
  <1>3. \A s \in String : hasPrefix(s, <<>>) /\ hasPrefix(s, s)
    BY <1>1, <1>2, PrefixChars
  <1> QED BY <1>1, <1>2, <1>3

\* A prefix of a prefix is a prefix.
LEMMA PrefixTrans ==
    ASSUME NEW a \in String, NEW b \in String, NEW c \in String,
           hasPrefix(b, a), hasPrefix(c, b)
    PROVE  hasPrefix(c, a)
  <1>1. Len(a) \in Nat /\ Len(b) \in Nat /\ Len(c) \in Nat
    BY DEF String
  <1>2. Len(a) <= Len(b) /\ \A j \in 1 .. Len(a) : b[j] = a[j]
    BY PrefixChars
  <1>3. Len(b) <= Len(c) /\ \A j \in 1 .. Len(b) : c[j] = b[j]
    BY PrefixChars
  <1>4. Len(a) <= Len(c) /\ \A j \in 1 .. Len(a) : c[j] = a[j]
    BY <1>1, <1>2, <1>3
  <1> QED BY <1>4, PrefixChars

\* Two prefixes of one string: the shorter is a prefix of the longer.
LEMMA PrefixesNest ==
    ASSUME NEW a \in String, NEW b \in String, NEW s \in String,
           hasPrefix(s, a), hasPrefix(s, b), Len(a) <= Len(b)
    PROVE  hasPrefix(b, a)
  <1>1. Len(a) \in Nat /\ Len(b) \in Nat
    BY DEF String
  <1>2. \A j \in 1 .. Len(a) : s[j] = a[j]
    BY PrefixChars
  <1>3. \A j \in 1 .. Len(b) : s[j] = b[j]
    BY PrefixChars
  <1>4. \A j \in 1 .. Len(a) : b[j] = a[j]
    BY <1>1, <1>2, <1>3
  <1> QED BY <1>4, PrefixChars

\* A prefix of the same length is the string.
LEMMA PrefixSameLen ==
    ASSUME NEW a \in String, NEW s \in String, hasPrefix(s, a), Len(s) <= Len(a)
    PROVE  a = s
  <1>1. Len(a) \in Nat /\ Len(s) \in Nat
    BY DEF String
  <1>2. Len(a) <= Len(s) /\ \A j \in 1 .. Len(a) : s[j] = a[j]
    BY PrefixChars
  <1>3. Len(a) = Len(s) /\ \A j \in 1 .. Len(a) : a[j] = s[j]
    BY <1>1, <1>2
  <1> QED BY <1>3, SameString

\* longestCommonPrefix counts the characters up to the first difference.
LEMMA CommonPrefix ==
    ASSUME NEW a \in String, NEW b \in String
    PROVE  LET l == longestCommonPrefix(a, b)
           IN /\ l \in Nat /\ l <= Len(a) /\ l <= Len(b)
              /\ \A j \in 1 .. l : a[j] = b[j]
              /\ l < Len(a) /\ l < Len(b) => a[l + 1] # b[l + 1]
  <1> DEFINE m == Min({Len(a), Len(b)})
             S == {i \in 0 .. m : SubSeq(a, 1, i) = SubSeq(b, 1, i)}
             l == longestCommonPrefix(a, b)
  <1>1. Len(a) \in Nat /\ Len(b) \in Nat
    BY DEF String
  <1>2. m \in {Len(a), Len(b)} /\ m <= Len(a) /\ m <= Len(b)
    <2>1. {Len(a), Len(b)} \in SUBSET Nat /\ {Len(a), Len(b)} # {}
      BY <1>1
    <2> QED BY <2>1, MinIsLeast
  <1>3. m \in Nat
    BY <1>1, <1>2
  <1> HIDE DEF m
  <1>4. \A i \in 0 .. m : i \in S <=> \A j \in 1 .. i : a[j] = b[j]
    <2> TAKE i \in 0 .. m
    <2>1. i \in 0 .. Len(a) /\ i \in 0 .. Len(b)
      BY <1>1, <1>2, <1>3
    <2>2. /\ SubSeq(a, 1, i) \in String /\ Len(SubSeq(a, 1, i)) = i
          /\ \A j \in 1 .. i : SubSeq(a, 1, i)[j] = a[j]
      BY <2>1, SubSeqChars
    <2>3. /\ SubSeq(b, 1, i) \in String /\ Len(SubSeq(b, 1, i)) = i
          /\ \A j \in 1 .. i : SubSeq(b, 1, i)[j] = b[j]
      BY <2>1, SubSeqChars
    <2>4. ASSUME \A j \in 1 .. i : a[j] = b[j]
          PROVE  SubSeq(a, 1, i) = SubSeq(b, 1, i)
      BY <2>2, <2>3, <2>4, SameString
    <2>5. ASSUME SubSeq(a, 1, i) = SubSeq(b, 1, i)
          PROVE  \A j \in 1 .. i : a[j] = b[j]
      BY <2>2, <2>3, <2>5
    <2> QED BY <2>4, <2>5
  <1>5. S \in SUBSET (0 .. m) /\ 0 \in S
    BY <1>3, <1>4
  <1>6. l = Max(S)
    BY DEF longestCommonPrefix, m
  <1> HIDE DEF S
  <1>7. l \in S /\ \A y \in S : y <= l
    BY <1>3, <1>5, <1>6, MaxIsGreatest
  <1> HIDE DEF l
  <1>8. l \in Nat /\ l <= m /\ \A j \in 1 .. l : a[j] = b[j]
    BY <1>3, <1>4, <1>5, <1>7
  <1>9. ASSUME l < Len(a), l < Len(b), a[l + 1] = b[l + 1]
        PROVE  FALSE
    <2>1. l + 1 \in 0 .. m
      BY <1>1, <1>2, <1>8, <1>9
    <2>2. \A j \in 1 .. l + 1 : a[j] = b[j]
      BY <1>8, <1>9
    <2>3. l + 1 \in S
      BY <1>4, <2>1, <2>2
    <2> QED BY <1>7, <1>8, <2>3
  <1>10. l <= Len(a) /\ l <= Len(b)
    BY <1>1, <1>2, <1>3, <1>8
  <1> QED BY <1>8, <1>9, <1>10 DEF l

(***************************************************************************)
(* Well-formed tries                                                       *)
(***************************************************************************)
\* Nodes are strings, children are nodes.
Tries == UNION {[D -> [children : SUBSET D, value : Nat \cup {NoValue}]] : D \in SUBSET String}

\* An edge has at least one character.
Extending(t) == \A n \in DOMAIN t : \A c \in t[n].children : hasPrefix(c, n) /\ Len(n) < Len(c)

\* From a node, an edge leads on to every node that it is a prefix of.
Linked(t) == \A n, m \in DOMAIN t : hasPrefix(m, n) /\ m # n => \E c \in t[n].children : hasPrefix(m, c)

\* The edges of a node begin with different characters.
Apart(t) == \A n \in DOMAIN t : \A c, d \in t[n].children : c # d => c[Len(n) + 1] # d[Len(n) + 1]

\* The root has no value: the empty key is refused.
Rooted(t) == <<>> \in DOMAIN t /\ t[<<>>].value = NoValue

WellFormed(t) == t \in Tries /\ Rooted(t) /\ Extending(t) /\ Linked(t) /\ Apart(t)


\* The type of a trie, spelled out.
LEMMA TrieType ==
    /\ \A t \in Tries : /\ DOMAIN t \in SUBSET String
                        /\ t \in [DOMAIN t -> [children : SUBSET DOMAIN t, value : Nat \cup {NoValue}]]
    /\ \A t, D : /\ D \in SUBSET String
                 /\ t \in [D -> [children : SUBSET D, value : Nat \cup {NoValue}]]
                 => t \in Tries /\ DOMAIN t = D
  BY DEF Tries

\* Two edges of a node that go the same way are one edge.
LEMMA OneChild ==
    ASSUME NEW t, WellFormed(t), NEW n \in DOMAIN t,
           NEW c \in t[n].children, NEW d \in t[n].children,
           c[Len(n) + 1] = d[Len(n) + 1]
    PROVE  c = d
  BY DEF WellFormed, Apart

\* What is known of a child.
LEMMA Child ==
    ASSUME NEW t, WellFormed(t), NEW n \in DOMAIN t, NEW c \in t[n].children
    PROVE  /\ n \in String /\ c \in DOMAIN t /\ c \in String
           /\ hasPrefix(c, n) /\ Len(n) < Len(c)
           /\ Len(n) \in Nat /\ Len(c) \in Nat /\ Len(n) + 1 \in 1 .. Len(c)
  <1>1. t \in Tries
    BY DEF WellFormed
  <1>2. n \in String /\ c \in DOMAIN t /\ c \in String
    BY <1>1, TrieType
  <1>3. hasPrefix(c, n) /\ Len(n) < Len(c)
    BY DEF WellFormed, Extending
  <1>4. Len(n) \in Nat /\ Len(c) \in Nat
    BY <1>2, EmptyIsPrefix
  <1> QED BY <1>2, <1>3, <1>4

\* Two edges of a node to prefixes of one string are one edge.
LEMMA OneChildOnPath ==
    ASSUME NEW t, WellFormed(t), NEW n \in DOMAIN t,
           NEW c \in t[n].children, NEW d \in t[n].children,
           NEW s \in String, hasPrefix(s, c), hasPrefix(s, d)
    PROVE  c = d
  <1>1. c \in String /\ d \in String /\ Len(n) + 1 \in 1 .. Len(c) /\ Len(n) + 1 \in 1 .. Len(d)
    BY Child
  <1>2. s[Len(n) + 1] = c[Len(n) + 1] /\ s[Len(n) + 1] = d[Len(n) + 1]
    BY <1>1, PrefixChars
  <1> QED BY <1>2, OneChild

\* A walk visits the prefixes of its string that are nodes, down to the first one in stop:
\* it is led past none of them and to no other.
LEMMA WalkVisits ==
    ASSUME NEW t, WellFormed(t), NEW s \in String, NEW stop
    PROVE  Walk(t, s, stop) =
             {n \in DOMAIN t : /\ hasPrefix(s, n)
                               /\ \A m \in DOMAIN t : hasPrefix(n, m) /\ m # n => m \notin stop}
  <1> DEFINE D == DOMAIN t
             P == {n \in D : /\ hasPrefix(s, n)
                             /\ \A m \in D : hasPrefix(n, m) /\ m # n => m \notin stop}
             Closed(V) == /\ <<>> \in V
                          /\ \A n \in V \ stop : \A c \in t[n].children : hasPrefix(s, c) => c \in V
  <1>0. D \in SUBSET String /\ <<>> \in D
    BY TrieType DEF WellFormed, Rooted
  <1>1. Closed(P)
    <2>1. <<>> \in P
      <3>1. ASSUME NEW m \in D, hasPrefix(<<>>, m) PROVE m = <<>>
        <4>1. m \in String /\ Len(m) \in Nat /\ Len(m) <= 0
          BY <1>0, <3>1, EmptyIsPrefix, PrefixChars
        <4> QED BY <4>1, EmptyIsPrefix
      <3> QED BY <1>0, <3>1, EmptyIsPrefix
    <2>2. ASSUME NEW n \in P \ stop, NEW c \in t[n].children, hasPrefix(s, c)
          PROVE  c \in P
      <3>1. /\ n \in String /\ c \in D /\ c \in String
            /\ hasPrefix(c, n) /\ Len(n) < Len(c)
            /\ Len(n) \in Nat /\ Len(c) \in Nat
        BY Child
      <3>2. ASSUME NEW m \in D, hasPrefix(c, m), m # c
            PROVE  m \notin stop
        <4>0. m \in String /\ Len(m) \in Nat
          BY <1>0, EmptyIsPrefix
        <4>1. CASE Len(m) <= Len(n)
          <5>1. hasPrefix(n, m)
            BY <3>1, <3>2, <4>0, <4>1, PrefixesNest
          <5> QED BY <2>2, <5>1
        <4>2. CASE Len(n) < Len(m)
          <5>1. hasPrefix(m, n) /\ m # n
            BY <3>1, <3>2, <4>0, <4>2, PrefixesNest
          <5>2. PICK d \in t[n].children : hasPrefix(m, d)
            BY <5>1 DEF WellFormed, Linked
          <5>3. d \in String
            BY Child
          <5>4. hasPrefix(c, d)
            BY <3>1, <3>2, <4>0, <5>2, <5>3, PrefixTrans
          <5>5. hasPrefix(c, c)
            BY <3>1, EmptyIsPrefix
          <5>6. c = d
            BY <3>1, <5>4, <5>5, OneChildOnPath
          <5>7. Len(m) <= Len(c)
            BY <3>1, <3>2, <4>0, PrefixChars
          <5>8. c = m
            BY <3>1, <4>0, <5>2, <5>6, <5>7, PrefixSameLen
          <5> QED BY <3>2, <5>8
        <4> QED BY <3>1, <4>0, <4>1, <4>2
      <3> QED BY <2>2, <3>1, <3>2
    <2> QED BY <2>1, <2>2
  <1>2. ASSUME NEW V \in SUBSET D, Closed(V), NEW n \in P
        PROVE  n \in V
    <2> DEFINE S == {m \in V : hasPrefix(n, m)}
    <2>1. n \in D /\ n \in String /\ Len(n) \in Nat
      BY <1>0, EmptyIsPrefix
    <2>2. S \in SUBSET String /\ <<>> \in S
      BY <1>0, <1>2, <2>1, EmptyIsPrefix
    <2>3. \A k \in S : Len(k) <= Len(n)
      BY <2>1, <2>2, PrefixChars
    <2>4. PICK m \in S : \A k \in S : Len(k) <= Len(m)
      BY <2>1, <2>2, <2>3, LongestExists
    <2>5. CASE m = n
      BY <2>5
    <2>6. CASE m # n
      <3>1. m \in D /\ m \in String /\ hasPrefix(n, m) /\ m \notin stop
        BY <1>0, <2>6
      <3>2. PICK c \in t[m].children : hasPrefix(n, c)
        BY <2>1, <2>6, <3>1 DEF WellFormed, Linked
      <3>3. c \in String /\ Len(m) < Len(c) /\ Len(m) \in Nat /\ Len(c) \in Nat
        BY <3>1, Child
      <3>4. hasPrefix(s, c)
        BY <2>1, <3>2, <3>3, PrefixTrans
      <3>5. c \in S
        BY <1>2, <3>1, <3>2, <3>4
      <3> QED BY <2>4, <3>3, <3>5
    <2> QED BY <2>5, <2>6
  <1>3. Walk(t, s, stop) = {n \in D : \A V \in SUBSET D : Closed(V) => n \in V}
    BY DEF Walk
  <1>4. P \in SUBSET D
    OBVIOUS
  <1> HIDE DEF P, Closed
  <1>5. Walk(t, s, stop) = P
    BY <1>1, <1>2, <1>3, <1>4
  <1> QED BY <1>5 DEF P

\* The whole walk, MatchAll's and insert's.
LEMMA WalkAll ==
    ASSUME NEW t, WellFormed(t), NEW s \in String
    PROVE  Walk(t, s, {}) = {n \in DOMAIN t : hasPrefix(s, n)}
  BY WalkVisits

(***************************************************************************)
(* Insertion                                                               *)
(***************************************************************************)
\* The last node on the way to key.
LastOn(t, n, key) ==
    /\ n \in DOMAIN t /\ hasPrefix(key, n)
    /\ \A k \in DOMAIN t : hasPrefix(key, k) => Len(k) <= Len(n)

\* u holds what t holds, and key: with value v unless t held it already.
Takes(t, u, key, v) ==
    /\ Valued(u) = Valued(t) \cup {key}
    /\ \A m \in Valued(t) : u[m].value = t[m].value
    /\ key \notin Valued(t) => u[key].value = v

\* Two strings that go on from n share more than n if their next characters are the same.
LEMMA SharesChar ==
    ASSUME NEW n \in String, NEW a \in String, NEW b \in String,
           hasPrefix(a, n), hasPrefix(b, n), Len(n) < Len(a), Len(n) < Len(b)
    PROVE  longestCommonPrefix(a, b) > Len(n) <=> a[Len(n) + 1] = b[Len(n) + 1]
  <1> DEFINE l == longestCommonPrefix(a, b)
  <1>1. /\ l \in Nat /\ l <= Len(a) /\ l <= Len(b)
        /\ \A j \in 1 .. l : a[j] = b[j]
        /\ l < Len(a) /\ l < Len(b) => a[l + 1] # b[l + 1]
    BY CommonPrefix
  <1>2. Len(n) \in Nat /\ Len(a) \in Nat /\ Len(b) \in Nat
    BY EmptyIsPrefix
  <1>3. \A j \in 1 .. Len(n) : a[j] = n[j]
    BY PrefixChars
  <1>4. \A j \in 1 .. Len(n) : b[j] = n[j]
    BY PrefixChars
  <1> HIDE DEF l
  <1>5. ASSUME l > Len(n) PROVE a[Len(n) + 1] = b[Len(n) + 1]
    <2>1. Len(n) + 1 \in 1 .. l
      BY <1>1, <1>2, <1>5
    <2> QED BY <1>1, <2>1
  <1>6. ASSUME a[Len(n) + 1] = b[Len(n) + 1], ~ (l > Len(n)) PROVE FALSE
    <2>1. l < Len(a) /\ l < Len(b) /\ l <= Len(n)
      BY <1>1, <1>2, <1>6
    <2>2. CASE l = Len(n)
      BY <1>1, <1>6, <2>1, <2>2
    <2>3. CASE l < Len(n)
      <3>1. l + 1 \in 1 .. Len(n)
        BY <1>1, <1>2, <2>3
      <3> QED BY <1>1, <1>3, <1>4, <2>1, <3>1
    <2> QED BY <1>1, <1>2, <2>1, <2>2, <2>3
  <1>7. l > Len(n) <=> a[Len(n) + 1] = b[Len(n) + 1]
    BY <1>5, <1>6
  <1> QED BY <1>7 DEF l

\* What is known of the last node on the way to a key that is not a node.
LEMMA LastNode ==
    ASSUME NEW t, WellFormed(t), NEW key \in String, NEW n, LastOn(t, n, key), n # key
    PROVE  /\ n \in DOMAIN t /\ n \in String /\ hasPrefix(key, n)
           /\ Len(n) \in Nat /\ Len(key) \in Nat /\ Len(n) < Len(key) /\ key \notin DOMAIN t
           /\ \A x \in String : hasPrefix(key, x) /\ Len(n) < Len(x) => x \notin DOMAIN t
           /\ \A a \in DOMAIN t : hasPrefix(key, a) =>
                 \/ a = n
                 \/ \E d \in t[a].children : hasPrefix(n, d)
           /\ \A c \in t[n].children : ~ hasPrefix(key, c)
           /\ \A x \in DOMAIN t, p \in String :
                 hasPrefix(key, p) /\ Len(n) < Len(p) /\ hasPrefix(x, p) =>
                    \E c \in t[n].children :
                       hasPrefix(x, c) /\ longestCommonPrefix(key, c) > Len(n)
  <1>1. /\ n \in DOMAIN t /\ n \in String /\ hasPrefix(key, n)
        /\ Len(n) \in Nat /\ Len(key) \in Nat /\ Len(n) <= Len(key)
    <2>1. n \in DOMAIN t /\ hasPrefix(key, n) /\ n \in String
      BY TrieType DEF LastOn, WellFormed
    <2> QED BY <2>1, EmptyIsPrefix, PrefixChars
  <1>2. Len(n) < Len(key)
    BY <1>1, PrefixSameLen
  <1>3. \A x \in String : hasPrefix(key, x) /\ Len(n) < Len(x) => x \notin DOMAIN t
    BY <1>1, EmptyIsPrefix DEF LastOn
  <1>4. key \notin DOMAIN t
    BY <1>2, <1>3, EmptyIsPrefix
  <1>5. ASSUME NEW a \in DOMAIN t, hasPrefix(key, a), a # n
        PROVE  \E d \in t[a].children : hasPrefix(n, d)
    <2>1. a \in String /\ Len(a) \in Nat /\ Len(a) <= Len(n)
      BY <1>5, TrieType, EmptyIsPrefix DEF WellFormed, LastOn
    <2>2. hasPrefix(n, a)
      BY <1>1, <1>5, <2>1, PrefixesNest
    <2> QED BY <1>1, <1>5, <2>2 DEF WellFormed, Linked
  <1>6. \A c \in t[n].children : ~ hasPrefix(key, c)
    BY <1>1, <1>3, Child
  <1>7. ASSUME NEW x \in DOMAIN t, NEW p \in String,
               hasPrefix(key, p), Len(n) < Len(p), hasPrefix(x, p)
        PROVE  \E c \in t[n].children : hasPrefix(x, c) /\ longestCommonPrefix(key, c) > Len(n)
    <2>1. x \in String /\ Len(x) \in Nat /\ Len(p) \in Nat
      BY TrieType, EmptyIsPrefix DEF WellFormed
    <2>2. hasPrefix(p, n)
      BY <1>1, <1>7, <2>1, PrefixesNest
    <2>3. hasPrefix(x, n)
      BY <1>1, <1>7, <2>1, <2>2, PrefixTrans
    <2>4. Len(p) <= Len(x)
      BY <1>7, <2>1, PrefixChars
    <2>5. x # n
      BY <1>1, <1>7, <2>1, <2>4
    <2>6. PICK c \in t[n].children : hasPrefix(x, c)
      BY <1>1, <2>3, <2>5 DEF WellFormed, Linked
    <2>7. /\ c \in String /\ hasPrefix(c, n) /\ Len(n) < Len(c) /\ Len(n) + 1 \in 1 .. Len(c)
      BY <1>1, Child
    <2>8. Len(n) + 1 \in 1 .. Len(p)
      BY <1>1, <1>7, <2>1
    <2>9. x[Len(n) + 1] = c[Len(n) + 1]
      BY <2>1, <2>6, <2>7, PrefixChars
    <2>10. x[Len(n) + 1] = p[Len(n) + 1]
      BY <1>7, <2>1, <2>8, PrefixChars
    <2>11. key[Len(n) + 1] = p[Len(n) + 1]
      BY <1>7, <2>1, <2>8, PrefixChars
    <2>12. longestCommonPrefix(key, c) > Len(n)
      BY <1>1, <1>2, <2>7, <2>9, <2>10, <2>11, SharesChar
    <2> QED BY <2>6, <2>12
  <1> QED BY <1>1, <1>2, <1>3, <1>4, <1>5, <1>6, <1>7

\* The exact match.
LEMMA ValueSet ==
    ASSUME NEW t, WellFormed(t), NEW key \in DOMAIN t, key # <<>>, NEW v \in Nat, NoValue \notin Nat,
           NEW u, u = [t EXCEPT ![key].value = IF @ = NoValue THEN v ELSE @]
    PROVE  WellFormed(u) /\ Takes(t, u, key, v)
  <1>1. /\ DOMAIN t \in SUBSET String
        /\ t \in [DOMAIN t -> [children : SUBSET DOMAIN t, value : Nat \cup {NoValue}]]
    BY TrieType DEF WellFormed
  <1>2. /\ u \in [DOMAIN t -> [children : SUBSET DOMAIN t, value : Nat \cup {NoValue}]]
        /\ \A m \in DOMAIN t : u[m].children = t[m].children
        /\ \A m \in DOMAIN t : m # key => u[m] = t[m]
        /\ u[key].value = IF t[key].value = NoValue THEN v ELSE t[key].value
    BY <1>1
  <1>3. u \in Tries /\ DOMAIN u = DOMAIN t
    BY <1>1, <1>2, TrieType
  <1>4. Rooted(u)
    BY <1>2, <1>3 DEF WellFormed, Rooted
  <1>5. Extending(u) /\ Linked(u) /\ Apart(u)
    BY <1>2, <1>3 DEF WellFormed, Extending, Linked, Apart
  <1>6. Takes(t, u, key, v)
    BY <1>1, <1>2, <1>3 DEF Takes, Valued
  <1> QED BY <1>3, <1>4, <1>5, <1>6 DEF WellFormed

\* A new leaf below the last node, none of whose edges the key starts along.
LEMMA LeafAdded ==
    ASSUME NEW t, WellFormed(t), NEW key \in String, NEW v \in Nat, NoValue \notin Nat,
           NEW n, LastOn(t, n, key), n # key,
           \A c \in t[n].children : ~ (longestCommonPrefix(key, c) > Len(n)),
           NEW u, u = NewLeaf(t, n, key, v)
    PROVE  WellFormed(u) /\ Takes(t, u, key, v)
  <1> DEFINE D == DOMAIN t
             E == D \cup {key}
  <1>1. D \in SUBSET String /\ t \in [D -> [children : SUBSET D, value : Nat \cup {NoValue}]]
    BY TrieType DEF WellFormed
  <1>2. /\ n \in D /\ n \in String /\ hasPrefix(key, n)
        /\ Len(n) \in Nat /\ Len(key) \in Nat /\ Len(n) < Len(key) /\ key \notin D
    BY LastNode
  <1>3. /\ DOMAIN u = E
        /\ \A m \in D : m # n => u[m] = t[m]
        /\ u[n] = [children |-> t[n].children \cup {key}, value |-> t[n].value]
        /\ u[key] = [children |-> {}, value |-> v]
    BY <1>1, <1>2 DEF NewLeaf
  <1>4. /\ u \in [E -> [children : SUBSET E, value : Nat \cup {NoValue}]]
        /\ E \in SUBSET String
    BY <1>1, <1>2, <1>3 DEF NewLeaf
  <1>5. u \in Tries
    BY <1>4, TrieType
  <1>6. Rooted(u)
    BY <1>2, <1>3 DEF WellFormed, Rooted
  <1>7. Extending(u)
    BY <1>2, <1>3 DEF WellFormed, Extending
  <1>8. Linked(u)
    <2> SUFFICES ASSUME NEW a \in E, NEW m \in E, hasPrefix(m, a), m # a
                 PROVE  \E c \in u[a].children : hasPrefix(m, c)
      BY <1>3 DEF Linked
    <2>1. CASE a \in D /\ m \in D
      <3>1. PICK c \in t[a].children : hasPrefix(m, c)
        BY <2>1 DEF WellFormed, Linked
      <3> QED BY <1>3, <2>1, <3>1
    <2>2. CASE a \in D /\ m = key
      <3>1. CASE a = n
        BY <1>2, <1>3, <2>2, <3>1, EmptyIsPrefix
      <3>2. CASE a # n
        <4>1. PICK d \in t[a].children : hasPrefix(n, d)
          BY <2>2, <3>2, LastNode
        <4>2. d \in String
          BY <2>2, Child
        <4>3. hasPrefix(key, d)
          BY <1>2, <4>1, <4>2, PrefixTrans
        <4> QED BY <1>3, <2>2, <3>2, <4>1, <4>3
      <3> QED BY <3>1, <3>2
    <2>3. CASE a = key /\ m \in D
      <3>1. hasPrefix(key, key)
        BY EmptyIsPrefix
      <3>2. PICK c \in t[n].children : longestCommonPrefix(key, c) > Len(n)
        BY <1>2, <2>3, <3>1, LastNode
      <3> QED BY <3>2
    <2> QED BY <2>1, <2>2, <2>3
  <1>9. Apart(u)
    <2> SUFFICES ASSUME NEW a \in E, NEW c \in u[a].children, NEW d \in u[a].children, c # d
                 PROVE  c[Len(a) + 1] # d[Len(a) + 1]
      BY <1>3 DEF Apart
    <2>1. \A e \in t[n].children : key[Len(n) + 1] # e[Len(n) + 1]
      <3> TAKE e \in t[n].children
      <3>1. e \in String /\ hasPrefix(e, n) /\ Len(n) < Len(e)
        BY <1>2, Child
      <3> QED BY <1>2, <3>1, SharesChar
    <2>2. CASE a = n
      <3>1. \A e, f \in t[n].children : e # f => e[Len(n) + 1] # f[Len(n) + 1]
        BY <1>2 DEF WellFormed, Apart
      <3> QED BY <1>3, <2>1, <2>2, <3>1
    <2>3. CASE a # n
      <3>1. a \in D /\ c \in t[a].children /\ d \in t[a].children
        BY <1>3, <2>3
      <3> QED BY <3>1 DEF WellFormed, Apart
    <2> QED BY <2>2, <2>3
  <1>10. Takes(t, u, key, v)
    BY <1>1, <1>2, <1>3 DEF Takes, Valued
  <1> QED BY <1>5, <1>6, <1>7, <1>8, <1>9, <1>10 DEF WellFormed

\* An edge cut in two: what hung below it still hangs there.
LEMMA EdgeSplit ==
    ASSUME NEW t, WellFormed(t), NEW key \in String, NEW v \in Nat, NoValue \notin Nat,
           NEW n, LastOn(t, n, key), n # key,
           NEW c \in t[n].children, longestCommonPrefix(key, c) > Len(n),
           NEW u, u = Split(t, n, c, key, v)
    PROVE  WellFormed(u) /\ Takes(t, u, key, v)
  <1> DEFINE D == DOMAIN t
             l == longestCommonPrefix(key, c)
             mid == SubSeq(key, 1, l)
             E == D \cup {mid, key}
  <1>1. D \in SUBSET String /\ t \in [D -> [children : SUBSET D, value : Nat \cup {NoValue}]]
    BY TrieType DEF WellFormed
  <1>2. /\ n \in D /\ n \in String /\ hasPrefix(key, n)
        /\ Len(n) \in Nat /\ Len(key) \in Nat /\ Len(n) < Len(key) /\ key \notin D
    BY LastNode
  <1>3. /\ c \in D /\ c \in String /\ hasPrefix(c, n) /\ Len(n) < Len(c) /\ Len(c) \in Nat
        /\ ~ hasPrefix(key, c)
    BY <1>2, Child, LastNode
  <1>4. /\ l \in Nat /\ l <= Len(key) /\ l <= Len(c)
        /\ \A j \in 1 .. l : key[j] = c[j]
        /\ l < Len(key) /\ l < Len(c) => key[l + 1] # c[l + 1]
    BY <1>3, CommonPrefix
  <1>5. l > Len(n)
    OBVIOUS
  <1> HIDE DEF l
  <1>6. /\ mid \in String /\ Len(mid) = l
        /\ \A j \in 1 .. l : mid[j] = key[j]
    <2>1. l \in 0 .. Len(key)
      BY <1>2, <1>4
    <2> QED BY <2>1, SubSeqChars
  <1>7. mid = key \/ mid # key
    OBVIOUS
  <1>8. u = [m \in E |->
               IF m = mid THEN [children |-> {c} \cup ({key} \ {mid}),
                                value    |-> IF mid = key THEN v ELSE NoValue]
               ELSE IF m = key THEN [children |-> {}, value |-> v]
               ELSE IF m = n THEN [t[n] EXCEPT !.children = (@ \ {c}) \cup {mid}]
               ELSE t[m]]
    BY DEF Split, l
  <1> HIDE DEF mid
  <1>9. hasPrefix(key, mid) /\ hasPrefix(c, mid)
    BY <1>3, <1>4, <1>6, PrefixChars
  <1>10. hasPrefix(mid, n) /\ mid \notin D /\ mid # n /\ mid # c
    <2>1. hasPrefix(mid, n)
      BY <1>2, <1>5, <1>6, <1>9, <1>4, PrefixesNest
    <2>2. mid \notin D
      BY <1>5, <1>6, <1>9, LastNode
    <2> QED BY <1>2, <1>3, <2>1, <2>2
  <1>11. l < Len(c)
    BY <1>3, <1>4, <1>6, <1>9, <1>10, PrefixSameLen
  <1>12. mid # key => l < Len(key)
    BY <1>2, <1>4, <1>6, <1>9, PrefixSameLen
  <1>13. /\ DOMAIN u = E
         /\ \A m \in D : m # n => u[m] = t[m]
         /\ u[n] = [children |-> (t[n].children \ {c}) \cup {mid}, value |-> t[n].value]
         /\ u[mid] = [children |-> {c} \cup ({key} \ {mid}), value |-> IF mid = key THEN v ELSE NoValue]
         /\ mid # key => u[key] = [children |-> {}, value |-> v]
    BY <1>1, <1>2, <1>8, <1>10
  <1>14. E \in SUBSET String /\ c \in E /\ mid \in E /\ key \in E /\ D \in SUBSET E
    BY <1>1, <1>3, <1>6
  <1>15. u \in [E -> [children : SUBSET E, value : Nat \cup {NoValue}]]
    <2>1. \A m \in E : u[m] \in [children : SUBSET E, value : Nat \cup {NoValue}]
      <3> TAKE m \in E
      <3>1. CASE m = mid
        BY <1>13, <1>14, <3>1
      <3>2. CASE m = key /\ mid # key
        BY <1>13, <3>2
      <3>3. CASE m = n
        BY <1>1, <1>2, <1>13, <1>14, <3>3
      <3>4. CASE m \in D /\ m # n
        BY <1>1, <1>13, <1>14, <3>4
      <3> QED BY <3>1, <3>2, <3>3, <3>4
    <2> QED BY <1>8, <1>13, <2>1
  <1>16. u \in Tries
    BY <1>14, <1>15, TrieType
  <1>17. Rooted(u)
    BY <1>13 DEF WellFormed, Rooted
  <1>18. Extending(u)
    <2> SUFFICES ASSUME NEW a \in E, NEW d \in u[a].children
                 PROVE  hasPrefix(d, a) /\ Len(a) < Len(d)
      BY <1>13 DEF Extending
    <2>1. CASE a = mid
      BY <1>6, <1>9, <1>11, <1>12, <1>13, <2>1
    <2>2. CASE a = key /\ mid # key
      BY <1>13, <2>2
    <2>3. CASE a = n
      <3>1. CASE d = mid
        BY <1>5, <1>6, <1>10, <2>3, <3>1
      <3>2. CASE d # mid
        <4>1. d \in t[n].children
          BY <1>13, <2>3, <3>2
        <4> QED BY <1>2, <2>3, <4>1, Child
      <3> QED BY <3>1, <3>2
    <2>4. CASE a \in D /\ a # n
      BY <1>13, <2>4, Child
    <2> QED BY <2>1, <2>2, <2>3, <2>4
  <1>19. \A x \in D : hasPrefix(x, mid) => hasPrefix(x, c)
    <2> SUFFICES ASSUME NEW x \in D, hasPrefix(x, mid) PROVE hasPrefix(x, c)
      OBVIOUS
    <2>1. PICK d \in t[n].children : hasPrefix(x, d) /\ longestCommonPrefix(key, d) > Len(n)
      BY <1>5, <1>6, <1>9, LastNode
    <2>2. d \in String /\ hasPrefix(d, n) /\ Len(n) < Len(d)
      BY <1>2, Child
    <2>3. key[Len(n) + 1] = d[Len(n) + 1]
      BY <1>2, <2>1, <2>2, SharesChar
    <2>4. key[Len(n) + 1] = c[Len(n) + 1]
      BY <1>2, <1>3, <1>5, SharesChar DEF l
    <2>5. c = d
      BY <1>2, <2>3, <2>4, OneChild
    <2> QED BY <2>1, <2>5
  <1>20. mid # key => ~ hasPrefix(c, key)
    <2> SUFFICES ASSUME mid # key, hasPrefix(c, key) PROVE FALSE
      OBVIOUS
    <2>1. l < Len(key) /\ l + 1 \in 1 .. Len(key)
      BY <1>2, <1>4, <1>12
    <2>2. c[l + 1] = key[l + 1]
      BY <1>3, <2>1, PrefixChars
    <2> QED BY <1>4, <1>11, <2>1, <2>2
  <1>21. Linked(u)
    <2> SUFFICES ASSUME NEW a \in E, NEW m \in E, hasPrefix(m, a), m # a
                 PROVE  \E d \in u[a].children : hasPrefix(m, d)
      BY <1>13 DEF Linked
    <2>0. a \in String /\ m \in String
      BY <1>14
    <2>1. CASE a = n /\ m \in D
      <3>1. PICK d \in t[n].children : hasPrefix(m, d)
        BY <1>2, <2>1 DEF WellFormed, Linked
      <3>2. CASE d # c
        BY <1>13, <2>1, <3>1, <3>2
      <3>3. CASE d = c
        <4>1. hasPrefix(m, mid)
          BY <1>3, <1>6, <1>9, <2>0, <3>1, <3>3, PrefixTrans
        <4> QED BY <1>13, <2>1, <4>1
      <3> QED BY <3>2, <3>3
    <2>2. CASE a = n /\ m \in {mid, key}
      <3>1. hasPrefix(m, mid)
        BY <1>6, <1>9, <2>2, EmptyIsPrefix
      <3> QED BY <1>13, <2>2, <3>1
    <2>3. CASE a \in D /\ a # n /\ m \in D
      <3>1. PICK d \in t[a].children : hasPrefix(m, d)
        BY <2>3 DEF WellFormed, Linked
      <3> QED BY <1>13, <2>3, <3>1
    <2>4. CASE a \in D /\ a # n /\ m \in {mid, key}
      <3>1. hasPrefix(key, a)
        BY <1>6, <1>9, <2>0, <2>4, PrefixTrans
      <3>2. PICK d \in t[a].children : hasPrefix(n, d)
        BY <2>4, <3>1, LastNode
      <3>3. d \in String
        BY <2>4, Child
      <3>4. hasPrefix(m, d)
        BY <1>2, <1>6, <1>10, <2>4, <3>2, <3>3, PrefixTrans
      <3> QED BY <1>13, <2>4, <3>2, <3>4
    <2>5. CASE a = mid /\ m \in D
      BY <1>13, <1>19, <2>5
    <2>6. CASE a = mid /\ m = key
      BY <1>13, <2>6, EmptyIsPrefix
    <2>7. CASE a = key /\ mid # key /\ m \in D
      <3>1. hasPrefix(m, mid)
        BY <1>6, <1>9, <2>0, <2>7, PrefixTrans
      <3>2. hasPrefix(m, c)
        BY <1>19, <2>7, <3>1
      <3>3. CASE Len(c) <= Len(key)
        BY <1>3, <2>0, <2>7, <3>2, <3>3, PrefixesNest
      <3>4. CASE Len(key) < Len(c)
        <4>1. hasPrefix(c, key)
          BY <1>2, <1>3, <2>0, <2>7, <3>2, <3>4, PrefixesNest
        <4> QED BY <1>20, <2>7, <4>1
      <3> QED BY <1>2, <1>3, <3>3, <3>4
    <2>8. CASE a = key /\ mid # key /\ m = mid
      BY <1>6, <1>9, <1>12, <1>2, <1>4, <2>8, PrefixChars
    <2> QED BY <2>1, <2>2, <2>3, <2>4, <2>5, <2>6, <2>7, <2>8
  <1>22. Apart(u)
    <2> SUFFICES ASSUME NEW a \in E, NEW d \in u[a].children, NEW e \in u[a].children, d # e
                 PROVE  d[Len(a) + 1] # e[Len(a) + 1]
      BY <1>13 DEF Apart
    <2>1. CASE a = mid
      <3>1. mid # key
        BY <1>13, <2>1
      <3>2. (d = c /\ e = key) \/ (d = key /\ e = c)
        BY <1>13, <2>1
      <3>3. key[l + 1] # c[l + 1]
        BY <1>4, <1>11, <1>12, <3>1
      <3> QED BY <1>6, <2>1, <3>2, <3>3
    <2>2. CASE a = key /\ mid # key
      BY <1>13, <2>2
    <2>3. CASE a = n
      <3>1. \A f, g \in t[n].children : f # g => f[Len(n) + 1] # g[Len(n) + 1]
        BY <1>2 DEF WellFormed, Apart
      <3>2. Len(n) + 1 \in 1 .. l
        BY <1>2, <1>4, <1>5
      <3>3. mid[Len(n) + 1] = c[Len(n) + 1]
        BY <1>4, <1>6, <3>2
      <3>4. \A f \in t[n].children \ {c} : f[Len(n) + 1] # mid[Len(n) + 1]
        BY <3>1, <3>3
      <3>5. d \in (t[n].children \ {c}) \cup {mid} /\ e \in (t[n].children \ {c}) \cup {mid}
        BY <1>13, <2>3
      <3> QED BY <2>3, <3>1, <3>4, <3>5
    <2>4. CASE a \in D /\ a # n
      <3>1. d \in t[a].children /\ e \in t[a].children
        BY <1>13, <2>4
      <3> QED BY <2>4, <3>1 DEF WellFormed, Apart
    <2> QED BY <2>1, <2>2, <2>3, <2>4
  <1>23. Takes(t, u, key, v)
    <2>1. \A m \in D : u[m].value = t[m].value
      BY <1>13
    <2>2. u[key].value = v
      BY <1>13
    <2>3. mid # key => u[mid].value = NoValue
      BY <1>13
    <2> QED BY <1>2, <1>13, <2>1, <2>2, <2>3 DEF Takes, Valued
  <1> QED BY <1>16, <1>17, <1>18, <1>21, <1>22, <1>23 DEF WellFormed

\* Insert keeps a trie well formed and adds the key to what it holds, or, refusing it,
\* leaves the trie as it is.
LEMMA InsertTakes ==
    ASSUME NEW t, WellFormed(t), NEW key \in String, NEW v \in Nat, NoValue \notin Nat
    PROVE  /\ WellFormed(Insert(t, key, v))
           /\ Refused(t, key) <=> key = <<>> \/ key \in Valued(t)
           /\ key = <<>> => Insert(t, key, v) = t
           /\ key # <<>> => Takes(t, Insert(t, key, v), key, v)
  <1> DEFINE path == Walk(t, key, {})
             n == CHOOSE m \in path : \A k \in path : Len(k) <= Len(m)
             touching == {c \in t[n].children : longestCommonPrefix(key, c) > Len(n)}
             u == insert(t, key, v)
  <1>1. path = {m \in DOMAIN t : hasPrefix(key, m)}
    BY WalkAll
  <1>2. DOMAIN t \in SUBSET String /\ <<>> \in DOMAIN t /\ Len(key) \in Nat
    BY TrieType, EmptyIsPrefix DEF WellFormed, Rooted
  <1>3. LastOn(t, n, key)
    <2>1. path \in SUBSET String /\ path # {}
      BY <1>1, <1>2, EmptyIsPrefix
    <2>2. \A k \in path : Len(k) <= Len(key)
      BY <1>1, <1>2, PrefixChars
    <2>3. \E m \in path : \A k \in path : Len(k) <= Len(m)
      BY <1>2, <2>1, <2>2, LongestExists
    <2>4. n \in path /\ \A k \in path : Len(k) <= Len(n)
      BY <2>3
    <2> QED BY <1>1, <2>4 DEF LastOn
  <1>4. u = IF n = key THEN [t EXCEPT ![n].value = IF @ = NoValue THEN v ELSE @]
            ELSE IF touching = {} THEN NewLeaf(t, n, key, v)
            ELSE Split(t, n, CHOOSE c \in touching : TRUE, key, v)
    BY DEF insert
  <1>5. Refused(t, key) <=> key = <<>> \/ key \in Valued(t)
    BY <1>1, EmptyIsPrefix DEF Refused, Valued
  <1> HIDE DEF path, n, u
  <1>6. ASSUME key # <<>> PROVE WellFormed(u) /\ Takes(t, u, key, v)
    <2>1. CASE n = key
      <3>1. key \in DOMAIN t
        BY <1>3, <2>1 DEF LastOn
      <3>2. u = [t EXCEPT ![key].value = IF @ = NoValue THEN v ELSE @]
        BY <1>4, <2>1
      <3> QED BY <1>6, <3>1, <3>2, ValueSet
    <2>2. CASE n # key /\ touching = {}
      <3>1. u = NewLeaf(t, n, key, v)
        BY <1>4, <2>2
      <3> QED BY <1>3, <2>2, <3>1, LeafAdded
    <2>3. CASE n # key /\ touching # {}
      <3>1. PICK c \in touching : c = CHOOSE d \in touching : TRUE
        BY <2>3
      <3>2. u = Split(t, n, c, key, v)
        BY <1>4, <2>3, <3>1
      <3>3. c \in t[n].children /\ longestCommonPrefix(key, c) > Len(n)
        BY <3>1
      <3> QED BY <1>3, <2>3, <3>2, <3>3, EdgeSplit
    <2> QED BY <2>1, <2>2, <2>3
  <1> QED BY <1>5, <1>6 DEF Insert, u

\* A new trie is well formed and holds nothing.
LEMMA NewTrieEmpty ==
    WellFormed(NewTrie) /\ Valued(NewTrie) = {}
  <1>1. /\ DOMAIN NewTrie = {<<>>}
        /\ NewTrie[<<>>] = [children |-> {}, value |-> NoValue]
        /\ NewTrie \in [{<<>>} -> [children : SUBSET {<<>>}, value : Nat \cup {NoValue}]]
    BY DEF NewTrie
  <1>2. {<<>>} \in SUBSET String
    BY EmptyIsPrefix
  <1>3. NewTrie \in Tries
    BY <1>1, <1>2, TrieType
  <1> HIDE DEF NewTrie
  <1>4. Rooted(NewTrie) /\ Extending(NewTrie) /\ Linked(NewTrie) /\ Apart(NewTrie)
    BY <1>1 DEF Rooted, Extending, Linked, Apart
  <1> QED BY <1>1, <1>3, <1>4 DEF WellFormed, Valued

\* ShortestMatch finds the value at the shortest prefix that has one.
LEMMA ShortestFound ==
    ASSUME NEW t, WellFormed(t), NEW s \in String
    PROVE  LET found == MatchAll(t, s)
           IN /\ found = {n \in Valued(t) : hasPrefix(s, n)}
              /\ found = {} => ShortestMatch(t, s) = NoValue
              /\ found # {} => \E n \in found : /\ ShortestMatch(t, s) = t[n].value
                                                /\ \A m \in found : Len(n) <= Len(m)
  <1> DEFINE found == MatchAll(t, s)
             first == Walk(t, s, Valued(t)) \cap Valued(t)
  <1>1. found = {n \in Valued(t) : hasPrefix(s, n)}
    BY WalkAll DEF MatchAll, Valued
  <1>2. first = {n \in Valued(t) : /\ hasPrefix(s, n)
                                   /\ \A m \in Valued(t) : hasPrefix(n, m) => m = n}
    BY WalkVisits DEF Valued
  <1>3. ShortestMatch(t, s) = IF first = {} THEN NoValue ELSE t[CHOOSE n \in first : TRUE].value
    BY DEF ShortestMatch
  <1>4. Valued(t) \in SUBSET String
    BY TrieType DEF WellFormed, Valued
  <1> HIDE DEF found, first
  <1>5. ASSUME NEW n \in first PROVE \A m \in found : Len(n) <= Len(m)
    <2> SUFFICES ASSUME NEW m \in found, ~ (Len(n) <= Len(m)) PROVE FALSE
      OBVIOUS
    <2>1. n \in String /\ m \in String /\ Len(n) \in Nat /\ Len(m) \in Nat
      BY <1>1, <1>2, <1>4, EmptyIsPrefix
    <2>2. hasPrefix(n, m)
      BY <1>1, <1>2, <2>1, PrefixesNest
    <2>3. m = n
      BY <1>1, <1>2, <2>2
    <2> QED BY <2>1, <2>3
  <1>6. ASSUME found # {} PROVE first # {}
    <2> DEFINE R == {Len(m) : m \in found}
    <2>1. R \in SUBSET Nat /\ R # {}
      <3>1. \A m \in found : Len(m) \in Nat
        BY <1>1, <1>4, EmptyIsPrefix
      <3>2. PICK m \in found : TRUE
        BY <1>6
      <3> QED BY <3>1, <3>2
    <2>2. Min(R) \in R /\ \A y \in R : Min(R) <= y
      BY <2>1, MinIsLeast
    <2>3. PICK n \in found : \A m \in found : Len(n) <= Len(m)
      BY <2>2
    <2>4. ASSUME NEW m \in Valued(t), hasPrefix(n, m) PROVE m = n
      <3>1. n \in String /\ m \in String /\ hasPrefix(s, n)
        BY <1>1, <1>4
      <3>2. hasPrefix(s, m)
        BY <2>4, <3>1, PrefixTrans
      <3>3. Len(n) <= Len(m)
        BY <1>1, <2>3, <3>2
      <3> QED BY <2>4, <3>1, <3>3, PrefixSameLen
    <2> QED BY <1>1, <1>2, <2>4
  <1>7. ASSUME found # {}
        PROVE  \E n \in found : /\ ShortestMatch(t, s) = t[n].value
                                /\ \A m \in found : Len(n) <= Len(m)
    <2>1. PICK n \in first : n = CHOOSE k \in first : TRUE
      BY <1>6, <1>7
    <2>2. ShortestMatch(t, s) = t[n].value
      BY <1>3, <2>1
    <2>3. n \in found
      BY <1>1, <1>2
    <2> QED BY <1>5, <2>2, <2>3
  <1>8. ASSUME found = {} PROVE ShortestMatch(t, s) = NoValue
    <2>1. first = {}
      BY <1>1, <1>2, <1>8
    <2> QED BY <1>3, <2>1
  <1> QED BY <1>1, <1>7, <1>8 DEF found

(***************************************************************************)
(* The inductive invariant of the revocation list                          *)
(***************************************************************************)
Work == [rev : Revocation, bucket : Epoch \cup {-1}]

RevokerTypeOK ==
    /\ now \in Time
    /\ published \in SUBSET Revocation
    /\ stream \in Seq(Revocation)
    /\ worker \in [Worker -> Work \cup {NoWork}]
    /\ revokeMaps \in [Stems -> Time \cup {NoValue}]
    /\ buckets \in Seq([since : Epoch, trie : Tries])
    /\ stored \in SUBSET [rev : Revocation, bucket : Epoch]

\* The row of tries: one for every rotation, the newest first, at most Keep of them.
Row ==
    /\ buckets # <<>>
    /\ Len(buckets) = Min({Keep, epoch + 1})
    /\ \A i \in DOMAIN buckets : buckets[i].since = epoch - (i - 1)

AllWellFormed == \A i \in DOMAIN buckets : WellFormed(buckets[i].trie)

\* Whatever is on its way or was applied was asked for.
Underway ==
    /\ \A i \in DOMAIN stream : stream[i] \in published
    /\ \A w \in Worker : worker[w] # NoWork =>
          worker[w].rev \in published /\ worker[w].bucket <= epoch

Applied ==
    /\ \A s \in Stems : revokeMaps[s] # NoValue =>
          [star |-> FALSE, scope |-> s, when |-> revokeMaps[s]] \in published
    /\ \A x \in stored : x.rev \in published /\ x.rev.star /\ x.bucket <= epoch

\* A trie of the row holds what was stored in it, with the time it was stored with.
Holds(t, since, S) ==
    /\ \A x \in S : x.bucket = since =>
          x.rev.scope \in Valued(t) /\ t[x.rev.scope].value = x.rev.when
    /\ \A n \in Valued(t) : \E x \in S : x.bucket = since /\ x.rev.scope = n

HoldsStored == \A i \in DOMAIN buckets : Holds(buckets[i].trie, buckets[i].since, stored)

RevokerInv ==
    RevokerTypeOK /\ Row /\ AllWellFormed /\ Underway /\ Applied /\ HoldsStored

\* Revocations have scopes that are strings and times that are numbers.
LEMMA RevocationType ==
    /\ Stems \subseteq String /\ Subject \subseteq String
    /\ Time \subseteq Nat /\ Epoch \subseteq Nat /\ NoValue \notin Nat /\ Keep \in Nat /\ Keep > 0
    /\ \A rev \in Revocation : /\ rev.scope \in Stems /\ rev.scope \in String
                               /\ rev.when \in Time /\ rev.when \in Nat /\ rev.star \in BOOLEAN
  <1>1. Stems \subseteq String /\ Subject \subseteq String
    BY RevokerAssumption DEF Stems, String
  <1>2. Time \subseteq Nat /\ Epoch \subseteq Nat /\ NoValue \notin Nat /\ Keep \in Nat /\ Keep > 0
    BY RevokerAssumption DEF Time, Epoch
  <1>3. \A rev \in Revocation : rev.scope \in Stems /\ rev.when \in Time /\ rev.star \in BOOLEAN
    BY DEF Revocation, Stems
  <1> QED BY <1>1, <1>2, <1>3

\* The lesser of two numbers.
LEMMA MinOfTwo ==
    ASSUME NEW a \in Nat, NEW b \in Nat
    PROVE  Min({a, b}) = IF a <= b THEN a ELSE b
  <1>1. {a, b} \in SUBSET Nat /\ {a, b} # {}
    OBVIOUS
  <1>2. Min({a, b}) \in {a, b} /\ Min({a, b}) <= a /\ Min({a, b}) <= b
    BY <1>1, MinIsLeast
  <1> QED BY <1>2

\* The elements of a sequence.
LEMMA SeqElements ==
    ASSUME NEW S, NEW q \in Seq(S)
    PROVE  /\ Len(q) \in Nat /\ DOMAIN q = 1 .. Len(q)
           /\ \A i \in DOMAIN q : q[i] \in S /\ i \in Nat
  OBVIOUS

\* A function on 1 .. k is a sequence.
LEMMA SeqMade ==
    ASSUME NEW S, NEW k \in Nat, NEW f \in [1 .. k -> S]
    PROVE  f \in Seq(S) /\ Len(f) = k /\ (k # 0 => f # <<>>)
  <1>1. f \in Seq(S)
    OBVIOUS
  <1>2. Len(f) = k
    BY <1>1, SeqElements
  <1> QED BY <1>1, <1>2

\* A new element in front, and all but the first l cut off.
LEMMA SeqPushed ==
    ASSUME NEW S, NEW q \in Seq(S), NEW x \in S, NEW l \in Nat, 1 <= l, l <= Len(q) + 1,
           NEW r, r = SubSeq(<<x>> \o q, 1, l)
    PROVE  /\ r \in Seq(S) /\ Len(r) = l /\ DOMAIN r = 1 .. l /\ r[1] = x
           /\ \A i \in 1 .. l : i # 1 => i - 1 \in DOMAIN q /\ r[i] = q[i - 1]
  <1>1. PICK p : p = <<x>> \o q
    OBVIOUS
  <1>2. /\ p \in Seq(S) /\ Len(p) = Len(q) + 1 /\ p[1] = x
        /\ \A i \in 1 .. Len(p) : i # 1 => p[i] = q[i - 1]
    BY <1>1
  <1>3. /\ r \in Seq(S) /\ Len(r) = l /\ \A i \in 1 .. l : r[i] = p[i]
    BY <1>1, <1>2
  <1> QED BY <1>2, <1>3, SeqElements

\* The row, spelled out.
LEMMA RowFacts ==
    ASSUME RevokerTypeOK, Row
    PROVE  /\ Len(buckets) \in Nat \ {0} /\ DOMAIN buckets = 1 .. Len(buckets)
           /\ 1 \in DOMAIN buckets /\ epoch \in Epoch /\ epoch \in Nat
           /\ Len(buckets) = IF Keep <= epoch + 1 THEN Keep ELSE epoch + 1
           /\ \A i \in DOMAIN buckets : /\ buckets[i] \in [since : Epoch, trie : Tries]
                                        /\ buckets[i].since \in Nat
                                        /\ i \in Nat /\ buckets[i].since = epoch - (i - 1)
           /\ \A i, j \in DOMAIN buckets : buckets[i].since = buckets[j].since => i = j
  <1>1. Len(buckets) \in Nat /\ DOMAIN buckets = 1 .. Len(buckets) /\ Len(buckets) # 0
    BY DEF RevokerTypeOK, Row
  <1>2. \A i \in DOMAIN buckets : buckets[i] \in [since : Epoch, trie : Tries] /\ i \in Nat
    BY SeqElements DEF RevokerTypeOK
  <1>3. 1 \in DOMAIN buckets
    BY <1>1
  <1>4. epoch \in Epoch /\ epoch \in Nat
    BY <1>2, <1>3, RevocationType DEF epoch
  <1>5. Len(buckets) = IF Keep <= epoch + 1 THEN Keep ELSE epoch + 1
    <2>1. Keep \in Nat /\ epoch + 1 \in Nat
      BY <1>4, RevocationType
    <2> QED BY <2>1, MinOfTwo DEF Row
  <1>6. \A i \in DOMAIN buckets : buckets[i].since = epoch - (i - 1)
    BY DEF Row
  <1>7. \A i, j \in DOMAIN buckets : buckets[i].since = buckets[j].since => i = j
    BY <1>2, <1>4, <1>6
  <1>8. \A i \in DOMAIN buckets : buckets[i].since \in Nat
    BY <1>2, RevocationType
  <1> QED BY <1>1, <1>2, <1>3, <1>4, <1>5, <1>6, <1>7, <1>8

\* Steps that leave the row and what is stored in it alone.
LEMMA RowUntouched ==
    ASSUME RevokerInv, UNCHANGED <<buckets, stored>>
    PROVE  /\ Row' /\ AllWellFormed' /\ HoldsStored' /\ epoch' = epoch
           /\ (buckets \in Seq([since : Epoch, trie : Tries]))'
           /\ (stored \in SUBSET [rev : Revocation, bucket : Epoch])'
  <1> USE DEF RevokerInv
  <1>1. epoch' = epoch
    BY DEF epoch
  <1>2. Row'
    BY <1>1 DEF Row
  <1>3. AllWellFormed' /\ HoldsStored'
    BY DEF AllWellFormed, HoldsStored
  <1>4. (buckets \in Seq([since : Epoch, trie : Tries]))'
    BY DEF RevokerTypeOK
  <1>5. (stored \in SUBSET [rev : Revocation, bucket : Epoch])'
    BY DEF RevokerTypeOK
  <1> QED BY <1>1, <1>2, <1>3, <1>4, <1>5

\* A list just made keeps the invariant of its row.
LEMMA FreshRow ==
    ASSUME buckets' = <<[since |-> 0, trie |-> NewTrie]>>, stored' = {}
    PROVE  /\ Row' /\ AllWellFormed' /\ HoldsStored' /\ epoch' = 0
           /\ buckets' \in Seq([since : Epoch, trie : Tries])
  <1>1. /\ DOMAIN buckets' = {1} /\ Len(buckets') = 1 /\ buckets' # <<>>
        /\ buckets'[1] = [since |-> 0, trie |-> NewTrie]
    OBVIOUS
  <1>2. 0 \in Epoch /\ NewTrie \in Tries
    BY NewTrieEmpty, RevokerAssumption DEF Epoch, WellFormed
  <1>3. buckets' \in Seq([since : Epoch, trie : Tries])
    BY <1>2
  <1>4. epoch' = 0
    BY <1>1 DEF epoch
  <1>5. Row'
    <2>1. Min({Keep, 0 + 1}) = 1
      BY RevocationType, MinOfTwo
    <2> QED BY <1>1, <1>4, <2>1 DEF Row
  <1>6. AllWellFormed'
    BY <1>1, NewTrieEmpty DEF AllWellFormed
  <1>7. HoldsStored'
    BY <1>1, NewTrieEmpty DEF HoldsStored, Holds
  <1> QED BY <1>3, <1>4, <1>5, <1>6, <1>7

\* Tick keeps the invariant.
LEMMA TickKeeps ==
    ASSUME RevokerInv, Tick
    PROVE  RevokerInv'
  <1> USE DEF RevokerInv, Tick
  <1>1. Row' /\ AllWellFormed' /\ HoldsStored' /\ epoch' = epoch
    BY RowUntouched
  <1>2. now' \in Time
    BY RevokerAssumption DEF RevokerTypeOK, Time
  <1>3. RevokerTypeOK'
    BY <1>2 DEF RevokerTypeOK
  <1>4. Underway' /\ Applied'
    BY <1>1 DEF Underway, Applied
  <1> QED BY <1>1, <1>3, <1>4

\* Revoke: an entry is asked for and joins the stream.
LEMMA RevokeKeeps ==
    ASSUME RevokerInv, NEW sc \in Scope, NEW t \in Time, Revoke(sc, t)
    PROVE  RevokerInv'
  <1> USE DEF RevokerInv
  <1> DEFINE rev == [star |-> sc.star, scope |-> sc.stem, when |-> t]
  <1>1. Row' /\ AllWellFormed' /\ HoldsStored' /\ epoch' = epoch
    BY RowUntouched DEF Revoke
  <1>2. rev \in Revocation
    BY RevokerAssumption DEF Revocation
  <1>3. published' = published \cup {rev} /\ stream' = Append(stream, rev)
    BY DEF Revoke
  <1> HIDE DEF rev
  <1>4. stream' \in Seq(Revocation)
    BY <1>2, <1>3 DEF RevokerTypeOK
  <1>5. RevokerTypeOK'
    BY <1>2, <1>3, <1>4 DEF RevokerTypeOK, Revoke
  <1>6. Underway'
    <2>1. \A i \in DOMAIN stream' : stream'[i] \in published'
      BY <1>2, <1>3 DEF Underway, RevokerTypeOK
    <2>2. \A w \in Worker : worker'[w] # NoWork =>
             worker'[w].rev \in published' /\ worker'[w].bucket <= epoch'
      BY <1>1, <1>3 DEF Underway, Revoke
    <2> QED BY <2>1, <2>2 DEF Underway
  <1>7. Applied'
    BY <1>1, <1>3 DEF Applied, Revoke
  <1> QED BY <1>1, <1>5, <1>6, <1>7

\* Receive: the first entry of the stream is handed to a goroutine.
LEMMA ReceiveKeeps ==
    ASSUME RevokerInv, NEW w \in Worker, Receive(w)
    PROVE  RevokerInv'
  <1> USE DEF RevokerInv
  <1> DEFINE job == [rev |-> Head(stream), bucket |-> -1]
  <1>1. Row' /\ AllWellFormed' /\ HoldsStored' /\ epoch' = epoch
    BY RowUntouched DEF Receive
  <1>2. /\ stream # <<>> /\ stream' = Tail(stream)
        /\ worker' = [worker EXCEPT ![w] = job]
        /\ UNCHANGED <<now, revokeMaps, buckets, published, stored>>
    BY DEF Receive
  <1>3. stream \in Seq(Revocation) /\ Head(stream) = stream[1] /\ 1 \in DOMAIN stream
    BY <1>2 DEF RevokerTypeOK
  <1>4. Head(stream) \in Revocation /\ Head(stream) \in published
    BY <1>3, SeqElements DEF Underway
  <1>5. /\ stream' \in Seq(Revocation)
        /\ \A i \in DOMAIN stream' : i + 1 \in DOMAIN stream /\ stream'[i] = stream[i + 1]
    BY <1>2, <1>3
  <1>6. job \in Work
    BY <1>4 DEF Work
  <1>7. RevokerTypeOK'
    BY <1>2, <1>5, <1>6 DEF RevokerTypeOK
  <1>8. Underway'
    <2>1. \A i \in DOMAIN stream' : stream'[i] \in published'
      BY <1>2, <1>5 DEF Underway
    <2>2. epoch \in Nat
      BY RowFacts
    <2>3. ASSUME NEW v \in Worker, worker'[v] # NoWork
          PROVE  worker'[v].rev \in published' /\ worker'[v].bucket <= epoch'
      <3>1. CASE v = w
        <4>1. worker'[v] = job
          BY <1>2, <3>1 DEF RevokerTypeOK
        <4> QED BY <1>1, <1>2, <1>4, <2>2, <4>1
      <3>2. CASE v # w
        <4>1. worker'[v] = worker[v]
          BY <1>2, <3>2 DEF RevokerTypeOK
        <4> QED BY <1>1, <1>2, <2>3, <4>1 DEF Underway
      <3> QED BY <3>1, <3>2
    <2> QED BY <2>1, <2>3 DEF Underway
  <1>9. Applied'
    BY <1>1, <1>2 DEF Applied
  <1> QED BY <1>1, <1>7, <1>8, <1>9

\* A goroutine that is done keeps what is known of the others.
LEMMA WorkerDone ==
    ASSUME RevokerInv, NEW w \in Worker, worker' = [worker EXCEPT ![w] = NoWork],
           UNCHANGED <<stream, published>>, epoch' = epoch
    PROVE  Underway' /\ (worker \in [Worker -> Work \cup {NoWork}])'
  <1> USE DEF RevokerInv
  <1>1. worker' \in [Worker -> Work \cup {NoWork}]
    BY DEF RevokerTypeOK
  <1>2. \A v \in Worker : worker'[v] # NoWork => worker'[v] = worker[v]
    BY DEF RevokerTypeOK
  <1> QED BY <1>1, <1>2 DEF Underway

\* What a goroutine that is at work holds.
LEMMA WorkerBusy ==
    ASSUME RevokerInv, NEW w \in Worker, worker[w] # NoWork
    PROVE  /\ worker[w] \in Work /\ worker[w].rev \in Revocation /\ worker[w].rev \in published
           /\ worker[w].bucket \in Epoch \cup {-1} /\ worker[w].bucket <= epoch
  <1>1. worker[w] \in Work
    BY DEF RevokerInv, RevokerTypeOK
  <1> QED BY <1>1 DEF RevokerInv, Underway, Work

\* Insert: the map takes the time of a revocation of exactly this subject.
LEMMA InsertExactKeeps ==
    ASSUME RevokerInv, NEW w \in Worker, InsertExact(w)
    PROVE  RevokerInv'
  <1> USE DEF RevokerInv
  <1> DEFINE rev == worker[w].rev
  <1>1. Row' /\ AllWellFormed' /\ HoldsStored' /\ epoch' = epoch
    BY RowUntouched DEF InsertExact
  <1>2. /\ worker[w] # NoWork /\ rev.star = FALSE
        /\ revokeMaps' = [revokeMaps EXCEPT ![rev.scope] = rev.when]
        /\ worker' = [worker EXCEPT ![w] = NoWork]
        /\ UNCHANGED <<now, stream, buckets, published, stored>>
    BY DEF InsertExact, Doing
  <1>3. rev \in Revocation /\ rev \in published
    BY <1>2, WorkerBusy
  <1>4. /\ rev.scope \in Stems /\ rev.when \in Time
        /\ rev = [star |-> FALSE, scope |-> rev.scope, when |-> rev.when]
    BY <1>2, <1>3 DEF Revocation, Stems
  <1> HIDE DEF rev
  <1>5. Underway' /\ (worker \in [Worker -> Work \cup {NoWork}])'
    BY <1>1, <1>2, WorkerDone
  <1>6. RevokerTypeOK'
    BY <1>2, <1>4, <1>5 DEF RevokerTypeOK
  <1>7. Applied'
    <2>1. ASSUME NEW s \in Stems, revokeMaps'[s] # NoValue
          PROVE  [star |-> FALSE, scope |-> s, when |-> revokeMaps'[s]] \in published'
      <3>1. CASE s = rev.scope
        <4>1. revokeMaps'[s] = rev.when
          BY <1>2, <1>4, <3>1 DEF RevokerTypeOK
        <4>2. [star |-> FALSE, scope |-> s, when |-> revokeMaps'[s]] = rev
          BY <1>4, <3>1, <4>1, Zenon
        <4>3. published' = published
          BY <1>2
        <4> QED BY <1>3, <4>2, <4>3, Zenon
      <3>2. CASE s # rev.scope
        <4>1. revokeMaps'[s] = revokeMaps[s]
          BY <1>2, <3>2 DEF RevokerTypeOK
        <4> QED BY <1>2, <2>1, <4>1 DEF Applied
      <3> QED BY <3>1, <3>2
    <2> QED BY <1>1, <1>2, <2>1 DEF Applied
  <1> QED BY <1>1, <1>5, <1>6, <1>7

\* current(): a goroutine has loaded the newest trie.
LEMMA CurrentKeeps ==
    ASSUME RevokerInv, NEW w \in Worker, Current(w)
    PROVE  RevokerInv'
  <1> USE DEF RevokerInv
  <1>1. Row' /\ AllWellFormed' /\ HoldsStored' /\ epoch' = epoch
    BY RowUntouched DEF Current
  <1>2. /\ worker[w] # NoWork /\ worker' = [worker EXCEPT ![w].bucket = epoch]
        /\ UNCHANGED <<now, stream, revokeMaps, buckets, published, stored>>
    BY DEF Current, Doing
  <1>3. epoch \in Epoch /\ epoch \in Nat
    BY RowFacts
  <1>4. worker[w] \in Work /\ worker[w].rev \in published
    BY <1>2, WorkerBusy
  <1>5. /\ worker'[w] \in Work /\ worker'[w].rev = worker[w].rev /\ worker'[w].bucket = epoch
        /\ \A v \in Worker : v # w => worker'[v] = worker[v]
        /\ worker' \in [Worker -> Work \cup {NoWork}]
    BY <1>2, <1>3, <1>4 DEF RevokerTypeOK, Work
  <1>6. RevokerTypeOK'
    BY <1>2, <1>5 DEF RevokerTypeOK
  <1>7. Underway'
    <2>1. ASSUME NEW v \in Worker, worker'[v] # NoWork
          PROVE  worker'[v].rev \in published' /\ worker'[v].bucket <= epoch'
      <3>1. CASE v = w
        BY <1>1, <1>2, <1>3, <1>4, <1>5, <3>1
      <3>2. CASE v # w
        BY <1>1, <1>2, <1>5, <2>1, <3>2 DEF Underway
      <3> QED BY <3>1, <3>2
    <2> QED BY <1>2, <2>1 DEF Underway
  <1>8. Applied'
    BY <1>1, <1>2 DEF Applied
  <1> QED BY <1>1, <1>6, <1>7, <1>8

\* A trie that takes a prefix holds what was stored and that prefix.
LEMMA TakesHolds ==
    ASSUME NEW t, WellFormed(t), NEW since, NEW S \in SUBSET [rev : Revocation, bucket : Epoch],
           Holds(t, since, S), NEW rev \in Revocation,
           NEW T, T = IF Refused(t, rev.scope) THEN S
                      ELSE S \cup {[rev |-> rev, bucket |-> since]}
    PROVE  /\ WellFormed(Insert(t, rev.scope, rev.when))
           /\ Holds(Insert(t, rev.scope, rev.when), since, T)
  <1> DEFINE key == rev.scope
             u == Insert(t, key, rev.when)
             new == [rev |-> rev, bucket |-> since]
  <1>0. key \in String /\ rev.when \in Nat /\ NoValue \notin Nat
    BY RevocationType
  <1>1. /\ WellFormed(u)
        /\ Refused(t, key) <=> key = <<>> \/ key \in Valued(t)
        /\ key = <<>> => u = t
        /\ key # <<>> => Takes(t, u, key, rev.when)
    BY <1>0, InsertTakes
  <1>2. new.rev = rev /\ new.bucket = since
    OBVIOUS
  <1> HIDE DEF u, key, new
  <1>3. CASE key = <<>>
    BY <1>1, <1>3 DEF u, key
  <1>4. CASE key # <<>> /\ key \in Valued(t)
    <2>1. Valued(u) = Valued(t) /\ T = S
      BY <1>1, <1>4 DEF Takes, key
    <2> QED BY <1>1, <1>4, <2>1 DEF Holds, Takes, u, key
  <1>5. CASE key # <<>> /\ key \notin Valued(t)
    <2>1. T = S \cup {new}
      BY <1>1, <1>5 DEF key, new
    <2>2. /\ Valued(u) = Valued(t) \cup {key} /\ u[key].value = rev.when
          /\ \A m \in Valued(t) : u[m].value = t[m].value
      BY <1>1, <1>5 DEF Takes
    <2>3. \A x \in T : x.bucket = since =>
             x.rev.scope \in Valued(u) /\ u[x.rev.scope].value = x.rev.when
      BY <1>2, <2>1, <2>2 DEF Holds, key
    <2>4. \A n \in Valued(u) : \E x \in T : x.bucket = since /\ x.rev.scope = n
      BY <1>2, <2>1, <2>2 DEF Holds, key
    <2>5. Holds(u, since, T)
      BY <2>3, <2>4 DEF Holds
    <2> QED BY <1>1, <2>5 DEF u, key
  <1> QED BY <1>3, <1>4, <1>5

\* InsertPrefix: the trie that was loaded, if it is still in the row, takes the prefix.
LEMMA InsertPrefixKeeps ==
    ASSUME RevokerInv, NEW w \in Worker, InsertPrefix(w)
    PROVE  RevokerInv'
  <1> USE DEF RevokerInv
  <1> DEFINE rev == worker[w].rev
             b == worker[w].bucket
             at == {i \in DOMAIN buckets : buckets[i].since = b}
             new == [rev |-> rev, bucket |-> b]
             took(i) == Insert(buckets[i].trie, rev.scope, rev.when)
  <1>1. /\ worker[w] # NoWork /\ rev.star = TRUE /\ b # -1
        /\ stored' = IF \E i \in at : ~Refused(buckets[i].trie, rev.scope)
                       THEN stored \cup {new} ELSE stored
        /\ worker' = [worker EXCEPT ![w] = NoWork]
        /\ UNCHANGED <<now, stream, revokeMaps, published>>
    BY DEF InsertPrefix, Doing
  <1>2. buckets' = [i \in DOMAIN buckets |->
                      IF i \in at
                        THEN [buckets[i] EXCEPT !.trie = Insert(@, rev.scope, rev.when)]
                        ELSE buckets[i]]
    BY DEF InsertPrefix
  <1>3. rev \in Revocation /\ rev \in published /\ b \in Epoch /\ b <= epoch
    BY <1>1, WorkerBusy
  <1>4. /\ Len(buckets) \in Nat \ {0} /\ DOMAIN buckets = 1 .. Len(buckets)
        /\ 1 \in DOMAIN buckets
        /\ \A i \in DOMAIN buckets : buckets[i] \in [since : Epoch, trie : Tries]
        /\ \A i, j \in DOMAIN buckets : buckets[i].since = buckets[j].since => i = j
    BY RowFacts
  <1>5. \A i \in at : /\ i \in DOMAIN buckets /\ buckets[i].since = b
                      /\ \A j \in at : j = i
    BY <1>4
  <1>6. /\ DOMAIN buckets' = DOMAIN buckets
        /\ \A i \in at : buckets'[i] = [since |-> buckets[i].since, trie |-> took(i)]
        /\ \A i \in DOMAIN buckets : i \notin at => buckets'[i] = buckets[i]
    BY <1>2, <1>4
  <1>7. at \subseteq DOMAIN buckets /\ \A i \in DOMAIN buckets : i \notin at => buckets[i].since # b
    OBVIOUS
  <1> HIDE DEF rev, b, at
  <1>8. ASSUME NEW i \in at
        PROVE  /\ WellFormed(buckets'[i].trie)
               /\ Holds(buckets'[i].trie, buckets'[i].since, stored')
               /\ buckets'[i].since = buckets[i].since
    <2>1. /\ i \in DOMAIN buckets /\ WellFormed(buckets[i].trie)
          /\ Holds(buckets[i].trie, b, stored)
      BY <1>5 DEF AllWellFormed, HoldsStored
    <2>2. stored' = IF Refused(buckets[i].trie, rev.scope) THEN stored ELSE stored \cup {new}
      BY <1>1, <1>5
    <2>3. stored \in SUBSET [rev : Revocation, bucket : Epoch]
      BY DEF RevokerTypeOK
    <2>4. WellFormed(took(i)) /\ Holds(took(i), b, stored')
      BY <1>3, <2>1, <2>2, <2>3, TakesHolds
    <2> HIDE DEF took
    <2>5. buckets'[i].trie = took(i) /\ buckets'[i].since = buckets[i].since
      <3>1. buckets'[i] = [since |-> buckets[i].since, trie |-> took(i)]
        BY <1>6
      <3> QED BY <3>1
    <2> QED BY <1>5, <2>4, <2>5
  <1>9. ASSUME NEW i \in DOMAIN buckets, i \notin at
        PROVE  /\ WellFormed(buckets'[i].trie)
               /\ Holds(buckets'[i].trie, buckets'[i].since, stored')
               /\ buckets'[i].since = buckets[i].since
    <2>1. buckets'[i] = buckets[i] /\ buckets[i].since # b
      BY <1>6, <1>7, <1>9
    <2>2. WellFormed(buckets[i].trie) /\ Holds(buckets[i].trie, buckets[i].since, stored)
      BY <1>9 DEF AllWellFormed, HoldsStored
    <2>3. stored \subseteq stored' /\ stored' \subseteq stored \cup {new} /\ new.bucket = b
      BY <1>1
    <2>4. Holds(buckets[i].trie, buckets[i].since, stored')
      BY <2>1, <2>2, <2>3 DEF Holds
    <2> QED BY <2>1, <2>2, <2>4
  <1>10. AllWellFormed' /\ HoldsStored'
    BY <1>6, <1>8, <1>9 DEF AllWellFormed, HoldsStored
  <1>11. /\ buckets' \in Seq([since : Epoch, trie : Tries])
         /\ Len(buckets') = Len(buckets) /\ buckets' # <<>>
    <2>1. \A i \in 1 .. Len(buckets) : buckets'[i] \in [since : Epoch, trie : Tries]
      <3> TAKE i \in 1 .. Len(buckets)
      <3>1. CASE i \in at
        <4>1. buckets'[i] = [since |-> buckets[i].since, trie |-> took(i)]
          BY <1>6, <3>1
        <4>2. took(i) \in Tries
          BY <1>8, <3>1, <4>1 DEF WellFormed
        <4> HIDE DEF took
        <4> QED BY <1>4, <4>1, <4>2
      <3>2. CASE i \notin at
        BY <1>4, <1>6, <3>2
      <3> QED BY <3>1, <3>2
    <2>2. buckets' \in [1 .. Len(buckets) -> [since : Epoch, trie : Tries]]
      BY <1>2, <1>4, <2>1
    <2> QED BY <1>4, <2>2, SeqMade
  <1>12. epoch' = epoch
    BY <1>4, <1>8, <1>9 DEF epoch
  <1>13. Row'
    BY <1>6, <1>8, <1>9, <1>11, <1>12 DEF Row
  <1>14. Underway' /\ (worker \in [Worker -> Work \cup {NoWork}])'
    BY <1>1, <1>12, WorkerDone
  <1>15. new \in [rev : Revocation, bucket : Epoch] /\ new.rev = rev /\ new.bucket = b
    BY <1>3
  <1> HIDE DEF new
  <1>16. RevokerTypeOK'
    BY <1>1, <1>11, <1>14, <1>15 DEF RevokerTypeOK
  <1>17. Applied'
    BY <1>1, <1>3, <1>12, <1>15 DEF Applied
  <1> QED BY <1>10, <1>13, <1>14, <1>16, <1>17

\* revokeRotator: an empty trie comes first and the last one may go.
LEMMA RotatorKeeps ==
    ASSUME RevokerInv, revokeRotator
    PROVE  RevokerInv'
  <1> USE DEF RevokerInv
  <1> DEFINE e == epoch + 1
             first == [since |-> e, trie |-> NewTrie]
             L == Min({Len(buckets) + 1, Keep})
  <1>1. /\ epoch < MaxEpoch
        /\ buckets' = SubSeq(<<first>> \o buckets, 1, L)
        /\ UNCHANGED <<now, stream, worker, revokeMaps, published, stored>>
    BY DEF revokeRotator
  <1>2. /\ Len(buckets) \in Nat \ {0} /\ DOMAIN buckets = 1 .. Len(buckets)
        /\ 1 \in DOMAIN buckets /\ epoch \in Epoch /\ epoch \in Nat
        /\ Len(buckets) = IF Keep <= epoch + 1 THEN Keep ELSE epoch + 1
        /\ \A i \in DOMAIN buckets : /\ buckets[i] \in [since : Epoch, trie : Tries]
                                     /\ buckets[i].since = epoch - (i - 1)
    BY RowFacts
  <1>3. L = IF Len(buckets) + 1 <= Keep THEN Len(buckets) + 1 ELSE Keep
    <2>1. Len(buckets) + 1 \in Nat /\ Keep \in Nat
      BY <1>2, RevocationType
    <2> QED BY <2>1, MinOfTwo
  <1>4. e \in Epoch /\ e \in Nat /\ Keep \in Nat /\ Keep > 0
    BY <1>1, <1>2, RevocationType, RevokerAssumption DEF Epoch
  <1> HIDE DEF L, e
  <1>5. first \in [since : Epoch, trie : Tries]
    BY <1>4, NewTrieEmpty DEF WellFormed
  <1>6. L \in Nat /\ 1 <= L /\ L <= Len(buckets) + 1
    BY <1>2, <1>3, <1>4
  <1>7. /\ buckets' \in Seq([since : Epoch, trie : Tries]) /\ Len(buckets') = L
        /\ DOMAIN buckets' = 1 .. L /\ buckets'[1] = first
        /\ \A i \in 1 .. L : i # 1 => i - 1 \in DOMAIN buckets /\ buckets'[i] = buckets[i - 1]
    <2>1. buckets \in Seq([since : Epoch, trie : Tries])
      BY DEF RevokerTypeOK
    <2> DEFINE B == [since : Epoch, trie : Tries]
    <2>2. buckets \in Seq(B) /\ first \in B
      BY <1>5, <2>1
    <2>3. buckets' = SubSeq(<<first>> \o buckets, 1, L)
      BY <1>1
    <2> HIDE DEF first, B
    <2>4. /\ buckets' \in Seq(B) /\ Len(buckets') = L
          /\ DOMAIN buckets' = 1 .. L /\ buckets'[1] = first
          /\ \A i \in 1 .. L : i # 1 => i - 1 \in DOMAIN buckets /\ buckets'[i] = buckets[i - 1]
      BY <1>6, <2>2, <2>3, SeqPushed
    <2> QED BY <2>4 DEF B
  <1>8. epoch' = e /\ buckets' # <<>>
    BY <1>6, <1>7 DEF epoch
  <1>9. Row'
    <2>1. L = Min({Keep, e + 1})
      <3>1. Min({Keep, e + 1}) = IF Keep <= e + 1 THEN Keep ELSE e + 1
        BY <1>4, MinOfTwo
      <3> QED BY <1>2, <1>3, <1>4, <3>1 DEF e
    <2>2. \A i \in 1 .. L : buckets'[i].since = e - (i - 1)
      <3> TAKE i \in 1 .. L
      <3>1. CASE i = 1
        BY <1>4, <1>7, <3>1
      <3>2. CASE i # 1
        <4>1. i - 1 \in DOMAIN buckets /\ buckets'[i] = buckets[i - 1]
          BY <1>7, <3>2
        <4>2. buckets[i - 1].since = epoch - ((i - 1) - 1)
          BY <1>2, <4>1
        <4> QED BY <1>2, <1>6, <4>1, <4>2 DEF e
      <3> QED BY <3>1, <3>2
    <2> QED BY <1>7, <1>8, <2>1, <2>2 DEF Row
  <1>10. AllWellFormed'
    <2> SUFFICES ASSUME NEW i \in 1 .. L PROVE WellFormed(buckets'[i].trie)
      BY <1>7 DEF AllWellFormed
    <2>1. CASE i = 1
      BY <1>7, <2>1, NewTrieEmpty
    <2>2. CASE i # 1
      BY <1>7, <2>2 DEF AllWellFormed
    <2> QED BY <2>1, <2>2
  <1>11. HoldsStored'
    <2> SUFFICES ASSUME NEW i \in 1 .. L PROVE Holds(buckets'[i].trie, buckets'[i].since, stored)
      BY <1>1, <1>7 DEF HoldsStored
    <2>1. CASE i = 1
      <3>1. \A x \in stored : x.bucket \in Nat /\ x.bucket <= epoch
        BY RevocationType DEF Applied, RevokerTypeOK
      <3>2. \A x \in stored : x.bucket # e
        BY <1>2, <3>1 DEF e
      <3> QED BY <1>7, <2>1, <3>2, NewTrieEmpty DEF Holds
    <2>2. CASE i # 1
      BY <1>7, <2>2 DEF HoldsStored
    <2> QED BY <2>1, <2>2
  <1>12. RevokerTypeOK'
    BY <1>1, <1>7 DEF RevokerTypeOK
  <1>13. Underway'
    <2>1. \A v \in Worker : worker[v] # NoWork => worker[v].bucket \in Int /\ worker[v].bucket <= epoch
      <3> SUFFICES ASSUME NEW v \in Worker, worker[v] # NoWork
                   PROVE  worker[v].bucket \in Int /\ worker[v].bucket <= epoch
        OBVIOUS
      <3>1. worker[v].bucket \in Epoch \cup {-1} /\ worker[v].bucket <= epoch
        BY WorkerBusy
      <3>2. Epoch \subseteq Nat
        BY RevocationType
      <3>3. \A b \in Epoch \cup {-1} : b \in Int
        BY <3>2
      <3> QED BY <3>1, <3>3
    <2>2. \A v \in Worker : worker[v] # NoWork => worker[v].bucket <= e
      BY <1>2, <2>1 DEF e
    <2> QED BY <1>1, <1>8, <2>2 DEF Underway
  <1>14. Applied'
    <2>1. \A x \in stored : x.bucket \in Nat /\ x.bucket <= epoch
      BY RevocationType DEF Applied, RevokerTypeOK
    <2>2. \A x \in stored : x.bucket <= e
      BY <1>2, <2>1 DEF e
    <2> QED BY <1>1, <1>8, <2>2 DEF Applied
  <1> QED BY <1>9, <1>10, <1>11, <1>12, <1>13, <1>14

\* The process starts again with an empty list.
LEMMA RestartKeeps ==
    ASSUME RevokerInv, Restart
    PROVE  RevokerInv'
  <1> USE DEF RevokerInv, Restart
  <1>1. /\ Row' /\ AllWellFormed' /\ HoldsStored' /\ epoch' = 0
        /\ buckets' \in Seq([since : Epoch, trie : Tries])
    BY FreshRow
  <1>2. RevokerTypeOK'
    BY <1>1 DEF RevokerTypeOK
  <1>3. Underway'
    BY DEF Underway
  <1>4. Applied'
    BY DEF Applied
  <1> QED BY <1>1, <1>2, <1>3, <1>4

\* The list NewRevoker makes.
LEMMA RevokerInvInit == RevokerInit => RevokerInv
  <1> SUFFICES ASSUME RevokerInit PROVE RevokerInv
    OBVIOUS
  <1> USE DEF RevokerInit
  <1>1. /\ DOMAIN buckets = {1} /\ Len(buckets) = 1 /\ buckets # <<>>
        /\ buckets[1] = [since |-> 0, trie |-> NewTrie]
    OBVIOUS
  <1>2. 0 \in Epoch /\ 0 \in Time /\ NewTrie \in Tries
    BY NewTrieEmpty, RevokerAssumption DEF Epoch, Time, WellFormed
  <1>3. RevokerTypeOK
    BY <1>2 DEF RevokerTypeOK
  <1>4. Row
    <2>1. Min({Keep, 0 + 1}) = 1
      BY RevocationType, MinOfTwo
    <2> QED BY <1>1, <2>1 DEF Row, epoch
  <1>5. AllWellFormed /\ HoldsStored
    BY <1>1, NewTrieEmpty DEF AllWellFormed, HoldsStored, Holds
  <1>6. Underway /\ Applied
    BY DEF Underway, Applied
  <1> QED BY <1>3, <1>4, <1>5, <1>6 DEF RevokerInv

\* Steps that change no variable.
LEMMA RevokerStutter == RevokerInv /\ UNCHANGED revokerVars => RevokerInv'
  <1> SUFFICES ASSUME RevokerInv, UNCHANGED revokerVars PROVE RevokerInv'
    OBVIOUS
  <1> USE DEF RevokerInv, revokerVars
  <1>1. Row' /\ AllWellFormed' /\ HoldsStored' /\ epoch' = epoch
    BY RowUntouched
  <1>2. RevokerTypeOK'
    BY DEF RevokerTypeOK
  <1>3. Underway' /\ Applied'
    BY <1>1 DEF Underway, Applied
  <1> QED BY <1>1, <1>2, <1>3

\* One step, action by action.
LEMMA RevokerInvStep == RevokerInv /\ [RevokerNext]_revokerVars => RevokerInv'
  <1> SUFFICES ASSUME RevokerInv, [RevokerNext]_revokerVars PROVE RevokerInv'
    OBVIOUS
  <1>1. CASE Tick
    BY <1>1, TickKeeps
  <1>2. CASE revokeRotator
    BY <1>2, RotatorKeeps
  <1>3. CASE Restart
    BY <1>3, RestartKeeps
  <1>4. CASE \E sc \in Scope, t \in Time : Revoke(sc, t)
    BY <1>4, RevokeKeeps
  <1>5. CASE \E w \in Worker : Receive(w)
    BY <1>5, ReceiveKeeps
  <1>6. CASE \E w \in Worker : InsertExact(w)
    BY <1>6, InsertExactKeeps
  <1>7. CASE \E w \in Worker : Current(w)
    BY <1>7, CurrentKeeps
  <1>8. CASE \E w \in Worker : InsertPrefix(w)
    BY <1>8, InsertPrefixKeeps
  <1>9. CASE UNCHANGED revokerVars
    BY <1>9, RevokerStutter
  <1> QED BY <1>1, <1>2, <1>3, <1>4, <1>5, <1>6, <1>7, <1>8, <1>9 DEF RevokerNext

\* RevokerInv holds whatever is revoked, received, rotated and restarted in whatever order.
THEOREM RevokerInvariance == RevokerSpec => []RevokerInv
  BY RevokerInvInit, RevokerInvStep, PTL DEF RevokerSpec

\* Every trie of the revocation list is well formed after any insertions: the edges of a node
\* begin with different characters, so that the first child the loops of insert, MatchAll and
\* ShortestMatch accept is the only one, and every node is below the nodes it extends.
THEOREM TriesWellFormed == RevokerSpec => []AllWellFormed
  <1>1. RevokerInv => AllWellFormed
    BY DEF RevokerInv
  <1> QED BY <1>1, RevokerInvariance, PTL

\* What a match in a trie of the row stands for.
LEMMA MatchStored ==
    ASSUME RevokerInv, NEW i \in DOMAIN buckets, NEW s \in Subject,
           NEW n \in MatchAll(buckets[i].trie, s)
    PROVE  \E x \in stored : /\ x.bucket = buckets[i].since /\ x.rev.scope = n
                             /\ buckets[i].trie[n].value = x.rev.when /\ hasPrefix(s, n)
                             /\ x.rev \in published /\ x.rev.star
  <1>1. WellFormed(buckets[i].trie) /\ Holds(buckets[i].trie, buckets[i].since, stored)
    BY DEF RevokerInv, AllWellFormed, HoldsStored
  <1>2. n \in Valued(buckets[i].trie) /\ hasPrefix(s, n)
    BY <1>1, ShortestFound, RevocationType
  <1>3. PICK x \in stored : x.bucket = buckets[i].since /\ x.rev.scope = n
    BY <1>1, <1>2 DEF Holds
  <1>4. buckets[i].trie[n].value = x.rev.when
    BY <1>1, <1>3 DEF Holds
  <1>5. x.rev \in published /\ x.rev.star
    BY DEF RevokerInv, Applied
  <1> QED BY <1>2, <1>3, <1>4, <1>5

\* IsRevoked refuses a token only if a revocation was asked for that covers it: neither the
\* map, which keeps the last write, nor a split edge of a trie makes one up.
THEOREM OnlyTheRevokedDenied == RevokerSpec => []NoFalseDenial
  <1>1. RevokerInv => NoFalseDenial
    <2> SUFFICES ASSUME RevokerInv, NEW s \in Subject, NEW t \in Time, IsRevoked(s, t)
                 PROVE  \E rev \in published : Covers(rev, s, t)
      BY DEF NoFalseDenial
    <2>1. CASE isRevoked(s, t)
      <3> DEFINE rev == [star |-> FALSE, scope |-> s, when |-> revokeMaps[s]]
      <3>1. s \in Stems /\ revokeMaps[s] # NoValue /\ t <= revokeMaps[s]
        BY <2>1 DEF isRevoked
      <3>2. rev \in published
        BY <3>1 DEF RevokerInv, Applied
      <3>3. Covers(rev, s, t)
        BY <3>1 DEF Covers
      <3> QED BY <3>2, <3>3
    <2>2. CASE isRevokedPrefix(s, t)
      <3>1. PICK i \in DOMAIN buckets :
               \E n \in MatchAll(buckets[i].trie, s) : t <= buckets[i].trie[n].value
        BY <2>2 DEF isRevokedPrefix
      <3>2. PICK n \in MatchAll(buckets[i].trie, s) : t <= buckets[i].trie[n].value
        BY <3>1
      <3>3. PICK x \in stored : /\ x.rev.scope = n /\ buckets[i].trie[n].value = x.rev.when
                                /\ hasPrefix(s, n) /\ x.rev \in published /\ x.rev.star
        BY MatchStored
      <3>4. Covers(x.rev, s, t)
        BY <3>2, <3>3 DEF Covers
      <3> QED BY <3>3, <3>4
    <2> QED BY <2>1, <2>2 DEF IsRevoked
  <1> QED BY <1>1, RevokerInvariance, PTL

\* isRevokedPrefix answers for exactly the prefixes that a trie took and that revokeRotator
\* has not dropped, for any number of buckets kept and any interleaving of the goroutines.
THEOREM StoredIsKept == RevokerSpec => []KeptUntilRotatedOut
  <1>1. RevokerInv => KeptUntilRotatedOut
    <2> SUFFICES ASSUME RevokerInv, NEW s \in Subject, NEW t \in Time
                 PROVE  isRevokedPrefix(s, t) <=>
                          \E x \in stored : x.bucket + Keep > epoch /\ Covers(x.rev, s, t)
      BY DEF KeptUntilRotatedOut
    <2> USE DEF RevokerInv
    <2>1. /\ Len(buckets) \in Nat \ {0} /\ DOMAIN buckets = 1 .. Len(buckets) /\ epoch \in Nat
          /\ Len(buckets) = IF Keep <= epoch + 1 THEN Keep ELSE epoch + 1
          /\ \A i \in DOMAIN buckets : i \in Nat /\ buckets[i].since = epoch - (i - 1)
      BY RowFacts
    <2>2. Keep \in Nat
      BY RevocationType
    <2>3. ASSUME NEW x \in stored, x.bucket + Keep > epoch, Covers(x.rev, s, t)
          PROVE  isRevokedPrefix(s, t)
      <3> DEFINE i == epoch - x.bucket + 1
      <3>1. x.bucket \in Nat /\ x.bucket <= epoch /\ x.rev.star
        BY RevocationType DEF Applied, RevokerTypeOK
      <3>2. i \in DOMAIN buckets
        BY <2>1, <2>2, <2>3, <3>1
      <3>3. buckets[i].since = x.bucket
        <4>1. buckets[i].since = epoch - (i - 1)
          BY <2>1, <3>2
        <4> QED BY <2>1, <3>1, <4>1
      <3> HIDE DEF i
      <3>4. WellFormed(buckets[i].trie) /\ Holds(buckets[i].trie, buckets[i].since, stored)
        BY <3>2 DEF AllWellFormed, HoldsStored
      <3>5. /\ x.rev.scope \in Valued(buckets[i].trie)
            /\ buckets[i].trie[x.rev.scope].value = x.rev.when
        BY <3>3, <3>4 DEF Holds
      <3>6. hasPrefix(s, x.rev.scope) /\ t <= x.rev.when
        BY <2>3, <3>1 DEF Covers
      <3>7. x.rev.scope \in MatchAll(buckets[i].trie, s)
        BY <3>4, <3>5, <3>6, ShortestFound, RevocationType
      <3> QED BY <3>2, <3>5, <3>6, <3>7 DEF isRevokedPrefix
    <2>4. ASSUME isRevokedPrefix(s, t)
          PROVE  \E x \in stored : x.bucket + Keep > epoch /\ Covers(x.rev, s, t)
      <3>1. PICK i \in DOMAIN buckets :
               \E n \in MatchAll(buckets[i].trie, s) : t <= buckets[i].trie[n].value
        BY <2>4 DEF isRevokedPrefix
      <3>2. PICK n \in MatchAll(buckets[i].trie, s) : t <= buckets[i].trie[n].value
        BY <3>1
      <3>3. PICK x \in stored : /\ x.bucket = buckets[i].since /\ x.rev.scope = n
                                /\ buckets[i].trie[n].value = x.rev.when
                                /\ hasPrefix(s, n) /\ x.rev.star
        BY MatchStored
      <3>4. Covers(x.rev, s, t)
        BY <3>2, <3>3 DEF Covers
      <3>5. x.bucket + Keep > epoch
        BY <2>1, <2>2, <3>3
      <3> QED BY <3>4, <3>5
    <2> QED BY <2>3, <2>4
  <1> QED BY <1>1, RevokerInvariance, PTL

\* MatchAll finds in a trie exactly the prefixes of a subject that were stored in it, with
\* their times, and ShortestMatch the shortest of them, for any strings and any insertions.
THEOREM MatchesExact == RevokerSpec => []MatchesArePrefixes
  <1>1. RevokerInv => MatchesArePrefixes
    <2> SUFFICES ASSUME RevokerInv, NEW i \in DOMAIN buckets, NEW s \in Subject
                 PROVE  LET t       == buckets[i].trie
                            entries == {x.rev : x \in {y \in stored :
                                                         /\ y.bucket = buckets[i].since
                                                         /\ hasPrefix(s, y.rev.scope)}}
                        IN /\ MatchAll(t, s) = {r.scope : r \in entries}
                           /\ \A r \in entries : t[r.scope].value = r.when
                           /\ IF entries = {} THEN ShortestMatch(t, s) = NoValue
                              ELSE \E r \in entries :
                                      /\ ShortestMatch(t, s) = r.when
                                      /\ \A q \in entries : Len(r.scope) <= Len(q.scope)
      BY DEF MatchesArePrefixes
    <2> USE DEF RevokerInv
    <2> DEFINE t == buckets[i].trie
               since == buckets[i].since
               entries == {x.rev : x \in {y \in stored : /\ y.bucket = since
                                                         /\ hasPrefix(s, y.rev.scope)}}
               found == MatchAll(t, s)
    <2>1. WellFormed(t) /\ Holds(t, since, stored)
      BY DEF AllWellFormed, HoldsStored
    <2>2. /\ found = {n \in Valued(t) : hasPrefix(s, n)}
          /\ found = {} => ShortestMatch(t, s) = NoValue
          /\ found # {} => \E n \in found : /\ ShortestMatch(t, s) = t[n].value
                                            /\ \A m \in found : Len(n) <= Len(m)
      BY <2>1, ShortestFound, RevocationType
    <2> HIDE DEF t, since, found
    <2>3. \A r \in entries : r.scope \in found /\ t[r.scope].value = r.when
      BY <2>1, <2>2 DEF Holds
    <2>4. \A n \in found : \E r \in entries : r.scope = n
      BY <2>1, <2>2 DEF Holds
    <2> HIDE DEF entries
    <2>5. found = {r.scope : r \in entries}
      BY <2>3, <2>4
    <2>6. entries = {} => found = {}
      BY <2>4
    <2>7. ASSUME entries # {}
          PROVE  \E r \in entries : /\ ShortestMatch(t, s) = r.when
                                    /\ \A q \in entries : Len(r.scope) <= Len(q.scope)
      <3>1. found # {}
        BY <2>3, <2>7
      <3>2. PICK n \in found : /\ ShortestMatch(t, s) = t[n].value
                               /\ \A m \in found : Len(n) <= Len(m)
        BY <2>2, <3>1
      <3>3. PICK r \in entries : r.scope = n
        BY <2>4
      <3> QED BY <2>3, <3>2, <3>3
    <2> QED BY <2>2, <2>3, <2>5, <2>6, <2>7 DEF t, since, entries, found
  <1> QED BY <1>1, RevokerInvariance, PTL
=============================================================================
