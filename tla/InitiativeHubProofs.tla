-------------------------- MODULE InitiativeHubProofs --------------------------
(***************************************************************************)
(* No watching client misses a write, for any number of publishers and     *)
(* streams and any buffer size.                                            *)
(*                                                                         *)
(* NothingMissed speaks of streams that are live.  To be inductive it must *)
(* hold from Subscribe on, where it rests on the stream being in the map   *)
(* whenever a publisher collects its targets.                              *)
(***************************************************************************)
EXTENDS InitiativeHub, SequenceTheorems, TLAPS

Covered(n, s) ==
    n \in Received(s) \cup Range(chan[s]) \cup lost[s] \/ InFlight(n, s)

Watching(s) == stream[s].stage \in {"joined", "live"}

Registered ==
    \A s \in Streams : Watching(s) => s \in subs /\ stream[s].readAt <= written

AllCovered ==
    \A s \in Streams : Watching(s) =>
        \A n \in stream[s].readAt + 1 .. written : Covered(n, s)

IdleHoldsNothing ==
    \A p \in Publishers : publisher[p].stage = "idle" <=> publisher[p].snap = NoSnapshot

IInv == TypeOK /\ Registered /\ IdleHoldsNothing /\ AllCovered

-----------------------------------------------------------------------------
LEMMA RangeOfAppend ==
    ASSUME NEW S, NEW s \in Seq(S), NEW x \in S
    PROVE  Range(Append(s, x)) = Range(s) \cup {x}
<1>1. /\ DOMAIN Append(s, x) = 1 .. Len(s) + 1 /\ DOMAIN s = 1 .. Len(s)
      /\ Len(s) \in Nat
      /\ \A i \in 1 .. Len(s) : Append(s, x)[i] = s[i]
      /\ Append(s, x)[Len(s) + 1] = x
  BY AppendProperties
<1> DEFINE t == Append(s, x)
<1> HIDE DEF t
<1>2. \A y \in Range(t) : y \in Range(s) \cup {x}
  BY <1>1 DEF Range, t
<1>3. \A y \in Range(s) \cup {x} : y \in Range(t)
  BY <1>1 DEF Range, t
<1>4. QED
  BY <1>2, <1>3 DEF t

LEMMA RangeOfTail ==
    ASSUME NEW S, NEW s \in Seq(S), s # <<>>
    PROVE  Range(s) = Range(Tail(s)) \cup {Head(s)}
<1>1. /\ DOMAIN s = 1 .. Len(s) /\ Len(s) \in Nat /\ Len(s) >= 1
      /\ Tail(s) \in Seq(S) /\ Len(Tail(s)) = Len(s) - 1
      /\ \A i \in 1 .. Len(Tail(s)) : Tail(s)[i] = s[i + 1]
      /\ Head(s) = s[1]
  BY HeadTailProperties
<1> DEFINE t == Tail(s)
<1>2. DOMAIN t = 1 .. Len(s) - 1 /\ \A i \in 1 .. Len(s) - 1 : t[i] = s[i + 1]
  BY <1>1
<1> HIDE DEF t
<1>3. \A y \in Range(t) \cup {s[1]} : y \in Range(s)
  BY <1>1, <1>2 DEF Range
<1>4. ASSUME NEW i \in 1 .. Len(s) PROVE s[i] \in Range(t) \cup {s[1]}
  <2>1. CASE i = 1
    BY <2>1
  <2>2. CASE i # 1
    <3>1. i - 1 \in 1 .. Len(s) - 1 /\ t[i - 1] = s[i]
      BY <1>1, <1>2, <2>2
    <3>2. QED
      BY <1>2, <3>1 DEF Range
  <2>3. QED
    BY <2>1, <2>2
<1>5. QED
  BY <1>1, <1>3, <1>4 DEF Range, t

LEMMA InitHolds == Init => IInv
<1> SUFFICES ASSUME Init PROVE IInv
  OBVIOUS
<1>1. <<>> \in Seq(Snapshots) /\ Len(<<>>) = 0
  BY EmptySeq
<1>2. TypeOK
  BY <1>1, CapacityAssumption, MaxWritesAssumption
     DEF Init, TypeOK, Publisher, Stream, IdlePublisher, NoSnapshot
<1>3. Registered /\ AllCovered /\ IdleHoldsNothing
  BY DEF Init, Registered, AllCovered, Watching, IdleHoldsNothing, IdlePublisher
<1>4. QED
  BY <1>2, <1>3 DEF IInv

-----------------------------------------------------------------------------
\* What is covered stays covered when channels, histories and the publishers
\* that hold it for the stream keep what they have.
LEMMA StaysCovered ==
    ASSUME NEW s \in Streams, NEW n, Covered(n, s),
           Received(s) \cup Range(chan[s]) \cup lost[s]
               \subseteq Received(s)' \cup Range(chan'[s]) \cup lost'[s],
           InFlight(n, s) => Covered(n, s)'
    PROVE  Covered(n, s)'
BY DEF Covered

LEMMA WriteKeeps ==
    ASSUME IInv, NEW p \in Publishers, Write(p)
    PROVE  IInv'
<1> DEFINE w == [publisher[p] EXCEPT !.stage = "publish", !.snap = written + 1]
<1>1. /\ publisher[p] \in Publisher /\ written \in Nat /\ written + 1 \in 0 .. MaxWrites
      /\ publisher \in [Publishers -> Publisher]
  BY MaxWritesAssumption DEF IInv, TypeOK, Write
<1>2. publisher' = [publisher EXCEPT ![p] = w] /\ written' = written + 1
  BY <1>1 DEF Write
<1>3. w \in Publisher /\ w.stage = "publish" /\ w.snap = written + 1
  BY <1>1 DEF Publisher
<1> HIDE DEF w
<1>4. publisher' \in [Publishers -> Publisher]
  BY <1>1, <1>2, <1>3
<1>5. /\ publisher'[p] = w
      /\ \A q \in Publishers \ {p} : publisher'[q] = publisher[q]
  BY <1>1, <1>2
<1>6. TypeOK'
  BY <1>1, <1>2, <1>4 DEF IInv, TypeOK, Write
<1>7. Registered' /\ IdleHoldsNothing'
  <2>1. IdleHoldsNothing'
    BY <1>1, <1>3, <1>5 DEF IInv, IdleHoldsNothing, NoSnapshot
  <2>2. \A s \in Streams : stream[s].readAt \in Nat
    BY MaxWritesAssumption DEF IInv, TypeOK, Stream
  <2>3. Registered'
    BY <1>1, <1>2, <2>2 DEF IInv, Registered, Watching, Write
  <2>4. QED
    BY <2>1, <2>3
<1>8. ASSUME NEW s \in Streams, Watching(s)',
             NEW n \in stream'[s].readAt + 1 .. written'
      PROVE  Covered(n, s)'
  <2>1. n # NoSnapshot /\ Watching(s) /\ stream'[s] = stream[s] /\ n \in Nat
    BY <1>1, <1>2, <1>8 DEF IInv, TypeOK, Stream, Watching, Write, NoSnapshot
  <2>2. CASE n = written + 1
    <3>1. publisher'[p].snap = n /\ publisher'[p].stage # "send"
      BY <1>3, <1>5, <2>2
    <3>2. QED
      BY <3>1 DEF Covered, InFlight
  <2>3. CASE n # written + 1
    <3>1. Covered(n, s)
      BY <1>1, <1>2, <1>8, <2>1, <2>3 DEF IInv, AllCovered, TypeOK, Stream
    <3>2. InFlight(n, s) => InFlight(n, s)'
      BY <1>5, <2>1 DEF InFlight, IInv, IdleHoldsNothing, Write
    <3>3. QED
      BY <2>1, <3>1, <3>2 DEF Covered, Received, Write
  <2>4. QED
    BY <2>2, <2>3
<1>9. QED
  BY <1>6, <1>7, <1>8 DEF IInv, AllCovered

LEMMA CollectKeeps ==
    ASSUME IInv, NEW p \in Publishers, Collect(p)
    PROVE  IInv'
<1> DEFINE w == IF subs = {} THEN IdlePublisher
                ELSE [stage |-> "send", snap |-> publisher[p].snap, targets |-> subs]
<1>1. publisher[p] \in Publisher /\ publisher \in [Publishers -> Publisher]
  BY DEF IInv, TypeOK
<1>2. publisher' = [publisher EXCEPT ![p] = w]
  BY <1>1 DEF Collect
<1>3. /\ w \in Publisher
      /\ w.stage = "idle" <=> w.snap = NoSnapshot
      /\ subs # {} => w.snap = publisher[p].snap /\ w.targets = subs
  BY <1>1, MaxWritesAssumption
     DEF Publisher, IdlePublisher, NoSnapshot, IInv, TypeOK, IdleHoldsNothing, Collect
<1> HIDE DEF w
<1>4. publisher' \in [Publishers -> Publisher]
  BY <1>1, <1>2, <1>3
<1>5. /\ publisher'[p] = w
      /\ \A q \in Publishers \ {p} : publisher'[q] = publisher[q]
  BY <1>1, <1>2
<1>6. TypeOK'
  BY <1>4 DEF IInv, TypeOK, Collect
<1>7. Registered' /\ IdleHoldsNothing'
  BY <1>3, <1>5 DEF IInv, Registered, IdleHoldsNothing, Watching, Collect
<1>8. ASSUME NEW s \in Streams, Watching(s)',
             NEW n \in stream'[s].readAt + 1 .. written'
      PROVE  Covered(n, s)'
  <2>1. Watching(s) /\ Covered(n, s) /\ s \in subs
    BY <1>8 DEF IInv, AllCovered, Registered, Watching, Collect
  <2>2. InFlight(n, s) => InFlight(n, s)'
    BY <1>3, <1>5, <2>1 DEF InFlight
  <2>3. QED
    BY <2>1, <2>2 DEF Covered, Received, Collect
<1>9. QED
  BY <1>6, <1>7, <1>8 DEF IInv, AllCovered

\* A publisher that is done with stream t still holds its snapshot for the
\* other targets.
LEMMA SentKeepsOthers ==
    ASSUME IInv, NEW p \in Publishers, NEW t \in Streams,
           publisher[p].stage = "send", Sent(p, t)
    PROVE  /\ publisher' \in [Publishers -> Publisher]
           /\ IdleHoldsNothing'
           /\ \A n : \A s \in Streams \ {t} : InFlight(n, s) => InFlight(n, s)'
           /\ \A n : InFlight(n, t) => n = publisher[p].snap \/ InFlight(n, t)'
<1> DEFINE w == IF publisher[p].targets = {t} THEN IdlePublisher
                ELSE [stage |-> "send", snap |-> publisher[p].snap,
                      targets |-> publisher[p].targets \ {t}]
<1>1. publisher[p] \in Publisher /\ publisher \in [Publishers -> Publisher]
  BY DEF IInv, TypeOK
<1>2. publisher' = [publisher EXCEPT ![p] = w]
  BY <1>1 DEF Sent
<1>3. /\ w \in Publisher
      /\ w.stage = "idle" <=> w.snap = NoSnapshot
      /\ publisher[p].targets # {t} =>
            w.snap = publisher[p].snap /\ w.targets = publisher[p].targets \ {t}
  BY <1>1, MaxWritesAssumption
     DEF Publisher, IdlePublisher, NoSnapshot, IInv, IdleHoldsNothing
<1> HIDE DEF w
<1>4. publisher' \in [Publishers -> Publisher]
  BY <1>1, <1>2, <1>3
<1>5. /\ publisher'[p] = w
      /\ \A q \in Publishers \ {p} : publisher'[q] = publisher[q]
  BY <1>1, <1>2
<1>6. IdleHoldsNothing'
  BY <1>3, <1>5 DEF IInv, IdleHoldsNothing
<1>7. \A n : \A s \in Streams \ {t} : InFlight(n, s) => InFlight(n, s)'
  BY <1>3, <1>5 DEF InFlight
<1>8. \A n : InFlight(n, t) => n = publisher[p].snap \/ InFlight(n, t)'
  BY <1>5 DEF InFlight
<1>9. QED
  BY <1>4, <1>6, <1>7, <1>8

LEMMA SendKeeps ==
    ASSUME IInv, NEW p \in Publishers, NEW t \in Streams, Send(p, t)
    PROVE  IInv'
<1> DEFINE n0 == publisher[p].snap
<1>1. /\ publisher' \in [Publishers -> Publisher]
      /\ IdleHoldsNothing'
      /\ \A n : \A s \in Streams \ {t} : InFlight(n, s) => InFlight(n, s)'
      /\ \A n : InFlight(n, t) => n = n0 \/ InFlight(n, t)'
  BY SentKeepsOthers DEF Send
<1>2. publisher[p] \in Publisher /\ chan \in [Streams -> Seq(Snapshots)]
  BY DEF IInv, TypeOK
<1>3. n0 \in Snapshots
  BY <1>2 DEF IInv, IdleHoldsNothing, Send, Publisher, Snapshots, NoSnapshot
<1>4. /\ chan' = [chan EXCEPT ![t] = Append(chan[t], n0)]
      /\ chan[t] \in Seq(Snapshots) /\ Len(chan[t]) < Capacity
      /\ Len(chan[t]) \in Nat
  BY <1>2 DEF Send
<1> HIDE DEF n0
<1>5. /\ Append(chan[t], n0) \in Seq(Snapshots)
      /\ Len(Append(chan[t], n0)) = Len(chan[t]) + 1
      /\ Range(Append(chan[t], n0)) = Range(chan[t]) \cup {n0}
  BY <1>3, <1>4, RangeOfAppend, AppendProperties
<1> DEFINE c == Append(chan[t], n0)
<1> HIDE DEF c
<1>6. /\ chan' \in [Streams -> Seq(Snapshots)]
      /\ chan'[t] = c /\ \A s \in Streams \ {t} : chan'[s] = chan[s]
      /\ Len(c) <= Capacity /\ Range(c) = Range(chan[t]) \cup {n0}
  BY <1>2, <1>4, <1>5, CapacityAssumption DEF c
<1>7. TypeOK'
  BY <1>1, <1>6 DEF IInv, TypeOK, Send
<1>8. Registered'
  BY DEF IInv, Registered, Watching, Send
<1>9. ASSUME NEW s \in Streams, Watching(s)',
             NEW n \in stream'[s].readAt + 1 .. written'
      PROVE  Covered(n, s)'
  <2>1. Covered(n, s)
    BY <1>9 DEF IInv, AllCovered, Watching, Send
  <2>2. CASE s = t
    BY <1>1, <1>6, <2>1, <2>2 DEF Covered, Received, Send
  <2>3. CASE s # t
    BY <1>1, <1>6, <2>1, <2>3 DEF Covered, Received, Send
  <2>4. QED
    BY <2>2, <2>3
<1>10. QED
  BY <1>1, <1>7, <1>8, <1>9 DEF IInv, AllCovered

LEMMA DropKeeps ==
    ASSUME IInv, NEW p \in Publishers, NEW t \in Streams, Drop(p, t)
    PROVE  IInv'
<1> DEFINE n0 == publisher[p].snap
           l == lost[t] \cup {n0}
<1>1. /\ publisher' \in [Publishers -> Publisher]
      /\ IdleHoldsNothing'
      /\ \A n : \A s \in Streams \ {t} : InFlight(n, s) => InFlight(n, s)'
      /\ \A n : InFlight(n, t) => n = n0 \/ InFlight(n, t)'
  BY SentKeepsOthers DEF Drop
<1>2. publisher[p] \in Publisher /\ lost \in [Streams -> SUBSET Snapshots]
  BY DEF IInv, TypeOK
<1>3. n0 \in Snapshots
  BY <1>2 DEF IInv, IdleHoldsNothing, Drop, Publisher, Snapshots, NoSnapshot
<1>4. lost' = [lost EXCEPT ![t] = l] /\ l \in SUBSET Snapshots
  BY <1>2, <1>3 DEF Drop
<1>5. /\ lost' \in [Streams -> SUBSET Snapshots]
      /\ lost'[t] = lost[t] \cup {n0}
      /\ \A s \in Streams \ {t} : lost'[s] = lost[s]
  BY <1>2, <1>4
<1> HIDE DEF n0, l
<1>6. TypeOK'
  BY <1>1, <1>5 DEF IInv, TypeOK, Drop
<1>7. Registered'
  BY DEF IInv, Registered, Watching, Drop
<1>8. ASSUME NEW s \in Streams, Watching(s)',
             NEW n \in stream'[s].readAt + 1 .. written'
      PROVE  Covered(n, s)'
  <2>1. Covered(n, s)
    BY <1>8 DEF IInv, AllCovered, Watching, Drop
  <2>2. CASE s = t
    BY <1>1, <1>5, <2>1, <2>2 DEF Covered, Received, Drop
  <2>3. CASE s # t
    BY <1>1, <1>5, <2>1, <2>3 DEF Covered, Received, Drop
  <2>4. QED
    BY <2>2, <2>3
<1>9. QED
  BY <1>1, <1>6, <1>7, <1>8 DEF IInv, AllCovered

LEMMA AbortKeeps ==
    ASSUME IInv, NEW p \in Publishers, Abort(p)
    PROVE  IInv'
<1> DEFINE n0 == publisher[p].snap
<1>1. /\ publisher[p] \in Publisher /\ publisher \in [Publishers -> Publisher]
      /\ lost \in [Streams -> SUBSET Snapshots]
  BY DEF IInv, TypeOK
<1>2. n0 \in Snapshots
  BY <1>1 DEF IInv, IdleHoldsNothing, Abort, Publisher, Snapshots, NoSnapshot
<1>3. /\ publisher' \in [Publishers -> Publisher]
      /\ publisher'[p] = IdlePublisher
      /\ \A q \in Publishers \ {p} : publisher'[q] = publisher[q]
  <2>1. IdlePublisher \in Publisher
    BY MaxWritesAssumption DEF IdlePublisher, Publisher, NoSnapshot
  <2>2. QED
    BY <1>1, <2>1 DEF Abort
<1>4. /\ lost' \in [Streams -> SUBSET Snapshots]
      /\ \A s \in Streams : lost'[s] = lost[s] \cup {n0}
  BY <1>1, <1>2 DEF Abort
<1>5. TypeOK'
  BY <1>3, <1>4 DEF IInv, TypeOK, Abort
<1>6. Registered' /\ IdleHoldsNothing'
  BY <1>3 DEF IInv, Registered, IdleHoldsNothing, Watching, Abort, IdlePublisher
<1>7. \A n : \A s \in Streams : InFlight(n, s) => n = n0 \/ InFlight(n, s)'
  BY <1>3 DEF InFlight
<1> HIDE DEF n0
<1>8. ASSUME NEW s \in Streams, Watching(s)',
             NEW n \in stream'[s].readAt + 1 .. written'
      PROVE  Covered(n, s)'
  <2>1. Covered(n, s)
    BY <1>8 DEF IInv, AllCovered, Watching, Abort
  <2>2. QED
    BY <1>4, <1>7, <2>1 DEF Covered, Received, Abort
<1>9. QED
  BY <1>5, <1>6, <1>8 DEF IInv, AllCovered

-----------------------------------------------------------------------------
\* The stream actions change one stream and leave the publishers alone.
LEMMA SubscribeKeeps ==
    ASSUME IInv, NEW t \in Streams, Subscribe(t)
    PROVE  IInv'
<1> DEFINE v == [stream[t] EXCEPT !.stage = "joined", !.readAt = written]
<1>1. stream[t] \in Stream /\ stream \in [Streams -> Stream] /\ written \in 0 .. MaxWrites
  BY DEF IInv, TypeOK
<1>2. v \in Stream /\ v.readAt = written /\ v.stage = "joined"
  BY <1>1 DEF Stream
<1>3. stream' = [stream EXCEPT ![t] = v]
  BY <1>1 DEF Subscribe
<1> HIDE DEF v
<1>4. /\ stream' \in [Streams -> Stream] /\ stream'[t] = v
      /\ \A s \in Streams \ {t} : stream'[s] = stream[s]
  BY <1>1, <1>2, <1>3
<1>5. TypeOK'
  BY <1>4 DEF IInv, TypeOK, Subscribe
<1>6. Registered' /\ IdleHoldsNothing'
  BY <1>1, <1>2, <1>4 DEF IInv, Registered, IdleHoldsNothing, Watching, Subscribe
<1>7. ASSUME NEW s \in Streams, Watching(s)',
             NEW n \in stream'[s].readAt + 1 .. written'
      PROVE  Covered(n, s)'
  <2>1. s # t
    BY <1>1, <1>2, <1>4, <1>7 DEF Subscribe
  <2>2. Covered(n, s) /\ stream'[s] = stream[s]
    BY <1>4, <1>7, <2>1 DEF IInv, AllCovered, Watching, Subscribe
  <2>3. QED
    BY <2>2 DEF Covered, Received, InFlight, Subscribe
<1>8. QED
  BY <1>5, <1>6, <1>7 DEF IInv, AllCovered

\* Going live moves readAt forward at most.
LEMMA GoLiveKeeps ==
    ASSUME IInv, NEW t \in Streams, ReadInitial(t) \/ ReadFails(t)
    PROVE  IInv'
<1> DEFINE v == stream'[t]
<1>1. stream[t] \in Stream /\ stream \in [Streams -> Stream]
      /\ written \in 0 .. MaxWrites /\ stored \in 0 .. MaxWrites
  BY MaxWritesAssumption DEF IInv, TypeOK
<1>2. /\ v \in Stream /\ v.readAt \in {stream[t].readAt, written}
      /\ v.stage = "live" /\ v.events = stream[t].events
      /\ stream' \in [Streams -> Stream]
      /\ \A s \in Streams \ {t} : stream'[s] = stream[s]
  <2>1. CASE ReadInitial(t)
    <3> DEFINE u == [stream[t] EXCEPT !.stage = "live", !.readAt = written,
                                      !.first = stored]
    <3>1. u \in Stream /\ u.readAt = written /\ u.stage = "live"
          /\ u.events = stream[t].events
      BY <1>1 DEF Stream
    <3>2. stream' = [stream EXCEPT ![t] = u]
      BY <1>1, <2>1 DEF ReadInitial
    <3> HIDE DEF u
    <3>3. QED
      BY <1>1, <3>1, <3>2
  <2>2. CASE ReadFails(t)
    <3> DEFINE u == [stream[t] EXCEPT !.stage = "live"]
    <3>1. u \in Stream /\ u.readAt = stream[t].readAt /\ u.stage = "live"
          /\ u.events = stream[t].events
      BY <1>1 DEF Stream
    <3>2. stream' = [stream EXCEPT ![t] = u]
      BY <1>1, <2>2 DEF ReadFails
    <3> HIDE DEF u
    <3>3. QED
      BY <1>1, <3>1, <3>2
  <2>3. QED
    BY <2>1, <2>2
<1>3. Watching(t) /\ UNCHANGED <<written, stored, publisher, subs, chan, lost>>
  BY DEF ReadInitial, ReadFails, Watching
<1> HIDE DEF v
<1>4. TypeOK'
  BY <1>2, <1>3 DEF IInv, TypeOK
<1>5. Registered' /\ IdleHoldsNothing'
  BY <1>1, <1>2, <1>3 DEF IInv, Registered, IdleHoldsNothing, Watching, v
<1>6. ASSUME NEW s \in Streams, Watching(s)',
             NEW n \in stream'[s].readAt + 1 .. written'
      PROVE  Covered(n, s)'
  <2>1. CASE s = t
    <3>1. n \in stream[t].readAt + 1 .. written
      BY <1>1, <1>2, <1>3, <1>6, <2>1 DEF v, Stream
    <3>2. Covered(n, s)
      BY <1>3, <2>1, <3>1 DEF IInv, AllCovered
    <3>3. QED
      BY <1>2, <1>3, <2>1, <3>2 DEF Covered, Received, InFlight, v
  <2>2. CASE s # t
    <3>1. Covered(n, s) /\ stream'[s] = stream[s]
      BY <1>2, <1>3, <1>6, <2>2 DEF IInv, AllCovered, Watching
    <3>2. QED
      BY <1>3, <3>1 DEF Covered, Received, InFlight
  <2>3. QED
    BY <2>1, <2>2
<1>7. QED
  BY <1>4, <1>5, <1>6 DEF IInv, AllCovered

\* A relayed event leaves the channel for the history of the client.
LEMMA RelayKeeps ==
    ASSUME IInv, NEW t \in Streams, Relay(t)
    PROVE  IInv'
<1> DEFINE h == Head(chan[t])
           c == Tail(chan[t])
           ev == Append(stream[t].events, h)
           v == [stream[t] EXCEPT !.events = ev]
<1>1. /\ stream[t] \in Stream /\ stream \in [Streams -> Stream]
      /\ chan \in [Streams -> Seq(Snapshots)] /\ chan[t] \in Seq(Snapshots)
      /\ chan[t] # <<>> /\ stream[t].events \in Seq(Snapshots)
      /\ Len(chan[t]) <= Capacity /\ Len(chan[t]) \in Nat
  BY DEF IInv, TypeOK, Stream, Relay
<1>2. /\ h \in Snapshots /\ c \in Seq(Snapshots) /\ Len(c) = Len(chan[t]) - 1
      /\ Range(chan[t]) = Range(c) \cup {h}
  BY <1>1, HeadTailProperties, RangeOfTail
<1>3. chan' = [chan EXCEPT ![t] = c] /\ stream' = [stream EXCEPT ![t] = v]
  BY <1>1 DEF Relay
<1> HIDE DEF h, c
<1>4. ev \in Seq(Snapshots) /\ Range(ev) = Range(stream[t].events) \cup {h}
  BY <1>1, <1>2, RangeOfAppend, AppendProperties
<1> HIDE DEF ev
<1>5. /\ v \in Stream /\ v.readAt = stream[t].readAt /\ v.events = ev
      /\ v.stage = stream[t].stage
  BY <1>1, <1>4 DEF Stream
<1> HIDE DEF v
<1>6. /\ stream' \in [Streams -> Stream] /\ stream'[t] = v
      /\ \A s \in Streams \ {t} : stream'[s] = stream[s] /\ chan'[s] = chan[s]
      /\ chan' \in [Streams -> Seq(Snapshots)] /\ chan'[t] = c
      /\ Len(c) <= Capacity
  BY <1>1, <1>2, <1>3, <1>5, CapacityAssumption
<1>7. TypeOK'
  BY <1>6 DEF IInv, TypeOK, Relay
<1>8. Registered' /\ IdleHoldsNothing'
  BY <1>5, <1>6 DEF IInv, Registered, IdleHoldsNothing, Watching, Relay
<1>9. ASSUME NEW s \in Streams, Watching(s)',
             NEW n \in stream'[s].readAt + 1 .. written'
      PROVE  Covered(n, s)'
  <2>1. Covered(n, s)
    BY <1>5, <1>6, <1>9 DEF IInv, AllCovered, Watching, Relay
  <2>2. Received(s) \cup Range(chan[s]) \subseteq Received(s)' \cup Range(chan'[s])
    BY <1>2, <1>4, <1>5, <1>6 DEF Received
  <2>3. QED
    BY <2>1, <2>2 DEF Covered, InFlight, Relay
<1>10. QED
  BY <1>7, <1>8, <1>9 DEF IInv, AllCovered

LEMMA CloseKeeps ==
    ASSUME IInv, NEW t \in Streams, Close(t)
    PROVE  IInv'
<1> DEFINE v == [stream[t] EXCEPT !.stage = "closed"]
<1>1. stream[t] \in Stream /\ stream \in [Streams -> Stream]
  BY DEF IInv, TypeOK
<1>2. v \in Stream /\ v.stage = "closed"
  BY <1>1 DEF Stream
<1>3. stream' = [stream EXCEPT ![t] = v]
  BY <1>1 DEF Close
<1> HIDE DEF v
<1>4. /\ stream' \in [Streams -> Stream] /\ stream'[t] = v
      /\ \A s \in Streams \ {t} : stream'[s] = stream[s]
  BY <1>1, <1>2, <1>3
<1>5. TypeOK'
  BY <1>4 DEF IInv, TypeOK, Close
<1>6. Registered' /\ IdleHoldsNothing'
  BY <1>2, <1>4 DEF IInv, Registered, IdleHoldsNothing, Watching, Close
<1>7. ASSUME NEW s \in Streams, Watching(s)',
             NEW n \in stream'[s].readAt + 1 .. written'
      PROVE  Covered(n, s)'
  <2>1. stream'[s] = stream[s] /\ Covered(n, s)
    BY <1>2, <1>4, <1>7 DEF IInv, AllCovered, Watching, Close
  <2>2. QED
    BY <2>1 DEF Covered, Received, InFlight, Close
<1>8. QED
  BY <1>5, <1>6, <1>7 DEF IInv, AllCovered

-----------------------------------------------------------------------------
LEMMA NextKeeps == IInv /\ [Next]_vars => IInv'
<1> SUFFICES ASSUME IInv, [Next]_vars PROVE IInv'
  OBVIOUS
<1>1. ASSUME NEW p \in Publishers, Write(p) \/ Publish(p) \/ Abort(p)
      PROVE  IInv'
  BY <1>1, WriteKeeps, CollectKeeps, SendKeeps, DropKeeps, AbortKeeps DEF Publish
<1>2. ASSUME NEW s \in Streams, \/ Subscribe(s) \/ ReadInitial(s) \/ ReadFails(s)
                               \/ Relay(s) \/ Close(s)
      PROVE  IInv'
  BY <1>2, SubscribeKeeps, GoLiveKeeps, RelayKeeps, CloseKeeps
<1>3. CASE Expire
  <2>1. TypeOK'
    BY <1>3 DEF Expire, IInv, TypeOK, NoSnapshot
  <2>2. Registered' /\ IdleHoldsNothing' /\ AllCovered'
    BY <1>3 DEF Expire, IInv, Registered, IdleHoldsNothing, AllCovered, Watching,
                Covered, Received, InFlight
  <2>3. QED
    BY <2>1, <2>2 DEF IInv
<1>4. CASE UNCHANGED vars
  <2>1. TypeOK'
    BY <1>4 DEF vars, IInv, TypeOK
  <2>2. Registered' /\ IdleHoldsNothing' /\ AllCovered'
    BY <1>4 DEF vars, IInv, Registered, IdleHoldsNothing, AllCovered, Watching,
                Covered, Received, InFlight
  <2>3. QED
    BY <2>1, <2>2 DEF IInv
<1>5. QED
  BY <1>1, <1>2, <1>3, <1>4 DEF Next

LEMMA AlwaysIInv == Spec => []IInv
BY InitHolds, NextKeeps, PTL DEF Spec

\* Every buffer stays within its capacity, every snapshot is of a real write.
THEOREM TypesHold == Spec => []TypeOK
<1>1. IInv => TypeOK
  BY DEF IInv
<1>2. QED
  BY <1>1, AlwaysIInv, PTL

\* A watching client is never silently passed over: each write after its
\* initial snapshot has reached it, is on its way to it, or was given up on
\* because its buffer was full or its publisher was cut off.
THEOREM WritesReachStreams == Spec => []NothingMissed
<1>1. IInv => NothingMissed
  BY DEF IInv, AllCovered, Covered, Watching, NothingMissed
<1>2. QED
  BY <1>1, AlwaysIInv, PTL

=============================================================================
