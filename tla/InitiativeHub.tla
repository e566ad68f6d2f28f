----------------------------- MODULE InitiativeHub -----------------------------
(***************************************************************************)
(* The way from a stored call to the clients that watch it: the in-process *)
(* broadcaster internal/initiativehub/hub.go and the Stream handler of     *)
(* internal/handler/initiative.go, for one campaign.                       *)
(*                                                                         *)
(* A snapshot is the number of the write that stored it, so a greater one  *)
(* is a fresher one; InitiativeTracker says what the writes contain.  A    *)
(* publisher is one of its handlers between the write and the answer.      *)
(***************************************************************************)
EXTENDS Naturals, Sequences, FiniteSets, Functions

CONSTANTS
    Publishers,  \* handlers that store a call and publish it
    Streams,     \* subscriber ids; Hub.next never hands one out twice
    Capacity,    \* subBufferSize
    MaxWrites    \* bound of the model on the writes

ASSUME CapacityAssumption == Capacity \in Nat
ASSUME MaxWritesAssumption == MaxWrites \in Nat

Snapshots == 1 .. MaxWrites
NoSnapshot == 0

VARIABLES
    written,      \* the writes so far; the latest has this number
    stored,       \* the write the store still holds, if the TTL spared it
    publisher,    \* the snapshot in each publisher's hands, and its targets
    subs,         \* Hub.subs: the streams a Publish finds in the map
    chan,         \* each subscriber's buffered channel
    stream,       \* what each Stream handler is doing
    lost          \* history: snapshots no channel took, for each stream

vars == <<written, stored, publisher, subs, chan, stream, lost>>

Publisher == [stage : {"idle", "publish", "send"},
              snap : 0 .. MaxWrites, targets : SUBSET Streams]

\* readAt is the number of writes when the initial Get ran, first the snapshot
\* it sent, events the relayed ones.
Stream == [stage : {"new", "joined", "live", "closed"},
           readAt : 0 .. MaxWrites, first : 0 .. MaxWrites,
           events : Seq(Snapshots)]

TypeOK ==
    /\ written \in 0 .. MaxWrites
    /\ stored \in 0 .. written
    /\ publisher \in [Publishers -> Publisher]
    /\ subs \subseteq Streams
    /\ chan \in [Streams -> Seq(Snapshots)]
    /\ \A s \in Streams : Len(chan[s]) <= Capacity
    /\ stream \in [Streams -> Stream]
    /\ lost \in [Streams -> SUBSET Snapshots]

IdlePublisher == [stage |-> "idle", snap |-> NoSnapshot, targets |-> {}]

Init ==
    /\ written = 0 /\ stored = NoSnapshot
    /\ publisher = [p \in Publishers |-> IdlePublisher]
    /\ subs = {}
    /\ chan = [s \in Streams |-> <<>>]
    /\ stream = [s \in Streams |-> [stage |-> "new", readAt |-> 0,
                                    first |-> NoSnapshot, events |-> <<>>]]
    /\ lost = [s \in Streams |-> {}]

-----------------------------------------------------------------------------
\* A write of Start, Resolve or UpdateWithVersion; Publish comes after it.
Write(p) ==
    /\ publisher[p].stage = "idle"
    /\ written < MaxWrites
    /\ written' = written + 1 /\ stored' = written + 1
    /\ publisher' = [publisher EXCEPT ![p].stage = "publish",
                                      ![p].snap = written + 1]
    /\ UNCHANGED <<subs, chan, stream, lost>>

\* Publish takes down the channels of the campaign under the read lock.
Collect(p) ==
    /\ publisher[p].stage = "publish"
    /\ publisher' = [publisher EXCEPT ![p] =
                        IF subs = {} THEN IdlePublisher
                        ELSE [stage |-> "send", snap |-> publisher[p].snap,
                              targets |-> subs]]
    /\ UNCHANGED <<written, stored, subs, chan, stream, lost>>

\* The map is gone through in any order, without the lock.
Sent(p, s) ==
    publisher' = [publisher EXCEPT ![p] =
                     IF publisher[p].targets = {s} THEN IdlePublisher
                     ELSE [stage |-> "send", snap |-> publisher[p].snap,
                           targets |-> publisher[p].targets \ {s}]]

Send(p, s) ==
    /\ publisher[p].stage = "send" /\ s \in publisher[p].targets
    /\ Len(chan[s]) < Capacity
    /\ chan' = [chan EXCEPT ![s] = Append(@, publisher[p].snap)]
    /\ Sent(p, s)
    /\ UNCHANGED <<written, stored, subs, stream, lost>>

\* Mutants: a send without the default branch, and one that
\* returns from it.
DropWaits(p, s) == FALSE /\ UNCHANGED vars

DropGivesUp(p, s) ==
    /\ publisher[p].stage = "send" /\ s \in publisher[p].targets
    /\ Len(chan[s]) >= Capacity
    /\ lost' = [lost EXCEPT ![s] = @ \cup {publisher[p].snap}]
    /\ publisher' = [publisher EXCEPT ![p] = IdlePublisher]
    /\ UNCHANGED <<written, stored, subs, chan, stream>>

\* The default branch of the select: the subscriber is behind.
Drop(p, s) ==
    /\ publisher[p].stage = "send" /\ s \in publisher[p].targets
    /\ Len(chan[s]) >= Capacity
    /\ lost' = [lost EXCEPT ![s] = @ \cup {publisher[p].snap}]
    /\ Sent(p, s)
    /\ UNCHANGED <<written, stored, subs, chan, stream>>

\* The client of the write has gone: the store reports an error although the
\* write took effect, and the handler answers 500 without publishing.
Abort(p) ==
    /\ publisher[p].stage = "publish"
    /\ lost' = [s \in Streams |-> lost[s] \cup {publisher[p].snap}]
    /\ publisher' = [publisher EXCEPT ![p] = IdlePublisher]
    /\ UNCHANGED <<written, stored, subs, chan, stream>>

\* The TTL index deletes a resolved call; nobody publishes that.
Expire ==
    /\ stored # NoSnapshot
    /\ stored' = NoSnapshot
    /\ UNCHANGED <<written, publisher, subs, chan, stream, lost>>

-----------------------------------------------------------------------------
\* A mutant: a new bucket in place of the campaign's.
SubscribeAlone(s) ==
    /\ stream[s].stage = "new"
    /\ subs' = {s}
    /\ stream' = [stream EXCEPT ![s].stage = "joined", ![s].readAt = written]
    /\ UNCHANGED <<written, stored, publisher, chan, lost>>

Subscribe(s) ==
    /\ stream[s].stage = "new"
    /\ subs' = subs \cup {s}
    /\ stream' = [stream EXCEPT ![s].stage = "joined", ![s].readAt = written]
    /\ UNCHANGED <<written, stored, publisher, chan, lost>>

\* The initial Get, and its event if there is a call; a Get that fails sends
\* nothing and the stream goes on.
ReadInitial(s) ==
    /\ stream[s].stage = "joined"
    /\ stream' = [stream EXCEPT ![s].stage = "live", ![s].readAt = written,
                                ![s].first = stored]
    /\ UNCHANGED <<written, stored, publisher, subs, chan, lost>>

ReadFails(s) ==
    /\ stream[s].stage = "joined"
    /\ stream' = [stream EXCEPT ![s].stage = "live"]
    /\ UNCHANGED <<written, stored, publisher, subs, chan, lost>>

Relay(s) ==
    /\ stream[s].stage = "live" /\ chan[s] # <<>>
    /\ chan' = [chan EXCEPT ![s] = Tail(@)]
    /\ stream' = [stream EXCEPT ![s].events = Append(@, Head(chan[s]))]
    /\ UNCHANGED <<written, stored, publisher, subs, lost>>

\* The client disconnects or a write to it fails: unsub, and the channel is
\* left to whoever still holds it.
Close(s) ==
    /\ stream[s].stage \in {"joined", "live"}
    /\ subs' = subs \ {s}
    /\ stream' = [stream EXCEPT ![s].stage = "closed"]
    /\ UNCHANGED <<written, stored, publisher, chan, lost>>

Publish(p) == Collect(p) \/ \E s \in Streams : Send(p, s) \/ Drop(p, s)

Next ==
    \/ \E p \in Publishers : Write(p) \/ Publish(p) \/ Abort(p)
    \/ \E s \in Streams : Subscribe(s) \/ ReadInitial(s) \/ ReadFails(s)
                          \/ Relay(s) \/ Close(s)
    \/ Expire

Spec == Init /\ [][Next]_vars

\* Goroutines that can run do, whatever the clients of the streams do.
FairPublishers == \A p \in Publishers : WF_vars(Publish(p))

\* A connected client takes what is written to it, or the write fails.  Assumed
\* only where it is named.
FairStreams == \A s \in Streams : WF_vars(ReadInitial(s) \/ ReadFails(s) \/ Relay(s))

FairSpec == Spec /\ FairPublishers

-----------------------------------------------------------------------------
Received(s) == Range(stream[s].events)

InFlight(n, s) == \E p \in Publishers :
    /\ publisher[p].snap = n
    /\ publisher[p].stage = "send" => s \in publisher[p].targets

\* A client misses no write made after its initial snapshot was read: it has
\* got it, or will from its channel or a publisher, unless its buffer was full
\* or the write was never published ("Subscribe BEFORE sending the initial
\* snapshot to avoid a race where a mutation happens between").
NothingMissed ==
    \A s \in Streams : stream[s].stage = "live" =>
        \A n \in stream[s].readAt + 1 .. written :
            n \in Received(s) \cup Range(chan[s]) \cup lost[s] \/ InFlight(n, s)

\* And in the end it gets it, if it reads.
EveryWriteIsSeen == FairStreams =>
    \A s \in Streams, n \in Snapshots :
        stream[s].stage = "live" /\ stream[s].readAt < n /\ n <= written
        ~> stream[s].stage = "closed" \/ n \in Received(s) \cup lost[s]

\* A client that does not read delays nobody: every publish comes to an end
\* whatever the streams do.
PublishNeverBlocks ==
    \A p \in Publishers : publisher[p].stage # "idle" ~> publisher[p].stage = "idle"

=============================================================================
