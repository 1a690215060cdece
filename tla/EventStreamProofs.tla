--------------------------- MODULE EventStreamProofs ---------------------------
(***************************************************************************)
(* Proofs about EventStream, for any number of hooks and connections, any  *)
(* length of a rotation and any number of faults: what a connection        *)
(* carries, that a hook which is torn down is silent, and that the panel   *)
(* shows states that the row has been in, the last one after a decision.   *)
(***************************************************************************)
EXTENDS EventStream, TLAPS

FrameType == [id : Nat, event : Nat]

Typed ==
    /\ row \in Nat
    /\ outbox \in Seq(Nat)
    /\ published \in Seq(Nat)
    /\ server \in [Conns -> {"none", "accepted", "live", "ended"}]
    /\ from \in [Conns -> Nat]
    /\ inbox \in [Conns -> Seq(Nat)]
    /\ wire \in [Conns -> Seq(FrameType)]
    /\ got \in [Conns -> Seq(FrameType)]

\* The frames fr are what is published from place f on, numbered from 1.
CarriedBy(fr, f, pub) ==
    /\ f + Len(fr) <= Len(pub)
    /\ \A i \in 1..Len(fr) : fr[i] = [id |-> i, event |-> pub[f + i]]

\* The queue q is the rest of what is published.
QueuedBy(fr, q, f, pub) ==
    /\ f + Len(fr) + Len(q) = Len(pub)
    /\ \A i \in 1..Len(q) : q[i] = pub[f + Len(fr) + i]

Carried(c) == CarriedBy(Frames(c), from[c], published)

Queued(c) == Live(c) => QueuedBy(Frames(c), inbox[c], from[c], published)

\* Nothing goes over a connection before the subscription.
EmptyBefore(c) == server[c] = "accepted" => Frames(c) = <<>> /\ inbox[c] = <<>>

\* A hook reads only as long as it is mounted.
ReadsWhileActive ==
    /\ hook \in [Hooks -> {"out", "dialling", "reading", "waiting", "done"}]
    /\ active \in [Hooks -> BOOLEAN]
    /\ \A h \in Hooks : hook[h] = "reading" => active[h] = TRUE

IInv == Typed /\ \A c \in Conns : Carried(c) /\ Queued(c) /\ EmptyBefore(c)

-------------------------------------------------------------------------------
(***************************************************************************)
(* Sequences.                                                              *)
(***************************************************************************)

LEMMA MoveHead ==
    ASSUME NEW S, NEW p \in Seq(S), NEW q \in Seq(S), q # <<>>
    PROVE  /\ Append(p, Head(q)) \in Seq(S) /\ Tail(q) \in Seq(S)
           /\ Append(p, Head(q)) \o Tail(q) = p \o q
  OBVIOUS

LEMMA AppendRight ==
    ASSUME NEW S, NEW p \in Seq(S), NEW q \in Seq(S), NEW x \in S
    PROVE  /\ Append(q, x) \in Seq(S)
           /\ p \o Append(q, x) = Append(p \o q, x)
  OBVIOUS

LEMMA Elements ==
    ASSUME NEW S, NEW p \in Seq(S), NEW x \in S
    PROVE  /\ Append(p, x) \in Seq(S)
           /\ Len(Append(p, x)) = Len(p) + 1
           /\ \A i \in 1..Len(p) : Append(p, x)[i] = p[i]
           /\ Append(p, x)[Len(p) + 1] = x
  OBVIOUS

LEMMA Shift ==
    ASSUME NEW S, NEW q \in Seq(S), q # <<>>
    PROVE  /\ Head(q) = q[1] /\ Head(q) \in S
           /\ Tail(q) \in Seq(S)
           /\ Len(q) \in Nat \ {0} /\ Len(Tail(q)) = Len(q) - 1
           /\ \A i \in 1..Len(Tail(q)) : Tail(q)[i] = q[i + 1]
  OBVIOUS

-------------------------------------------------------------------------------
(***************************************************************************)
(* What a step does to the connections.                                    *)
(***************************************************************************)

carriers == <<published, server, from, inbox, wire, got>>

LEMMA Steps ==
    ASSUME Next
    PROVE  \/ UNCHANGED carriers
           \/ Publish
           \/ \E h \in Hooks : Connected(h) \/ ReadFrame(h)
           \/ \E c \in Conns : Subscribe(c) \/ Forward(c)
           \/ \E c \in Conns : Unsubscribe(c) /\ UNCHANGED published
<1>1. CASE Advance \/ PublishFails \/ Poll \/ ReadRow \/ Answered \/ FetchFails \/ Succeed
               \/ \E d \in {"approve", "reject", "simulate"} : Decide(d)
  BY <1>1 DEF carriers, conns, panel, Advance, PublishFails, Poll, ReadRow, Answered,
              FetchFails, Succeed, Decide
<1>2. ASSUME NEW h \in Hooks,
             Mount(h) \/ Refused(h) \/ Retry(h) \/ StreamDone(h) \/ ReadFails(h) \/ Teardown(h)
      PROVE  UNCHANGED carriers
  BY <1>2 DEF carriers, conns, Mount, Refused, Retry, StreamDone, ReadFails, Close, Teardown
<1>3. ASSUME NEW c \in Conns, Collect(c)
      PROVE  UNCHANGED carriers
  BY <1>3 DEF carriers, Collect
<1>4. ASSUME NEW c \in Conns, Depart(c) \/ Deadline(c) \/ Breaks(c)
      PROVE  Unsubscribe(c) /\ UNCHANGED published
  BY <1>4 DEF Depart, Deadline, Breaks, Unsubscribe
<1>5. QED
  BY <1>1, <1>2, <1>3, <1>4 DEF Next

LEMMA KeepsTyped ==
    ASSUME Typed, Next
    PROVE  Typed'
<1> USE EventStreamAssumption DEF Typed
<1>1. row' \in Nat /\ outbox' \in Seq(Nat)
  <2>1. CASE UNCHANGED <<row, outbox>>
    BY <2>1
  <2>2. CASE Advance
    BY <2>2 DEF Advance
  <2>3. CASE Publish \/ PublishFails
    <3>1. outbox # <<>> /\ outbox' = Tail(outbox) /\ UNCHANGED row
      BY <2>3 DEF Publish, PublishFails
    <3>2. QED
      BY <3>1, Shift
  <2>4. ASSUME NEW d \in {"approve", "reject", "simulate"}, Decide(d)
        PROVE  row' \in Nat /\ outbox' \in Seq(Nat)
    BY <2>4 DEF Decide
  <2>5. ASSUME NEW h \in Hooks,
               \/ Mount(h) \/ Connected(h) \/ Refused(h) \/ Retry(h) \/ ReadFrame(h)
               \/ StreamDone(h) \/ ReadFails(h) \/ Teardown(h)
        PROVE  UNCHANGED <<row, outbox>>
    BY <2>5 DEF Mount, Connected, Refused, Retry, ReadFrame, StreamDone, ReadFails,
                Close, Teardown
  <2>6. ASSUME NEW c \in Conns,
               \/ Collect(c) \/ Subscribe(c) \/ Forward(c) \/ Depart(c) \/ Deadline(c)
               \/ Breaks(c)
        PROVE  UNCHANGED <<row, outbox>>
    BY <2>6 DEF Collect, Subscribe, Forward, Depart, Deadline, Breaks, Unsubscribe
  <2>7. QED
    BY <2>1, <2>2, <2>3, <2>4, <2>5, <2>6
    DEF Next, Poll, ReadRow, Answered, FetchFails, Succeed
<1>2. CASE UNCHANGED carriers
  BY <1>1, <1>2 DEF carriers
<1>3. CASE Publish
  BY <1>1, <1>3 DEF Publish
<1>4. ASSUME NEW h \in Hooks, Connected(h)
      PROVE  Typed'
  BY <1>1, <1>4 DEF Connected
<1>5. ASSUME NEW h \in Hooks, ReadFrame(h)
      PROVE  Typed'
  BY <1>1, <1>5 DEF ReadFrame
<1>6. ASSUME NEW c \in Conns, Subscribe(c)
      PROVE  Typed'
  BY <1>1, <1>6 DEF Subscribe
<1>7. ASSUME NEW c \in Conns, Forward(c)
      PROVE  Typed'
  <2>1. Frame(c) \in FrameType
    BY <1>7 DEF Forward, Frame, FrameType
  <2>2. QED
    BY <1>1, <1>7, <2>1 DEF Forward
<1>8. ASSUME NEW c \in Conns, Unsubscribe(c), UNCHANGED published
      PROVE  Typed'
  BY <1>1, <1>8 DEF Unsubscribe
<1>9. QED
  BY <1>2, <1>3, <1>4, <1>5, <1>6, <1>7, <1>8, Steps
-------------------------------------------------------------------------------
(***************************************************************************)
(* The frames.                                                             *)
(***************************************************************************)

\* An event is published; a queue gets it, or the connection is not subscribed.
LEMMA OnePublished ==
    ASSUME NEW pub \in Seq(Nat), NEW f \in Nat, NEW fr \in Seq(FrameType),
           NEW q \in Seq(Nat), NEW e \in Nat
    PROVE  /\ CarriedBy(fr, f, pub) => CarriedBy(fr, f, Append(pub, e))
           /\ QueuedBy(fr, q, f, pub) => QueuedBy(fr, Append(q, e), f, Append(pub, e))
<1>1. /\ Len(Append(pub, e)) = Len(pub) + 1
      /\ \A i \in 1..Len(pub) : Append(pub, e)[i] = pub[i]
      /\ Append(pub, e)[Len(pub) + 1] = e
  BY Elements
<1>2. /\ Len(Append(q, e)) = Len(q) + 1
      /\ \A i \in 1..Len(q) : Append(q, e)[i] = q[i]
      /\ Append(q, e)[Len(q) + 1] = e
  BY Elements
<1>3. Len(pub) \in Nat /\ Len(q) \in Nat /\ Len(fr) \in Nat
  OBVIOUS
<1>4. ASSUME CarriedBy(fr, f, pub)
      PROVE  CarriedBy(fr, f, Append(pub, e))
  <2>1. \A i \in 1..Len(fr) : f + i \in 1..Len(pub)
    BY <1>3, <1>4 DEF CarriedBy
  <2>2. \A i \in 1..Len(fr) : Append(pub, e)[f + i] = pub[f + i]
    BY <1>1, <2>1
  <2>3. f + Len(fr) <= Len(pub) + 1
    BY <1>3, <1>4 DEF CarriedBy
  <2>4. QED
    BY <1>1, <1>4, <2>2, <2>3, Zenon DEF CarriedBy
<1>5. ASSUME QueuedBy(fr, q, f, pub)
      PROVE  QueuedBy(fr, Append(q, e), f, Append(pub, e))
  <2>1. \A i \in 1..Len(q) : f + Len(fr) + i \in 1..Len(pub)
    BY <1>3, <1>5 DEF QueuedBy
  <2>2. f + Len(fr) + (Len(q) + 1) = Len(pub) + 1
    BY <1>3, <1>5 DEF QueuedBy
  <2>3. ASSUME NEW i \in 1..(Len(q) + 1)
        PROVE  Append(q, e)[i] = Append(pub, e)[f + Len(fr) + i]
    <3>1. CASE i = Len(q) + 1
      BY <1>1, <1>2, <2>2, <3>1
    <3>2. CASE i \in 1..Len(q)
      BY <1>1, <1>2, <1>5, <2>1, <3>2 DEF QueuedBy
    <3>3. i = Len(q) + 1 \/ i \in 1..Len(q)
      BY <1>3
    <3>4. QED
      BY <3>1, <3>2, <3>3, Zenon
  <2>4. QED
    BY <1>1, <1>2, <2>2, <2>3 DEF QueuedBy
<1>6. QED
  BY <1>4, <1>5

\* The head of the queue becomes the next frame.
LEMMA OneForwarded ==
    ASSUME NEW pub \in Seq(Nat), NEW f \in Nat, NEW fr \in Seq(FrameType),
           NEW q \in Seq(Nat), q # <<>>, NEW x,
           x = [id |-> Len(fr) + 1, event |-> Head(q)],
           CarriedBy(fr, f, pub), QueuedBy(fr, q, f, pub)
    PROVE  /\ x \in FrameType
           /\ CarriedBy(Append(fr, x), f, pub)
           /\ QueuedBy(Append(fr, x), Tail(q), f, pub)
<1>1. /\ Head(q) = q[1] /\ Head(q) \in Nat
      /\ Len(q) \in Nat \ {0} /\ Len(Tail(q)) = Len(q) - 1
      /\ \A i \in 1..Len(Tail(q)) : Tail(q)[i] = q[i + 1]
  BY Shift
<1>2. Len(pub) \in Nat /\ Len(fr) \in Nat
  OBVIOUS
<1>3. x \in FrameType
  BY <1>1, <1>2 DEF FrameType
<1>4. /\ Len(Append(fr, x)) = Len(fr) + 1
      /\ \A i \in 1..Len(fr) : Append(fr, x)[i] = fr[i]
      /\ Append(fr, x)[Len(fr) + 1] = x
  BY <1>3, Elements
<1>5. x = [id |-> Len(fr) + 1, event |-> pub[f + (Len(fr) + 1)]]
  <2>1. f + Len(fr) + 1 = f + (Len(fr) + 1)
    BY <1>2
  <2>2. q[1] = pub[f + Len(fr) + 1]
    BY <1>1 DEF QueuedBy
  <2>3. QED
    BY <1>1, <2>1, <2>2
<1>6. CarriedBy(Append(fr, x), f, pub)
  <2>1. f + (Len(fr) + 1) <= Len(pub)
    BY <1>1, <1>2 DEF QueuedBy
  <2>2. ASSUME NEW i \in 1..(Len(fr) + 1)
        PROVE  Append(fr, x)[i] = [id |-> i, event |-> pub[f + i]]
    <3>1. CASE i = Len(fr) + 1
      BY <1>4, <1>5, <3>1
    <3>2. CASE i \in 1..Len(fr)
      BY <1>4, <3>2 DEF CarriedBy
    <3>3. QED
      BY <1>2, <3>1, <3>2
  <2>3. QED
    BY <1>4, <2>1, <2>2 DEF CarriedBy
<1>7. QueuedBy(Append(fr, x), Tail(q), f, pub)
  <2>1. f + (Len(fr) + 1) + Len(Tail(q)) = Len(pub)
    BY <1>1, <1>2 DEF QueuedBy
  <2>2. ASSUME NEW i \in 1..Len(Tail(q))
        PROVE  Tail(q)[i] = pub[f + (Len(fr) + 1) + i]
    <3>1. i + 1 \in 1..Len(q) /\ f + Len(fr) + (i + 1) = f + (Len(fr) + 1) + i
      BY <1>1, <1>2
    <3>2. q[i + 1] = pub[f + Len(fr) + (i + 1)]
      BY <3>1 DEF QueuedBy
    <3>3. QED
      BY <1>1, <3>1, <3>2
  <2>3. QED
    BY <1>4, <2>1, <2>2 DEF QueuedBy
<1>8. QED
  BY <1>3, <1>6, <1>7

\* A connection whose own frames, queue and subscription stay as they are,
\* while nothing new is published to it.
LEMMA Untouched ==
    ASSUME IInv, NEW c \in Conns,
           Frames(c)' = Frames(c), from'[c] = from[c], inbox'[c] = inbox[c],
           server'[c] = server[c], UNCHANGED published
    PROVE  (Carried(c) /\ Queued(c) /\ EmptyBefore(c))'
  BY DEF IInv, Carried, Queued, EmptyBefore, Live

LEMMA FramesTyped ==
    ASSUME Typed, NEW c \in Conns
    PROVE  Frames(c) \in Seq(FrameType) /\ Len(Frames(c)) = Len(got[c]) + Len(wire[c])
  BY DEF Typed, Frames

LEMMA KeepsFrames ==
    ASSUME IInv, Next, NEW c \in Conns
    PROVE  (Carried(c) /\ Queued(c) /\ EmptyBefore(c))'
<1> DEFINE Good == (Carried(c) /\ Queued(c) /\ EmptyBefore(c))'
<1>0. Typed /\ Carried(c) /\ Queued(c) /\ EmptyBefore(c)
  BY DEF IInv
<1>1. CASE UNCHANGED carriers
  BY <1>1, Untouched DEF carriers, Frames
<1>2. CASE Publish
  <2>1. /\ outbox # <<>> /\ published' = Append(published, Head(outbox))
        /\ inbox'[c] = IF Live(c) THEN Append(inbox[c], Head(outbox)) ELSE inbox[c]
        /\ UNCHANGED <<server, from, wire, got>>
    BY <1>2 DEF Publish, conns, Typed
  <2>2. Head(outbox) \in Nat
    BY <1>0, <2>1, Shift DEF Typed
  <2>3. Frames(c)' = Frames(c)
    BY <2>1 DEF Frames
  <2>4. /\ Frames(c) \in Seq(FrameType) /\ published \in Seq(Nat) /\ from[c] \in Nat
        /\ inbox[c] \in Seq(Nat)
    BY <1>0, FramesTyped DEF Typed
  <2>5. Carried(c)'
    BY <1>0, <2>1, <2>2, <2>3, <2>4, OnePublished DEF Carried
  <2>6. Queued(c)'
    <3>1. CASE Live(c)
      <4>1. QueuedBy(Frames(c), Append(inbox[c], Head(outbox)), from[c],
                     Append(published, Head(outbox)))
        BY <1>0, <2>2, <2>4, <3>1, OnePublished DEF Queued
      <4>2. QED
        BY <2>1, <2>3, <3>1, <4>1 DEF Queued
    <3>2. CASE ~Live(c)
      BY <2>1, <3>2 DEF Queued, Live
    <3>3. QED
      BY <3>1, <3>2
  <2>7. EmptyBefore(c)'
    BY <1>0, <2>1, <2>3 DEF EmptyBefore, Live
  <2>8. QED
    BY <2>5, <2>6, <2>7
<1>3. ASSUME NEW h \in Hooks, Connected(h)
      PROVE  Good
  <2>1. PICK d \in Conns :
          /\ server' = [server EXCEPT ![d] = "accepted"]
          /\ inbox' = [inbox EXCEPT ![d] = <<>>]
          /\ wire' = [wire EXCEPT ![d] = <<>>]
          /\ got' = [got EXCEPT ![d] = <<>>]
          /\ UNCHANGED <<published, from>>
    BY <1>3 DEF Connected
  <2>2. CASE c = d
    <3>1. server'[c] = "accepted" /\ inbox'[c] = <<>> /\ wire'[c] = <<>> /\ got'[c] = <<>>
      BY <1>0, <2>1, <2>2 DEF Typed
    <3>2. Frames(c)' = <<>>
      BY <3>1 DEF Frames
    <3>3. from'[c] \in Nat /\ from'[c] <= Len(published')
      BY <1>0, <2>1, FramesTyped DEF Carried, CarriedBy, Typed
    <3>4. QED
      BY <3>1, <3>2, <3>3 DEF Carried, CarriedBy, Queued, EmptyBefore, Live
  <2>3. CASE c # d
    BY <1>0, <2>1, <2>3, Untouched DEF Typed, Frames
  <2>4. QED
    BY <2>2, <2>3
<1>4. ASSUME NEW h \in Hooks, ReadFrame(h)
      PROVE  Good
  <2>1. PICK d \in Conns :
          /\ wire[d] # <<>>
          /\ wire' = [wire EXCEPT ![d] = Tail(wire[d])]
          /\ got' = [got EXCEPT ![d] = Append(got[d], Head(wire[d]))]
          /\ UNCHANGED <<published, server, from, inbox>>
    BY <1>4 DEF ReadFrame
  <2>2. CASE c = d
    <3>1. wire'[c] = Tail(wire[c]) /\ got'[c] = Append(got[c], Head(wire[c]))
      BY <1>0, <2>1, <2>2 DEF Typed
    <3>2. Append(got[c], Head(wire[c])) \o Tail(wire[c]) = got[c] \o wire[c]
      <4>1. got[c] \in Seq(FrameType) /\ wire[c] \in Seq(FrameType) /\ wire[c] # <<>>
        BY <1>0, <2>1, <2>2 DEF Typed
      <4>2. QED
        BY <4>1, MoveHead
    <3>3. Frames(c)' = Frames(c)
      BY <3>1, <3>2 DEF Frames
    <3>4. QED
      BY <2>1, <3>3, Untouched
  <2>3. CASE c # d
    BY <1>0, <2>1, <2>3, Untouched DEF Typed, Frames
  <2>4. QED
    BY <2>2, <2>3
<1>5. ASSUME NEW d \in Conns, Subscribe(d)
      PROVE  Good
  <2>1. /\ server[d] = "accepted"
        /\ server' = [server EXCEPT ![d] = "live"]
        /\ from' = [from EXCEPT ![d] = Len(published)]
        /\ UNCHANGED <<published, inbox, wire, got>>
    BY <1>5 DEF Subscribe
  <2>2. Frames(c)' = Frames(c)
    BY <2>1 DEF Frames
  <2>3. CASE c = d
    <3>1. Frames(c) = <<>> /\ inbox[c] = <<>>
      BY <1>0, <2>1, <2>3 DEF EmptyBefore
    <3>2. server'[c] = "live" /\ from'[c] = Len(published)
      BY <1>0, <2>1, <2>3 DEF Typed
    <3>3. Len(published) \in Nat
      BY <1>0 DEF Typed
    <3>4. QED
      BY <2>1, <2>2, <3>1, <3>2, <3>3 DEF Carried, CarriedBy, Queued, QueuedBy, EmptyBefore
  <2>4. CASE c # d
    BY <1>0, <2>1, <2>2, <2>4, Untouched DEF Typed
  <2>5. QED
    BY <2>3, <2>4
<1>6. ASSUME NEW d \in Conns, Forward(d)
      PROVE  Good
  <2>1. /\ Live(d) /\ inbox[d] # <<>>
        /\ wire' = [wire EXCEPT ![d] = Append(wire[d], Frame(d))]
        /\ inbox' = [inbox EXCEPT ![d] = Tail(inbox[d])]
        /\ UNCHANGED <<published, server, from, got>>
    BY <1>6 DEF Forward
  <2>2. CASE c = d
    <3>1. /\ Frames(c) \in Seq(FrameType) /\ Len(Frames(c)) = Len(got[c]) + Len(wire[c])
          /\ published \in Seq(Nat) /\ from[c] \in Nat /\ inbox[c] \in Seq(Nat)
          /\ got[c] \in Seq(FrameType) /\ wire[c] \in Seq(FrameType)
      BY <1>0, FramesTyped DEF Typed
    <3>2. Frame(c) = [id |-> Len(Frames(c)) + 1, event |-> Head(inbox[c])]
      BY <3>1 DEF Frame
    <3>3. QueuedBy(Frames(c), inbox[c], from[c], published)
      BY <1>0, <2>1, <2>2 DEF Queued
    <3>4. CarriedBy(Frames(c), from[c], published)
      BY <1>0 DEF Carried
    <3>5. /\ Frame(c) \in FrameType
          /\ CarriedBy(Append(Frames(c), Frame(c)), from[c], published)
          /\ QueuedBy(Append(Frames(c), Frame(c)), Tail(inbox[c]), from[c], published)
      <4>1. inbox[c] # <<>>
        BY <2>1, <2>2
      <4>2. QED
        BY <3>1, <3>2, <3>3, <3>4, <4>1, OneForwarded
    <3>6. wire'[c] = Append(wire[c], Frame(c)) /\ inbox'[c] = Tail(inbox[c]) /\ got'[c] = got[c]
      BY <1>0, <2>1, <2>2 DEF Typed
    <3>7. Frames(c)' = Append(Frames(c), Frame(c))
      <4>1. \A p, q \in Seq(FrameType), x \in FrameType : p \o Append(q, x) = Append(p \o q, x)
        BY AppendRight
      <4>2. got[c] \o Append(wire[c], Frame(c)) = Append(got[c] \o wire[c], Frame(c))
        BY <3>1, <3>5, <4>1, Zenon
      <4>3. QED
        BY <3>6, <4>2 DEF Frames
    <3>8. Carried(c)' /\ Queued(c)'
      BY <2>1, <3>5, <3>6, <3>7 DEF Carried, Queued
    <3>9. EmptyBefore(c)'
      BY <2>1, <2>2 DEF EmptyBefore, Live
    <3>10. QED
      BY <3>8, <3>9
  <2>3. CASE c # d
    BY <1>0, <2>1, <2>3, Untouched DEF Typed, Frames
  <2>4. QED
    BY <2>2, <2>3
<1>7. ASSUME NEW d \in Conns, Unsubscribe(d), UNCHANGED published
      PROVE  Good
  <2>1. /\ server' = [server EXCEPT ![d] = "ended"]
        /\ inbox' = [inbox EXCEPT ![d] = <<>>]
        /\ UNCHANGED <<published, from, wire, got>>
    BY <1>7 DEF Unsubscribe
  <2>2. Frames(c)' = Frames(c)
    BY <2>1 DEF Frames
  <2>3. CASE c = d
    <3>1. server'[c] = "ended"
      BY <1>0, <2>1, <2>3 DEF Typed
    <3>2. QED
      BY <1>0, <2>1, <2>2, <3>1 DEF Carried, Queued, EmptyBefore, Live
  <2>4. CASE c # d
    BY <1>0, <2>1, <2>2, <2>4, Untouched DEF Typed
  <2>5. QED
    BY <2>3, <2>4
<1>8. QED
  BY <1>1, <1>2, <1>3, <1>4, <1>5, <1>6, <1>7, Steps

-------------------------------------------------------------------------------

LEMMA Inductive == Spec => []IInv
<1>1. Init => IInv
  <2> SUFFICES ASSUME Init
               PROVE  IInv
    OBVIOUS
  <2>1. Typed
    BY DEF Init, Typed
  <2>2. ASSUME NEW c \in Conns
        PROVE  Carried(c) /\ Queued(c) /\ EmptyBefore(c)
    <3>1. /\ published = <<>> /\ from[c] = 0 /\ inbox[c] = <<>> /\ server[c] = "none"
          /\ got[c] = <<>> /\ wire[c] = <<>>
      BY DEF Init
    <3>2. Frames(c) = <<>>
      BY <3>1 DEF Frames
    <3>3. QED
      BY <3>1, <3>2 DEF Carried, CarriedBy, Queued, EmptyBefore, Live
  <2>3. QED
    BY <2>1, <2>2 DEF IInv
<1>2. IInv /\ [Next]_vars => IInv'
  <2>1. CASE UNCHANGED vars
    BY <2>1 DEF vars, conns, IInv, Typed, Carried, Queued, EmptyBefore, Frames, Live
  <2>2. ASSUME IInv, Next
        PROVE  IInv'
    BY <2>2, KeepsTyped, KeepsFrames DEF IInv
  <2>3. QED
    BY <2>1, <2>2
<1>3. QED
  BY <1>1, <1>2, PTL DEF Spec

\* sse.py: a connection carries what is published from its subscription on, in
\* order, without gaps or duplicates, and numbers it from 1, however many
\* connections there are and however they are read, dropped and used again.
THEOREM InOrderAlways == Spec => []FramesInOrder
<1>1. IInv => FramesInOrder
  <2> SUFFICES ASSUME IInv, NEW c \in Conns
               PROVE  /\ \A i \in DOMAIN Frames(c) :
                          Frames(c)[i] = [id |-> i, event |-> published[from[c] + i]]
                      /\ Live(c) => Len(Frames(c)) + Len(inbox[c]) = Len(published) - from[c]
    BY DEF FramesInOrder
  <2>1. Typed /\ Carried(c) /\ Queued(c)
    BY DEF IInv
  <2>2. /\ Frames(c) \in Seq(FrameType) /\ Len(Frames(c)) \in Nat
        /\ from[c] \in Nat /\ Len(inbox[c]) \in Nat /\ Len(published) \in Nat
    BY <2>1, FramesTyped DEF Typed
  <2>3. DOMAIN Frames(c) = 1..Len(Frames(c))
    BY <2>2
  <2>4. QED
    BY <2>1, <2>2, <2>3 DEF Carried, CarriedBy, Queued, QueuedBy
<1>2. QED
  BY <1>1, Inductive, PTL

-------------------------------------------------------------------------------
(***************************************************************************)
(* The hook.                                                               *)
(***************************************************************************)

LEMMA KeepsReading ==
    ASSUME ReadsWhileActive, Next
    PROVE  ReadsWhileActive'
<1> USE DEF ReadsWhileActive
<1>1. ASSUME NEW h \in Hooks, Mount(h)
      PROVE  ReadsWhileActive'
  BY <1>1 DEF Mount
<1>2. ASSUME NEW h \in Hooks, Connected(h)
      PROVE  ReadsWhileActive'
  BY <1>2 DEF Connected, Opened
<1>3. ASSUME NEW h \in Hooks, Refused(h) \/ StreamDone(h) \/ ReadFails(h)
      PROVE  ReadsWhileActive'
  <2>1. hook' = [hook EXCEPT ![h] = Again(h)] /\ UNCHANGED active
    BY <1>3 DEF Refused, StreamDone, ReadFails, Close
  <2>2. Again(h) \in {"waiting", "done"}
    BY DEF Again
  <2>3. QED
    BY <2>1, <2>2
<1>4. ASSUME NEW h \in Hooks, Retry(h)
      PROVE  ReadsWhileActive'
  BY <1>4 DEF Retry
<1>5. ASSUME NEW h \in Hooks, Teardown(h)
      PROVE  ReadsWhileActive'
  BY <1>5 DEF Teardown
<1>6. CASE UNCHANGED <<hook, active>>
  BY <1>6
<1>7. \/ UNCHANGED <<hook, active>>
      \/ \E h \in Hooks :
          \/ Mount(h) \/ Connected(h) \/ Refused(h) \/ Retry(h)
          \/ StreamDone(h) \/ ReadFails(h) \/ Teardown(h)
  BY DEF Next, Advance, Publish, PublishFails, Poll, ReadRow, Answered, FetchFails, Succeed,
         Decide, ReadFrame, Collect, Subscribe, Forward, Depart, Deadline, Breaks, Unsubscribe
<1>8. QED
  BY <1>1, <1>2, <1>3, <1>4, <1>5, <1>6, <1>7

\* use-sse.ts: the cleanup of the effect silences the hook for good, whenever it
\* comes: no handler runs for a frame that is read after it, on any connection.
THEOREM SilentAlways == Spec => SilentAfterTeardown
<1> DEFINE Silent == \A c \in Conns : Len(got'[c]) > Len(got[c]) => active[owner[c]]
<1>1. Spec => []ReadsWhileActive
  <2>1. Init => ReadsWhileActive
    BY DEF Init, ReadsWhileActive
  <2>2. ReadsWhileActive /\ [Next]_vars => ReadsWhileActive'
    <3>1. CASE UNCHANGED vars
      BY <3>1 DEF vars, ReadsWhileActive
    <3>2. QED
      BY <3>1, KeepsReading
  <2>3. QED
    BY <2>1, <2>2, PTL DEF Spec
<1>2. IInv /\ ReadsWhileActive /\ [Next]_vars => [Silent]_vars
  <2> SUFFICES ASSUME IInv, ReadsWhileActive, Next, NEW c \in Conns,
                      Len(got'[c]) > Len(got[c])
               PROVE  active[owner[c]]
    OBVIOUS
  <2>1. got \in [Conns -> Seq(FrameType)] /\ Len(got[c]) \in Nat
    BY DEF IInv, Typed
  <2>2. CASE UNCHANGED got
    BY <2>1, <2>2
  <2>3. ASSUME NEW h \in Hooks, Connected(h)
        PROVE  FALSE
    <3>1. PICK d \in Conns : got' = [got EXCEPT ![d] = <<>>]
      BY <2>3 DEF Connected
    <3>2. got'[c] = got[c] \/ got'[c] = <<>>
      BY <2>1, <3>1
    <3>3. QED
      BY <2>1, <3>2
  <2>4. ASSUME NEW h \in Hooks, ReadFrame(h)
        PROVE  active[owner[c]]
    <3>1. PICK d \in Conns : Reads(h, d) /\ got' = [got EXCEPT ![d] = Append(@, Head(wire[d]))]
      BY <2>4 DEF ReadFrame
    <3>2. c = d
      BY <2>1, <3>1
    <3>3. QED
      BY <3>1, <3>2, Zenon DEF Reads, ReadsWhileActive
  <2>5. QED
    <3>1. CASE Publish
      BY <2>2, <3>1 DEF Publish
    <3>2. ASSUME NEW d \in Conns, Subscribe(d) \/ Forward(d) \/ Unsubscribe(d)
          PROVE  UNCHANGED got
      BY <3>2 DEF Subscribe, Forward, Unsubscribe
    <3>3. QED
      BY <2>2, <2>3, <2>4, <3>1, <3>2, Steps DEF carriers
<1>3. QED
  BY <1>1, <1>2, Inductive, PTL DEF Spec, SilentAfterTeardown
-------------------------------------------------------------------------------
(***************************************************************************)
(* The row and what is known of it.                                        *)
(***************************************************************************)

\* The changes in q are changes up to r.
Within(q, r) == \A i \in 1..Len(q) : q[i] \in 1..r

Modes ==
    /\ fetch \in {"none", "sent", "answered"}
    /\ mutation \in {"none", "sent", "done"}
    /\ choice \in {"none", "approve", "reject", "simulate"}
    /\ open \in [Conns -> BOOLEAN] /\ owner \in [Conns -> Hooks]
    /\ faults \in 0..MaxFaults

\* What has been read of the row is one of its states so far.
Known == row \in 0..Last /\ shown \in 0..row /\ answer \in 0..row

\* What has been published, or is about to be, are changes of the row.
Changes ==
    /\ Within(outbox, row) /\ Within(published, row)
    /\ \A c \in Conns : Within(inbox[c], row)

TypeInv == IInv /\ ReadsWhileActive /\ Modes /\ Known /\ Changes

LEMMA WithinMore ==
    ASSUME NEW q \in Seq(Nat), NEW r \in Nat, NEW s \in Nat, r <= s, Within(q, r)
    PROVE  Within(q, s)
BY DEF Within

LEMMA WithinAppend ==
    ASSUME NEW q \in Seq(Nat), NEW r \in Nat, NEW x \in 1..r, Within(q, r)
    PROVE  Within(Append(q, x), r)
<1>1. Len(q) \in Nat /\ x \in Nat
  OBVIOUS
<1>2. QED
  BY <1>1, Elements DEF Within

LEMMA WithinTail ==
    ASSUME NEW q \in Seq(Nat), NEW r \in Nat, q # <<>>, Within(q, r)
    PROVE  Head(q) \in 1..r /\ Within(Tail(q), r)
<1>1. Head(q) = q[1] /\ 1 \in 1..Len(q)
  BY Shift
<1>2. ASSUME NEW i \in 1..Len(Tail(q))
      PROVE  Tail(q)[i] = q[i + 1] /\ i + 1 \in 1..Len(q)
  BY Shift
<1>3. QED
  BY <1>1, <1>2 DEF Within

LEMMA WithinNone == \A r : Within(<<>>, r)
BY DEF Within

LEMMA KeepsModes ==
    ASSUME Modes, Next
    PROVE  Modes'
<1> USE EventStreamAssumption DEF Modes
<1>1. faults' \in 0..MaxFaults
  <2>1. CASE Fault
    BY <2>1 DEF Fault
  <2>2. CASE UNCHANGED faults
    BY <2>2
  <2>3. QED
    BY <2>1, <2>2
    DEF Next, Advance, Publish, PublishFails, Poll, ReadRow, Answered, FetchFails, Succeed, Decide,
        Mount, Connected, Refused, Retry, ReadFrame, StreamDone, ReadFails, Close, Teardown,
        Collect, Subscribe, Forward, Depart, Deadline, Breaks, Unsubscribe
<1>2. CASE Advance \/ Publish \/ PublishFails \/ Poll \/ ReadRow \/ Answered \/ FetchFails \/ Succeed
  BY <1>1, <1>2 DEF Advance, Publish, PublishFails, Poll, ReadRow, Answered, FetchFails, Succeed,
                    conns, panel
<1>3. ASSUME NEW d \in {"approve", "reject", "simulate"}, Decide(d)
      PROVE  Modes'
  BY <1>1, <1>3 DEF Decide, conns
<1>4. ASSUME NEW h \in Hooks, \/ Mount(h) \/ Refused(h) \/ Retry(h) \/ ReadFrame(h)
      PROVE  Modes'
  BY <1>1, <1>4 DEF Mount, Refused, Retry, ReadFrame, panel, conns
<1>5. ASSUME NEW h \in Hooks, Connected(h)
      PROVE  Modes'
  BY <1>1, <1>5 DEF Connected, panel
<1>6. ASSUME NEW h \in Hooks, StreamDone(h) \/ ReadFails(h) \/ Teardown(h)
      PROVE  Modes'
  BY <1>1, <1>6 DEF StreamDone, ReadFails, Close, Teardown, panel
<1>7. ASSUME NEW c \in Conns,
             Collect(c) \/ Subscribe(c) \/ Forward(c) \/ Depart(c) \/ Deadline(c) \/ Breaks(c)
      PROVE  Modes'
  BY <1>1, <1>7 DEF Collect, Subscribe, Forward, Depart, Deadline, Breaks, Unsubscribe, panel
<1>8. QED
  BY <1>2, <1>3, <1>4, <1>5, <1>6, <1>7 DEF Next

\* A step that leaves the row and the panel's reads of it alone.
LEMMA RowSteps ==
    ASSUME Next
    PROVE  \/ UNCHANGED <<row, outbox, shown, answer>>
           \/ Advance \/ Publish \/ PublishFails \/ ReadRow \/ Answered
           \/ \E d \in {"approve", "reject", "simulate"} : Decide(d)
BY DEF Next, Poll, FetchFails, Succeed, panel, Mount, Connected, Refused, Retry, ReadFrame,
       StreamDone, ReadFails, Close, Teardown, Collect, Subscribe, Forward, Depart, Deadline,
       Breaks, Unsubscribe

LEMMA KeepsKnown ==
    ASSUME Known, Next
    PROVE  Known' /\ row' \in row..Last
<1> USE EventStreamAssumption DEF Known
<1>1. CASE UNCHANGED <<row, outbox, shown, answer>>
  BY <1>1
<1>2. CASE Advance
  BY <1>2 DEF Advance, Terminal, panel
<1>3. CASE Publish \/ PublishFails
  BY <1>3 DEF Publish, PublishFails, panel
<1>4. CASE ReadRow \/ Answered
  BY <1>4 DEF ReadRow, Answered
<1>5. ASSUME NEW d \in {"approve", "reject", "simulate"}, Decide(d)
      PROVE  Known' /\ row' \in row..Last
  BY <1>5 DEF Decide
<1>6. QED
  BY <1>1, <1>2, <1>3, <1>4, <1>5, RowSteps

LEMMA KeepsOutbox ==
    ASSUME Typed, Known, Changes, Next
    PROVE  Within(outbox, row)'
<1>1. outbox \in Seq(Nat) /\ row \in Nat /\ row' \in Nat /\ row <= row'
  BY EventStreamAssumption, KeepsKnown DEF Typed, Known
<1>2. Within(outbox, row')
  BY <1>1, WithinMore DEF Changes
<1>3. CASE UNCHANGED outbox
  BY <1>2, <1>3
<1>4. CASE Advance
  <2>1. outbox' = Append(outbox, row') /\ row' \in 1..row'
    BY <1>1, <1>4 DEF Advance
  <2>2. QED
    BY <1>1, <1>2, <2>1, WithinAppend
<1>5. CASE Publish \/ PublishFails
  BY <1>1, <1>2, <1>5, WithinTail DEF Publish, PublishFails
<1>6. ASSUME NEW d \in {"approve", "reject", "simulate"}, Decide(d)
      PROVE  Within(outbox, row)'
  <2>1. CASE d = "simulate"
    <3>1. outbox' = outbox \o <<Last, Last>> /\ row' = Last /\ Last \in 1..Last
      BY <1>6, <2>1, EventStreamAssumption DEF Decide
    <3>2. outbox \o <<Last, Last>> = Append(Append(outbox, Last), Last)
      BY <1>1, <3>1
    <3>3. Append(outbox, Last) \in Seq(Nat)
      BY <1>1, <3>1
    <3>4. QED
      BY <1>1, <1>2, <3>1, <3>2, <3>3, WithinAppend
  <2>2. CASE d # "simulate"
    BY <1>2, <1>6, <2>2 DEF Decide
  <2>3. QED
    BY <2>1, <2>2
<1>7. QED
  BY <1>3, <1>4, <1>5, <1>6, RowSteps DEF ReadRow, Answered

LEMMA KeepsPublished ==
    ASSUME Typed, Known, Changes, Next
    PROVE  /\ Within(published, row)'
           /\ \A c \in Conns : Within(inbox[c], row)'
<1>1. /\ row \in Nat /\ row' \in Nat /\ row <= row' /\ published \in Seq(Nat)
      /\ inbox \in [Conns -> Seq(Nat)]
  BY EventStreamAssumption, KeepsKnown DEF Typed, Known
<1>2. Within(published, row') /\ \A c \in Conns : Within(inbox[c], row')
  <2>1. ASSUME NEW c \in Conns
        PROVE  Within(inbox[c], row')
    BY <1>1, WithinMore DEF Changes
  <2>2. QED
    BY <1>1, <2>1, WithinMore DEF Changes
<1>3. CASE UNCHANGED <<published, inbox>>
  BY <1>2, <1>3
<1>4. CASE Publish
  <2>1. Head(outbox) \in 1..row'
    BY <1>1, <1>4, WithinTail DEF Publish, Changes, Typed
  <2>2. Within(published', row')
    BY <1>1, <1>2, <1>4, <2>1, WithinAppend DEF Publish
  <2>3. ASSUME NEW c \in Conns
        PROVE  Within(inbox'[c], row')
    <3>1. inbox'[c] = Append(inbox[c], Head(outbox)) \/ inbox'[c] = inbox[c]
      BY <1>4 DEF Publish
    <3>2. QED
      BY <1>1, <1>2, <2>1, <3>1, WithinAppend
  <2>4. QED
    BY <2>2, <2>3
<1>5. ASSUME published' = published, NEW c \in Conns,
             \/ inbox' = [inbox EXCEPT ![c] = <<>>]
             \/ inbox[c] # <<>> /\ inbox' = [inbox EXCEPT ![c] = Tail(@)]
      PROVE  /\ Within(published, row)'
             /\ \A d \in Conns : Within(inbox[d], row)'
  <2>1. Within(inbox'[c], row')
    <3>1. inbox'[c] = <<>> \/ (inbox[c] # <<>> /\ inbox'[c] = Tail(inbox[c]))
      BY <1>1, <1>5
    <3>2. inbox[c] \in Seq(Nat) /\ Within(inbox[c], row')
      BY <1>1, <1>2
    <3>3. QED
      BY <1>1, <3>1, <3>2, WithinNone, WithinTail
  <2>2. QED
    BY <1>1, <1>2, <1>5, <2>1
<1>6. ASSUME NEW h \in Hooks, Connected(h)
      PROVE  \E c \in Conns : inbox' = [inbox EXCEPT ![c] = <<>>] /\ published' = published
  BY <1>6 DEF Connected
<1>7. ASSUME NEW h \in Hooks, ReadFrame(h)
      PROVE  UNCHANGED <<published, inbox>>
  BY <1>7 DEF ReadFrame
<1>8. ASSUME NEW c \in Conns,
             Subscribe(c) \/ Forward(c) \/ (Unsubscribe(c) /\ UNCHANGED published)
      PROVE  /\ published' = published
             /\ \/ UNCHANGED inbox
                \/ inbox' = [inbox EXCEPT ![c] = <<>>]
                \/ inbox[c] # <<>> /\ inbox' = [inbox EXCEPT ![c] = Tail(@)]
  BY <1>8 DEF Subscribe, Forward, Unsubscribe
<1>9. ASSUME NEW c \in Conns,
             Subscribe(c) \/ Forward(c) \/ (Unsubscribe(c) /\ UNCHANGED published)
      PROVE  /\ Within(published, row)'
             /\ \A d \in Conns : Within(inbox[d], row)'
  BY <1>3, <1>5, <1>8, <1>9
<1>10. ASSUME NEW h \in Hooks, Connected(h) \/ ReadFrame(h)
       PROVE  /\ Within(published, row)'
              /\ \A d \in Conns : Within(inbox[d], row)'
  BY <1>3, <1>5, <1>6, <1>7, <1>10
<1>11. QED
  BY <1>3, <1>4, <1>9, <1>10, Steps DEF carriers

LEMMA TypeInductive == Spec => []TypeInv
<1>1. Init => ReadsWhileActive /\ Modes /\ Known /\ Changes
  BY EventStreamAssumption DEF Init, ReadsWhileActive, Modes, Known, Changes, Within
<1>2. IInv /\ ReadsWhileActive /\ Modes /\ Known /\ Changes /\ [Next]_vars
         => (ReadsWhileActive /\ Modes /\ Known /\ Changes)'
  <2>1. CASE UNCHANGED vars
    BY <2>1 DEF vars, panel, conns, ReadsWhileActive, Modes, Known, Changes, Within
  <2>2. ASSUME IInv, ReadsWhileActive, Modes, Known, Changes, Next
        PROVE  (ReadsWhileActive /\ Modes /\ Known /\ Changes)'
    BY <2>2, KeepsReading, KeepsModes, KeepsKnown, KeepsOutbox, KeepsPublished DEF IInv, Changes
  <2>3. QED
    BY <2>1, <2>2
<1>3. QED
  BY <1>1, <1>2, Inductive, PTL DEF Spec, TypeInv

\* Everything that is shown, queued, published or sent is a state that the
\* rotation's row has been in, for any length of a rotation.
THEOREM TypeCorrect == Spec => []TypeOK
<1>1. TypeInv => TypeOK
  <2> SUFFICES ASSUME TypeInv
               PROVE  TypeOK
    OBVIOUS
  <2>1. /\ outbox \in Seq(Nat) /\ published \in Seq(Nat) /\ from \in [Conns -> Nat]
        /\ inbox \in [Conns -> Seq(Nat)] /\ Len(published) \in Nat
    BY DEF TypeInv, IInv, Typed
  <2>2. ASSUME NEW c \in Conns
        PROVE  /\ from[c] \in 0..Len(published)
               /\ \A i \in DOMAIN Frames(c) : Frames(c)[i].event \in 1..row
    <3>1. Frames(c) \in Seq(FrameType) /\ Carried(c)
      BY FramesTyped DEF TypeInv, IInv
    <3>2. DOMAIN Frames(c) = 1..Len(Frames(c)) /\ Len(Frames(c)) \in Nat
      BY <3>1
    <3>3. from[c] + Len(Frames(c)) <= Len(published)
      BY <3>1 DEF Carried, CarriedBy
    <3>4. ASSUME NEW i \in 1..Len(Frames(c))
          PROVE  Frames(c)[i].event \in 1..row
      <4>1. from[c] + i \in 1..Len(published)
        BY <2>1, <3>2, <3>3
      <4>2. Frames(c)[i] = [id |-> i, event |-> published[from[c] + i]]
        BY <3>1 DEF Carried, CarriedBy
      <4>3. QED
        BY <4>1, <4>2 DEF TypeInv, Changes, Within
    <3>5. QED
      BY <2>1, <3>2, <3>3, <3>4
  <2>3. from \in [Conns -> 0..Len(published)]
    BY <2>1, <2>2
  <2>4. /\ \A i \in DOMAIN outbox : outbox[i] \in 1..row
        /\ \A i \in DOMAIN published : published[i] \in 1..row
        /\ \A c \in Conns : \A i \in DOMAIN inbox[c] : inbox[c][i] \in 1..row
    BY <2>1 DEF TypeInv, Changes, Within
  <2>5. server \in [Conns -> {"none", "accepted", "live", "ended"}]
    BY DEF TypeInv, IInv, Typed
  <2>6. QED
    BY <2>2, <2>3, <2>4, <2>5 DEF TypeInv, Modes, Known, ReadsWhileActive, TypeOK
<1>2. QED
  BY <1>1, TypeInductive, PTL

-------------------------------------------------------------------------------
(***************************************************************************)
(* The panel after a decision.                                             *)
(***************************************************************************)

\* A rejection or a simulated failure has written the last state of the row, and
\* an answer that comes after its success is of a read that came after it too.
Decided ==
    /\ mutation = "none" => choice = "none"
    /\ choice \in {"reject", "simulate"} =>
        row = Last /\ (mutation = "done" /\ fetch = "answered" => answer = Last)

LEMMA KeepsDecided ==
    ASSUME Modes, Decided, Next
    PROVE  Decided'
<1> USE DEF Modes, Decided
<1>1. CASE UNCHANGED <<row, panel>>
  BY <1>1 DEF panel
<1>2. CASE Advance \/ Poll \/ ReadRow \/ Answered \/ FetchFails \/ Succeed
  BY <1>2 DEF Advance, Poll, ReadRow, Answered, FetchFails, Succeed, panel
<1>3. ASSUME NEW d \in {"approve", "reject", "simulate"}, Decide(d)
      PROVE  Decided'
  BY <1>3 DEF Decide
<1>4. QED
  BY <1>1, <1>2, <1>3
  DEF Next, Publish, PublishFails, Mount, Connected, Refused, Retry, ReadFrame, StreamDone,
      ReadFails, Close, Teardown, Collect, Subscribe, Forward, Depart, Deadline, Breaks,
      Unsubscribe

\* rotation-panel.tsx: once the success of a decision is handled, no answer to a
\* poll sent before it can bring the buttons back.
THEOREM NeverStale == Spec => NoStaleAnswer
<1> DEFINE Fresh == mutation = "done" /\ choice \in {"reject", "simulate"} /\ Answered
                        => shown' = Last
<1>1. Init => Decided
  BY DEF Init, Decided
<1>2. TypeInv /\ Decided /\ [Next]_vars => Decided'
  <2>1. CASE UNCHANGED vars
    BY <2>1 DEF vars, panel, Decided
  <2>2. QED
    BY <2>1, KeepsDecided DEF TypeInv
<1>3. Decided /\ [Next]_vars => [Fresh]_vars
  BY DEF Decided, Answered
<1>4. QED
  BY <1>1, <1>2, <1>3, TypeInductive, PTL DEF Spec, NoStaleAnswer
===============================================================================
