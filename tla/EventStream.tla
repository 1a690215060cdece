----------------------------- MODULE EventStream -----------------------------
(***************************************************************************)
(* How a rotation's progress reaches the browser: the worker and the API   *)
(* publish an event after each commit, Redis hands it to whoever is        *)
(* subscribed, an SSE generator of the API numbers and forwards it, and a  *)
(* React hook reads the stream and dials again when it ends.  Beside it    *)
(* the rotation panel polls the row until it is terminal.                  *)
(*                                                                         *)
(* The row is the number of its committed changes, and so is the event     *)
(* published for the last of them.  A hook is one run of its effect, from  *)
(* mount to teardown; a connection has the API at one end (server) and the *)
(* hook's response body at the other (open).                               *)
(***************************************************************************)
EXTENDS Naturals, Sequences

CONSTANTS
    Hooks,
    Conns,       \* connections; an id is used again when both ends are closed
    Last,        \* the number of changes that makes the row terminal
    MaxFaults    \* bound: failures of Redis, of a fetch, of a connection

ASSUME EventStreamAssumption == Last \in Nat \ {0} /\ MaxFaults \in Nat

VARIABLES
    row, outbox,       \* the rotation's row, and changes not yet published
    published,         \* what Redis has accepted, in its order
    shown, fetch, answer, mutation, choice,   \* the panel's query and its mutation
    hook, active,      \* where the hook's connect() is, and its flag
    server, open, owner,             \* the connections
    from, inbox,       \* Len(published) at the subscription, and its queue
    wire, got,         \* frames sent, and those the hook has read
    faults

panel == <<shown, fetch, answer, mutation, choice>>
conns == <<server, open, owner, from, inbox, wire, got>>
vars == <<row, outbox, published, panel, hook, active, conns, faults>>

Terminal(r) == r = Last

Init ==
    /\ row = 0 /\ outbox = <<>> /\ published = <<>>
    /\ shown = 0 /\ fetch = "none" /\ answer = 0 /\ mutation = "none" /\ choice = "none"
    /\ hook = [h \in Hooks |-> "out"]
    /\ active = [h \in Hooks |-> FALSE]
    /\ server = [c \in Conns |-> "none"]
    /\ open = [c \in Conns |-> FALSE]
    /\ owner \in [Conns -> Hooks] /\ \A c, d \in Conns : owner[c] = owner[d]
    /\ from = [c \in Conns |-> 0]
    /\ inbox = [c \in Conns |-> <<>>]
    /\ wire = [c \in Conns |-> <<>>]
    /\ got = [c \in Conns |-> <<>>]
    /\ faults = 0

Fault == faults < MaxFaults /\ faults' = faults + 1

-------------------------------------------------------------------------------
(* Publishers and Redis.                                                   *)

\* Mutant: the event goes out although the commit has failed.
AdvanceUncommitted ==
    /\ choice = "approve" /\ ~Terminal(row)
    /\ outbox' = Append(outbox, row + 1)
    /\ UNCHANGED <<row, published, panel, hook, active, conns, faults>>

\* A step of the engine, whose job the approval has queued, is committed.  Its
\* event is published afterwards, by the same job, so in the order of commits.
Advance ==
    /\ choice = "approve" /\ ~Terminal(row)
    /\ row' = row + 1
    /\ outbox' = Append(outbox, row')
    /\ UNCHANGED <<published, panel, hook, active, conns, faults>>

Live(c) == server[c] = "live"

Publish ==
    /\ outbox # <<>>
    /\ outbox' = Tail(outbox)
    /\ published' = Append(published, Head(outbox))
    /\ inbox' = [c \in Conns |-> IF Live(c) THEN Append(inbox[c], Head(outbox)) ELSE inbox[c]]
    /\ UNCHANGED <<row, panel, hook, active, server, open, owner, from, wire, got, faults>>

\* Redis is out of reach, which is logged or passed over, or the process dies
\* before it publishes.
PublishFails ==
    /\ outbox # <<>> /\ Fault
    /\ outbox' = Tail(outbox)
    /\ UNCHANGED <<row, published, panel, hook, active, conns>>

-------------------------------------------------------------------------------
(* The panel.                                                              *)

\* Mutant: the polling stops with the first change shown.
PollOnce ==
    /\ fetch = "none" /\ shown = 0 /\ row # 0
    /\ fetch' = "sent"
    /\ UNCHANGED <<row, outbox, published, shown, answer, mutation, choice, hook, active, conns, faults>>

\* refetchInterval.
Poll ==
    /\ fetch = "none" /\ ~Terminal(shown)
    /\ fetch' = "sent"
    /\ UNCHANGED <<row, outbox, published, shown, answer, mutation, choice, hook, active, conns, faults>>

\* GET /rotations/{id} reads the row.
ReadRow ==
    /\ fetch = "sent"
    /\ fetch' = "answered" /\ answer' = row
    /\ UNCHANGED <<row, outbox, published, shown, mutation, choice, hook, active, conns, faults>>

Answered ==
    /\ fetch = "answered"
    /\ fetch' = "none" /\ shown' = answer
    /\ UNCHANGED <<row, outbox, published, answer, mutation, choice, hook, active, conns, faults>>

\* The query is in error until the next interval.
FetchFails ==
    /\ fetch # "none" /\ Fault
    /\ fetch' = "none"
    /\ UNCHANGED <<row, outbox, published, shown, answer, mutation, choice, hook, active, conns>>

\* The user's decision is carried out.  The approval queues a job and leaves the
\* row alone, the rejection writes it without an event, the simulated failure
\* publishes two.
Decide(d) ==
    /\ mutation = "none" /\ row = 0
    /\ mutation' = "sent" /\ choice' = d
    /\ row' = IF d = "approve" THEN row ELSE Last
    /\ outbox' = IF d = "simulate" THEN outbox \o <<Last, Last>> ELSE outbox
    /\ UNCHANGED <<published, shown, fetch, answer, hook, active, conns, faults>>

\* Mutant: the invalidation joins a fetch under way.
SucceedJoins ==
    /\ mutation = "sent"
    /\ mutation' = "done"
    /\ fetch' = IF fetch = "none" THEN "sent" ELSE fetch
    /\ UNCHANGED <<row, outbox, published, shown, answer, choice, hook, active, conns, faults>>

\* onSuccess: invalidateQueries drops a fetch under way and starts another.
Succeed ==
    /\ mutation = "sent"
    /\ mutation' = "done"
    /\ fetch' = "sent"
    /\ UNCHANGED <<row, outbox, published, shown, answer, choice, hook, active, conns, faults>>

-------------------------------------------------------------------------------
(* The hook.                                                               *)

Reads(h, c) == hook[h] = "reading" /\ open[c] /\ owner[c] = h

Mount(h) ==
    /\ hook[h] = "out"
    /\ hook' = [hook EXCEPT ![h] = "dialling"]
    /\ active' = [active EXCEPT ![h] = TRUE]
    /\ UNCHANGED <<row, outbox, published, panel, conns, faults>>

Free(c) == server[c] \in {"none", "ended"} /\ ~open[c]

\* Mutant: the loop does not look at the flag.
OpenedLoop(h) == "reading"

\* What the hook does with an open stream: `while (active)`.
Opened(h) == IF active[h] THEN "reading" ELSE "done"

\* The fetch of connect() is answered.  The headers go out before the generator
\* starts, so before the subscription.  A hook torn down while it waited
\* leaves the loop at once, and the body as it is.
Connected(h) ==
    \E c \in Conns :
        /\ hook[h] = "dialling" /\ Free(c)
        /\ hook' = [hook EXCEPT ![h] = Opened(h)]
        /\ server' = [server EXCEPT ![c] = "accepted"]
        /\ open' = [open EXCEPT ![c] = TRUE]
        /\ owner' = [owner EXCEPT ![c] = h]
        /\ inbox' = [inbox EXCEPT ![c] = <<>>]
        /\ wire' = [wire EXCEPT ![c] = <<>>]
        /\ got' = [got EXCEPT ![c] = <<>>]
        /\ UNCHANGED <<row, outbox, published, panel, active, from, faults>>

\* Mutant: a stream that has ended is not opened again.
AgainOnError(h) == "done"

\* After the loop or an error: back off, or return when torn down.
Again(h) == IF active[h] THEN "waiting" ELSE "done"

\* The fetch fails, or its status is not a success.
Refused(h) ==
    /\ hook[h] = "dialling" /\ Fault
    /\ hook' = [hook EXCEPT ![h] = Again(h)]
    /\ UNCHANGED <<row, outbox, published, panel, active, conns>>

\* The timer of the back-off, which nobody clears.
Retry(h) ==
    /\ hook[h] = "waiting"
    /\ hook' = [hook EXCEPT ![h] = "dialling"]
    /\ UNCHANGED <<row, outbox, published, panel, active, conns, faults>>

\* reader.read() has a frame.  The event's type is in the line `event:`, which
\* the hook skips, and no longer in the data: the handlers do nothing.
ReadFrame(h) ==
    \E c \in Conns :
        /\ Reads(h, c) /\ wire[c] # <<>>
        /\ wire' = [wire EXCEPT ![c] = Tail(@)]
        /\ got' = [got EXCEPT ![c] = Append(@, Head(wire[c]))]
        /\ UNCHANGED <<row, outbox, published, panel, hook, active, server, open,
                       owner, from, inbox, faults>>

Close(h, c) ==
    /\ open' = [open EXCEPT ![c] = FALSE]
    /\ hook' = [hook EXCEPT ![h] = Again(h)]
    /\ UNCHANGED <<row, outbox, published, panel, active, server, owner, from, inbox, wire, got>>

\* reader.read() is done.
StreamDone(h) ==
    \E c \in Conns :
        /\ Reads(h, c) /\ server[c] = "ended" /\ wire[c] = <<>>
        /\ Close(h, c)
        /\ UNCHANGED faults

\* reader.read() fails; the API does not know yet.
ReadFails(h) == \E c \in Conns : Reads(h, c) /\ Fault /\ Close(h, c)

\* The cleanup of the effect: abort what connect() waits for.
Teardown(h) ==
    /\ active[h]
    /\ active' = [active EXCEPT ![h] = FALSE]
    /\ hook' = [hook EXCEPT ![h] = IF @ = "waiting" THEN @ ELSE "done"]
    /\ open' = [c \in Conns |-> open[c] /\ ~Reads(h, c)]
    /\ UNCHANGED <<row, outbox, published, panel, server, owner, from, inbox, wire, got, faults>>

\* The browser collects a body that nobody reads any more.
Collect(c) ==
    /\ open[c] /\ hook[owner[c]] = "done"
    /\ open' = [open EXCEPT ![c] = FALSE]
    /\ UNCHANGED <<row, outbox, published, panel, hook, active, server, owner, from,
                   inbox, wire, got, faults>>

-------------------------------------------------------------------------------
(* The generator of the API.                                               *)

Subscribe(c) ==
    /\ server[c] = "accepted"
    /\ server' = [server EXCEPT ![c] = "live"]
    /\ from' = [from EXCEPT ![c] = Len(published)]
    /\ UNCHANGED <<row, outbox, published, panel, hook, active, open, owner, inbox,
                   wire, got, faults>>

\* Mutant: the counter of the frames is the workspace's, not the connection's.
FrameOfAll(c) == [id |-> from[c] + Len(got[c]) + Len(wire[c]) + 1, event |-> Head(inbox[c])]

\* counter starts at 0 with the connection and is incremented for a message.
Frame(c) == [id |-> Len(got[c]) + Len(wire[c]) + 1, event |-> Head(inbox[c])]

Forward(c) ==
    /\ Live(c) /\ open[c] /\ inbox[c] # <<>>
    /\ wire' = [wire EXCEPT ![c] = Append(@, Frame(c))]
    /\ inbox' = [inbox EXCEPT ![c] = Tail(@)]
    /\ UNCHANGED <<row, outbox, published, panel, hook, active, server, open, owner,
                   from, got, faults>>

\* The finally of the generator.
Unsubscribe(c) ==
    /\ server' = [server EXCEPT ![c] = "ended"]
    /\ inbox' = [inbox EXCEPT ![c] = <<>>]
    /\ UNCHANGED <<row, outbox, published, panel, hook, active, open, owner, from, wire, got>>

\* is_disconnected, asked when there is a chunk to yield: a message, or the
\* keepalive when none has come.
Depart(c) == Live(c) /\ ~open[c] /\ Unsubscribe(c) /\ UNCHANGED faults

\* Mutant: the cap applies to streams that are closed already.
DeadlineOfClosed(c) == Live(c) /\ ~open[c] /\ Unsubscribe(c) /\ UNCHANGED faults

\* MAX_STREAM_SECONDS.
Deadline(c) == Live(c) /\ Unsubscribe(c) /\ UNCHANGED faults

\* The subscription or get_message fails, or the process dies.
Breaks(c) == server[c] \in {"accepted", "live"} /\ Fault /\ Unsubscribe(c)

-------------------------------------------------------------------------------

Next ==
    \/ Advance \/ Publish \/ PublishFails
    \/ Poll \/ ReadRow \/ Answered \/ FetchFails \/ Succeed
    \/ \E d \in {"approve", "reject", "simulate"} : Decide(d)
    \/ \E h \in Hooks :
        \/ Mount(h) \/ Connected(h) \/ Refused(h) \/ Retry(h) \/ ReadFrame(h)
        \/ StreamDone(h) \/ ReadFails(h) \/ Teardown(h)
    \/ \E c \in Conns :
        \/ Collect(c) \/ Subscribe(c) \/ Forward(c) \/ Depart(c) \/ Deadline(c) \/ Breaks(c)

\* The timers, the event loops and the requests go on; nobody has to decide,
\* mount or leave, and no body has to be collected.
Fairness ==
    /\ WF_vars(Poll) /\ WF_vars(ReadRow) /\ WF_vars(Answered)
    /\ \A h \in Hooks : /\ WF_vars(Connected(h)) /\ WF_vars(Retry(h))
                        /\ WF_vars(ReadFrame(h)) /\ WF_vars(StreamDone(h))
    /\ \A c \in Conns : /\ WF_vars(Subscribe(c)) /\ WF_vars(Depart(c))
                        /\ WF_vars(Deadline(c))

Spec == Init /\ [][Next]_vars /\ Fairness

-------------------------------------------------------------------------------

Frames(c) == got[c] \o wire[c]

\* Type invariant.
TypeOK ==
    /\ row \in 0..Last /\ \A i \in DOMAIN outbox : outbox[i] \in 1..row
    /\ \A i \in DOMAIN published : published[i] \in 1..row
    /\ shown \in 0..row /\ answer \in 0..row
    /\ fetch \in {"none", "sent", "answered"}
    /\ mutation \in {"none", "sent", "done"}
    /\ choice \in {"none", "approve", "reject", "simulate"}
    /\ hook \in [Hooks -> {"out", "dialling", "reading", "waiting", "done"}]
    /\ active \in [Hooks -> BOOLEAN]
    /\ server \in [Conns -> {"none", "accepted", "live", "ended"}]
    /\ open \in [Conns -> BOOLEAN] /\ owner \in [Conns -> Hooks]
    /\ from \in [Conns -> 0..Len(published)]
    /\ \A c \in Conns : \A i \in DOMAIN inbox[c] : inbox[c][i] \in 1..row
    /\ \A c \in Conns : \A i \in DOMAIN Frames(c) : Frames(c)[i].event \in 1..row
    /\ faults \in 0..MaxFaults

\* A connection carries what is published from its subscription on, in order,
\* nothing missed and nothing twice, numbered from 1.
FramesInOrder ==
    \A c \in Conns :
        /\ \A i \in DOMAIN Frames(c) :
            Frames(c)[i] = [id |-> i, event |-> published[from[c] + i]]
        /\ Live(c) => Len(Frames(c)) + Len(inbox[c]) = Len(published) - from[c]

\* A hook that is torn down hands no event to its handler, not even when the
\* timer of its back-off opens a stream afterwards.
SilentAfterTeardown ==
    [][\A c \in Conns : Len(got'[c]) > Len(got[c]) => active[owner[c]]]_vars

\* Once the panel has handled the success of a rejection or a simulated failure,
\* what it shows next is the outcome: the answer to a poll that was under way
\* cannot bring the buttons back.
NoStaleAnswer ==
    [][mutation = "done" /\ choice \in {"reject", "simulate"} /\ Answered => shown' = Last]_vars

\* The panel ends up with the terminal status, whatever becomes of the events.
PanelConverges == Terminal(row) ~> Terminal(shown)

\* A hook that is mounted has a subscribed stream again and again.
Reconnects ==
    \A h \in Hooks :
        []<>(active[h] => \E c \in Conns : Live(c) /\ Reads(h, c))

\* The API gives up the subscriptions of a hook that is torn down: the abort is
\* noticed at the next chunk, and the stream that a timer opened after the
\* teardown, which nobody aborts, ends with the cap.
NoZombies ==
    \A h \in Hooks, c \in Conns :
        (~active[h] /\ owner[c] = h /\ Live(c)) ~> ~(owner[c] = h /\ Live(c))
===============================================================================
