--------------------------- MODULE EnrichedBuffer ---------------------------
(***************************************************************************)
(* The ring buffer in front of the enriched index (inmem_buffer.py).  The  *)
(* alert loop appends an alert that could not be indexed; when the buffer  *)
(* is full the oldest one makes room.  A scheduler job sends what is       *)
(* buffered: it peeks at the oldest alert, sends it, and pops.  The two    *)
(* threads share the deque and no lock.                                    *)
(***************************************************************************)
EXTENDS Sequences, Integers

CONSTANTS
  Alerts,
  Poison,      \* alerts the index rejects for good
  MAX_SIZE,
  MaxOutages   \* bound on outages of the index

SizesAssumption == MAX_SIZE \in Nat \ {0} /\ MaxOutages \in Nat

VARIABLES
  todo,      \* alerts not enriched yet
  buffer,
  up,        \* the index accepts documents
  flush,     \* "idle", "peek", "send" or "pop"
  to_try,    \* alerts this flush may still send
  head,      \* the alert it peeked at, and what the index said of it
  indexed, rejected,
  overflowed,  \* alerts that made room for newer ones
  outages,
  popped,    \* history: alerts popped after another one was sent
  raced      \* history: an alert made room while another one was being sent

bufferVars == <<todo, buffer, up, flush, to_try, head, indexed, rejected,
                overflowed, outages, popped, raced>>
index == <<indexed, rejected>>
job == <<flush, to_try, head>>

Nothing == [alert |-> 0, said |-> "down"]

Init ==
  /\ todo = Alerts /\ buffer = <<>> /\ up = TRUE /\ outages = 0
  /\ flush = "idle" /\ to_try = 0 /\ head = Nothing
  /\ indexed = {} /\ rejected = {} /\ overflowed = {}
  /\ popped = {} /\ raced = FALSE

Flips ==
  /\ up => outages < MaxOutages
  /\ up' = ~up /\ outages' = IF up THEN outages + 1 ELSE outages
  /\ UNCHANGED <<todo, buffer, job, index, overflowed, popped, raced>>

\* index_enriched_alert.
Says(a) == IF ~up THEN "down" ELSE IF a \in Poison THEN "reject" ELSE "ok"

\* buffer_alert: append to a deque of at most MAX_SIZE.
Buffer(a) ==
  LET full == Len(buffer) >= MAX_SIZE IN
  /\ buffer' = Append(IF full THEN Tail(buffer) ELSE buffer, a)
  /\ overflowed' = IF full THEN overflowed \cup {Head(buffer)} ELSE overflowed
  /\ raced' = (raced \/ (full /\ flush \in {"send", "pop"}))

\* process_batch: what is not indexed at once is buffered, rejected or not.
Enrich(a) ==
  /\ a \in todo /\ todo' = todo \ {a}
  /\ IF Says(a) = "ok"
     THEN indexed' = indexed \cup {a} /\ UNCHANGED <<buffer, overflowed, raced>>
     ELSE Buffer(a) /\ UNCHANGED indexed
  /\ UNCHANGED <<up, outages, job, rejected, popped>>

BeginFlush ==
  /\ flush = "idle" /\ up /\ buffer # <<>>
  /\ flush' = "peek" /\ to_try' = Len(buffer)
  /\ UNCHANGED <<todo, buffer, up, head, index, overflowed, outages, popped, raced>>

Peek ==
  /\ flush = "peek"
  /\ IF to_try = 0 \/ buffer = <<>>
     THEN flush' = "idle" /\ UNCHANGED <<head, to_try>>
     ELSE /\ head' = [Nothing EXCEPT !.alert = Head(buffer)]
          /\ to_try' = to_try - 1 /\ flush' = "send"
  /\ UNCHANGED <<todo, buffer, up, index, overflowed, outages, popped, raced>>

\* Broken variant of Ends: a rejected alert ends the flush like an outage.
EndsUnlessIndexed(said) == said # "ok"

Ends(said) == said = "down"

Send ==
  LET a == head.alert
      said == Says(a) IN
  /\ flush = "send" /\ head' = [alert |-> a, said |-> said]
  /\ indexed' = IF said = "ok" THEN indexed \cup {a} ELSE indexed
  /\ flush' = IF Ends(said) THEN "idle" ELSE "pop"
  /\ UNCHANGED <<todo, buffer, up, to_try, rejected, overflowed, outages, popped, raced>>

\* Broken variant of PopLeft: the newest alert is removed.
PopRight == SubSeq(buffer, 1, Len(buffer) - 1)

PopLeft == IF buffer = <<>> THEN buffer ELSE Tail(buffer)

Gone == {buffer[i] : i \in 1..Len(buffer)} \ {PopLeft[i] : i \in 1..Len(PopLeft)}

\* popleft: whatever is the oldest now.
Pop ==
  /\ flush = "pop" /\ flush' = "peek" /\ buffer' = PopLeft
  /\ rejected' = IF head.said = "reject" THEN rejected \cup {head.alert} ELSE rejected
  /\ popped' = popped \cup (Gone \ {head.alert})
  /\ UNCHANGED <<todo, up, to_try, head, indexed, overflowed, outages, raced>>

FlushStep == BeginFlush \/ Peek \/ Send \/ Pop

Next == Flips \/ (\E a \in Alerts : Enrich(a)) \/ FlushStep
-----------------------------------------------------------------------------
(* Properties.                                                             *)

TypeOK ==
  /\ todo \subseteq Alerts /\ buffer \in Seq(Alerts) /\ Len(buffer) <= MAX_SIZE
  /\ flush \in {"idle", "peek", "send", "pop"} /\ to_try \in 0..MAX_SIZE
  /\ indexed \cup rejected \cup overflowed \cup popped \subseteq Alerts

\* inmem_buffer.py:17: an alert the index did not take is in the buffer, until
\* it is indexed, rejected for good or dropped for room.  Only when an alert
\* makes room during a send does the pop remove another, unsent one.
LossIsAccounted ==
  /\ popped # {} => raced
  /\ \A a \in Alerts \ (todo \cup indexed \cup rejected \cup overflowed \cup popped) :
       \E i \in 1..Len(buffer) : buffer[i] = a

\* inmem_buffer.py:107: once no more alerts come, a buffer that holds any is
\* empty in the end, although rejected ones are ahead of those the index takes, if
\* outages end and the job gets its turns.
EventuallyFlushed == buffer # <<>> ~> buffer = <<>>
=============================================================================
