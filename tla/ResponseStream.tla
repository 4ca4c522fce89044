--------------------------- MODULE ResponseStream ---------------------------
(***************************************************************************)
(* The class ResponseStream of src/src/runtime-broker.ts, as operators on  *)
(* the record of one stream together with its entry in the streams map of  *)
(* a connection.  A chunk is its sequence number.                          *)
(*                                                                         *)
(* Definitions named Faulty... are never used by the specification: each   *)
(* is a plausible fault of the definition that follows it.                 *)
(***************************************************************************)
EXTENDS Naturals, Sequences

CONSTANTS
  MaxQueue,     \* maxQueue: chunks held for a slow reader
  MaxChunks     \* chunks that the Worker sends in one stream (bound)

ASSUME StreamAssumption == MaxQueue \in Nat /\ MaxChunks \in Nat

(* user, on: whose Worker's connection it uses (0: none was there).
   listed: the stream has an entry (and a timer) in the map of its connection.
   read: what its reader has received; reader: "waiting" while it awaits
   next(), "told" once next() has said that the stream is over or failed. *)
Fresh(u, k) ==
  [user |-> u, on |-> k, listed |-> TRUE, start |-> "waiting", expected |-> 0,
   queue |-> <<>>, read |-> <<>>, ended |-> FALSE, failed |-> FALSE, reader |-> "idle"]

Begin(x) == IF x.start = "waiting" THEN [x EXCEPT !.start = "begun"] ELSE x

FaultyOver(x) == [x EXCEPT !.ended = TRUE]

(* A reader that waits is told the same at the end and at a failure: done. *)
Over(x) ==
  [x EXCEPT !.ended = TRUE, !.reader = IF @ = "waiting" THEN "told" ELSE @]

End(x) == IF x.ended THEN x ELSE Over(x)

Fail(x) ==
  IF x.ended THEN x
  ELSE [Over(x) EXCEPT !.failed = TRUE,
                       !.start = IF @ = "waiting" THEN "rejected" ELSE @]

(* The entry is deleted, and then the stream is told. *)
Unlisted(x) == [x EXCEPT !.listed = FALSE]

Overflows(x) == ~x.ended /\ x.reader # "waiting" /\ Len(x.queue) = MaxQueue

(* The queue is full: push() cancels the stream. *)
Push(x, n) ==
  IF x.ended THEN x
  ELSE IF Overflows(x) THEN Fail(Unlisted(x))
  ELSE IF x.reader = "waiting"
       THEN [x EXCEPT !.read = Append(@, n), !.reader = "idle"]
       ELSE [x EXCEPT !.queue = Append(@, n)]

FaultyReceive(x, n) == Push([x EXCEPT !.expected = @ + 1], n)

(* gateway.responseChunk: a chunk out of order ends the stream. *)
Receive(x, n) ==
  IF n # x.expected THEN Fail(Unlisted(x))
  ELSE Push([x EXCEPT !.expected = @ + 1], n)

(* A reader's next(). *)
NextChunk(x) ==
  IF x.queue # <<>>
  THEN [x EXCEPT !.read = Append(@, Head(x.queue)), !.queue = Tail(@)]
  ELSE [x EXCEPT !.reader = IF x.ended THEN "told" ELSE "waiting"]

-----------------------------------------------------------------------------
StreamType(x) ==
  /\ x.listed \in BOOLEAN /\ x.ended \in BOOLEAN /\ x.failed \in BOOLEAN
  /\ x.start \in {"waiting", "begun", "rejected"}
  /\ x.reader \in {"idle", "waiting", "told"}
  /\ x.expected \in 0 .. MaxChunks
  /\ x.queue \in Seq(0 .. MaxChunks) /\ Len(x.queue) <= MaxQueue
  /\ x.read \in Seq(0 .. MaxChunks)

(* What the reader has and what is held for it is the Worker's chunks from the
   first on, none missing, repeated or moved. *)
InOrder(x) ==
  LET chunks == x.read \o x.queue
  IN \A j \in DOMAIN chunks : chunks[j] = j - 1
=============================================================================
