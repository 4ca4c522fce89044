------------------------ MODULE RuntimeBroker_proofs ------------------------
(***************************************************************************)
(* What RuntimeBroker guarantees for every number of users, credentials,   *)
(* connections, calls, streams and waiters, proved with TLAPS.             *)
(***************************************************************************)
EXTENDS RuntimeBroker, SequenceTheorems, WellFoundedInduction, TLAPS

Numbers == 0 .. MaxChunks

StreamRecord ==
  [user : Users, on : 0 .. MaxConnections, listed : BOOLEAN,
   start : {"waiting", "begun", "rejected"}, expected : Numbers,
   queue : Seq(Numbers), read : Seq(Numbers), ended : BOOLEAN,
   failed : BOOLEAN, reader : {"idle", "waiting", "told"}]

(* The numbers from a on. *)
Run(q, a) == \A j \in 1 .. Len(q) : q[j] = a + j - 1

(* A stream is over when its entry is gone; what was read and what is queued
   are the chunks up to the expected one. *)
StreamInv(x) ==
  /\ Len(x.queue) <= MaxQueue
  /\ x.listed = ~x.ended
  /\ x.reader = "waiting" => x.listed /\ x.queue = <<>>
  /\ Run(x.read, 0) /\ Run(x.queue, Len(x.read))
  /\ x.listed => x.expected = Len(x.read) + Len(x.queue)

Sound(x) == x \in StreamRecord /\ StreamInv(x)

ConnectionRecord ==
  [at : ConnectionStates, hello : BOOLEAN,
   user : Users \cup {None}, credential : Credentials \cup {None}]

(* The types the proofs need. *)
Typed ==
  /\ enabled \in BOOLEAN /\ listening \in BOOLEAN /\ old \subseteq Credentials
  /\ credential \in [Credentials -> [at : {"none", "valid", "expired", "deleted"},
                                     user : Users \cup {None}]]
  /\ connection \in [Connections -> ConnectionRecord]
  /\ call \in [Calls -> [at : {"none", "pending", "answered", "failed"},
                         user : Users \cup {None}, on : 0 .. MaxConnections]]
  /\ waiter \in [Waiters -> [at : {"none", "waiting", "resolved", "rejected"},
                             user : Users \cup {None}]]
  /\ stream \in [Streams -> StreamRecord \cup {None}]

StreamsSound == \A s \in Streams : Streaming(s) => Sound(stream[s])

-----------------------------------------------------------------------------
(* Arithmetic. *)
LEMMA Shift ==
  ASSUME NEW r \in Nat, NEW n \in Nat
  PROVE  (r + n) + 1 = r + (n + 1) /\ r + (n + 1) = (r + 1) + n
OBVIOUS

(* Runs of numbers. *)

LEMMA RunAppend ==
  ASSUME NEW q \in Seq(Numbers), NEW a \in Nat, Run(q, a),
         NEW n \in Numbers, n = a + Len(q)
  PROVE  /\ Append(q, n) \in Seq(Numbers) /\ Len(Append(q, n)) = Len(q) + 1
         /\ Run(Append(q, n), a)
<1>1. PICK r : r = Append(q, n)
  OBVIOUS
<1>2. Len(q) \in Nat
  OBVIOUS
<1>3. r \in Seq(Numbers) /\ Len(r) = Len(q) + 1
  BY <1>1
<1>4. (\A j \in 1 .. Len(q) : r[j] = q[j]) /\ r[Len(q) + 1] = n
  BY <1>1
<1>5. ASSUME NEW j \in 1 .. Len(q) + 1 PROVE r[j] = a + j - 1
  <2>1. CASE j = Len(q) + 1
    BY <1>2, <1>4, <2>1
  <2>2. CASE j \in 1 .. Len(q)
    BY <1>4, <2>2 DEF Run
  <2>3. QED
    BY <1>2, <2>1, <2>2
<1>6. Run(r, a)
  BY <1>3, <1>5 DEF Run
<1>7. QED
  BY <1>1, <1>3, <1>6

LEMMA RunTail ==
  ASSUME NEW q \in Seq(Numbers), NEW a \in Nat, Run(q, a), q # <<>>
  PROVE  /\ Tail(q) \in Seq(Numbers) /\ Len(Tail(q)) + 1 = Len(q)
         /\ Head(q) \in Numbers /\ Head(q) = a
         /\ Run(Tail(q), a + 1)
<1>1. PICK r : r = Tail(q)
  OBVIOUS
<1>2. Len(q) \in Nat \ {0} /\ Head(q) = q[1] /\ Head(q) \in Numbers
  OBVIOUS
<1>3. r \in Seq(Numbers) /\ Len(r) = Len(q) - 1
  BY <1>1, HeadTailProperties
<1>4. \A j \in 1 .. Len(r) : r[j] = q[j + 1]
  BY <1>1, HeadTailProperties
<1>5. q[1] = a
  BY <1>2 DEF Run
<1>6. ASSUME NEW j \in 1 .. Len(r) PROVE r[j] = a + 1 + j - 1
  <2>1. j + 1 \in 1 .. Len(q)
    BY <1>2, <1>3
  <2>2. q[j + 1] = a + (j + 1) - 1
    BY <2>1 DEF Run
  <2>3. QED
    BY <1>4, <2>2
<1>7. Run(r, a + 1)
  BY <1>6 DEF Run
<1>8. QED
  BY <1>1, <1>2, <1>3, <1>5, <1>7

LEMMA RunConcat ==
  ASSUME NEW r \in Seq(Numbers), NEW q \in Seq(Numbers), Run(r, 0), Run(q, Len(r))
  PROVE  \A j \in DOMAIN (r \o q) : (r \o q)[j] = j - 1
<1>1. PICK c : c = r \o q
  OBVIOUS
<1>2. Len(r) \in Nat /\ Len(q) \in Nat
  OBVIOUS
<1>3. c \in Seq(Numbers) /\ Len(c) = Len(r) + Len(q)
  BY <1>1
<1>4. \A j \in 1 .. Len(r) + Len(q) : c[j] = IF j <= Len(r) THEN r[j] ELSE q[j - Len(r)]
  BY <1>1
<1>5. DOMAIN c = 1 .. Len(r) + Len(q)
  BY <1>3
<1>6. ASSUME NEW j \in 1 .. Len(r) + Len(q)
      PROVE  c[j] = j - 1
  <2>1. CASE j <= Len(r)
    <3>1. j \in 1 .. Len(r)
      BY <1>2, <2>1
    <3>2. r[j] = 0 + j - 1
      BY <3>1 DEF Run
    <3>3. c[j] = r[j]
      BY <1>4, <2>1
    <3>4. QED
      BY <3>2, <3>3
  <2>2. CASE ~(j <= Len(r))
    <3>1. j - Len(r) \in 1 .. Len(q)
      BY <1>2, <2>2
    <3>2. q[j - Len(r)] = Len(r) + (j - Len(r)) - 1
      BY <3>1 DEF Run
    <3>3. c[j] = q[j - Len(r)]
      BY <1>4, <2>2
    <3>4. QED
      BY <1>2, <3>2, <3>3
  <2>3. QED
    BY <2>1, <2>2
<1>7. QED
  BY <1>1, <1>5, <1>6

-----------------------------------------------------------------------------
(* Streams. *)

(* Over: whatever takes the entry out and tells the stream. *)
LEMMA OverSound ==
  ASSUME NEW x, Sound(x)
  PROVE  /\ Sound(Unlisted(Fail(x)))
         /\ Sound(Fail(Unlisted(x)))
         /\ Sound(Unlisted(End(x)))
         /\ Sound(Begin(x))
<1>1. Sound(Unlisted(Fail(x)))
  BY DEF Sound, StreamInv, StreamRecord, Unlisted, Fail, Over
<1>2. Sound(Fail(Unlisted(x)))
  BY DEF Sound, StreamInv, StreamRecord, Unlisted, Fail, Over
<1>3. Sound(Unlisted(End(x)))
  BY DEF Sound, StreamInv, StreamRecord, Unlisted, End, Over
<1>4. Sound(Begin(x))
  BY DEF Sound, StreamInv, StreamRecord, Begin
<1> QED
  BY <1>1, <1>2, <1>3, <1>4

LEMMA FreshSound ==
  ASSUME NEW u \in Users, NEW k \in 0 .. MaxConnections
  PROVE  Sound(Fresh(u, k)) /\ Sound(Unlisted(Fail(Fresh(u, k))))
<1>1. PICK e : e = <<>>
  OBVIOUS
<1>2. e \in Seq(Numbers) /\ Len(e) = 0
  BY <1>1, EmptySeq
<1>3. PICK x : x = Fresh(u, k)
  OBVIOUS
<1>4. x = [user |-> u, on |-> k, listed |-> TRUE, start |-> "waiting", expected |-> 0,
           queue |-> e, read |-> e, ended |-> FALSE, failed |-> FALSE, reader |-> "idle"]
  BY <1>1, <1>3 DEF Fresh
<1>5. x \in StreamRecord
  BY <1>2, <1>4, StreamAssumption DEF StreamRecord, Numbers
<1>6. /\ x.listed = TRUE /\ x.ended = FALSE /\ x.reader = "idle" /\ x.expected = 0
      /\ x.queue = e /\ x.read = e
  BY <1>4
<1>7. StreamInv(x)
  <2>1. Len(x.queue) = 0 /\ Len(x.read) = 0 /\ x.expected = 0 /\ 0 <= MaxQueue
    BY <1>2, <1>6, StreamAssumption
  <2>2. /\ Run(x.read, 0) /\ Run(x.queue, Len(x.read))
        /\ x.expected = Len(x.read) + Len(x.queue)
        /\ Len(x.queue) <= MaxQueue
    BY <2>1 DEF Run
  <2>3. x.listed = ~x.ended /\ x.reader # "waiting"
    BY <1>6
  <2>4. QED
    BY <2>2, <2>3 DEF StreamInv
<1>8. QED
  BY <1>3, <1>5, <1>7, OverSound DEF Sound

(* What a chunk in order does to the stream. *)
LEMMA PushSound ==
  ASSUME NEW x, Sound(x), x.listed, x.expected < MaxChunks,
         NEW y, y = [x EXCEPT !.expected = @ + 1]
  PROVE  Sound(Push(y, x.expected))
<1>1. /\ x \in StreamRecord /\ x.ended = FALSE /\ x.expected \in Numbers
      /\ x.queue \in Seq(Numbers) /\ x.read \in Seq(Numbers)
  BY DEF Sound, StreamInv, StreamRecord
<1>2. Len(x.queue) \in Nat /\ Len(x.read) \in Nat /\ x.expected \in Nat
  BY <1>1 DEF Numbers
<1>3. x.expected = Len(x.read) + Len(x.queue)
  BY DEF Sound, StreamInv
<1>4. x.expected + 1 \in Numbers
  BY <1>2, StreamAssumption DEF Numbers
<1>5. Len(x.queue) <= MaxQueue /\ Run(x.read, 0) /\ Run(x.queue, Len(x.read))
  BY DEF Sound, StreamInv
<1>6. /\ y \in StreamRecord /\ y.queue = x.queue /\ y.read = x.read
      /\ y.reader = x.reader /\ y.ended = FALSE /\ y.expected = x.expected + 1
      /\ y.listed = x.listed
  BY <1>1, <1>4 DEF StreamRecord
<1>7. PICK z : z = Push(y, x.expected)
  OBVIOUS
<1>8. CASE Overflows(y)
  <2>1. z = Fail(Unlisted(y)) /\ x.reader # "waiting"
    BY <1>6, <1>7, <1>8 DEF Push, Overflows
  <2>2. PICK v : v = Unlisted(y)
    OBVIOUS
  <2>3. /\ v \in StreamRecord /\ v.listed = FALSE /\ v.queue = x.queue
        /\ v.read = x.read /\ v.reader = x.reader /\ v.ended = FALSE
    BY <1>6, <2>2 DEF Unlisted, StreamRecord
  <2>4. z = Fail(v)
    BY <2>1, <2>2
  <2>5. z \in StreamRecord
    BY <2>3, <2>4 DEF Fail, Over, StreamRecord
  <2>6. /\ z.listed = FALSE /\ z.ended = TRUE /\ z.queue = x.queue
        /\ z.read = x.read /\ z.reader = x.reader
    <3>1. PICK o : o = Over(v)
      OBVIOUS
    <3>2. /\ o \in StreamRecord /\ o.listed = FALSE /\ o.ended = TRUE
          /\ o.queue = x.queue /\ o.read = x.read /\ o.reader = x.reader
      BY <2>1, <2>3, <3>1 DEF Over, StreamRecord
    <3>3. z = [o EXCEPT !.failed = TRUE,
                        !.start = IF @ = "waiting" THEN "rejected" ELSE @]
      BY <2>3, <2>4, <3>1 DEF Fail
    <3>4. QED
      BY <3>2, <3>3 DEF StreamRecord
  <2>7. StreamInv(z)
    BY <1>5, <2>1, <2>6 DEF StreamInv
  <2>8. QED
    BY <1>7, <2>5, <2>7 DEF Sound
<1>9. CASE ~Overflows(y) /\ x.reader = "waiting"
  <2>1. x.queue = <<>>
    BY <1>1, <1>9 DEF Sound, StreamInv
  <2>2. Len(x.queue) = 0
    BY <2>1
  <2>3. PICK r : r = Append(x.read, x.expected)
    OBVIOUS
  <2>4. x.expected = 0 + Len(x.read)
    BY <1>2, <1>3, <2>2
  <2>5. r \in Seq(Numbers) /\ Len(r) = Len(x.read) + 1 /\ Run(r, 0)
    BY <1>1, <1>5, <2>3, <2>4, RunAppend
  <2>6. z = [y EXCEPT !.read = r, !.reader = "idle"]
    BY <1>6, <1>7, <1>9, <2>3 DEF Push
  <2>7. z \in StreamRecord
    BY <1>6, <2>5, <2>6 DEF StreamRecord
  <2>8. /\ z.listed = x.listed /\ z.ended = x.ended /\ z.queue = x.queue
        /\ z.read = r /\ z.reader = "idle" /\ z.expected = x.expected + 1
    BY <1>1, <1>6, <2>6 DEF StreamRecord
  <2>9. Run(x.queue, Len(r)) /\ x.expected + 1 = Len(r) + Len(x.queue)
    BY <1>2, <2>2, <2>4, <2>5 DEF Run
  <2>10. StreamInv(z)
    BY <1>5, <2>5, <2>8, <2>9 DEF Sound, StreamInv
  <2>11. QED
    BY <1>7, <2>7, <2>10 DEF Sound
<1>10. CASE ~Overflows(y) /\ x.reader # "waiting"
  <2>1. PICK q : q = Append(x.queue, x.expected)
    OBVIOUS
  <2>2. Len(x.queue) # MaxQueue
    BY <1>6, <1>10 DEF Overflows
  <2>3. q \in Seq(Numbers) /\ Len(q) = Len(x.queue) + 1 /\ Run(q, Len(x.read))
    BY <1>1, <1>2, <1>3, <1>5, <2>1, RunAppend
  <2>4. Len(q) <= MaxQueue /\ x.expected + 1 = Len(x.read) + Len(q)
    <3>1. Len(q) = Len(x.queue) + 1
      BY <2>3
    <3>2. Len(x.queue) <= MaxQueue /\ MaxQueue \in Nat
      BY <1>5, StreamAssumption
    <3>3. QED
      <4>1. Len(x.queue) + 1 <= MaxQueue
        BY <1>2, <2>2, <3>2
      <4>2. Len(q) <= MaxQueue
        BY <3>1, <4>1
      <4>3. (Len(x.read) + Len(x.queue)) + 1 = Len(x.read) + (Len(x.queue) + 1)
        BY <1>2, Shift
      <4>4. x.expected + 1 = Len(x.read) + Len(q)
        BY <1>3, <3>1, <4>3, Zenon
      <4>5. QED
        BY <4>2, <4>4
  <2>5. z = [y EXCEPT !.queue = q]
    BY <1>6, <1>7, <1>10, <2>1 DEF Push
  <2>6. z \in StreamRecord
    BY <1>6, <2>3, <2>5 DEF StreamRecord
  <2>7. /\ z.listed = x.listed /\ z.ended = x.ended /\ z.queue = q
        /\ z.read = x.read /\ z.reader = x.reader /\ z.expected = x.expected + 1
    BY <1>1, <1>6, <2>5 DEF StreamRecord
  <2>8. StreamInv(z)
    BY <1>5, <1>10, <2>3, <2>4, <2>7 DEF Sound, StreamInv
  <2>9. QED
    BY <1>7, <2>6, <2>8 DEF Sound
<1>11. QED
  BY <1>8, <1>9, <1>10

LEMMA ReceiveSound ==
  ASSUME NEW x, Sound(x), x.listed, x.expected < MaxChunks, NEW n
  PROVE  Sound(Receive(x, n))
<1>1. CASE n = x.expected
  BY <1>1, PushSound DEF Receive
<1>2. CASE n # x.expected
  BY <1>2, OverSound DEF Receive
<1>3. QED
  BY <1>1, <1>2

LEMMA ReadSound ==
  ASSUME NEW x, Sound(x), x.reader = "idle"
  PROVE  Sound(NextChunk(x))
<1>1. x \in StreamRecord /\ x.queue \in Seq(Numbers) /\ x.read \in Seq(Numbers)
  BY DEF Sound, StreamInv, StreamRecord
<1>2. CASE x.queue = <<>>
  BY <1>1, <1>2 DEF Sound, StreamInv, StreamRecord, NextChunk
<1>3. CASE x.queue # <<>>
  <2>1. Len(x.queue) \in Nat /\ Len(x.read) \in Nat
    BY <1>1
  <2>2. Len(x.queue) <= MaxQueue /\ Run(x.read, 0) /\ Run(x.queue, Len(x.read))
    BY DEF Sound, StreamInv
  <2>3. PICK z : z = NextChunk(x)
    OBVIOUS
  <2>4. PICK h : h = Head(x.queue)
    OBVIOUS
  <2>5. PICK r : r = Append(x.read, h)
    OBVIOUS
  <2>6. PICK q : q = Tail(x.queue)
    OBVIOUS
  <2>7. /\ q \in Seq(Numbers) /\ Len(q) + 1 = Len(x.queue)
        /\ h \in Numbers /\ h = Len(x.read) /\ Run(q, Len(x.read) + 1)
    BY <1>1, <1>3, <2>1, <2>2, <2>4, <2>6, RunTail
  <2>8. h = 0 + Len(x.read)
    BY <2>1, <2>7
  <2>9. r \in Seq(Numbers) /\ Len(r) = Len(x.read) + 1 /\ Run(r, 0)
    BY <1>1, <2>2, <2>5, <2>7, <2>8, RunAppend
  <2>10. Len(q) \in Nat
    BY <2>7
  <2>11. Len(q) <= MaxQueue /\ Len(x.read) + Len(x.queue) = Len(r) + Len(q)
    <3>1. Len(q) + 1 = Len(x.queue) /\ Len(r) = Len(x.read) + 1
      BY <2>7, <2>9
    <3>2. Len(x.queue) <= MaxQueue /\ MaxQueue \in Nat
      BY <2>2, StreamAssumption
    <3>3. QED
      <4>1. Len(q) <= MaxQueue
        BY <2>10, <3>1, <3>2
      <4>2. Len(x.read) + (Len(q) + 1) = (Len(x.read) + 1) + Len(q)
        BY <2>1, <2>10, Shift
      <4>3. Len(x.read) + Len(x.queue) = Len(r) + Len(q)
        BY <3>1, <4>2, Zenon
      <4>4. QED
        BY <4>1, <4>3
  <2>12. z = [x EXCEPT !.read = r, !.queue = q]
    BY <1>1, <1>3, <2>3, <2>4, <2>5, <2>6 DEF NextChunk, StreamRecord
  <2>13. z \in StreamRecord
    BY <1>1, <2>7, <2>9, <2>12 DEF StreamRecord
  <2>14. /\ z.listed = x.listed /\ z.ended = x.ended /\ z.queue = q /\ z.read = r
         /\ z.reader = "idle" /\ z.expected = x.expected
    BY <1>1, <2>12 DEF StreamRecord
  <2>15. StreamInv(z)
    BY <2>7, <2>9, <2>11, <2>14 DEF Sound, StreamInv
  <2>16. QED
    BY <2>3, <2>13, <2>15 DEF Sound
<1>4. QED
  BY <1>2, <1>3

LEMMA EmptyWholeSound ==
  ASSUME NEW x, Sound(x), x.listed
  PROVE  Sound(End(Begin(Unlisted(x))))
BY DEF Sound, StreamInv, StreamRecord, End, Over, Begin, Unlisted

(* A whole response: its body is a chunk like any other, and then it ends. *)
LEMMA WholeSound ==
  ASSUME NEW x, Sound(x), x.listed, x.expected < MaxChunks
  PROVE  Sound(End(Push(Begin(Unlisted(x)), x.expected)))
<1>1. PICK y : y = Begin(Unlisted(x))
  OBVIOUS
<1>2. /\ y \in StreamRecord /\ y.queue = x.queue /\ y.read = x.read
      /\ y.reader = x.reader /\ y.expected = x.expected /\ y.ended = FALSE
      /\ y.listed = FALSE
  BY <1>1 DEF Sound, StreamInv, StreamRecord, Begin, Unlisted
<1>3. PICK w : w = [x EXCEPT !.expected = @ + 1]
  OBVIOUS
<1>4. /\ w.queue = x.queue /\ w.read = x.read
      /\ w.reader = x.reader /\ w.ended = FALSE
  BY <1>3 DEF Sound, StreamInv, StreamRecord
<1>5. PICK b : b = Push(w, x.expected)
  OBVIOUS
<1>6. Sound(b)
  BY <1>3, <1>5, PushSound
<1>7. PICK p : p = Push(y, x.expected)
  OBVIOUS
<1>8. Overflows(y) <=> Overflows(w)
  BY <1>2, <1>4 DEF Overflows
<1>9. CASE Overflows(y)
  <2>1. p = Fail(Unlisted(y)) /\ x.reader # "waiting"
    BY <1>2, <1>7, <1>9 DEF Push, Overflows
  <2>2. PICK a : a = End(p)
    OBVIOUS
  <2>3. p \in StreamRecord /\ p.ended = TRUE /\ p.listed = FALSE /\ p.queue = x.queue
        /\ p.read = x.read /\ p.reader = x.reader
    BY <1>2, <2>1 DEF Fail, Over, Unlisted, StreamRecord
  <2>4. StreamInv(p)
    BY <2>1, <2>3 DEF Sound, StreamInv
  <2>5. Sound(End(p))
    BY <2>3, <2>4 DEF Sound, End
  <2>6. QED
    BY <1>1, <1>7, <2>5
<1>10. CASE ~Overflows(y)
  <2>1. b \in StreamRecord /\ StreamInv(b)
    BY <1>6 DEF Sound
  <2>2. b.queue \in Seq(Numbers) /\ b.read \in Seq(Numbers)
    BY <2>1 DEF StreamRecord
  <2>3. /\ p.queue = b.queue /\ p.read = b.read /\ p.reader = b.reader
        /\ p.ended = FALSE /\ p.listed = FALSE
    BY <1>2, <1>4, <1>5, <1>7, <1>8, <1>10 DEF Push, StreamRecord, Sound
  <2>4. p \in StreamRecord
    <3>1. x.expected \in Numbers
      BY DEF Sound, StreamRecord
    <3>2. Append(y.read, x.expected) \in Seq(Numbers) /\ Append(y.queue, x.expected) \in Seq(Numbers)
      BY <1>2, <3>1 DEF StreamRecord
    <3>3. QED
      BY <1>2, <1>7, <1>10, <3>2 DEF Push, StreamRecord
  <2>5. PICK a : a = End(p)
    OBVIOUS
  <2>6. /\ a \in StreamRecord /\ a.queue = b.queue /\ a.read = b.read
        /\ a.ended = TRUE /\ a.listed = FALSE /\ a.reader # "waiting"
    BY <2>3, <2>4, <2>5 DEF End, Over, StreamRecord
  <2>7. StreamInv(a)
    BY <2>1, <2>6 DEF StreamInv
  <2>8. QED
    BY <1>1, <1>7, <2>5, <2>6, <2>7 DEF Sound
<1>11. QED
  BY <1>9, <1>10

-----------------------------------------------------------------------------
(* The case analysis of a step. *)
LEMMA StepCases ==
  ASSUME Next
  PROVE  \/ \E k \in Connections :
              \/ Accept(k) \/ Close(k) \/ Hello(k) \/ Respond(k) \/ Refuse(k)
              \/ \E c \in Credentials : Prove(k, c)
         \/ \E u \in Users : RevokeUserConnections(u)
         \/ \E u \in Users : BroadcastContext(u)
         \/ \E u \in Users, c \in Credentials : IssueCredential(c, u)
         \/ \E u \in Users, i \in Calls : Invoke(i, u)
         \/ \E u \in Users, w \in Waiters : WaitForWorker(w, u)
         \/ \E u \in Users, s \in Streams : InvokeStream(s, u)
         \/ \E c \in Credentials : CredentialExpires(c)
         \/ \E i \in Calls : CancelCall(i) \/ Answer(i)
         \/ \E w \in Waiters : WaitTimeout(w)
         \/ \E s \in Streams :
              \/ StreamTimeout(s) \/ CancelStream(s) \/ ResponseStart(s)
              \/ ResponseEnd(s) \/ WholeResponse(s) \/ Read(s)
              \/ \E n \in 0 .. MaxChunks - 1 : ResponseChunk(s, n)
         \/ RevokeInstallationCredentials
         \/ EnablePlugin
         \/ Stop
BY Zenon DEF Next
-----------------------------------------------------------------------------
(* Connections. *)

LEMMA FirstOfUser ==
  ASSUME NEW u, HasWorker(u)
  PROVE  First(u) \in Of(u)
<1>1. Of(u) \subseteq Nat
  BY BrokerAssumption DEF Of, Connections
<1>2. PICK k \in Of(u) : \A m \in Of(u) : <<m, k>> \notin OpToRel(<, Nat)
  BY <1>1, NatLessThanWellFounded, WFMin DEF HasWorker
<1>3. \A m \in Of(u) : ~(m < k)
  BY <1>1, <1>2 DEF OpToRel
<1>4. \A m \in Of(u) : k <= m
  BY <1>1, <1>3
<1>5. QED
  BY <1>4 DEF First

(* What every step but a Close and a Prove does to the connections: g, what
   f becomes, has the same users and credentials, and what is cut stays cut. *)
Steady(f, g) ==
  \A m \in Connections :
    /\ g[m].user = f[m].user /\ g[m].credential = f[m].credential
    /\ \/ g[m].at = f[m].at
       \/ f[m].at \in {"open", "ending"} /\ g[m].at \in {"ending", "destroyed"}
       \/ f[m].at = "none" /\ g[m].at = "open"

LEMMA WriteSteady ==
  ASSUME NEW k, NEW f \in [Connections -> ConnectionRecord]
  PROVE  Write(k, f) \in [Connections -> ConnectionRecord] /\ Steady(f, Write(k, f))
<1>1. Write(k, f) \in [Connections -> ConnectionRecord]
  BY DEF Write, ConnectionRecord, ConnectionStates
<1>2. Steady(f, Write(k, f))
  BY DEF Write, Steady, ConnectionRecord, ConnectionStates
<1> QED
  BY <1>1, <1>2

LEMMA DenySteady ==
  ASSUME Typed, NEW k \in Connections, Receives(k), Deny(k)
  PROVE  connection' \in [Connections -> ConnectionRecord] /\ Steady(connection, connection')
BY DEF Typed, Receives, Deny, Steady, ConnectionRecord, ConnectionStates

LEMMA DeletedTyped ==
  ASSUME Typed, NEW C
  PROVE  Deleted(C) \in [Credentials -> [at : {"none", "valid", "expired", "deleted"},
                                         user : Users \cup {None}]]
BY DEF Typed, Deleted

-----------------------------------------------------------------------------
(* Types, and the streams. *)

(* Over one call to a stream: it may lose its entry, and nothing else that
   tells whose it is. *)
Keeps(x, y) == y.user = x.user /\ y.on = x.on /\ (y.listed => x.listed)

LEMMA KeepsAll ==
  ASSUME NEW x \in StreamRecord
  PROVE  /\ Keeps(x, Unlisted(Fail(x))) /\ Keeps(x, Begin(x)) /\ Keeps(x, Unlisted(End(x)))
         /\ Keeps(x, Fail(Unlisted(x))) /\ Keeps(x, NextChunk(x))
         /\ \A n : Keeps(x, Receive(x, n))
         /\ \A n : Keeps(x, End(Push(Begin(Unlisted(x)), n)))
         /\ Keeps(x, End(Begin(Unlisted(x))))
  BY DEF Keeps, StreamRecord, Unlisted, Fail, Begin, End, Over, NextChunk, Receive, Push,
         Overflows

(* A step changes no stream but s, which becomes y. *)
StreamStep(s, y) ==
  /\ stream' = [stream EXCEPT ![s] = y]
  /\ Sound(y)
  /\ IF Streaming(s) THEN Keeps(stream[s], y)
     ELSE y.listed => y.user \in Users /\ y.on \in Of(y.user)

LEMMA StreamFacts ==
  ASSUME Typed, StreamsSound, NEW s \in Streams, Streaming(s)
  PROVE  stream[s] \in StreamRecord /\ Sound(stream[s]) /\ StreamInv(stream[s])
BY DEF Typed, StreamsSound, Streaming, Sound

LEMMA InvokeStreamStep ==
  ASSUME Typed, NEW s \in Streams, NEW u \in Users, InvokeStream(s, u)
  PROVE  \E y : StreamStep(s, y)
<1>1. CASE HasWorker(u)
  <2>1. First(u) \in Of(u) /\ First(u) \in 0 .. MaxConnections
    BY <1>1, FirstOfUser, BrokerAssumption DEF Of, Connections
  <2>2. Sound(Fresh(u, First(u)))
    BY <2>1, FreshSound
  <2>3. StreamStep(s, Fresh(u, First(u)))
    BY <1>1, <2>1, <2>2 DEF InvokeStream, StreamStep, Streaming, Fresh
  <2>4. QED
    BY <2>3
<1>2. CASE ~HasWorker(u)
  <2>1. 0 \in 0 .. MaxConnections
    BY BrokerAssumption
  <2>2. Sound(Unlisted(Fail(Fresh(u, 0))))
    BY <2>1, FreshSound
  <2>3. Unlisted(Fail(Fresh(u, 0))).listed = FALSE
    BY <2>2 DEF Unlisted, Fail, Over, Fresh
  <2>4. StreamStep(s, Unlisted(Fail(Fresh(u, 0))))
    BY <1>2, <2>2, <2>3 DEF InvokeStream, StreamStep, Streaming
  <2>5. QED
    BY <2>4
<1>3. QED
  BY <1>1, <1>2

LEMMA OpenStreamStep ==
  ASSUME Typed, StreamsSound, NEW s \in Streams,
         \/ StreamTimeout(s) \/ CancelStream(s) \/ ResponseStart(s)
         \/ ResponseEnd(s) \/ WholeResponse(s) \/ Read(s)
         \/ \E n \in 0 .. MaxChunks - 1 : ResponseChunk(s, n)
  PROVE  UNCHANGED stream \/ \E y : StreamStep(s, y)
<1>1. Streaming(s)
  BY DEF StreamTimeout, CancelStream, ResponseStart, ResponseEnd, WholeResponse, Read,
         ResponseChunk, FromWorker
<1>2. PICK x : x = stream[s]
  OBVIOUS
<1>3. x \in StreamRecord /\ Sound(x)
  BY <1>1, <1>2, StreamFacts
<1>4. SUFFICES \/ UNCHANGED stream
               \/ \E y : stream' = [stream EXCEPT ![s] = y] /\ Sound(y) /\ Keeps(x, y)
  BY <1>1, <1>2 DEF StreamStep
<1>5. CASE StreamTimeout(s) \/ CancelStream(s)
  <2>1. stream' = [stream EXCEPT ![s] = Unlisted(Fail(x))]
    BY <1>2, <1>5 DEF StreamTimeout, CancelStream, Withdraw
  <2>2. QED
    BY <1>3, <2>1, OverSound, KeepsAll
<1>6. CASE ResponseStart(s)
  <2>1. stream' = [stream EXCEPT ![s] = Begin(x)]
    BY <1>2, <1>6 DEF ResponseStart
  <2>2. QED
    BY <1>3, <2>1, OverSound, KeepsAll
<1>7. CASE ResponseEnd(s)
  <2>1. stream' = [stream EXCEPT ![s] = Unlisted(End(x))]
    BY <1>2, <1>7 DEF ResponseEnd
  <2>2. QED
    BY <1>3, <2>1, OverSound, KeepsAll
<1>8. CASE Read(s)
  <2>1. stream' = [stream EXCEPT ![s] = NextChunk(x)] /\ x.reader = "idle"
    BY <1>2, <1>8 DEF Read
  <2>2. QED
    BY <1>3, <2>1, ReadSound, KeepsAll
<1>9. ASSUME NEW n \in 0 .. MaxChunks - 1, ResponseChunk(s, n)
      PROVE  \E y : stream' = [stream EXCEPT ![s] = y] /\ Sound(y) /\ Keeps(x, y)
  <2>1. /\ stream' = [stream EXCEPT ![s] = Receive(x, n)]
        /\ x.listed /\ x.expected < MaxChunks
    BY <1>2, <1>9 DEF ResponseChunk
  <2>2. QED
    BY <1>3, <2>1, ReceiveSound, KeepsAll
<1>10. CASE WholeResponse(s)
  <2>1. CASE ~x.listed
    BY <1>2, <1>10, <2>1 DEF WholeResponse
  <2>2. CASE x.listed /\ stream' = [stream EXCEPT ![s] = Fail(Unlisted(x))]
    BY <1>3, <2>2, OverSound, KeepsAll
  <2>3. CASE x.listed /\ stream' = [stream EXCEPT ![s] = End(Begin(Unlisted(x)))]
    BY <1>3, <2>3, EmptyWholeSound, KeepsAll
  <2>4. CASE /\ x.listed /\ x.expected < MaxChunks
             /\ stream' = [stream EXCEPT ![s] = End(Push(Begin(Unlisted(x)), x.expected))]
    <3>1. Sound(End(Push(Begin(Unlisted(x)), x.expected)))
      BY <1>3, <2>4, WholeSound
    <3>2. QED
      BY <1>3, <2>4, <3>1, KeepsAll
  <2>5. Unlisted(x).expected = x.expected
    BY <1>3 DEF Unlisted, StreamRecord
  <2>6. QED
    BY <1>2, <1>10, <2>1, <2>2, <2>3, <2>4, <2>5 DEF WholeResponse
<1>11. QED
  BY <1>5, <1>6, <1>7, <1>8, <1>9, <1>10

(* What a step does to each variable. *)

LEMMA ConnectionSteps ==
  ASSUME Typed, Next
  PROVE  /\ connection' \in [Connections -> ConnectionRecord]
         /\ \/ Steady(connection, connection')
            \/ \E k \in Connections : Close(k)
            \/ \E k \in Connections, c \in Credentials : Prove(k, c)
<1> DEFINE Goal == /\ connection' \in [Connections -> ConnectionRecord]
                   /\ Steady(connection, connection')
<1>0. connection \in [Connections -> ConnectionRecord]
  BY DEF Typed
<1>1. ASSUME UNCHANGED connection
      PROVE  Goal
  BY <1>0, <1>1 DEF Steady
<1>2. ASSUME NEW k, connection' = Write(k, connection)
      PROVE  Goal
  BY <1>0, <1>2, WriteSteady
<1>3. ASSUME NEW k \in Connections, Accept(k)
      PROVE  Goal
  BY <1>0, <1>3 DEF Accept, Steady, ConnectionRecord, ConnectionStates
<1>4. ASSUME NEW k \in Connections, Close(k)
      PROVE  connection' \in [Connections -> ConnectionRecord]
  BY <1>0, <1>4 DEF Close, ConnectionRecord, ConnectionStates
<1>5. ASSUME NEW k \in Connections, Hello(k)
      PROVE  Goal
  <2>1. PICK f : f = [connection EXCEPT ![k].hello = TRUE]
    OBVIOUS
  <2>2. f \in [Connections -> ConnectionRecord] /\ Steady(connection, f)
    BY <1>0, <2>1 DEF Steady, ConnectionRecord
  <2>3. connection' = Write(k, f)
    BY <1>5, <2>1 DEF Hello
  <2>4. connection' \in [Connections -> ConnectionRecord] /\ Steady(f, connection')
    BY <2>2, <2>3, WriteSteady
  <2>5. \A m \in Connections : f[m].at = connection[m].at
    BY <1>0, <2>1 DEF ConnectionRecord
  <2>6. QED
    BY <2>2, <2>4, <2>5 DEF Steady
<1>6. ASSUME NEW k \in Connections, Respond(k)
      PROVE  Goal
  BY <1>2, <1>6 DEF Respond
<1>7. ASSUME NEW k \in Connections, Refuse(k)
      PROVE  Goal
  BY <1>7, DenySteady DEF Refuse
<1>8. ASSUME NEW k \in Connections, NEW c \in Credentials, Prove(k, c)
      PROVE  connection' \in [Connections -> ConnectionRecord]
  <2>1. PICK f : f = [connection EXCEPT ![k].user = credential[c].user, ![k].credential = c]
    OBVIOUS
  <2>2. credential[c].user \in Users \cup {None}
    BY DEF Typed
  <2>3. f \in [Connections -> ConnectionRecord]
    BY <1>0, <2>1, <2>2 DEF ConnectionRecord
  <2>4. QED
    BY <1>8, <2>1, <2>3, WriteSteady DEF Prove
<1>9. ASSUME NEW u \in Users, RevokeUserConnections(u)
      PROVE  Goal
  BY <1>0, <1>9 DEF RevokeUserConnections, Of, Listed, Steady, ConnectionRecord, ConnectionStates
<1>10. ASSUME NEW u \in Users, BroadcastContext(u)
       PROVE  Goal
  <2>1. \A k \in Connections : Write(k, connection) \in [Connections -> ConnectionRecord]
                               /\ Steady(connection, Write(k, connection))
    BY <1>0, WriteSteady
  <2>2. connection' = [k \in Connections |-> IF k \in Of(u) THEN Write(k, connection)[k]
                                             ELSE connection[k]]
    BY <1>10 DEF BroadcastContext
  <2>3. QED
    BY <1>0, <2>1, <2>2 DEF Steady
<1>11. ASSUME NEW u \in Users, NEW i \in Calls, Invoke(i, u)
       PROVE  Goal
  BY <1>1, <1>2, <1>11 DEF Invoke
<1>12. ASSUME NEW i \in Calls, CancelCall(i) \/ Answer(i)
       PROVE  Goal
  <2>1. CASE CancelCall(i)
    BY <1>2, <2>1 DEF CancelCall
  <2>2. CASE Answer(i)
    <3>1. call[i].on \in 0 .. MaxConnections
      BY DEF Typed
    <3>2. call[i].on \in Connections
      BY <2>2, <3>1, BrokerAssumption DEF Answer, Connections
    <3>3. QED
      BY <1>1, <2>2, <3>2, DenySteady DEF Answer
  <2>3. QED
    BY <1>12, <2>1, <2>2
<1>13. ASSUME NEW u \in Users, NEW s \in Streams, InvokeStream(s, u)
       PROVE  Goal
  BY <1>1, <1>2, <1>13 DEF InvokeStream
<1>14. ASSUME NEW s \in Streams, StreamTimeout(s) \/ CancelStream(s)
       PROVE  Goal
  BY <1>1, <1>2, <1>14 DEF StreamTimeout, CancelStream, Withdraw
<1>15. ASSUME NEW s \in Streams, NEW n \in 0 .. MaxChunks - 1, ResponseChunk(s, n)
       PROVE  Goal
  BY <1>1, <1>2, <1>15 DEF ResponseChunk
<1>16. ASSUME NEW s \in Streams, WholeResponse(s)
       PROVE  Goal
  <2>1. stream[s] \in StreamRecord
    BY <1>16 DEF Typed, WholeResponse, FromWorker, Streaming
  <2>2. stream[s].on \in Connections /\ Receives(stream[s].on)
    BY <1>16, <2>1, BrokerAssumption DEF WholeResponse, FromWorker, StreamRecord, Connections
  <2>3. QED
    BY <1>1, <1>16, <2>2, DenySteady DEF WholeResponse
<1>17. CASE Stop
  BY <1>0, <1>17 DEF Stop, Listed, Steady, ConnectionRecord, ConnectionStates
<1>18. ASSUME NEW s \in Streams, ResponseStart(s) \/ ResponseEnd(s) \/ Read(s)
       PROVE  UNCHANGED connection
  BY <1>18 DEF ResponseStart, ResponseEnd, Read, sockets
<1>19. ASSUME NEW u \in Users, NEW c \in Credentials, IssueCredential(c, u)
       PROVE  UNCHANGED connection
  BY <1>19 DEF IssueCredential, sockets
<1>20. ASSUME NEW u \in Users, NEW w \in Waiters, WaitForWorker(w, u)
       PROVE  UNCHANGED connection
  BY <1>20 DEF WaitForWorker, sockets
<1>21. ASSUME NEW c \in Credentials, CredentialExpires(c)
       PROVE  UNCHANGED connection
  BY <1>21 DEF CredentialExpires, sockets
<1>22. ASSUME NEW w \in Waiters, WaitTimeout(w)
       PROVE  UNCHANGED connection
  BY <1>22 DEF WaitTimeout, sockets
<1>23. CASE RevokeInstallationCredentials \/ EnablePlugin
  BY <1>1, <1>23 DEF RevokeInstallationCredentials, EnablePlugin, sockets
<1>24. QED
  BY <1>1, <1>3, <1>4, <1>5, <1>6, <1>7, <1>8, <1>9, <1>10, <1>11, <1>12, <1>13, <1>14, <1>15,
     <1>16, <1>17, <1>18, <1>19, <1>20, <1>21, <1>22, <1>23, StepCases, Zenon

StateRecord == [at : {"none", "valid", "expired", "deleted"}, user : Users \cup {None}]

(* Only an issue changes whose credential it is; a deleted one stays so. *)
CredentialsKept ==
  \A c \in Credentials :
    /\ credential'[c].user = credential[c].user
    /\ credential[c].at = "deleted" => credential'[c].at = "deleted"
    /\ credential[c].at = "none" <=> credential'[c].at = "none"

LEMMA CredentialSteps ==
  ASSUME Typed, Next
  PROVE  /\ credential' \in [Credentials -> StateRecord]
         /\ \/ CredentialsKept
            \/ \E u \in Users, c \in Credentials : IssueCredential(c, u)
<1> DEFINE Goal == credential' \in [Credentials -> StateRecord] /\ CredentialsKept
<1>1. credential \in [Credentials -> StateRecord]
  BY DEF Typed, StateRecord
<1>2. ASSUME UNCHANGED credential
      PROVE  Goal
  BY <1>1, <1>2 DEF CredentialsKept
<1>3. ASSUME NEW C, credential' = Deleted(C)
      PROVE  Goal
  BY <1>1, <1>3 DEF CredentialsKept, Deleted, StateRecord
<1>4. ASSUME NEW c \in Credentials, CredentialExpires(c)
      PROVE  Goal
  BY <1>1, <1>4 DEF CredentialsKept, CredentialExpires, StateRecord
<1>5. ASSUME NEW u \in Users, NEW c \in Credentials, IssueCredential(c, u)
      PROVE  credential' \in [Credentials -> StateRecord]
  BY <1>1, <1>5 DEF IssueCredential, StateRecord
<1>6. ASSUME NEW k \in Connections, NEW c \in Credentials, Prove(k, c)
      PROVE  Goal
  BY <1>3, <1>6 DEF Prove, Consumed
<1>7. CASE UNCHANGED credential
  BY <1>2, <1>7
<1>8. CASE \/ \E u \in Users : RevokeUserConnections(u)
           \/ RevokeInstallationCredentials \/ Stop
  BY <1>3, <1>8 DEF RevokeUserConnections, RevokeInstallationCredentials, Stop
<1>9. \/ UNCHANGED credential
      \/ \E k \in Connections, c \in Credentials : Prove(k, c)
      \/ \E c \in Credentials : CredentialExpires(c)
      \/ \E u \in Users, c \in Credentials : IssueCredential(c, u)
      \/ \E u \in Users : RevokeUserConnections(u)
      \/ RevokeInstallationCredentials \/ Stop
  BY StepCases, Zenon
  DEF Accept, Close, Hello, Respond, Refuse, BroadcastContext, Invoke, WaitForWorker,
      InvokeStream, CancelCall, Answer, WaitTimeout, StreamTimeout, CancelStream, ResponseStart,
      ResponseEnd, WholeResponse, Read, ResponseChunk, EnablePlugin
<1>10. QED
  BY <1>4, <1>5, <1>6, <1>7, <1>8, <1>9, Zenon

CallRecord ==
  [at : {"none", "pending", "answered", "failed"}, user : Users \cup {None},
   on : 0 .. MaxConnections]

(* A call that pends did so before, or is sent to its user's Worker. *)
CallStep ==
  \A i \in Calls : call'[i].at = "pending" =>
    \/ call'[i] = call[i]
    \/ call'[i].user \in Users /\ call'[i].on \in Of(call'[i].user)

LEMMA CallSteps ==
  ASSUME Typed, Next
  PROVE  call' \in [Calls -> CallRecord] /\ CallStep
<1>1. call \in [Calls -> CallRecord]
  BY DEF Typed, CallRecord
<1>2. CASE UNCHANGED call
  BY <1>1, <1>2 DEF CallStep
<1>3. ASSUME NEW k \in Connections, Close(k)
      PROVE  call' \in [Calls -> CallRecord] /\ CallStep
  BY <1>1, <1>3 DEF Close, FailAll, CallStep, CallRecord
<1>4. ASSUME NEW u \in Users, NEW i \in Calls, Invoke(i, u)
      PROVE  call' \in [Calls -> CallRecord] /\ CallStep
  <2>1. CASE HasWorker(u)
    <3>1. First(u) \in Of(u) /\ First(u) \in 0 .. MaxConnections
      BY <2>1, FirstOfUser, BrokerAssumption DEF Of, Connections
    <3>2. QED
      BY <1>1, <1>4, <2>1, <3>1 DEF Invoke, CallStep, CallRecord
  <2>2. CASE ~HasWorker(u)
    <3>1. 0 \in 0 .. MaxConnections
      BY BrokerAssumption
    <3>2. QED
      BY <1>1, <1>4, <2>2, <3>1 DEF Invoke, CallStep, CallRecord
  <2>3. QED
    BY <2>1, <2>2
<1>5. ASSUME NEW i \in Calls, CancelCall(i)
      PROVE  call' \in [Calls -> CallRecord] /\ CallStep
  BY <1>1, <1>5 DEF CancelCall, CallStep, CallRecord
<1>6. ASSUME NEW i \in Calls, Answer(i)
      PROVE  call' \in [Calls -> CallRecord] /\ CallStep
  <2>1. \/ UNCHANGED call
        \/ call' = [call EXCEPT ![i].at = "answered"]
    BY <1>6 DEF Answer
  <2>2. QED
    BY <1>1, <2>1 DEF CallStep, CallRecord
<1>7. \/ UNCHANGED call
      \/ \E k \in Connections : Close(k)
      \/ \E u \in Users, i \in Calls : Invoke(i, u)
      \/ \E i \in Calls : CancelCall(i) \/ Answer(i)
  BY StepCases, Zenon
  DEF Accept, Hello, Respond, Refuse, Prove, RevokeUserConnections, BroadcastContext,
      IssueCredential, WaitForWorker, InvokeStream, CredentialExpires, WaitTimeout, StreamTimeout,
      CancelStream, ResponseStart, ResponseEnd, WholeResponse, Read, ResponseChunk,
      RevokeInstallationCredentials, EnablePlugin, Stop
<1>8. QED
  BY <1>2, <1>3, <1>4, <1>5, <1>6, <1>7, Zenon

WaiterRecord == [at : {"none", "waiting", "resolved", "rejected"}, user : Users \cup {None}]

(* Who waits did so before, or finds no Worker. *)
WaiterStep ==
  \A w \in Waiters : waiter'[w].at = "waiting" =>
    \/ waiter'[w] = waiter[w]
    \/ waiter'[w].user \in Users /\ ~HasWorker(waiter'[w].user) /\ UNCHANGED connection

LEMMA WaiterSteps ==
  ASSUME Typed, Next
  PROVE  waiter' \in [Waiters -> WaiterRecord] /\ WaiterStep
<1>1. waiter \in [Waiters -> WaiterRecord]
  BY DEF Typed, WaiterRecord
<1>2. CASE UNCHANGED waiter
  BY <1>1, <1>2 DEF WaiterStep
<1>3. ASSUME NEW k \in Connections, NEW c \in Credentials, Prove(k, c)
      PROVE  waiter' \in [Waiters -> WaiterRecord] /\ WaiterStep
  BY <1>1, <1>3 DEF Prove, Woken, WaiterStep, WaiterRecord
<1>4. ASSUME NEW u \in Users, NEW w \in Waiters, WaitForWorker(w, u)
      PROVE  waiter' \in [Waiters -> WaiterRecord] /\ WaiterStep
  BY <1>1, <1>4 DEF WaitForWorker, WaiterStep, WaiterRecord, sockets
<1>5. ASSUME NEW w \in Waiters, WaitTimeout(w)
      PROVE  waiter' \in [Waiters -> WaiterRecord] /\ WaiterStep
  BY <1>1, <1>5 DEF WaitTimeout, WaiterStep, WaiterRecord
<1>6. \/ UNCHANGED waiter
      \/ \E k \in Connections, c \in Credentials : Prove(k, c)
      \/ \E u \in Users, w \in Waiters : WaitForWorker(w, u)
      \/ \E w \in Waiters : WaitTimeout(w)
  BY StepCases, Zenon
  DEF Accept, Close, Hello, Respond, Refuse, RevokeUserConnections, BroadcastContext,
      IssueCredential, Invoke, InvokeStream, CredentialExpires, CancelCall, Answer, StreamTimeout,
      CancelStream, ResponseStart, ResponseEnd, WholeResponse, Read, ResponseChunk,
      RevokeInstallationCredentials, EnablePlugin, Stop
<1>7. QED
  BY <1>2, <1>3, <1>4, <1>5, <1>6, Zenon

LEMMA StreamSteps ==
  ASSUME Typed, StreamsSound, Next
  PROVE  \/ UNCHANGED stream
         \/ \E k \in Connections : Close(k)
         \/ \E s \in Streams : \E y : StreamStep(s, y)
<1>1. \/ UNCHANGED stream
      \/ \E k \in Connections : Close(k)
      \/ \E u \in Users, s \in Streams : InvokeStream(s, u)
      \/ \E s \in Streams :
            \/ StreamTimeout(s) \/ CancelStream(s) \/ ResponseStart(s)
            \/ ResponseEnd(s) \/ WholeResponse(s) \/ Read(s)
            \/ \E n \in 0 .. MaxChunks - 1 : ResponseChunk(s, n)
  BY StepCases, Zenon
  DEF Accept, Hello, Respond, Refuse, Prove, RevokeUserConnections, BroadcastContext,
      IssueCredential, Invoke, WaitForWorker, CredentialExpires, CancelCall, Answer, WaitTimeout,
      RevokeInstallationCredentials, EnablePlugin, Stop
<1>2. QED
  BY <1>1, InvokeStreamStep, OpenStreamStep, Zenon

LEMMA FlagSteps ==
  ASSUME Typed, Next
  PROVE  /\ enabled' \in BOOLEAN /\ listening' \in BOOLEAN
         /\ \/ UNCHANGED old
            \/ \E u \in Users : RevokeUserConnections(u)
<1>1. \/ UNCHANGED <<enabled, listening>>
      \/ UNCHANGED listening /\ enabled' \in {enabled, FALSE}
      \/ UNCHANGED listening /\ enabled' = TRUE
      \/ UNCHANGED enabled /\ listening' = FALSE
  BY StepCases, Zenon
  DEF Accept, Close, Hello, Respond, Refuse, Prove, RevokeUserConnections, BroadcastContext,
      IssueCredential, Invoke, WaitForWorker, InvokeStream, CredentialExpires, CancelCall, Answer,
      WaitTimeout, StreamTimeout, CancelStream, ResponseStart, ResponseEnd, WholeResponse, Read,
      ResponseChunk, RevokeInstallationCredentials, EnablePlugin, Stop, sockets
<1>2. \/ UNCHANGED old
      \/ \E u \in Users : RevokeUserConnections(u)
  BY StepCases, Zenon
  DEF Accept, Close, Hello, Respond, Refuse, Prove, BroadcastContext,
      IssueCredential, Invoke, WaitForWorker, InvokeStream, CredentialExpires, CancelCall, Answer,
      WaitTimeout, StreamTimeout, CancelStream, ResponseStart, ResponseEnd, WholeResponse, Read,
      ResponseChunk, RevokeInstallationCredentials, EnablePlugin, Stop, sockets
<1>3. QED
  BY <1>1, <1>2 DEF Typed

(* A stream that is failed by the close of its connection stays as it should. *)
LEMMA CloseStreams ==
  ASSUME Typed, StreamsSound, NEW k \in Connections, Close(k)
  PROVE  /\ stream' \in [Streams -> StreamRecord \cup {None}] /\ StreamsSound'
         /\ \A s \in Streams :
              /\ Streaming(s)' => Streaming(s)
              /\ Streaming(s) => Keeps(stream[s], stream'[s])
              /\ Streaming(s) /\ stream'[s].listed => stream[s].on # k
<1>1. stream' = [s \in Streams |->
                  IF Streaming(s) /\ stream[s].listed /\ stream[s].on = k
                  THEN Unlisted(Fail(stream[s])) ELSE stream[s]]
  BY DEF Close, FailAll
<1>2. ASSUME NEW s \in Streams, Streaming(s)
      PROVE  /\ stream'[s] \in StreamRecord /\ Sound(stream'[s])
             /\ Keeps(stream[s], stream'[s])
             /\ stream'[s].listed => stream[s].on # k
  <2>1. stream[s] \in StreamRecord /\ Sound(stream[s])
    BY <1>2, StreamFacts
  <2>2. CASE stream[s].listed /\ stream[s].on = k
    <3>1. stream'[s] = Unlisted(Fail(stream[s]))
      BY <1>1, <1>2, <2>2
    <3>2. Sound(Unlisted(Fail(stream[s]))) /\ Keeps(stream[s], Unlisted(Fail(stream[s])))
      BY <2>1, OverSound, KeepsAll
    <3>3. stream'[s].listed = FALSE
      BY <2>1, <3>1 DEF Unlisted, Fail, Over, StreamRecord
    <3>4. QED
      BY <3>1, <3>2, <3>3 DEF Sound
  <2>3. CASE ~(stream[s].listed /\ stream[s].on = k)
    BY <1>1, <1>2, <2>1, <2>3 DEF Keeps, Streaming
  <2>4. QED
    BY <2>2, <2>3
<1>3. ASSUME NEW s \in Streams, ~Streaming(s)
      PROVE  stream'[s] = None
  BY <1>1, <1>3 DEF Streaming
<1>4. QED
  BY <1>1, <1>2, <1>3 DEF StreamsSound, Streaming

LEMMA NextTyped == Typed /\ StreamsSound /\ [Next]_vars => Typed' /\ StreamsSound'
<1> SUFFICES ASSUME Typed, StreamsSound, [Next]_vars
             PROVE  Typed' /\ StreamsSound'
  OBVIOUS
<1>1. CASE UNCHANGED vars
  BY <1>1 DEF vars, sockets, Typed, StreamsSound, Streaming
<1>2. CASE Next
  <2>1. enabled' \in BOOLEAN /\ listening' \in BOOLEAN /\ old' \subseteq Credentials
    <3>1. CASE UNCHANGED old
      BY <1>2, <3>1, FlagSteps DEF Typed
    <3>2. CASE \E u \in Users : RevokeUserConnections(u)
      BY <1>2, <3>2, FlagSteps DEF Typed, RevokeUserConnections
    <3>3. QED
      BY <1>2, <3>1, <3>2, FlagSteps
  <2>2. stream' \in [Streams -> StreamRecord \cup {None}] /\ StreamsSound'
    <3>1. CASE UNCHANGED stream
      BY <3>1 DEF Typed, StreamsSound, Streaming
    <3>2. CASE \E k \in Connections : Close(k)
      BY <3>2, CloseStreams
    <3>3. ASSUME NEW s \in Streams, NEW y, StreamStep(s, y)
          PROVE  stream' \in [Streams -> StreamRecord \cup {None}] /\ StreamsSound'
      <4>1. stream' = [stream EXCEPT ![s] = y] /\ Sound(y) /\ y \in StreamRecord
        BY <3>3 DEF StreamStep, Sound
      <4>2. QED
        BY <4>1 DEF Typed, StreamsSound, Streaming
    <3>4. QED
      BY <1>2, <3>1, <3>2, <3>3, StreamSteps
  <2>3. QED
    BY <1>2, <2>1, <2>2, ConnectionSteps, CredentialSteps, CallSteps, WaiterSteps
    DEF Typed, StateRecord, CallRecord, WaiterRecord
<1>3. QED
  BY <1>1, <1>2

LEMMA InitTyped == Init => Typed /\ StreamsSound
<1>1. 0 \in 0 .. MaxConnections
  BY BrokerAssumption
<1>2. QED
  BY <1>1 DEF Init, Typed, StreamsSound, Streaming, ConnectionRecord, ConnectionStates

(* The types of the state, and the limit on what is held for a slow reader:
   the queue of a stream (push in runtime-broker.ts) never exceeds it. *)
THEOREM TypeCorrect == Spec => []TypeOK
<1>1. Typed /\ StreamsSound => TypeOK
  <2> SUFFICES ASSUME Typed, StreamsSound
               PROVE  TypeOK
    OBVIOUS
  <2>1. \A s \in Streams : Streaming(s) => StreamType(stream[s])
    BY StreamFacts DEF StreamType, StreamRecord, StreamInv, Numbers
  <2>2. QED
    BY <2>1 DEF Typed, TypeOK, ConnectionRecord
<1>2. QED
  BY <1>1, InitTyped, NextTyped, PTL DEF Spec

(* A reader of a stream gets the chunks in the order in which the Worker
   numbered them, none missing (responseChunk, push and next). *)
THEOREM ReadersGetChunksInOrder == Spec => []ChunksInOrder
<1>1. Typed /\ StreamsSound => ChunksInOrder
  <2> SUFFICES ASSUME Typed, StreamsSound, NEW s \in Streams, Streaming(s)
               PROVE  InOrder(stream[s])
    BY DEF ChunksInOrder
  <2>1. PICK x : x = stream[s]
    OBVIOUS
  <2>2. x \in StreamRecord /\ StreamInv(x)
    BY <2>1, StreamFacts
  <2>3. x.read \in Seq(Numbers) /\ x.queue \in Seq(Numbers)
    BY <2>2 DEF StreamRecord
  <2>4. Run(x.read, 0) /\ Run(x.queue, Len(x.read))
    BY <2>2 DEF StreamInv
  <2>5. PICK r : r = x.read
    OBVIOUS
  <2>6. PICK q : q = x.queue
    OBVIOUS
  <2>7. r \in Seq(Numbers) /\ q \in Seq(Numbers) /\ Run(r, 0) /\ Run(q, Len(r))
    BY <2>3, <2>4, <2>5, <2>6
  <2>8. InOrder(x) <=> \A j \in DOMAIN (r \o q) : (r \o q)[j] = j - 1
    BY <2>5, <2>6 DEF InOrder
  <2>9. \A j \in DOMAIN (r \o q) : (r \o q)[j] = j - 1
    BY <2>7, RunConcat
  <2>10. QED
    BY <2>1, <2>8, <2>9
<1>2. QED
  BY <1>1, InitTyped, NextTyped, PTL DEF Spec

(* A reader that waits in next() waits on a stream that is still in the map
   of its connection, where every way to end it will tell the reader. *)
THEOREM ReadersAreTold == Spec => []NoReaderStranded
<1>1. Typed /\ StreamsSound => NoReaderStranded
  BY StreamFacts DEF NoReaderStranded, StreamInv
<1>2. QED
  BY <1>1, InitTyped, NextTyped, PTL DEF Spec

-----------------------------------------------------------------------------
(* Whose connections and credentials they are. *)

CredentialOwners ==
  \A c \in Credentials :
    IF credential[c].at = "none" THEN credential[c].user = None ELSE credential[c].user \in Users

(* Of a connection: nobody's before its proof and after its close; the user of
   the credential it has used up in between. *)
ConnectionOwner(k) ==
  /\ connection[k].at = "none" => connection[k].user = None /\ connection[k].credential = None
  /\ connection[k].at = "closed" => connection[k].user = None
  /\ connection[k].credential = None => connection[k].user = None
  /\ connection[k].credential # None =>
       /\ credential[connection[k].credential].at = "deleted"
       /\ Listed(k) => connection[k].user = credential[connection[k].credential].user

OldDeleted == \A c \in old : credential[c].at = "deleted"

Owners ==
  /\ CredentialOwners
  /\ \A k \in Connections : ConnectionOwner(k)
  /\ OldDeleted
  /\ CredentialUsedOnce
  /\ RevocationCutsOff

LEMMA SteadyOwners ==
  ASSUME Typed, Typed', Owners, Steady(connection, connection'), CredentialsKept, UNCHANGED old
  PROVE  Owners'
<1>1. CredentialOwners'
  BY DEF Owners, CredentialOwners, CredentialsKept
<1>2. ASSUME NEW k \in Connections
      PROVE  ConnectionOwner(k)'
  <2>1. connection[k] \in ConnectionRecord /\ ConnectionOwner(k)
    BY DEF Typed, Owners
  <2>2. CASE connection[k].credential = None
    BY <2>1, <2>2 DEF Steady, ConnectionOwner, Listed
  <2>3. CASE connection[k].credential # None
    <3>1. PICK c \in Credentials : c = connection[k].credential
      BY <2>1, <2>3 DEF ConnectionRecord
    <3>2. connection'[k].credential = c /\ connection'[k].user = connection[k].user
      BY <3>1 DEF Steady
    <3>3. credential'[c].at = "deleted" /\ credential'[c].user = credential[c].user
      BY <2>1, <2>3, <3>1 DEF CredentialsKept, ConnectionOwner
    <3>4. Listed(k)' => Listed(k)
      BY <2>1, <2>3 DEF Steady, Listed, ConnectionOwner
    <3>5. connection'[k].at \in {"none", "closed"} => connection'[k].at = connection[k].at
      BY DEF Steady
    <3>6. QED
      BY <2>1, <2>3, <3>1, <3>2, <3>3, <3>4, <3>5 DEF ConnectionOwner
  <2>4. QED
    BY <2>2, <2>3
<1>3. OldDeleted'
  BY DEF Typed, Owners, OldDeleted, CredentialsKept
<1>4. CredentialUsedOnce'
  BY DEF Owners, CredentialUsedOnce, Steady
<1>5. RevocationCutsOff'
  <2> SUFFICES ASSUME NEW k \in Connections, Receives(k)'
               PROVE  connection'[k].credential \notin old
    BY DEF RevocationCutsOff
  <2>1. CASE connection[k].credential = None
    BY <2>1, BrokerAssumption DEF Typed, Steady
  <2>2. CASE connection[k].credential # None
    <3>1. Receives(k)
      BY <2>2 DEF Receives, Steady, Owners, ConnectionOwner
    <3>2. QED
      BY <3>1 DEF Owners, RevocationCutsOff, Steady
  <2>3. QED
    BY <2>1, <2>2
<1>6. QED
  BY <1>1, <1>2, <1>3, <1>4, <1>5 DEF Owners

LEMMA IssueOwners ==
  ASSUME Typed, Typed', Owners, NEW c \in Credentials, NEW u \in Users, IssueCredential(c, u)
  PROVE  Owners'
<1>1. UNCHANGED <<connection, old>> /\ credential[c].at = "none"
  BY DEF IssueCredential, sockets
<1>2. \A d \in Credentials : d # c => credential'[d] = credential[d]
  BY DEF Typed, IssueCredential
<1>3. credential'[c] = [at |-> "valid", user |-> u]
  BY DEF Typed, IssueCredential
<1>4. CredentialOwners'
  BY <1>2, <1>3 DEF Owners, CredentialOwners
<1>5. ASSUME NEW k \in Connections
      PROVE  ConnectionOwner(k)'
  <2>1. ConnectionOwner(k) /\ connection[k].credential \in Credentials \cup {None}
    BY DEF Typed, Owners, ConnectionRecord
  <2>2. connection[k].credential # None =>
          credential'[connection[k].credential] = credential[connection[k].credential]
    BY <1>1, <1>2, <2>1 DEF ConnectionOwner
  <2>3. QED
    BY <1>1, <2>1, <2>2 DEF ConnectionOwner, Listed
<1>6. OldDeleted'
  BY <1>1, <1>2 DEF Typed, Owners, OldDeleted
<1>7. QED
  BY <1>1, <1>4, <1>5, <1>6 DEF Owners, CredentialUsedOnce, RevocationCutsOff, Receives

LEMMA CloseOwners ==
  ASSUME Typed, Typed', Owners, NEW k \in Connections, Close(k)
  PROVE  Owners'
<1>1. UNCHANGED <<credential, old>>
  BY DEF Close
<1>2. \A m \in Connections : m # k => connection'[m] = connection[m]
  BY DEF Typed, Close
<1>3. connection'[k] = [at |-> "closed", hello |-> FALSE, user |-> None,
                        credential |-> connection[k].credential]
  BY DEF Typed, Close
<1>4. ASSUME NEW m \in Connections
      PROVE  ConnectionOwner(m)'
  BY <1>1, <1>2, <1>3 DEF Owners, ConnectionOwner, Listed
<1>5. \A m \in Connections : connection'[m].credential = connection[m].credential
  BY <1>2, <1>3
<1>6. \A m \in Connections : Receives(m)' => Receives(m)
  BY <1>2, <1>3 DEF Receives
<1>7. QED
  BY <1>1, <1>4, <1>5, <1>6
  DEF Owners, CredentialOwners, OldDeleted, CredentialUsedOnce, RevocationCutsOff

(* How a connection proves itself. *)
LEMMA ProveFacts ==
  ASSUME Typed, Owners, NEW k \in Connections, NEW c \in Credentials, Prove(k, c)
  PROVE  /\ \A m \in Connections : m # k => connection'[m] = connection[m]
         /\ connection'[k].user = credential[c].user /\ connection'[k].credential = c
         /\ connection'[k].at \in {"open", "destroyed"} /\ credential[c].user \in Users
         /\ \A m \in Connections : connection[m].credential # c
         /\ connection[k].user = None /\ Listed(k)
<1>1. PICK f : f = [connection EXCEPT ![k].user = credential[c].user, ![k].credential = c]
  OBVIOUS
<1>2. connection \in [Connections -> ConnectionRecord] /\ credential[c].user \in Users \cup {None}
  BY DEF Typed
<1>3. /\ f \in [Connections -> ConnectionRecord]
      /\ \A m \in Connections : m # k => f[m] = connection[m]
      /\ f[k].user = credential[c].user /\ f[k].credential = c /\ f[k].at = connection[k].at
  BY <1>1, <1>2 DEF ConnectionRecord
<1>4. connection' = Write(k, f) /\ Receives(k) /\ credential[c].at = "valid" /\ connection[k].user = None
  BY <1>1 DEF Prove
<1>5. /\ \A m \in Connections : m # k => connection'[m] = f[m]
      /\ connection'[k].user = f[k].user /\ connection'[k].credential = f[k].credential
      /\ connection'[k].at \in {"open", "destroyed"}
  BY <1>3, <1>4 DEF Write, Receives, ConnectionRecord
<1>6. credential[c].user \in Users
  BY <1>4 DEF Owners, CredentialOwners
<1>7. \A m \in Connections : connection[m].credential # c
  BY <1>4, BrokerAssumption DEF Owners, ConnectionOwner
<1>8. QED
  BY <1>3, <1>4, <1>5, <1>6, <1>7 DEF Receives, Listed

LEMMA ProveOwners ==
  ASSUME Typed, Typed', Owners, NEW k \in Connections, NEW c \in Credentials, Prove(k, c)
  PROVE  Owners'
<1>1. /\ \A d \in Credentials : d # c => credential'[d] = credential[d]
      /\ credential'[c].at = "deleted" /\ credential'[c].user = credential[c].user
  BY DEF Typed, Prove, Consumed, Deleted
<1>2. UNCHANGED old /\ c \notin old
  BY DEF Prove, Owners, OldDeleted
<1>3. CredentialOwners'
  BY <1>1, ProveFacts DEF Owners, CredentialOwners
<1>4. ASSUME NEW m \in Connections, m # k
      PROVE  ConnectionOwner(m)'
  <2>1. ConnectionOwner(m) /\ connection[m].credential \in Credentials \cup {None}
    BY DEF Typed, Owners, ConnectionRecord
  <2>2. connection'[m] = connection[m] /\ connection[m].credential # c
    BY <1>4, ProveFacts
  <2>3. QED
    BY <1>1, <2>1, <2>2 DEF ConnectionOwner, Listed
<1>5. ConnectionOwner(k)'
  BY <1>1, ProveFacts, BrokerAssumption DEF ConnectionOwner
<1>6. OldDeleted'
  BY <1>1, <1>2 DEF Typed, Owners, OldDeleted
<1>7. CredentialUsedOnce'
  BY ProveFacts DEF Owners, CredentialUsedOnce
<1>8. RevocationCutsOff'
  BY <1>2, ProveFacts DEF Owners, RevocationCutsOff, Receives
<1>9. QED
  BY <1>3, <1>4, <1>5, <1>6, <1>7, <1>8 DEF Owners

LEMMA RevokeOwners ==
  ASSUME Typed, Typed', Owners, NEW u \in Users, RevokeUserConnections(u)
  PROVE  Owners'
<1>1. \A k \in Connections :
        /\ connection'[k].user = connection[k].user
        /\ connection'[k].credential = connection[k].credential
        /\ IF k \in Of(u) THEN connection'[k].at = "destroyed" ELSE connection'[k] = connection[k]
  BY DEF Typed, RevokeUserConnections, ConnectionRecord
<1>2. \A c \in Credentials :
        /\ credential'[c].user = credential[c].user
        /\ credential[c].at = "none" <=> credential'[c].at = "none"
        /\ credential[c].at = "deleted" => credential'[c].at = "deleted"
        /\ credential[c].user = u => credential'[c].at = "deleted"
  BY BrokerAssumption DEF Typed, RevokeUserConnections, Deleted, CredentialsOf, Owners, CredentialOwners
<1>3. old' = old \cup {c \in Credentials : credential[c].user = u}
  BY DEF RevokeUserConnections
<1>4. CredentialOwners'
  BY <1>2 DEF Owners, CredentialOwners
<1>5. ASSUME NEW k \in Connections
      PROVE  ConnectionOwner(k)'
  <2>1. ConnectionOwner(k) /\ connection[k].credential \in Credentials \cup {None}
    BY DEF Typed, Owners, ConnectionRecord
  <2>2. Listed(k)' => Listed(k)
    BY <1>1 DEF Of, Listed
  <2>3. connection'[k].at \in {"none", "closed"} => connection'[k].at = connection[k].at
    BY <1>1
  <2>4. QED
    BY <1>1, <1>2, <2>1, <2>2, <2>3 DEF ConnectionOwner
<1>6. OldDeleted'
  BY <1>2, <1>3 DEF Typed, Owners, OldDeleted
<1>7. CredentialUsedOnce'
  BY <1>1 DEF Owners, CredentialUsedOnce
<1>8. RevocationCutsOff'
  <2> SUFFICES ASSUME NEW k \in Connections, Receives(k)', connection'[k].credential \in old'
               PROVE  FALSE
    BY DEF RevocationCutsOff
  <2>1. k \notin Of(u) /\ Receives(k)
    BY <1>1 DEF Receives
  <2>2. connection[k].credential \in Credentials /\ credential[connection[k].credential].user = u
    BY <1>1, <1>3, <2>1 DEF Owners, RevocationCutsOff
  <2>3. connection[k].user = u
    BY <2>1, <2>2, BrokerAssumption DEF Owners, ConnectionOwner, Receives, Listed
  <2>4. QED
    BY <2>1, <2>3 DEF Of, Receives, Listed
<1>9. QED
  BY <1>4, <1>5, <1>6, <1>7, <1>8 DEF Owners

LEMMA NextOwners == Typed /\ StreamsSound /\ Owners /\ [Next]_vars => Owners'
<1> SUFFICES ASSUME Typed, StreamsSound, Owners, [Next]_vars
             PROVE  Owners'
  OBVIOUS
<1>1. Typed'
  BY NextTyped
<1>2. CASE UNCHANGED vars
  BY <1>2 DEF vars, sockets, Owners, CredentialOwners, ConnectionOwner, OldDeleted, Listed,
              CredentialUsedOnce, RevocationCutsOff, Receives
<1>3. CASE Next /\ Steady(connection, connection') /\ CredentialsKept /\ UNCHANGED old
  BY <1>1, <1>3, SteadyOwners
<1>4. QED
  BY <1>1, <1>2, <1>3, IssueOwners, CloseOwners, ProveOwners, RevokeOwners, ConnectionSteps,
     CredentialSteps, FlagSteps

LEMMA InitOwners == Init => Owners
BY DEF Init, Owners, CredentialOwners, ConnectionOwner, OldDeleted, CredentialUsedOnce,
       RevocationCutsOff, Receives, Listed

(* A credential lets in one connection: prove() deletes it before it accepts
   the connection. *)
THEOREM CredentialsAreOneShot == Spec => []CredentialUsedOnce
<1>1. Owners => CredentialUsedOnce
  BY DEF Owners
<1>2. QED
  BY <1>1, InitTyped, NextTyped, InitOwners, NextOwners, PTL DEF Spec

(* Once a user is revoked (revokeUserConnections), nothing is read any more
   from a Worker that had one of the user's credentials, wherever it was in its
   handshake: what it had not used is deleted, what it had used is cut off. *)
THEOREM RevokedWorkersAreCutOff == Spec => []RevocationCutsOff
<1>1. Owners => RevocationCutsOff
  BY DEF Owners
<1>2. QED
  BY <1>1, InitTyped, NextTyped, InitOwners, NextOwners, PTL DEF Spec

-----------------------------------------------------------------------------
(* Who waits, and for which connection. *)

Pending ==
  /\ \A i \in Calls : call[i].at = "pending" =>
       call[i].user \in Users /\ call[i].on \in Of(call[i].user)
  /\ \A s \in Streams : Streaming(s) /\ stream[s].listed =>
       stream[s].user \in Users /\ stream[s].on \in Of(stream[s].user)

Waiting ==
  \A w \in Waiters : waiter[w].at = "waiting" =>
    waiter[w].user \in Users /\ ~HasWorker(waiter[w].user)

LEMMA SteadyOf ==
  ASSUME Typed, Owners, Steady(connection, connection'), NEW u \in Users
  PROVE  Of(u)' = Of(u)
<1>1. ASSUME NEW k \in Connections
      PROVE  k \in Of(u)' <=> k \in Of(u)
  <2>1. ConnectionOwner(k) /\ u # None
    BY BrokerAssumption DEF Owners
  <2>2. QED
    BY <2>1 DEF Of, Listed, Steady, ConnectionOwner
<1>2. QED
  BY <1>1 DEF Of

LEMMA CloseOf ==
  ASSUME Typed, NEW k \in Connections, Close(k), NEW u \in Users
  PROVE  Of(u)' = Of(u) \ {k}
<1>1. /\ \A m \in Connections : m # k => connection'[m] = connection[m]
      /\ connection'[k].user = None
  BY DEF Typed, Close
<1>2. QED
  BY <1>1, BrokerAssumption DEF Of, Listed

LEMMA ProveOf ==
  ASSUME Typed, Owners, NEW k \in Connections, NEW c \in Credentials, Prove(k, c),
         NEW u \in Users
  PROVE  Of(u)' = IF u = credential[c].user THEN Of(u) \cup {k} ELSE Of(u)
<1>1. ASSUME NEW m \in Connections
      PROVE  m \in Of(u)' <=> (m \in Of(u) \/ (m = k /\ u = credential[c].user))
  <2>1. CASE m = k
    BY <2>1, ProveFacts, BrokerAssumption DEF Of, Listed
  <2>2. CASE m # k
    BY <2>2, ProveFacts DEF Of, Listed
  <2>3. QED
    BY <2>1, <2>2
<1>2. QED
  BY <1>1 DEF Of

LEMMA OldStreams ==
  ASSUME Typed, StreamsSound, Next, NEW s \in Streams, Streaming(s)', stream'[s].listed
  PROVE  \/ /\ Streaming(s) /\ stream[s].listed
            /\ stream'[s].user = stream[s].user /\ stream'[s].on = stream[s].on
            /\ \A k \in Connections : Close(k) => stream[s].on # k
         \/ stream'[s].user \in Users /\ stream'[s].on \in Of(stream'[s].user)
<1>1. CASE \E k \in Connections : Close(k)
  BY <1>1, CloseStreams DEF Keeps
<1>2. CASE UNCHANGED stream /\ ~\E k \in Connections : Close(k)
  BY <1>2 DEF Streaming
<1>3. ASSUME NEW r \in Streams, NEW y, StreamStep(r, y), ~\E k \in Connections : Close(k)
      PROVE  \/ /\ Streaming(s) /\ stream[s].listed
                /\ stream'[s].user = stream[s].user /\ stream'[s].on = stream[s].on
             \/ stream'[s].user \in Users /\ stream'[s].on \in Of(stream'[s].user)
  <2>1. stream \in [Streams -> StreamRecord \cup {None}] /\ stream' = [stream EXCEPT ![r] = y]
    BY <1>3 DEF Typed, StreamStep
  <2>2. CASE s # r
    BY <2>1, <2>2 DEF Streaming
  <2>3. CASE s = r
    BY <1>3, <2>1, <2>3 DEF StreamStep, Keeps
  <2>4. QED
    BY <2>2, <2>3
<1>4. QED
  BY <1>1, <1>2, <1>3, StreamSteps

LEMMA NextPending ==
  Typed /\ StreamsSound /\ Owners /\ Pending /\ [Next]_vars => Pending'
<1> SUFFICES ASSUME Typed, StreamsSound, Owners, Pending, [Next]_vars
             PROVE  Pending'
  OBVIOUS
<1>1. CASE UNCHANGED vars
  BY <1>1 DEF vars, sockets, Pending, Of, Listed, Streaming
<1>2. CASE Next
  <2>1. ASSUME NEW k \in Connections, Close(k)
        PROVE  Pending'
    <3>1. ASSUME NEW i \in Calls, call'[i].at = "pending"
          PROVE  call'[i] = call[i] /\ call[i].on # k
      BY <2>1, <3>1 DEF Typed, Close, FailAll
    <3>2. ASSUME NEW s \in Streams, Streaming(s)', stream'[s].listed
          PROVE  /\ Streaming(s) /\ stream[s].listed /\ stream[s].on # k
                 /\ stream'[s].user = stream[s].user /\ stream'[s].on = stream[s].on
      BY <2>1, <3>2, CloseStreams DEF Keeps
    <3>3. QED
      BY <2>1, <3>1, <3>2, CloseOf DEF Pending
  <2>2. ASSUME \A u \in Users : Of(u) \subseteq Of(u)', ~\E k \in Connections : Close(k)
        PROVE  Pending'
    <3>1. ASSUME NEW i \in Calls, call'[i].at = "pending"
          PROVE  \E u \in Users : call'[i].user = u /\ call'[i].on \in Of(u)'
      <4>1. PICK u \in Users : call'[i].user = u /\ call'[i].on \in Of(u)
        BY <1>2, <3>1, CallSteps DEF CallStep, Pending
      <4>2. QED
        BY <2>2, <4>1
    <3>2. ASSUME NEW s \in Streams, Streaming(s)', stream'[s].listed
          PROVE  \E u \in Users : stream'[s].user = u /\ stream'[s].on \in Of(u)'
      <4>1. PICK u \in Users : stream'[s].user = u /\ stream'[s].on \in Of(u)
        BY <1>2, <3>2, OldStreams DEF Pending
      <4>2. QED
        BY <2>2, <4>1
    <3>3. QED
      BY <3>1, <3>2 DEF Pending
  <2>3. QED
    BY <1>2, <2>1, <2>2, ConnectionSteps, SteadyOf, ProveOf
<1>3. QED
  BY <1>1, <1>2

LEMMA NextWaiting ==
  Typed /\ StreamsSound /\ Owners /\ Waiting /\ [Next]_vars => Waiting'
<1> SUFFICES ASSUME Typed, StreamsSound, Owners, Waiting, [Next]_vars
             PROVE  Waiting'
  OBVIOUS
<1>1. CASE UNCHANGED vars
  BY <1>1 DEF vars, sockets, Waiting, HasWorker, Of, Listed
<1>2. CASE Next
  <2>1. CASE \A u \in Users : Of(u)' \subseteq Of(u)
    <3>1. \A u \in Users : ~HasWorker(u) => ~HasWorker(u)'
      BY <2>1 DEF HasWorker
    <3>2. QED
      BY <1>2, <3>1, WaiterSteps DEF WaiterStep, Waiting
  <2>2. ASSUME NEW k \in Connections, NEW c \in Credentials, Prove(k, c)
        PROVE  Waiting'
    <3>1. ASSUME NEW w \in Waiters, waiter'[w].at = "waiting"
          PROVE  /\ waiter[w].at = "waiting" /\ waiter'[w].user = waiter[w].user
                 /\ waiter[w].user # credential[c].user
      <4>1. waiter \in [Waiters -> WaiterRecord]
        BY DEF Typed, WaiterRecord
      <4>2. QED
        BY <2>2, <3>1, <4>1 DEF Prove, Woken, WaiterRecord
    <3>2. \A u \in Users : u # credential[c].user => Of(u)' = Of(u)
      BY <2>2, ProveOf
    <3>3. QED
      BY <3>1, <3>2 DEF Waiting, HasWorker
  <2>3. QED
    BY <1>2, <2>1, <2>2, ConnectionSteps, SteadyOf, CloseOf
<1>3. QED
  BY <1>1, <1>2

(* A call or stream that Core still waits for is on a connection of the user it
   was made for that has not closed: onClose fails all the others. *)
THEOREM CallsWaitOnTheirWorker == Spec => []PendingOnItsWorker
<1>1. Init => Pending
  BY DEF Init, Pending, Streaming
<1>2. Pending => PendingOnItsWorker
  BY DEF Pending, PendingOnItsWorker
<1>3. QED
  BY <1>1, <1>2, InitTyped, NextTyped, InitOwners, NextOwners, NextPending, PTL DEF Spec

(* Nobody goes on waiting in waitForWorker() for a Worker that is there. *)
THEOREM WaitersAreWoken == Spec => []NoMissedWakeup
<1>1. Init => Waiting
  BY DEF Init, Waiting
<1>2. Waiting => NoMissedWakeup
  BY DEF Waiting, NoMissedWakeup
<1>3. QED
  BY <1>1, <1>2, InitTyped, NextTyped, InitOwners, NextOwners, NextWaiting, PTL DEF Spec
=============================================================================
