--------------------------- MODULE RuntimeBroker ---------------------------
(***************************************************************************)
(* The RuntimeBroker (src/src/runtime-broker.ts): the local connections of *)
(* Worker processes, the one-shot credentials they prove themselves with,  *)
(* the calls and streams Core sends over them, and those who wait for a    *)
(* Worker.  One plugin installation.                                       *)
(*                                                                         *)
(* Workers, the sockets and the client library are outside of the          *)
(* repository: a Worker may send any message at any time, except that it   *)
(* cannot answer a call it was never sent (identifiers are random).        *)
(* Every frame that Core handles is one step.                              *)
(*                                                                         *)
(* Definitions named Faulty... are never used by the specification: each   *)
(* is a plausible fault of the definition that follows it.                 *)
(***************************************************************************)
EXTENDS ResponseStream

CONSTANTS
  Users,
  Credentials,      \* credentials that are ever issued (bound)
  MaxConnections,   \* connections that are ever accepted (bound)
  Calls, Streams, Waiters,   \* invoke(), invokeStream() and waitForWorker()
                             \* calls that are ever made (bounds)
  None

ASSUME BrokerAssumption == None \notin Users \cup Credentials /\ MaxConnections \in Nat

VARIABLES
  enabled,      \* installationEnabled()
  listening,
  credential,   \* credential[c]: [at, user]
  connection,   \* connection[k]: [at, hello, user, credential]
  call,         \* call[i]: [at, user, on]
  stream,       \* stream[s]: the record of ResponseStream
  waiter,       \* waiter[w]: [at, user]
  old           \* credentials issued before the last revocation of their user
                \* (history)

sockets == <<listening, connection>>
vars == <<enabled, sockets, credential, call, stream, waiter, old>>

(* In the order of their insertion in the map connectionStates. *)
Connections == 1 .. MaxConnections

Init ==
  /\ enabled = TRUE /\ listening = TRUE
  /\ credential = [c \in Credentials |-> [at |-> "none", user |-> None]]
  /\ connection = [k \in Connections |->
                     [at |-> "none", hello |-> FALSE, user |-> None, credential |-> None]]
  /\ call = [i \in Calls |-> [at |-> "none", user |-> None, on |-> 0]]
  /\ stream = [s \in Streams |-> None]
  /\ waiter = [w \in Waiters |-> [at |-> "none", user |-> None]]
  /\ old = {}

(***************************************************************************)
(* Sockets.  An "ending" connection was denied: its output has been ended, *)
(* its input is still read.  Writing to it destroys it.  An ending or      *)
(* destroyed connection stays in the map until it closes.                  *)
(***************************************************************************)
Listed(k) == connection[k].at \in {"open", "ending", "destroyed"}
Receives(k) == connection[k].at \in {"open", "ending"}

Write(k, f) == [f EXCEPT ![k].at = IF @ = "ending" THEN "destroyed" ELSE @]

Deny(k) ==
  connection' = [connection EXCEPT ![k].at = IF @ = "open" THEN "ending" ELSE "destroyed"]

Of(u) == {k \in Connections : Listed(k) /\ connection[k].user = u}
HasWorker(u) == Of(u) # {}

(* invoke() and invokeStream() take the first connection of the user. *)
First(u) == CHOOSE k \in Of(u) : \A m \in Of(u) : k <= m

Accept(k) ==
  /\ listening /\ connection[k].at = "none"
  /\ \A m \in 1 .. k - 1 : connection[m].at # "none"
  /\ connection' = [connection EXCEPT ![k].at = "open"]
  /\ UNCHANGED <<enabled, listening, credential, call, stream, waiter, old>>

Streaming(s) == stream[s] # None

FaultyFailAll(k) ==
  /\ call' = [i \in Calls |-> IF call[i].at = "pending" /\ call[i].on = k
                              THEN [call[i] EXCEPT !.at = "failed"] ELSE call[i]]
  /\ UNCHANGED stream

(* Pending calls and listed streams of a closed connection fail. *)
FailAll(k) ==
  /\ call' = [i \in Calls |-> IF call[i].at = "pending" /\ call[i].on = k
                              THEN [call[i] EXCEPT !.at = "failed"] ELSE call[i]]
  /\ stream' = [s \in Streams |->
                  IF Streaming(s) /\ stream[s].listed /\ stream[s].on = k
                  THEN Unlisted(Fail(stream[s])) ELSE stream[s]]

(* The Worker ends or loses the connection, or a destroyed socket closes. *)
Close(k) ==
  /\ Listed(k)
  /\ connection' = [connection EXCEPT ![k] =
       [at |-> "closed", hello |-> FALSE, user |-> None, credential |-> @.credential]]
  /\ FailAll(k)
  /\ UNCHANGED <<enabled, listening, credential, waiter, old>>

(***************************************************************************)
(* Credentials and the handshake.                                          *)
(***************************************************************************)
IssueCredential(c, u) ==
  /\ enabled /\ credential[c].at = "none"
  /\ credential' = [credential EXCEPT ![c] = [at |-> "valid", user |-> u]]
  /\ UNCHANGED <<enabled, sockets, call, stream, waiter, old>>

CredentialExpires(c) ==
  /\ credential[c].at = "valid"
  /\ credential' = [credential EXCEPT ![c].at = "expired"]
  /\ UNCHANGED <<enabled, sockets, call, stream, waiter, old>>

Deleted(C) ==
  [c \in Credentials |-> IF c \in C /\ credential[c].at # "none"
                         THEN [credential[c] EXCEPT !.at = "deleted"] ELSE credential[c]]

(* The installation changes its capabilities or its version, is disabled or
   enabled: only credentials that have not been used are affected. *)
RevokeInstallationCredentials ==
  /\ credential' = Deleted(Credentials)
  /\ enabled' \in {enabled, FALSE}
  /\ UNCHANGED <<sockets, call, stream, waiter, old>>

EnablePlugin ==
  /\ ~enabled /\ enabled' = TRUE
  /\ UNCHANGED <<sockets, credential, call, stream, waiter, old>>

FaultyCredentialsOf(u) == {}

CredentialsOf(u) == {c \in Credentials : credential[c].user = u}

RevokeUserConnections(u) ==
  /\ credential' = Deleted(CredentialsOf(u))
  /\ connection' = [k \in Connections |-> IF k \in Of(u)
                      THEN [connection[k] EXCEPT !.at = "destroyed"] ELSE connection[k]]
  /\ old' = old \cup {c \in Credentials : credential[c].user = u}
  /\ UNCHANGED <<enabled, listening, call, stream, waiter>>

Hello(k) ==
  /\ Receives(k) /\ connection[k].user = None /\ enabled
  /\ connection' = Write(k, [connection EXCEPT ![k].hello = TRUE])
  /\ UNCHANGED <<enabled, listening, credential, call, stream, waiter, old>>

FaultyConsumed(c) == credential

Consumed(c) == Deleted({c})

FaultyWoken(u) == waiter

(* All who wait for a Worker of the user. *)
Woken(u) ==
  [w \in Waiters |-> IF waiter[w] = [at |-> "waiting", user |-> u]
                     THEN [waiter[w] EXCEPT !.at = "resolved"] ELSE waiter[w]]

Prove(k, c) ==
  /\ Receives(k) /\ connection[k].hello /\ connection[k].user = None
  /\ enabled /\ credential[c].at = "valid"
  /\ connection' = Write(k, [connection EXCEPT ![k].user = credential[c].user,
                                               ![k].credential = c])
  /\ credential' = Consumed(c)
  /\ waiter' = Woken(credential[c].user)
  /\ UNCHANGED <<enabled, listening, call, stream, old>>

(***************************************************************************)
(* Requests of a Worker: answered, now or after an await, or denied like   *)
(* anything else that is malformed, repeated, out of place or not allowed. *)
(***************************************************************************)
Respond(k) ==
  /\ Receives(k) /\ connection[k].user # None
  /\ connection' = Write(k, connection)
  /\ UNCHANGED <<enabled, listening, credential, call, stream, waiter, old>>

Refuse(k) ==
  /\ Receives(k) /\ Deny(k)
  /\ UNCHANGED <<enabled, listening, credential, call, stream, waiter, old>>

BroadcastContext(u) ==
  /\ Of(u) # {}
  /\ connection' = [k \in Connections |-> IF k \in Of(u) THEN Write(k, connection)[k]
                                          ELSE connection[k]]
  /\ UNCHANGED <<enabled, listening, credential, call, stream, waiter, old>>

(***************************************************************************)
(* Calls.                                                                  *)
(***************************************************************************)
(* A call whose signal was aborted before fails, but it is sent. *)
Invoke(i, u) ==
  /\ call[i].at = "none"
  /\ IF HasWorker(u)
     THEN /\ \E at \in {"pending", "failed"} :
               call' = [call EXCEPT ![i] = [at |-> at, user |-> u, on |-> First(u)]]
          /\ connection' = Write(First(u), connection)
     ELSE /\ call' = [call EXCEPT ![i] = [at |-> "failed", user |-> u, on |-> 0]]
          /\ UNCHANGED connection
  /\ UNCHANGED <<enabled, listening, credential, stream, waiter, old>>

(* Its timer fires, or its signal is aborted: the Worker is told. *)
CancelCall(i) ==
  /\ call[i].at = "pending"
  /\ call' = [call EXCEPT ![i].at = "failed"]
  /\ connection' = Write(call[i].on, connection)
  /\ UNCHANGED <<enabled, listening, credential, stream, waiter, old>>

(* The Worker's response.  One that comes after the call has been settled is
   not a request either, and the connection is denied. *)
Answer(i) ==
  /\ call[i].on # 0 /\ Receives(call[i].on)
  /\ IF call[i].at = "pending"
     THEN call' = [call EXCEPT ![i].at = "answered"] /\ UNCHANGED connection
     ELSE Deny(call[i].on) /\ UNCHANGED call
  /\ UNCHANGED <<enabled, listening, credential, stream, waiter, old>>

WaitForWorker(w, u) ==
  /\ waiter[w].at = "none"
  /\ waiter' = [waiter EXCEPT ![w] =
       [at |-> IF HasWorker(u) THEN "resolved" ELSE "waiting", user |-> u]]
  /\ UNCHANGED <<enabled, sockets, credential, call, stream, old>>

WaitTimeout(w) ==
  /\ waiter[w].at = "waiting"
  /\ waiter' = [waiter EXCEPT ![w].at = "rejected"]
  /\ UNCHANGED <<enabled, sockets, credential, call, stream, old>>

(***************************************************************************)
(* Streams.                                                                *)
(***************************************************************************)
InvokeStream(s, u) ==
  /\ stream[s] = None
  /\ IF HasWorker(u)
     THEN /\ stream' = [stream EXCEPT ![s] = Fresh(u, First(u))]
          /\ connection' = Write(First(u), connection)
     ELSE /\ stream' = [stream EXCEPT ![s] = Unlisted(Fail(Fresh(u, 0)))]
          /\ UNCHANGED connection
  /\ UNCHANGED <<enabled, listening, credential, call, waiter, old>>

(* Its entry is taken out, the stream becomes x, and the Worker is told. *)
Withdraw(s, x) ==
  /\ stream' = [stream EXCEPT ![s] = Unlisted(x)]
  /\ connection' = IF stream[s].listed THEN Write(stream[s].on, connection) ELSE connection

StreamTimeout(s) ==
  /\ Streaming(s) /\ stream[s].listed
  /\ Withdraw(s, Fail(stream[s]))
  /\ UNCHANGED <<enabled, listening, credential, call, waiter, old>>

(* The client has gone, wants no body, or has exceeded its quota. *)
CancelStream(s) ==
  /\ Streaming(s)
  /\ Withdraw(s, Fail(stream[s]))
  /\ UNCHANGED <<enabled, listening, credential, call, waiter, old>>

FromWorker(s) == Streaming(s) /\ stream[s].on # 0 /\ Receives(stream[s].on)

(* What is sent for a stream without an entry is ignored. *)
ResponseStart(s) ==
  /\ FromWorker(s) /\ stream[s].listed
  /\ stream' = [stream EXCEPT ![s] = Begin(@)]
  /\ UNCHANGED <<enabled, sockets, credential, call, waiter, old>>

ResponseChunk(s, n) ==
  /\ FromWorker(s) /\ stream[s].listed /\ stream[s].expected < MaxChunks
  /\ LET overflow == n = stream[s].expected /\ Overflows(stream[s])
     IN connection' = IF overflow THEN Write(stream[s].on, connection) ELSE connection
  /\ stream' = [stream EXCEPT ![s] = Receive(@, n)]
  /\ UNCHANGED <<enabled, listening, credential, call, waiter, old>>

ResponseEnd(s) ==
  /\ FromWorker(s) /\ stream[s].listed
  /\ stream' = [stream EXCEPT ![s] = Unlisted(End(@))]
  /\ UNCHANGED <<enabled, sockets, credential, call, waiter, old>>

(* A response in one frame: an error, or a status and perhaps a body. *)
WholeResponse(s) ==
  /\ FromWorker(s)
  /\ IF stream[s].listed
     THEN /\ LET x == Unlisted(stream[s])
             IN \/ stream' = [stream EXCEPT ![s] = Fail(x)]
                \/ stream' = [stream EXCEPT ![s] = End(Begin(x))]
                \/ /\ x.expected < MaxChunks
                   /\ stream' = [stream EXCEPT ![s] = End(Push(Begin(x), x.expected))]
          /\ UNCHANGED connection
     ELSE Deny(stream[s].on) /\ UNCHANGED stream
  /\ UNCHANGED <<enabled, listening, credential, call, waiter, old>>

(* The gateway starts to read when it has the status. *)
Read(s) ==
  /\ Streaming(s) /\ stream[s].start = "begun" /\ stream[s].reader = "idle"
  /\ stream' = [stream EXCEPT ![s] = NextChunk(@)]
  /\ UNCHANGED <<enabled, sockets, credential, call, waiter, old>>

Stop ==
  /\ listening /\ listening' = FALSE
  /\ connection' = [k \in Connections |-> IF Listed(k)
                      THEN [connection[k] EXCEPT !.at = "destroyed"] ELSE connection[k]]
  /\ credential' = Deleted(Credentials)
  /\ UNCHANGED <<enabled, call, stream, waiter, old>>

Next ==
  \/ \E k \in Connections :
       \/ Accept(k) \/ Close(k) \/ Hello(k) \/ Respond(k) \/ Refuse(k)
       \/ \E c \in Credentials : Prove(k, c)
  \/ \E c \in Credentials : CredentialExpires(c)
  \/ \E u \in Users :
       \/ RevokeUserConnections(u) \/ BroadcastContext(u)
       \/ \E c \in Credentials : IssueCredential(c, u)
       \/ \E i \in Calls : Invoke(i, u)
       \/ \E w \in Waiters : WaitForWorker(w, u)
       \/ \E s \in Streams : InvokeStream(s, u)
  \/ \E i \in Calls : CancelCall(i) \/ Answer(i)
  \/ \E w \in Waiters : WaitTimeout(w)
  \/ \E s \in Streams :
       \/ StreamTimeout(s) \/ CancelStream(s) \/ ResponseStart(s)
       \/ ResponseEnd(s) \/ WholeResponse(s) \/ Read(s)
       \/ \E n \in 0 .. MaxChunks - 1 : ResponseChunk(s, n)
  \/ RevokeInstallationCredentials \/ EnablePlugin \/ Stop

Spec == Init /\ [][Next]_vars

-----------------------------------------------------------------------------
ConnectionStates == {"none", "open", "ending", "destroyed", "closed"}

(* Type invariant; the queue of a stream stays within its limit. *)
TypeOK ==
  /\ enabled \in BOOLEAN /\ listening \in BOOLEAN
  /\ credential \in [Credentials -> [at : {"none", "valid", "expired", "deleted"},
                                     user : Users \cup {None}]]
  /\ connection \in [Connections ->
       [at : ConnectionStates, hello : BOOLEAN,
        user : Users \cup {None}, credential : Credentials \cup {None}]]
  /\ call \in [Calls -> [at : {"none", "pending", "answered", "failed"},
                         user : Users \cup {None}, on : 0 .. MaxConnections]]
  /\ waiter \in [Waiters -> [at : {"none", "waiting", "resolved", "rejected"},
                             user : Users \cup {None}]]
  /\ old \subseteq Credentials
  /\ \A s \in Streams : Streaming(s) => StreamType(stream[s])

(* Whatever is pending waits on a connection that is still there and whose
   Worker belongs to the user it was made for: nothing is left behind by a
   connection that closes, and no user's call reaches another user's Worker. *)
PendingOnItsWorker ==
  /\ \A i \in Calls : call[i].at = "pending" => call[i].on \in Of(call[i].user)
  /\ \A s \in Streams :
       Streaming(s) /\ stream[s].listed => stream[s].on \in Of(stream[s].user)

(* Nobody waits for a Worker that is there: a handshake that completes between
   the look at the map and the wait, or in any other order, is noticed. *)
NoMissedWakeup ==
  \A w \in Waiters : waiter[w].at = "waiting" => ~HasWorker(waiter[w].user)

(* No two connections prove themselves with the same credential. *)
CredentialUsedOnce ==
  \A j, k \in Connections :
    connection[j].credential = connection[k].credential
    => connection[j].credential = None \/ j = k

(* The revocation of a user ends it for every Worker that has a credential by
   then, before, in the middle of and after its handshake. *)
RevocationCutsOff ==
  \A k \in Connections : Receives(k) => connection[k].credential \notin old

(* A reader gets the chunks in the order the Worker numbered them. *)
ChunksInOrder == \A s \in Streams : Streaming(s) => InOrder(stream[s])

(* A reader that waits for a chunk waits on a stream that can still get one:
   it is told of every way in which a stream is over. *)
NoReaderStranded ==
  \A s \in Streams : Streaming(s) /\ stream[s].reader = "waiting" => stream[s].listed
=============================================================================
